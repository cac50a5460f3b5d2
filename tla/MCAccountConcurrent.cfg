\* Two callers on one account, interleaving at every await.
SPECIFICATION Spec
CONSTANTS
  Tasks = {t1, t2}
  MaxRetries = 1
  MaxAuths = 2
  MaxRestarts = 1
SYMMETRY Symmetry
INVARIANTS SessionUsable
PROPERTIES HandedOutPetIsFresh
