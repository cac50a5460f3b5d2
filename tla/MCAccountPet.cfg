\* Two callers, with authentications enough to lose a login and to complete
\* another between the call of request_pet and the end of its body.
SPECIFICATION Spec
CONSTANTS
  Tasks = {t1, t2}
  MaxRetries = 0
  MaxAuths = 3
  MaxRestarts = 0
SYMMETRY Symmetry
PROPERTIES PetNeverLowersLogin
