\* One caller, whose report fetch is answered with 401.
SPECIFICATION Spec
CONSTANTS
  Tasks = {t1}
  MaxRetries = 5
  MaxAuths = 3
  MaxRestarts = 1
INVARIANTS RetryUsesNewToken
