\* One caller that awaits each call: the account as the examples use it.
SPECIFICATION FairSpec
CONSTANTS
  Tasks = {t1}
  MaxRetries = 5
  MaxAuths = 3
  MaxRestarts = 1
INVARIANTS TypeOK NoKeyError HeartbeatOfTheLogin
PROPERTIES PetLeavesSessionIntact OnlyReauthLosesLogin ImplementsLoginFlow CallsEnd
