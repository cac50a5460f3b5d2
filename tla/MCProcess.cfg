CONSTANTS
  hours = hours
  weeks = weeks
  None = None
  NoTarget = NoTarget
  Nobody = Nobody
  OtherScanner = OtherScanner
  Tiers = {hours, weeks}
  Interval <- MCInterval
  MaxSize <- MCMaxSize
  Unlimited = {weeks}
  MaxIndex = 8
  Scans = {s1, s2, s3}
  Extending = {s1}
  Devices = {d1}
  Timeout = 1
  MaxScans = 3
  Tasks = {t1, t2}
  MaxMade = 2
  ValidFor = 2
  Limit = 1
  MaxTime = 4
SPECIFICATION Spec
INVARIANTS SecretIsRight RadioWhileScanning NothingLeftOpen HeadersAreFresh
PROPERTIES ScansEnd JustComputedStays
CHECK_DEADLOCK FALSE
