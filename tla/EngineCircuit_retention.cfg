CONSTANTS
  a1 = a1
  a2 = a2
  a3 = a3
  Attempts = {a1, a2, a3}
  Failures = {"too_many_requests", "cf_captcha", "captcha", "queue_expired", "timeout"}
  Suspended <- ScaledDurations
  BanTime = 1
  Threshold = 2
  DayCap = 3
  BucketLen = 2
  Retention = 2
  MaxClock = 7
SYMMETRY AttemptSymmetry
SPECIFICATION CircuitSpec
PROPERTY RetentionKeepsCooldowns
