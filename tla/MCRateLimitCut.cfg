SPECIFICATION Spec
CONSTANTS
  Thread = {t1, t2}
  Bucket = {"substack"}
  Header <- MCHeader
  NoHeader = NoHeader
  Unpaced = Unpaced
  MaxRetries429 = 1
  MaxRetries5xx = 1
  Backoff = 1
  MaxRetrySleep = 3
  CooldownFloor = 2
  MaxCooldownWait = 3
  PaceInterval = 1
PROPERTY
  CooldownRunsItsTime
