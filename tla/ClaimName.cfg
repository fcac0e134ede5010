CONSTANTS
  m1 = m1  m2 = m2  a1 = a1  a2 = a2  n1 = n1
  NONE = NONE
  MAC = {m1, m2}
  Randomized = {}
  Listed = {m1}
  ADDR = {a1}
  NAME = {n1}
  INV_MAX_DEVICES = 2
  GROWTH_PCT = 50
  UINT32 = 16
  ALERT_RANDOMIZED = FALSE
  DISC_SCAN_INTERVAL = 2
  DISC_PING_TIMEOUT = 1
  DISC_MISS_THRESHOLD = 2
  MAX_UPTIME = 3
SPECIFICATION LanSpec
PROPERTY NameIsOfTheTenant
