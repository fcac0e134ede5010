\* Three hosts, one with a private MAC, compete for two slots.
CONSTANTS
  m1 = m1  m2 = m2  m3 = m3
  a1 = a1  n1 = n1
  NONE = NONE
  MAC = {m1, m2, m3}
  Randomized = {m3}
  Listed = {m1, m2}
  ADDR = {a1}
  NAME = {n1}
  INV_MAX_DEVICES = 2
  GROWTH_PCT = 50
  UINT32 = 16
  ALERT_RANDOMIZED = FALSE
  DISC_SCAN_INTERVAL = 2
  DISC_PING_TIMEOUT = 1
  DISC_MISS_THRESHOLD = 1
  MAX_UPTIME = 3
SPECIFICATION Spec
INVARIANTS MacIsKey Settled
