\* The same networks, the small ones included.
CONSTANTS
  GROWTH_PCT = 50
  UINT32 = 64
  INV_MAX_DEVICES = 14
SPECIFICATION Spec
PROPERTY AlarmAlwaysStops
