\* Up to 14 devices: with +50% the small networks are those of nine or less.
CONSTANTS
  GROWTH_PCT = 50
  UINT32 = 64
  INV_MAX_DEVICES = 14
SPECIFICATION Spec
INVARIANT TypeOK
PROPERTIES FollowsTheCount DrawsNear NearIsQuiet ComesNear AlarmStops
