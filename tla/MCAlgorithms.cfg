\* The quiet hours of a day of 24 hours; 7 OUIs, two of them private and two
\* with a zero first byte, in a partition for 5, the vendors of three rows long;
\* subnets from /32 to a clamped /25, the clamp in proportion; texts of up to 5
\* characters in a buffer that all of them overflow when escaped; a ring of three
\* events, readers that ask for less and for more than it holds.
CONSTANTS
  GROWTH_PCT = 50
  UINT32 = 64
  DAY = 24
  Oui = {0, 1, 2, 3, 4, 5, 6}
  Private = {2, 3}
  MAX_RECORDS = 5
  Long = {1, 3, 5}
  FIRST_BYTE = 2
  Registries <- Files
  CLAMP = 62
  Inverted = {0, 1, 3, 7, 15, 31, 63, 127}
  OUT_LEN = 6
  TEXT_LEN = 5
  NONE = NONE
  Event = {e1, e2, e3}
  INV_EVENT_RING_SIZE = 3
  BatchSize = {0, 2, 5}
SPECIFICATION Spec
INVARIANTS NightIsTheWindow LookupIsRight ProbesTheBlob
INVARIANTS SweepIsComplete BurstIsBounded TextReadsBack TextFits
INVARIANTS RingTypeOK ValidIsWritten
PROPERTIES Halves ImplementsLog
\* An algorithm that has returned stops.
CHECK_DEADLOCK FALSE
