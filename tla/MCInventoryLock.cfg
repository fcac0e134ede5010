\* Three slots, so that the table fills and a loop has a middle.
CONSTANTS
  INV_MAX_DEVICES = 3
  MAX_EVENTS = 2
SPECIFICATION Spec
INVARIANTS TypeOK StatsAddUp
PROPERTIES ImplementsAtomic PassEnds RequestIsAnswered
