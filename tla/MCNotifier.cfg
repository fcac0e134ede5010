\* A copy of two events and a queue of one, so that both overflow.
CONSTANTS
  BATCH = 2
  NOTIFY_QUEUE_LEN = 1
  DISC_PING_TIMEOUT = 1
  MAX_UPTIME = 4
  MAX_EVENTS = 4
SPECIFICATION Spec
INVARIANTS TypeOK OnceInOrder NothingOverlooked
PROPERTIES ImplementsDelivery EveryAlertEnds
