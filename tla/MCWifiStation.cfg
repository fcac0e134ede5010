\* Three retries.
CONSTANT MAX_RETRY = 3
SPECIFICATION Spec
INVARIANTS TypeOK IdleOnlyAfterRetries
PROPERTY BootRecovers
