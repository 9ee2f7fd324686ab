\* One process that lists two directories and ends.
CONSTANTS
  Pids <- TwoPids
  Paths = {a, b}
  OPEN_INDICES_MAX_ID = 4
SPECIFICATION Spec
INVARIANT NoLockOutlivesOwner
