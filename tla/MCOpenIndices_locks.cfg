\* Two processes, four paths, and one id less than that.
CONSTANTS
  Pids <- TwoPids
  Paths = {a, b, c, d}
  OPEN_INDICES_MAX_ID = 4
SPECIFICATION Spec
INVARIANTS TypeOK LocksDistinct HandlesExact
PROPERTY LeakBounded
