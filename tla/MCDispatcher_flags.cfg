\* One CPU, two processes that set their flags.
CONSTANTS
  c1 = c1
  c2 = c2
  BSP = c1
  ApicLocalBspId = c1
  CPUs <- OneCpu
  MaxPid = 2
  SleepUnits = {}
  SleepScale = 1
  ReadCounts = {}
  MaxProcesses = 2
  KeyboardBufferSize = 1
  Calls = {"exit", "run"}
  Events = {"step"}
  Irqs <- NoIrqs
SPECIFICATION Spec
INVARIANT FlagsRestored
CHECK_DEADLOCK FALSE
