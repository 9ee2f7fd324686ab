\* Two processes that sleep, read the keyboard and are woken; an interrupt as an exception.
CONSTANTS
  c1 = c1
  c2 = c2
  BSP = c1
  ApicLocalBspId = c1
  CPUs <- OneCpu
  MaxPid = 2
  SleepUnits = {1}
  SleepScale = 1
  ReadCounts = {0, 2}
  MaxProcesses = 2
  KeyboardBufferSize = 2
  Calls = {"exit", "sleep", "sleep_overflow", "read", "read_bad_fd", "run", "other"}
  Events = {"fault", "kernel_fault"}
  Irqs <- Lines
SPECIFICATION Spec
INVARIANT OnlyRunnableRuns
PROPERTY LifecycleSpec
CHECK_DEADLOCK FALSE
