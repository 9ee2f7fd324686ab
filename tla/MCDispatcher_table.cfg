\* One CPU, a table of three pids that fills up: processes that sleep, exit, fail.
CONSTANTS
  c1 = c1
  c2 = c2
  BSP = c1
  ApicLocalBspId = c1
  CPUs <- OneCpu
  MaxPid = 3
  SleepUnits = {1}
  SleepScale = 2
  ReadCounts = {}
  MaxProcesses = 4
  KeyboardBufferSize = 1
  Calls = {"exit", "sleep", "run", "run_fails", "run_fails_late"}
  Events = {"fault"}
  Irqs <- NoIrqs
SPECIFICATION Spec
INVARIANTS PidsUnique CurrentInTable WalkInTable
PROPERTY CycleServesAll
CHECK_DEADLOCK FALSE
