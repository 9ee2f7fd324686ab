\* Two processes on two CPUs.
CONSTANTS
  c1 = c1
  c2 = c2
  BSP = c1
  ApicLocalBspId = c2
  CPUs <- TwoCpus
  MaxPid = 2
  SleepUnits = {1}
  SleepScale = 1
  ReadCounts = {}
  MaxProcesses = 2
  KeyboardBufferSize = 1
  Calls = {"exit", "sleep", "run"}
  Events = {}
  Irqs <- NoIrqs
SPECIFICATION FairSpec
PROPERTIES ReadyRuns ExitedIsReaped SleepersWake
CHECK_DEADLOCK FALSE
