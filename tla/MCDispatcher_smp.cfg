\* Two CPUs, two processes that compute, are preempted and exit; a halt, and exceptions
\* in handlers.
CONSTANTS
  c1 = c1
  c2 = c2
  BSP = c1
  ApicLocalBspId = c2
  CPUs <- TwoCpus
  MaxPid = 2
  SleepUnits = {}
  SleepScale = 1
  ReadCounts = {}
  MaxProcesses = 2
  KeyboardBufferSize = 1
  Calls = {"exit", "run"}
  Events = {"step", "spurious", "kernel_fault"}
  Irqs <- NoIrqs
SPECIFICATION Spec
INVARIANTS TypeOK MutualExclusion OneCpuPerProcess ContextIsolation
PROPERTY HaltIsFinal
CHECK_DEADLOCK FALSE
