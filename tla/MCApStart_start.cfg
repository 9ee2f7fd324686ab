CONSTANTS
  cpu0 = cpu0
  cpu1 = cpu1
  cpu2 = cpu2
  cpu3 = cpu3
  cpu4 = cpu4
  Bsp = cpu0
  APs <- MCAPs
  Disabled = {cpu4}
  Madt <- MCMadt
  MaxTss = 5
  None = None
SPECIFICATION FairSpec
INVARIANTS TypeOK OwnTss AllApsAnswered StartStackAlone HeapAlone
PROPERTIES TimersRun
CHECK_DEADLOCK FALSE
