SPECIFICATION Spec
CONSTANTS
  p1 = p1
  p2 = p2
  x1 = x1
  x2 = x2
  Processes = {p1, p2}
  Pointers = {x1, x2}
  FanOut = 4
  FirstFrame = 9
  FrameCount = 33
  HeapBound = 3
  TopPage = 43
  KernelPages <- MCKernelPages
  TextPages <- MCTextPages
  DevicePages <- MCDevicePages
  AreaStart <- MCAreaStart
  PageSize = 8
  Alignment = 4
  HeaderSize = 3
  HeaderFields = 2
  Sizes = {2, 3, 4, 9}
  Calls <- MCCalls
SYMMETRY Symmetric
INVARIANTS TypeOK PagesPrivate TablesAgree HeapMapped InitDataHeld PointersHold
CHECK_DEADLOCK FALSE
