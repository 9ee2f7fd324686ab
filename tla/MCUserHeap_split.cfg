SPECIFICATION Spec
CONSTANTS
  p1 = p1
  p2 = p2
  x1 = x1
  x2 = x2
  Processes = {p1}
  Pointers = {x1, x2}
  FanOut = 4
  FirstFrame = 9
  FrameCount = 25
  HeapBound = 6
  TopPage = 40
  KernelPages <- MCKernelPages
  TextPages <- MCTextPages
  DevicePages <- MCDevicePages
  AreaStart <- MCAreaStart
  PageSize = 8
  Alignment = 4
  HeaderSize = 3
  HeaderFields = 2
  Sizes = {1, 2, 3, 4, 6}
  Calls <- OneCall
INVARIANT BlocksApart
CHECK_DEADLOCK FALSE
