\* The arbitrary client against the documented answer of a second free.
CONSTANTS
  p1 = p1
  p2 = p2
  Procs = {p1, p2}
  NoProc = NoProc
  MemoryPages = 2
  SwapPages = 1
  MaxPages = 2
  PageSize = 1
  SwapBound = 2
SPECIFICATION BoundedAnySpec
CHECK_DEADLOCK FALSE
PROPERTIES FreeOfFreedPageRefused
