\* Two processes that together want more pages than memory and swap area hold,
\* with the history of uses.
CONSTANTS
  p1 = p1
  p2 = p2
  Procs = {p1, p2}
  NoProc = NoProc
  MemoryPages = 2
  SwapPages = 2
  MaxPages = 3
  PageSize = 2
  SwapBound = 2
SPECIFICATION RecencySpec
SYMMETRY Symmetry
VIEW LiveState
INVARIANTS FrameExclusive SwapExclusive BlocksWellFormed NoUndefinedSplice LRUOrder
PROPERTIES EvictsOnlyWhenFull EvictsLeastRecentlyUsed ImplementsVirtualMemory
