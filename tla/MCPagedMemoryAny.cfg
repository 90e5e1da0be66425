\* Clients that free any page at any time, also twice.  A run may stop: a
\* splice with an iterator that is gone ends the program.
CONSTANTS
  p1 = p1
  p2 = p2
  Procs = {p1, p2}
  NoProc = NoProc
  MemoryPages = 2
  SwapPages = 1
  MaxPages = 2
  PageSize = 1
  SwapBound = 2
SPECIFICATION BoundedAnySpec
SYMMETRY Symmetry
CHECK_DEADLOCK FALSE
INVARIANTS TypeOK FrameList LocatorExact CounterExact OwnerLeadsBack AssertionsHold
