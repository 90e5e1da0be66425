\* Two processes of two segments; sizes of one, two and three blocks, of no byte
\* and of a byte too many.
CONSTANTS
  p1 = p1  p2 = p2
  Procs = {p1, p2}
  MaxSegments = 2
  MemoryBlocks = 7
  Unit = 2
  MaxSize = 5
  Sizes = {0, 2, 4, 5, 6}
  Wild = Wild
SPECIFICATION Spec
VIEW AnswerAside
SYMMETRY Interchangeable
INVARIANTS TypeOK FreeStops OneSizeKeepsApart
