\* The resort leaves the ready queue out of order.
CONSTANTS
  MaxProcs = 3
  Priorities = {0, 1}
  MaxDirectives = 2
  MaxCycles = 1
  Wrap = 2
  Prompt = TRUE
  Algorithms <- Called
SPECIFICATION Spec
PROPERTY ResortSorts
\* The program may be left and end.
CHECK_DEADLOCK FALSE
