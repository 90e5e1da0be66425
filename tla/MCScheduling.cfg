\* Three processes of one priority; short programs that may load others; the
\* shell left at any time.
CONSTANTS
  MaxProcs = 3
  Priorities = {0}
  MaxDirectives = 2
  MaxCycles = 1
  Wrap = 2
  Prompt = TRUE
  Algorithms <- Written
SPECIFICATION FairSpec
INVARIANTS TypeOK InOnePlace RetiredIsFinished NoNullFront DirectiveOnTime
PROPERTIES EndedLeftAlone AllEnd ClosingEnds
\* The program ends; until then AllEnd and ClosingEnds say that nobody waits for
\* ever.
CHECK_DEADLOCK FALSE
