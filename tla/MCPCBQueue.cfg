\* Up to five nodes: room for an exchange at the end, in the middle and in a row.
CONSTANTS
  c1 = c1  c2 = c2  c3 = c3  c4 = c4  c5 = c5
  v1 = v1  v2 = v2  v3 = v3
  Cells = {c1, c2, c3, c4, c5}
  Values = {v1, v2, v3}
  Null = Null
  Wild = Wild
SPECIFICATION Spec
SYMMETRY Interchangeable
INVARIANTS TypeOK ChainEndsAtEndPtr
PROPERTY ImplementsQueue
