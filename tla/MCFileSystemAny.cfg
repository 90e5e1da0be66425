\* A shell and a program, any names and any order of calls, restarts at any time.
CONSTANTS
  a = a  Eol = Eol
  n1 = n1  n2 = n2  n3 = n3  n4 = n4
  f = f  d = d  e = e
  shell = shell  prog = prog
  Nodes = {n1, n2, n3}
  Root = n1
  Null = Null
  Names = {f, d}
  Dotted = {f}
  Clients = {shell, prog}
  Methods = {"createFile", "deleteFile", "makeDirectory"}
  Shell = shell
  Pieces = {}
  MaxText = 0
  MaxDepth = 2
  MaxQueue = 2
SPECIFICATION AnySpec
INVARIANTS PathIdentifiesNode FamilyAgrees
PROPERTY TreeChangesAsAsked
\* The bound of Restart may leave nothing to do but close.
CHECK_DEADLOCK FALSE
VIEW SilentState
SYMMETRY Interchangeable
