\* Quit while the thread sleeps.
CONSTANTS
  a = a  Eol = Eol
  n1 = n1  n2 = n2  n3 = n3  n4 = n4
  f = f  d = d  e = e
  shell = shell  prog = prog
  Nodes = {n1, n2, n3}
  Root = n1
  Null = Null
  Names = {f, d}
  Dotted = {f}
  Clients = {shell}
  Methods = {"createFile", "deleteFile", "makeDirectory", "appendFile"}
  Shell = shell
  Pieces = {a}
  MaxText = 2
  MaxDepth = 2
  MaxQueue = 2
SPECIFICATION ClosingSpec
PROPERTY QuitEnds
CHECK_DEADLOCK FALSE
