\* A directory is removed under the program that works in it.
CONSTANTS
  a = a  Eol = Eol
  n1 = n1  n2 = n2  n3 = n3  n4 = n4
  f = f  d = d  e = e
  shell = shell  prog = prog
  Nodes = {n1, n2, n3}
  Root = n1
  Null = Null
  Names = {d}
  Dotted = {}
  Clients = {shell, prog}
  Methods = {"makeDirectory", "deleteFile"}
  Shell = shell
  Pieces = {}
  MaxText = 0
  MaxDepth = 2
  MaxQueue = 2
SPECIFICATION AnySpec
INVARIANT CurrentPathNotDeleted
