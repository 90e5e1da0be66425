\* One patient shell, one file name, two directory names, three nodes below the
\* root, one piece of text, the program closed or killed and started again at any
\* time.
CONSTANTS
  a = a  Eol = Eol
  n1 = n1  n2 = n2  n3 = n3  n4 = n4
  f = f  d = d  e = e
  shell = shell  prog = prog
  Nodes = {n1, n2, n3, n4}
  Root = n1
  Null = Null
  Names = {f, d, e}
  Dotted = {f}
  Clients = {shell}
  Methods = {"createFile", "deleteFile", "makeDirectory", "appendFile"}
  Shell = shell
  Pieces = {a}
  MaxText = 2
  MaxDepth = 3
  MaxQueue = 2
SPECIFICATION PatientSpec
INVARIANTS TypeOK DiskMirrors WorkingDirectoryStands NoCrash
PROPERTIES QueueServed PromiseKept
