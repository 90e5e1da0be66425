---- MODULE MCFileSystem ----
(* Instances of the file system for TLC. *)
EXTENDS FileSystemProps

CONSTANTS n1, n2, n3, n4, f, d, e, shell, prog, a

\* Which dead INode becomes a new child makes no difference.
Interchangeable == Permutations(Nodes \ {Root})

\* The answers, which nothing reads, left out.
SilentState == <<nodes, cwd, queue, disk, thread, quit, crash>>

====
