---- MODULE FileSystemProps ----
(***************************************************************************)
(* What the file system of FakeOS promises.                                *)
(***************************************************************************)
EXTENDS FileSystem

Paths == SeqOf(Names, MaxDepth)

\* The types of the variables.
TypeOK ==
  /\ Root \in DOMAIN nodes /\ DOMAIN nodes \subseteq Nodes
  /\ \A n \in DOMAIN nodes :
       /\ nodes[n].name \in Names \cup {"root"}
       /\ nodes[n].file \in BOOLEAN
       /\ nodes[n].text \in Seq(Pieces \cup {Eol})
       /\ nodes[n].path \in Paths
       /\ nodes[n].parent \in DOMAIN nodes \cup {Null}
       /\ nodes[n].children \subseteq DOMAIN nodes
  /\ Shell \in DOMAIN cwd /\ DOMAIN cwd \subseteq Clients
  /\ Range(cwd) \subseteq DOMAIN nodes \cup {Null}
  /\ \A i \in DOMAIN queue :
       /\ queue[i].method \in Methods /\ queue[i].name \in Names
       /\ queue[i].dir \in DOMAIN nodes /\ queue[i].path \in Paths
  /\ answer \in {"none", "yes", "no"}
  /\ \A p \in DOMAIN disk :
       p \in Paths /\ disk[p] \in [file : BOOLEAN, text : Seq(Pieces)]
  /\ thread \in {"loop", "locking", "hosting", "asleep", "done"}
  /\ thread = "hosting" => queue # << >>
  /\ quit \in BOOLEAN
  /\ crash \in {"no", "null pointer", "exception"}

----------------------------------------------------------------------------
(* With any clients                                                        *)

\* Two nodes of the tree never stand for the same host path, however the
\* requests of several clients for the same name interleave: each request looks
\* for the name again when it is handled, and the path a request carries is still
\* that of its directory (createFile and makeDirectory in threadFunc).
PathIdentifiesNode ==
  \A m, n \in Attached : FullPath(m) = FullPath(n) => m = n

\* A node keeps the place it was created at: as long as its parent is alive the
\* two agree about its path and, until it is deleted, about whose child it is
\* (addChild, eraseChild, and the weak pointer _parent).
FamilyAgrees ==
  \A n \in DOMAIN nodes : \A m \in nodes[n].children :
    nodes[m].parent = n /\ nodes[m].path = FullPath(n)

TreePaths == {FullPath(n) : n \in Attached}

\* What r asks to be done to the tree.
Asked(r) ==
  \/ r.method = "deleteFile" /\ TreePaths' = {p \in TreePaths : ~IsPrefix(Target(r), p)}
  \/ r.method \in {"createFile", "makeDirectory"} /\ TreePaths' = TreePaths \cup {Target(r)}

\* The tree changes as a client asked where it stood when it asked, whatever it
\* and the others did in the meantime: what goes is the target of a deletion with
\* all that is below it and nothing else, what comes is the target of a creation,
\* which was not there.  A request for a directory since removed, or made anew
\* under the same path, changes nothing that is in the tree, and no change of
\* directory does (threadFunc, and the shared pointer and the path in a request).
TreeChangesAsAsked ==
  [][TreePaths' # TreePaths /\ ~Restart => queue # << >> /\ Asked(Head(queue))]_vars

----------------------------------------------------------------------------
(* With a patient shell                                                    *)

\* What the tree and the host hold: paths, types, and texts but for the ends of
\* lines; nothing at or below the target of the request the host is at.
Settled(entries) ==
  {e \in entries : thread = "hosting" => ~IsPrefix(Target(Head(queue)), e.path)}

InTree == {[path |-> FullPath(n), file |-> nodes[n].file, text |-> WithoutEnds(nodes[n].text)]
             : n \in Attached \ {Root}}

OnHost == {[path |-> p, file |-> disk[p].file, text |-> WithoutEnds(disk[p].text)]
             : p \in DOMAIN disk}

\* FileSystem.cpp:14: the tree and the host directory are the same, after any
\* requests and any number of restarts, also when the program was killed in the
\* middle of one; while a request is carried out they differ only about it.
\* (The ends of lines differ: a restart ends the last line of a text in the tree,
\* lines 140-141, and not on the host.)
DiskMirrors == Settled(InTree) = Settled(OnHost)

\* The working directory is a directory of the tree: no request removes it or a
\* directory above it.
WorkingDirectoryStands ==
  \A c \in DOMAIN cwd : cwd[c] \in Attached /\ ~nodes[cwd[c]].file

\* No call ends the program: no pointer followed is null, and no exception
\* leaves the thread or the constructor.
NoCrash == crash = "no"

\* A promise tells what happened: when a request is done, "yes" means that the
\* host has what was asked for and "no" that nothing was touched (createFile and
\* makeDirectory promise before they touch the host, and never look whether that
\* worked; deleteFile and appendFile promise after it).
PromiseKept ==
  [][queue # << >> /\ queue' = Tail(queue) /\ thread' = "loop" /\ ~Restart =>
       LET r == Head(queue)
       IN  IF answer' = "no" THEN disk' = disk /\ thread = "locking"
           ELSE CASE r.method = "deleteFile"    -> \A p \in DOMAIN disk' : ~IsPrefix(Target(r), p)
                  [] r.method = "makeDirectory" -> Target(r) \in DOMAIN disk' /\ ~disk'[Target(r)].file
                  [] OTHER -> /\ Target(r) \in DOMAIN disk' /\ disk'[Target(r)].file
                              /\ IsSuffix(r.text, disk'[Target(r)].text)]_vars

\* Requests are served: the thread does not sleep, or go round, for ever while
\* one waits (the predicate of _condition.wait and the notify_all after each
\* emplace), unless the program is quit.
QueueServed == <>[]quit \/ <>[](queue = << >>) \/ []<><<Len(queue') < Len(queue)>>_vars

----------------------------------------------------------------------------
(* What a comment or a document says and the code does not                 *)

\* FileSystem.cpp:90: while a process is in a directory, the nodes on its path
\* "are locked, i.e. couldn't be deleted": the directory a program works in stays
\* in the tree.
CurrentPathNotDeleted == \A c \in DOMAIN cwd \ {Shell} : cwd[c] \in Attached

\* README.md:9: "q" ends the program; ThreadDeleter (Kernel.cpp:19) waits for the
\* thread to end.
QuitEnds == quit ~> (thread = "done")

====
