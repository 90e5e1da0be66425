---- MODULE FileSystem ----
(***************************************************************************)
(* The file system of FakeOS (FileSystem.cpp): a tree of INodes in memory, *)
(* mirrored in a directory of the host.  The shell and the running         *)
(* programs change directory at once, but queue every request that changes *)
(* the tree; a thread of its own takes the queue in order, changes the     *)
(* tree and then, step by step, the host.  The program may be killed and   *)
(* started again between any two steps.                                    *)
(***************************************************************************)
EXTENDS Integers, Sequences, FiniteSets, Functions, SequencesExt, Lists

CONSTANTS Nodes,     \* INode objects; as many as may be alive at once
          Root,      \* the INode of the root
          Null,      \* an expired or empty pointer
          Names,     \* names of files and directories
          Dotted,    \* the names with a '.', which a restart takes for files
          Methods,   \* the requests made
          Clients,   \* who has a working directory: the shell and programs
          Shell,     \* the shell: pno 0
          Pieces,    \* pieces of text, none with an end of line
          Eol,       \* the end of a line
          MaxQueue,  \* bound on the requests waiting
          MaxDepth,  \* bound on the depth of what they make
          MaxText    \* bound on the pieces in a file

ASSUME FileSystemAssumption ==
  /\ Root \in Nodes /\ Null \notin Nodes /\ IsFiniteSet(Nodes)
  /\ Dotted \subseteq Names
  /\ Methods \subseteq {"createFile", "deleteFile", "makeDirectory", "appendFile"}
  /\ Shell \in Clients /\ Eol \notin Pieces
  /\ {MaxQueue, MaxDepth} \subseteq Nat \ {0} /\ MaxText \in Nat

\* f with y at x.
With(f, x, y) == [z \in DOMAIN f \cup {x} |-> IF z = x THEN y ELSE f[z]]

VARIABLES
  nodes,   \* the INodes alive: name, type, text, path, weak parent, children
  cwd,     \* working directory of each client that has one
  queue,   \* _messageQueue
  answer,  \* what the promise of the request at hand was given, or "none"
  disk,    \* what is under the host directory: type and text by path
  thread,  \* where the file system thread is: "loop", "locking", "asleep",
           \* "hosting" (it has the mutex and changes the host), "done"
  quit,    \* _quit
  crash    \* "no", or how the program ended

vars == <<nodes, cwd, queue, answer, disk, thread, quit, crash>>

\* (Operators called Slip... are faults this code could have had, each beside
\* the operator it stands in for; no specification uses them.)

\* The root is not told apart.
SlipFullPath(n) == Append(nodes[n].path, nodes[n].name)

\* The path of a node from the root, as getPath builds it from the path the
\* node was created with.
FullPath(n) == IF n = Root THEN << >> ELSE Append(nodes[n].path, nodes[n].name)

RootNode == [name |-> "root", file |-> FALSE, text |-> << >>, path |-> << >>,
             parent |-> Null, children |-> {}]

Init ==
  /\ nodes = [n \in {Root} |-> RootNode]
  /\ cwd = [c \in {Shell} |-> Root]
  /\ queue = << >>
  /\ answer = "none"
  /\ disk = << >>
  /\ thread = "loop"
  /\ quit = FALSE
  /\ crash = "no"

----------------------------------------------------------------------------
(* Shared and weak pointers                                                *)

\* The nodes of ns that the nodes of held keep alive through children lists.
Reach(ns, held) ==
  LET R[k \in 0 .. Cardinality(Nodes)] ==
        IF k = 0 THEN held ELSE R[k-1] \cup UNION {ns[n].children : n \in R[k-1]}
  IN  R[Cardinality(Nodes)]

\* What is left of ns when cw and q hold the only other shared pointers; weak
\* pointers to what is gone expire.
Collect(ns, cw, q) ==
  LET held  == {Root} \cup (Range(cw) \ {Null}) \cup {q[i].dir : i \in DOMAIN q}
      alive == Reach(ns, held)
  IN  [n \in alive |->
        [ns[n] EXCEPT !.parent = IF @ \in alive THEN @ ELSE Null]]

Attached == Reach(nodes, {Root})

\* lockNodePath climbs to the root: some pointer on the way may have expired.
Climbs(ns, n) ==
  LET Up[k \in 0 .. Cardinality(Nodes)] ==
        IF k = 0 THEN n
        ELSE IF Up[k-1] \in {Root, Null} THEN Up[k-1] ELSE ns[Up[k-1]].parent
  IN  Up[Cardinality(Nodes)] = Root

\* A file of that name is overlooked.
SlipChildNamed(d, name) == {n \in nodes[d].children : nodes[n].name = name /\ ~nodes[n].file}

ChildNamed(d, name) == {n \in nodes[d].children : nodes[n].name = name}

----------------------------------------------------------------------------
(* Calls of the clients                                                    *)

SlipWoken == thread   \* nobody is notified
Woken == IF thread = "asleep" THEN "locking" ELSE thread   \* notify_all

Dies(how) == crash' = how /\ UNCHANGED <<nodes, cwd, queue, answer, disk, thread, quit>>

\* Only the file system thread keeps the mutex from one step to another.
MutexFree == thread # "hosting"

WithoutEnds(text) == Keep(text, Pieces)

\* Bound: the requests waiting, the nodes they may make and the text they add.
Room(method) ==
  LET Pending(ms) == {i \in DOMAIN queue : queue[i].method \in ms}
      makers == {"createFile", "makeDirectory"}
  IN  /\ Len(queue) < MaxQueue
      /\ method \in makers =>
           Cardinality(DOMAIN nodes) + Cardinality(Pending(makers)) < Cardinality(Nodes)
      /\ method = "appendFile" =>
           \A n \in DOMAIN nodes :
             Len(WithoutEnds(nodes[n].text))
               + Cardinality(Pending({"createFile", "appendFile"})) < MaxText

\* What a request may carry.
Texts(method) ==
  CASE method = "createFile" -> {<< >>} \cup {<<p>> : p \in Pieces}
    [] method = "appendFile" -> {<<p>> : p \in Pieces}
    [] OTHER                 -> {<< >>}

\* createFile, removeFile, createDirectory, appendFile: the request keeps the
\* working directory and its path as they are when it is made.
Issue(c, method, name, text) ==
  /\ MutexFree
  /\ cwd[c] # Null
  /\ Room(method) /\ Len(FullPath(cwd[c])) < MaxDepth
  /\ queue' = Append(queue, [method |-> method, name |-> name, text |-> text,
                             dir |-> cwd[c], path |-> FullPath(cwd[c])])
  /\ thread' = Woken
  /\ UNCHANGED <<nodes, cwd, answer, disk, quit, crash>>

\* load ("cd name"): any child will do, a file too.  The directory left behind
\* may die before the new path is climbed.
Load(c, name) ==
  /\ MutexFree
  /\ cwd[c] # Null
  /\ \E n \in ChildNamed(cwd[c], name) :
       LET cw   == [cwd EXCEPT ![c] = n]
           left == Collect(nodes, cw, queue)
       IN  IF Climbs(left, n)
           THEN /\ cwd' = cw
                /\ nodes' = left
                /\ UNCHANGED <<queue, answer, disk, thread, quit, crash>>
           ELSE Dies("null pointer")

\* back ("cd ..")
Back(c) ==
  /\ MutexFree
  /\ cwd[c] # Null
  /\ LET up == IF cwd[c] = Root THEN Root ELSE nodes[cwd[c]].parent
         cw == [cwd EXCEPT ![c] = up]
     IN  /\ cwd' = cw
         /\ nodes' = Collect(nodes, cw, queue)
  /\ thread' = Woken
  /\ UNCHANGED <<queue, answer, disk, quit, crash>>

\* allocateFptr: a program starts where the client that starts it is.
AllocateFptr(c, new) ==
  /\ new \notin DOMAIN cwd
  /\ IF cwd[c] # Null /\ Climbs(nodes, cwd[c])
     THEN /\ cwd' = [d \in DOMAIN cwd \cup {new} |-> IF d = new THEN cwd[c] ELSE cwd[d]]
          /\ UNCHANGED <<nodes, queue, answer, disk, thread, quit, crash>>
     ELSE Dies("null pointer")

\* Any call on a working directory that is gone (list and nowpath take no lock).
UseNull(c) == cwd[c] = Null /\ Dies("null pointer")

Quit ==
  /\ ~quit
  /\ quit' = TRUE
  /\ UNCHANGED <<nodes, cwd, queue, answer, disk, thread, crash>>

----------------------------------------------------------------------------
(* The host directory                                                      *)

IsDirOnDisk(path)  == path = << >> \/ (path \in DOMAIN disk /\ ~disk[path].file)
IsFileOnDisk(path) == path \in DOMAIN disk /\ disk[path].file

HostFile(text) == [file |-> TRUE, text |-> text]
HostDirectory  == [file |-> FALSE, text |-> << >>]

\* What a request is about.
Target(r) == Append(r.path, r.name)

\* fstream::open for output and the writing: the file is made if its directory
\* is there.
DiskWithFile(r, text) ==
  IF IsDirOnDisk(r.path) /\ ~IsDirOnDisk(Target(r))
  THEN With(disk, Target(r), HostFile(text)) ELSE disk

\* What fs::remove_all has still to remove.
Doomed(path) == {p \in DOMAIN disk : IsPrefix(path, p)}

\* What fs::create_directories has still to make.
Missing(path) == {p \in Range([k \in 1 .. Len(path) |-> SubSeq(path, 1, k)]) : ~IsDirOnDisk(p)}

----------------------------------------------------------------------------
(* threadFunc                                                              *)

TestQuit ==
  /\ thread = "loop"
  /\ thread' = IF quit THEN "done" ELSE "locking"
  /\ answer' = "none"
  /\ UNCHANGED <<nodes, cwd, queue, disk, quit, crash>>

Sleep ==
  /\ thread = "locking"
  /\ queue = << >>
  /\ thread' = "asleep"
  /\ UNCHANGED <<nodes, cwd, queue, answer, disk, quit, crash>>

\* The promise is set before the request is looked at.
SlipFinish(said) ==
  /\ answer' = "yes"
  /\ queue' = Tail(queue)
  /\ nodes' = Collect(nodes, cwd, Tail(queue))
  /\ thread' = "loop"
  /\ UNCHANGED <<cwd, quit, crash>>

\* The request at the head leaves the queue when its critical section ends.
Finish(said) ==
  /\ answer' = said
  /\ queue' = Tail(queue)
  /\ nodes' = Collect(nodes, cwd, Tail(queue))
  /\ thread' = "loop"
  /\ UNCHANGED <<cwd, quit, crash>>

Refuse == Finish("no") /\ UNCHANGED disk

\* The tree is changed; the host is next.  What the critical section says of it
\* before and after differs from one request to another.
Begin(ns, said) ==
  /\ nodes' = ns
  /\ answer' = said
  /\ thread' = "hosting"
  /\ UNCHANGED <<cwd, queue, disk, quit, crash>>

\* The shell's directory is taken for the client's.
SlipWithChild(r, file) ==
  LET n == CHOOSE x \in Nodes : x \notin DOMAIN nodes
      child == [name |-> r.name, file |-> file, text |-> r.text, path |-> r.path,
                parent |-> cwd[Shell], children |-> {}]
  IN  With([nodes EXCEPT ![cwd[Shell]].children = @ \cup {n}], n, child)

\* addChild
WithChild(r, file) ==
  LET n == CHOOSE x \in Nodes : x \notin DOMAIN nodes
      child == [name |-> r.name, file |-> file, text |-> r.text, path |-> r.path,
                parent |-> r.dir, children |-> {}]
  IN  With([nodes EXCEPT ![r.dir].children = @ \cup {n}], n, child)

BeginCreateFile(r) ==
  /\ r.method = "createFile"
  /\ IF ChildNamed(r.dir, r.name) # {} THEN Refuse ELSE Begin(WithChild(r, TRUE), "yes")

\* The name is looked for in the directory the shell is in now.
SlipBeginDeleteFile(r) ==
  /\ r.method = "deleteFile"
  /\ IF cwd[Shell] = Null \/ ChildNamed(cwd[Shell], r.name) = {}
     THEN Refuse
     ELSE \E n \in ChildNamed(cwd[Shell], r.name) :
            Begin([nodes EXCEPT ![cwd[Shell]].children = @ \ {n}], answer)

\* eraseChild
BeginDeleteFile(r) ==
  /\ r.method = "deleteFile"
  /\ \/ ChildNamed(r.dir, r.name) = {} /\ Refuse
     \/ \E n \in ChildNamed(r.dir, r.name) :
          Begin([nodes EXCEPT ![r.dir].children = @ \ {n}], answer)

\* The shell's working directory is looked at whoever asks (undefined when it
\* is gone: nothing, or the end).
BeginMakeDirectory(r) ==
  /\ r.method = "makeDirectory"
  /\ \/ cwd[Shell] = Null /\ Dies("null pointer")
     \/ IF ChildNamed(r.dir, r.name) # {} THEN Refuse ELSE Begin(WithChild(r, FALSE), "yes")

\* A directory of that name is no file.
BeginAppendFile(r) ==
  LET found == {n \in ChildNamed(r.dir, r.name) : nodes[n].file}
  IN  /\ r.method = "appendFile"
      /\ \/ found = {} /\ Refuse
         \/ \E n \in found : Begin([nodes EXCEPT ![n].text = @ \o r.text], answer)

\* The promise was set before.
HostCreateFile(r) ==
  /\ r.method = "createFile"
  /\ disk' = DiskWithFile(r, r.text)
  /\ Finish(answer)

\* ios::out: what was there is lost.
SlipHostAppendFile(r) ==
  /\ r.method = "appendFile"
  /\ disk' = DiskWithFile(r, r.text)
  /\ Finish("yes")

\* ios::app
HostAppendFile(r) ==
  /\ r.method = "appendFile"
  /\ disk' = DiskWithFile(r, (IF IsFileOnDisk(Target(r)) THEN disk[Target(r)].text ELSE << >>)
                               \o r.text)
  /\ Finish("yes")

\* fs::remove_all removes what is below before what is above.
HostDeleteFile(r) ==
  /\ r.method = "deleteFile"
  /\ \/ Doomed(Target(r)) = {} /\ Finish("yes") /\ UNCHANGED disk
     \/ \E p \in Doomed(Target(r)) :
          /\ \A q \in DOMAIN disk : ~IsStrictPrefix(p, q)
          /\ disk' = Restrict(disk, DOMAIN disk \ {p})
          /\ UNCHANGED <<nodes, cwd, queue, answer, thread, quit, crash>>

\* fs::create_directories makes what is above before what is below, and throws
\* if a file is in the way.
HostMakeDirectory(r) ==
  /\ r.method = "makeDirectory"
  /\ \/ Missing(Target(r)) = {} /\ Finish(answer) /\ UNCHANGED disk
     \/ \E p \in Missing(Target(r)) :
          /\ IsDirOnDisk(Front(p))
          /\ IF IsFileOnDisk(p)
             THEN Dies("exception")
             ELSE /\ disk' = With(disk, p, HostDirectory)
                  /\ UNCHANGED <<nodes, cwd, queue, answer, thread, quit, crash>>

\* One pass of the critical section: look for the name, change the tree, ...
Handle ==
  /\ thread = "locking"
  /\ queue # << >>
  /\ \/ BeginCreateFile(Head(queue))
     \/ BeginDeleteFile(Head(queue))
     \/ BeginMakeDirectory(Head(queue))
     \/ BeginAppendFile(Head(queue))

\* ... then the host, one of its calls at a time.
Host ==
  /\ thread = "hosting"
  /\ \/ HostCreateFile(Head(queue))
     \/ HostDeleteFile(Head(queue))
     \/ HostMakeDirectory(Head(queue))
     \/ HostAppendFile(Head(queue))

FileThread == TestQuit \/ Sleep \/ Handle \/ Host

----------------------------------------------------------------------------
(* The constructor on an existing directory: the tree is read back.        *)

\* The test of the name for a '.'.
SlipIsFileName(name) == name \notin Dotted
IsFileName(name) == name \in Dotted

\* The paths directory_iterator finds, the type taken from the name: nothing is
\* read below a name taken for a file.
ReadBack == {p \in DOMAIN disk : \A k \in 1 .. Len(p) - 1 : ~IsFileName(p[k])}

\* getline, and "\n" after every line: the last line gets one if it had none.
ReadLines(text) == IF text = << >> \/ Last(text) = Eol THEN text ELSE Append(text, Eol)

\* One INode for each, under the one above it.
TreeReadBack ==
  LET place == CHOOSE g \in [ReadBack -> Nodes \ {Root}] : IsInjective(g)
      NodeAt(path) == IF path = << >> THEN Root ELSE place[path]
      Below(path) == {place[p] : p \in {q \in ReadBack : Front(q) = path}}
      Made(p) == [name |-> Last(p), file |-> IsFileName(Last(p)),
                  text |-> ReadLines(disk[p].text), path |-> Front(p),
                  parent |-> NodeAt(Front(p)), children |-> Below(p)]
  IN  [n \in {Root} \cup Range(place) |->
        IF n = Root THEN [RootNode EXCEPT !.children = Below(<< >>)]
        ELSE Made(CHOOSE p \in ReadBack : place[p] = n)]

\* The program is started again on what an earlier one left, wherever between
\* two steps that one ended.
Restart ==
  /\ Cardinality(ReadBack) < Cardinality(Nodes)   \* bound
  /\ cwd' = [c \in {Shell} |-> Root]
  /\ queue' = << >>
  /\ answer' = "none"
  /\ thread' = "loop"
  /\ quit' = FALSE
  /\ UNCHANGED disk
  /\ IF \E p \in ReadBack : disk[p].file /\ ~IsFileName(Last(p))
     THEN crash' = "exception" /\ nodes' = [n \in {Root} |-> RootNode]
     ELSE crash' = "no" /\ nodes' = TreeReadBack

----------------------------------------------------------------------------
(* Specifications                                                          *)

AnyCall(c) ==
  \/ \E name \in Names, method \in Methods : \E text \in Texts(method) :
       Issue(c, method, name, text)
  \/ \E name \in Names : Load(c, name)
  \/ Back(c)
  \/ \E new \in Clients : AllocateFptr(c, new)
  \/ UseNull(c)

\* Any clients, any names.  (Quit would only take the shell's calls away.)
AnyNext ==
  \/ crash = "no" /\ ((\E c \in DOMAIN cwd : AnyCall(c)) \/ FileThread)
  \/ Restart

AnySpec == Init /\ [][AnyNext]_vars

\* The shell alone, which names files and directories as buildDirectories asks,
\* changes directory only when its requests are done, and enters no file.
\* After "q" it gives no more commands.
PatientCall ==
  /\ ~quit
  /\ \/ \E name \in Names, method \in Methods :
          /\ method = "createFile" => name \in Dotted
          /\ method = "makeDirectory" => name \notin Dotted
          /\ \E text \in Texts(method) : Issue(Shell, method, name, text)
     \/ queue = << >> /\ ((\E name \in Names \ Dotted : Load(Shell, name)) \/ Back(Shell))

PatientNext ==
  \/ crash = "no" /\ (PatientCall \/ Quit \/ FileThread)
  \/ Restart

\* The thread is not held up for ever.
PatientSpec == Init /\ [][PatientNext]_vars /\ WF_vars(crash = "no" /\ FileThread)

\* The program is not killed.
ClosingSpec == Init /\ [][PatientCall \/ FileThread \/ Quit]_vars /\ WF_vars(FileThread)

====
