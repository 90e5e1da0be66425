# FakeOS in TLA+

Models, model checking and proofs of FakeOS, a simulator of an operating
system: a shell, a file system, a process scheduler, a CPU that runs mocked
programs, and a memory manager. Source files are named relative to
`FakeOS/FakeOS/`.

## 1. The system

| Component | State | Operations | Who calls it |
|---|---|---|---|
| **PagedMemoryManager** | `_frames` (a list split by `_nextToAllocate`), `_frameLocator`, `_freeMemoryPagesNum`, `_freeSwapAreaPages`, the page table in each PCB | `virtualAllocate`, `virtualFree`, `accessMemory` | the CPU thread, for `DemandMemory`, `FreeMemory`, `AccessMemory` |
| **MemoryManager** | none | the interface of the above | |
| **FileSystem** | a tree of INodes (shared pointers down, weak pointers up), working directories, `_messageQueue`, `_quit`, a directory of the host | the calls of the shell and the programs, the thread that serves the queue, the constructor that reads an existing directory | shell thread, CPU thread, its own thread |
| **PCBQueue** | a linked list: `startPtr`, `endPtr`, `num` | `addProcess`, `popProcess`, `getNode`, `getPCBNode`, the exchange of the resort | loaders, scheduler thread, CPU thread |
| **ProcessScheduler** | the newly created, ready and waiting queues | `ProcessSchedule_Preemptive` and `ProcessResort_FCFS`, in a loop without a pause | its own thread |
| **CPUCore** | `_timeElapsed` | a cycle every 200 ms on the front of the ready queue | its own thread |
| **ScheduleQueue** | the PCB, the mutexes, two static counters | `LoadProcess` | shell thread, CPU thread |
| **Shell** (`Main.cpp`) | none | one command at a time | the user |
| **Kernel** | constants, the global objects, `ThreadDeleter` | joins a thread when its owner dies | the end of the program |
| **SegmentedMemoryManager** | `memState`: three flags for each block; a segment table in each PCB | `virtualAllocate`, `virtualFree`, `accessMemory` | nobody: the program makes the paged one |
| Command.h, the test driver | | never used by the program | |

How they interact: the shell and the CPU call the file system, which answers
queries and changes of directory at once, but queues whatever changes the tree;
its thread serves the queue under the same mutex. The shell and the CPU load
processes into the newly created queue; the scheduler moves them to the ready
queue, sorts it and pops a terminated head; the CPU works on the head. Mutexes
cover the transfer between queues, but not the scheduler's pop, nor anything the
CPU does. The memory manager is only ever called on the CPU thread. When the
shell is left, the main thread tells the file system, the CPU and the scheduler
to stop, in this order, and the global objects are destroyed, the last defined
first: each destruction joins a thread, while the others may still run.

What is hard: the file system's requests are handled after the state they were
made in has changed, directories disappear under those who work in them, and a
restart must understand what the last run left, which may have been killed between
two steps of one request. The CPU asks for the head
of the ready queue several times in one cycle and writes PCBs the scheduler
writes too. The memory manager keeps five structures that must agree, and obeys
flags that its own interface calls invalid.

What makes each correct:

- memory: no frame or swap page is lost, shared or double; the counter, the
  locator and the owners agree with the list; the least recently used page is
  evicted, only when memory is full; a process cannot see paging.
- files: the tree and the host directory are the same; the tree changes only as
  somebody asked, where it stood when it asked; promises tell what happened;
  requests are served; working directories stay in the tree; the program can be
  closed.
- processes: each PCB is in one place; a process leaves only when finished and is
  left alone afterwards; the directive done is due; every process ends; the
  program that is left ends.
- segments: those a process holds do not overlap; a free ends.

## 2. The modules

| Module | What it models |
|---|---|
| `VirtualMemory` | abstract: blocks of pages out of one shared capacity |
| `PagedMemory` | `PagedMemoryManager.cpp`, an action for each outcome of each operation |
| `PagedMemoryProps` | its invariants, action properties and the refinement of `VirtualMemory` |
| `PagedMemoryRecency` | the same beside a history of uses, to say "least recently used" |
| `PagedMemoryProofs` | proofs for any client of the manager |
| `PagedMemoryCarefulProofs` | proofs for a careful one: what it has is its own, paging is invisible to it, the least recently used page is evicted |
| `FileSystem`, `FileSystemProps` | `FileSystem.cpp` and its clients |
| `FileSystemProofs`, `FileSystemPatientProofs` | proofs for any clients; of how the tree changes, and for a patient shell |
| `ProcessQueue` | abstract: a sequence of PCBs |
| `PCBQueue`, `PCBQueueProofs` | the linked list of `ProcessScheduler.h` and the pointer surgery of the resort |
| `Scheduling`, `SchedulingProps`, `SchedulingProofs` | loaders, scheduler thread, CPU thread and the main thread that closes them |
| `SegmentedMemory`, `SegmentedMemoryProofs` | `SegmentedMemoryManager.cpp`, with its properties |
| `Lists`, `ListLemmas` | `Keep`, what is left of a list; facts about lists, repeated steps and induction that the proofs share |
| `MC...` | instances for TLC: symmetry, views, bounds |

**PagedMemory.** `_frames` is split at `_nextToAllocate` into `lru` and
`freeFrames`; `located` is the set of keys of `_frameLocator`; `frameInfo` is
what the list nodes hold. The order of every splice is kept, and so is the order
in which swap pages are taken and given back. `crash` says that an assertion
failed or that a splice used an iterator that is not there. `AnyNext` is any
script; `CarefulNext` is one that gives `virtualFree` no page it does not hold.

**FileSystem.** INodes are members of a finite set; `Collect` is the reference
counting: a node lives while the tree, a working directory or a queued request
leads to it, and weak pointers to the dead become `Null`. `threadFunc` keeps the
mutex through a request, but the host sees its parts: `Handle` (thread
"locking") looks for the name and changes the tree, `Host` (thread "hosting")
makes the calls on the host one at a time, `remove_all` leaf by leaf and
`create_directories` from the top. No call that takes the mutex happens in
between (`MutexFree`). `Restart` is a kill at any of these steps and the
constructor on what is then there. `answer` is what the promise of the
request at hand was given. Names are model values; all the code asks of them is
whether they hold a `.` (`Dotted`). A text is a sequence of `Pieces` and ends of
lines (`Eol`): enough to tell appending from overwriting, and what `getline` adds.

**PCBQueue.** Cells, pointers and the count as in the code, an uninitialised
pointer being `Wild`. `Contents` is the refinement mapping to `ProcessQueue`.

**Scheduling.** Queues are sequences, which the `queue` run justifies. Each of the
CPU's looks at the front is a step, because the CPU takes no mutex: so are, in
the scheduler, adding a PCB to the ready queue (`SchedAdd`) and writing the state of
the one `getNode` finds (`SchedMark`), though one mutex covers both. A resort, under
its mutex, is one action: it moves no head. The test of `_quit` and the first
look of a pass, or of a cycle, are one step: a `q` between them counts as one after
them.
`LoadProcess` makes a PCB with any priority, any counter, 0 too (it wraps at
the first cycle), and any number of directives.
`algorithm` is the scheduling function and the order it sorts by. The program
has `threadFunc` call `ProcessSchedule_Preemptive`, and that
`ProcessResort_FCFS`; `ProcessSchedule_Nonpreem` and the orders `_SJF` and `_HRRN`
are written and never called, and the instance has `Nonpreem` with `_HRRN`, and
`Preemptive` with `_SJF`, too. What an order compares when priorities do not tell is one number, `Key`;
for HRRN the comparison of two differences is that of two sums. `main` follows
the end of the program: `TellCpu`, `TellScheduler`, and the destruction of each
global, which for the CPU and the scheduler waits for a thread (`"done"`). The file
system loses its file pointers before its thread is joined (`DestroyFiles`,
`JoinFileSystem`). `crash`
names what the CPU thread followed that was no longer there.

**SegmentedMemory.** The three flags of each block and the tables, with the scan
as the code does it: it counts the blocks before the place it takes, skips the one
after a block in use, and marks one block more than are needed. Flags never
written are `Wild`. `virtualFree` tests `isBegin` and reads the table before it
takes the mutex (lines 112 and 118); the model takes test and walk as one step,
as if one thread called it. The client is any process that frees and grows segments it
holds; `asked`, the sizes of one program, is chosen at the start so that programs
of one size are among those checked.

Definitions whose name starts with `Slip` are faults the code could have had,
kept to see that the properties notice them; no specification uses them.

## 3. What TLC checks

| Run | Bounds | What it shows |
|---|---|---|
| `memory_careful` | 2 processes, 2 frames, 2 swap pages, tables of 3 pages, pages of 2 bytes | exclusive frames and swap pages, well-formed blocks, no undefined splice, LRU order, eviction only when memory is full and of the least recently used, refinement of `VirtualMemory` |
| `memory_any` | 2 processes, 2 frames, 1 swap page, tables of 2 | the parts of the manager agree and no assertion fails, after any frees |
| `files_patient` | 1 client, 3 nodes below the root, 1 file name, 2 directory names, 2 requests waiting, texts of 2 pieces | tree and host agree through kills and restarts at any step; nothing crashes; promises are true; requests are served (fairness of the thread) |
| `files_any` | 2 clients, 2 nodes below the root, 2 names, 2 requests waiting | unique paths, parents and children agree, the tree changes as was asked |
| `queue` | 5 cells, 3 PCBs | the list is a sequence |
| `scheduling` | 3 processes, 1 priority, 2 directives, counters of 0 and 1, 3 pairs of scheduling function and order | each PCB in one place, directives that are due, ends that are final; every process ends, and so does the program (fairness of the threads) |
| `segments` | 2 processes of 2 segments, 7 blocks of 2 bytes, sizes of 1, 2 and 3 blocks, 0 and one too many | frees end; segments of one number of blocks keep apart |

Why the bounds are enough: two processes that want six pages of two frames and two
swap pages reach every refusal, a fault with and without a free frame, eviction
of one's own and of another's page, and blocks that touch; a page of two bytes
has sizes that are and are not multiples. Three nodes are a directory with one
inside it, removed and made again; two waiting requests are two that race. Five
cells let the resort exchange neighbours at the front, in the middle and at
the end. Three processes are a head, one that is compared wrongly and one
admitted late; priorities would only be one more reason to exchange two of them, and
`_SJF` exchanges them under the same function (`scheduling_unsorted` and
`scheduling_revived` have two priorities, and the theorems of section 4 any). Seven blocks hold two segments of one size with a gap the scan
must see or skip, and let two of different sizes overlap. A text of two
pieces is one created and one appended. `SwapBound` stops a client that frees without end; `MaxQueue`,
`MaxDepth` and the number of nodes bound what the clients ask. In `memory_any`
and `files_any` a run may stop: the program died or a bound was met.

`SYMMETRY` permutes processes, nodes below the root, cells and PCBs, none of which
the modules tell apart. `LiveState` leaves out of `memory_careful` the entries of
free pages and the owners of free frames: a careful client never makes the manager
read them. `SilentState` leaves the last answer out of `files_any`, and
`AnswerAside` out of `segments`; no property of theirs looks at it, but for a type.

**Fairness.** `WF_vars` of `FileThread`, `Scheduler` and `Cpu`, while the program has
not died: each is a loop in a host thread of its own that is never suspended for
ever. In `scheduling` also of the main thread after `q`: it goes on to tell
the scheduler, and each join returns some time after its thread ends. That the
file system's join returns is not assumed (`files_closing` shows that it may
not): `ClosingEnds` speaks of what follows it. No fairness is assumed of the user or
of the loaders. `QueueServed` is of the form "closed for good, or nothing
waits for good, or requests are taken again and again", so that a user who kills the
program for ever is no counterexample.

**Assumptions of the runs.** `files_patient` is a user who lets the queue drain
before `cd`, puts a `.` in the names of files and of nothing else, as the comment in
`buildDirectories` (line 116) asks, and enters no file. `DiskMirrors` compares texts
but for the ends of lines, because a restart gives a text that has no final one
one in the tree and not on the host (`FileSystem.cpp:141`), and while the host
is being changed it leaves out what the request at hand is about. Without any of these
`DiskMirrors` or `NoCrash` fails; `FileSystem` has the actions that
make them fail (`AnyCall`). So `files_patient` says
nothing of a `cd ..` to an expired parent, of a `makeDirectory` that finds the shell's
directory gone, of `create_directories` with a file in its way, or of files without a
`.`; no document promises anything of them. The runs of `Scheduling` set
`Prompt`: the scheduler, which loops without a pause, pops a terminated head
within the 200 ms the CPU sleeps. Without it the CPU runs a finished process again
or follows a null front. `programCounter` counts modulo `Wrap`: that every process ends
includes one whose counter has to count down through all the values of a `size_t`,
which nobody will wait for. `num` is taken to start at 0, and a page number to lie in the table.

### Where the code and its words differ

| Run | What it shows |
|---|---|
| `memory_double_free` | a block freed twice gives back a frame that another process has by then (`PagedMemoryManager.h:27`) |
| `files_closing` | `q` while the file system thread sleeps never ends (`README.md:9`) |
| `files_removed` | the directory a program works in can be deleted (`FileSystem.cpp:90`) |
| `scheduling_revived` | the scheduler makes a terminated head ready again (`CPUCore.cpp:103`, `ScheduleQueue.h:55`) |
| `scheduling_unsorted` | the resort does not sort: a more urgent process stays behind the head (`ProcessScheduler.cpp:119`, `:235`; `ProcessScheduler.h:122`, `:178`) |

## 4. What is proved

Everything below holds for every value of the constants, with no more than the
`ASSUME` of the module (and `Prompt`, where it says so): any number of processes,
frames, pages, INodes, names, clients, cells, blocks, and any sizes. Each inductive
invariant was checked by TLC on the run of its component before it was proved.

**The paged manager, any client** (`PagedMemoryProofs`).
`RobustInv` is inductive: `TypeOK`, `FrameList`, `LocatorExact`, `CounterExact`,
`OwnerLeadsBack` and `AssertionsHold`. None is inductive alone. That an eviction
rewrites the right entry (`OwnerLeadsBack`) needs a freed frame to leave the
used ones, which needs each frame listed once (`FrameList`) and the locator to
know exactly the used ones (`LocatorExact`): a second free of a block then either
meets only frames that are in use, each once, or is undefined. `AssertionsHold` needs
`CounterExact` (line 113: the check on line 52 covers what the loops take) and
`OwnerLeadsBack` (line 205). `EvictionsDue` (in `PagedMemoryCarefulProofs`) is the
action property `EvictsOnlyWhenFull`: an entry only goes to the swap area in the
step that found no free frame, one for one.

**A careful client** (`PagedMemoryCarefulProofs`). `CarefulInv` is `RobustInv` with
`FrameExclusive`, `SwapExclusive`, `BlocksWellFormed` and `NoUndefinedSplice`. A block must
end where `virtualFree` stops (`BlocksWellFormed`) for the pages under it to be given
back once, and these must be nobody else's (the exclusiveness) for a splice to be
defined. `FramesExclusive`, `SwapPagesExclusive`, `BlocksKept` and `SplicesDefined` state
the parts.

**Refinement** (there too). `PagingInvisible` is
`CarefulSpec => ImplementsVirtualMemory`: every step of the manager is a step of the pool
of blocks of `VirtualMemory` or, for an access, a stutter. The proof sees a block as a
`Run` of a page table, from its first page to the first one marked as its end; allocating
adds one run and leaves the others, freeing takes one away, and faults move
pages between memory and swap area under the same runs. The size of what the pool
gives out is counted with the entries that use a frame or a swap page, a bijection
that `CarefulInv` gives.

**The order of last use** (there too). `RecencyInv` is `CarefulInv` with `LRUOrder` and
`Remembers`: the history names the pages in use, each once. Without it a page
could stand in the history twice, or a freed one again, and "the order in which they were
last used" would say nothing. The step of each call is one of three on lists, stated
apart from the manager: a member goes to the end (`TouchOrders`, for a hit and for both
kinds of fault), some leave (`DropOrders`), some join at the end (`JoinOrders`), and in
each the list of frames, read as pages, and the history stay in step because keeping
of a list and mapping it change places (`MappedKeep`). The frames of one block join in the
order of its pages, first the ones in memory. `LeastRecentFirst` states `LRUOrder` and
`OldestOut` the action property `EvictsLeastRecentlyUsed`: the first frame of the
list holds the page that is first, in the history, of those in memory.

**The list** (`PCBQueueProofs`). `ChainEndsAtEndPtr` speaks of walks by `getPCBNode`, which no
step preserves one at a time; `ChainInv` says that there is a chain of `num`
different nodes from `startPtr` to `endPtr`. Each operation is shown to make the new
chain from the old (`AddKeeps`, `PopKeeps`, `ExchangeKeeps`, the four cases of the
exchange), and `NodeOfChain` that the walk follows it. `ListIsQueue` is the refinement of
`ProcessQueue`: the pointer surgery is that of a sequence in which neighbours
change places.

**The life of processes** (`SchedulingProofs`). `QueueInv` (the queues and the retired are
disjoint, without repetitions, and hold every PCB made) holds under any
interleaving of loaders, scheduler, CPU and the end of the program, `Prompt` or not;
it needs that the scheduler that is about to pop still has a head (no other thread
pops). The sort enters as what it keeps: the same PCBs, each once, the same
head (`ResortKeeps`), for each order. `OnePlaceOnly` follows, and `NoPreemption`: nothing
but a pop changes the head, so that what `scheduling_unsorted` shows of one queue is so
of all. `CycleInv` is about the CPU's many looks at the front in one cycle: they are all of
one process, there and not ended, and only the head may have ended, with its last
directive done. It is proved under `ASSUME Prompt`, the scheduler popping a terminated
head within the 200 ms the CPU sleeps; without that assumption it is false, and
`scheduling_revived` shows one way. From it `FinishedRetire`, `FrontIsThere`, `DirectivesOnTime` and
the action property `EndedStay`: nobody touches a process that has ended, but for the
scheduler with its mark. That exception is real (`scheduling_revived`): a head so marked
is run again, through all the values of its counter.

**Segments** (`SegmentedMemoryProofs`). `StopInv` (every block of a held segment was written, and a
mark that does not end a segment is followed by a block that was written) gives
`EveryFreeStops` for any sizes and any overlaps: `virtualFree` ends before it reads a flag
never written. `ApartInv` adds, when all sizes given are of one number `n` of blocks,
that segments stand on the grid of the places the scan can take: every `2n` blocks, or
`2n + 1` for an even `n`, because the scan counts free blocks and steps over one after a
block in use. `OneSizeApart` follows: two places of that grid do not touch.

**The file system** (`FileSystemProofs`). `FileInv` is inductive under any clients and any kills and
restarts: the tree (records, live pointers, families, siblings with different names),
the pointers of clients and requests, `RequestsTrue` (a request still carries the
path of its directory), room for the nodes the requests make (without it `WithChild`
would take a node that is in use), and the host directory being a tree
(`DiskTree`). `PathIdentifiesNode` needs the siblings, these need the search for the name to be
repeated when the request is handled; `RequestsTrue` needs a directory to keep
its path while anybody holds it, which is `CollectKeeps`: counting references
takes nothing from what is held. Every step is one of seven kinds (`KindsOfStep`), each with
its lemma; a restart is shown to read any directory back as a tree
(`ReadBackTree`). Then `FileTypes`, `PatientTypes`, `Family` and `OneNodePerPath`.

**How the tree changes** (`FileSystemPatientProofs`). `ChangesAsAsked` is the action property
`TreeChangesAsAsked`, of the paths in the tree and of those the requests were made
with. A request names a directory by a pointer and its target by a path of an earlier
moment; that the two still agree is `RequestsTrue`. What is reached from the root is the
least closed set (`ReachLeast`): with a child more it grows by that child (`GrownTree`),
with one less it loses what has the child's path as a prefix, and no more, because paths
tell nodes apart (`ErasedTree`); a directory that has left the tree may change and the
tree does not (`ChangedElsewhere`).

**The patient shell** (`FileSystemPatientProofs`). Every step of `PatientSpec` is one of the
kinds of `PatientKinds`: nothing changes (`Rests`), a request is made (`Asks`), the shell
changes directory (`Walks`), a request is refused, or begun by making a child, erasing one
or extending a text, one call is made on the host (`Carries`), the last one ends the
request (`Ends`), or the program is killed and started again. Two invariants are
inductive over them. `ShellInv` is `FileInv` with: a `.` in the name tells files from
directories, in the tree (`NamesTell`), on the host (`HostNamesTell`) and in the requests
(`RequestsSuit`); the working directory is in the tree, on a path of directories. The
constructor tells a file by its `.`, so a restart keeps `NamesTell` only because the host
has `HostNamesTell`, which the requests keep. It gives `ShellInOrder`, `DirectoryStands`
and `NothingCrashes`. `MirrorInv` is `ShellInv` with `InHand`: outside the target of the request
at hand the tree and the host have the same, and there what is left to do is what the
request asked (`LeftToDo`: a file to write, a directory to make, a text to add, the rest of a
removal), under the promise already given. A kill may fall at any of these steps, so
the restart is shown to read everything on the host back, and to place it where it was
(`AllReadBack`, `AllPlaced`). From it `InStep`, `DiskIsTree` (`DiskMirrors`) and
`PromisesKept` (`PromiseKept`, an action property).

**How.** No module with a theorem, nor any it uses, has a RECURSIVE operator: recursion is by
functions or folds of them, and the models were written so (`Keep`, `Reach`, `Climbs`,
`Sweep`, `Scan`), none with an operator for an argument (`Keep` takes the set of what stays).
What such a function computes is proved by an induction on natural numbers or on
lists, stated over sets (`NatInd`, `ListInd` in `ListLemmas`), derived from the
well-foundedness of finite subsets; that the function exists at all is `StagesExist` or
`IterateExists`. `With` stands for the update `f @@ (x :> y)` of the TLC module, which the
provers cannot expand.

**Only model-checked.** Liveness (`QueueServed`, `AllEnd`, `ClosingEnds`): the prover does not
handle fairness and ENABLED. Every other property of a passing run is the statement of a
theorem. The properties of the runs that expect a violation are false.

Read in passing, without a run: `ProcessResort_SJF` puts the larger `predictedCount` first where
`ProcessScheduler.h` announces the shortest job; the memory of a process
that ends stays in use, for nothing calls `virtualFree` then.

## 5. Not modelled

- `ProcessResort_TimeSlice`, `remove_Node` and the branches for `kRunning` and
  `kWaiting`: nothing reaches them.
- Parsing of commands, directives and scripts, and printing.
- The iterators `list`, `loadFile`, `nowpath` and `allocateFptr` share without the
  mutex: two at once are undefined behaviour on lists, and the models take each
  call as one step. Lock counts are written and never read.
- Page numbers outside a page table, and segment number 16, which passes the test of
  `SegmentedMemoryManager.cpp:32`: what lies there has no meaning to model. Frees of
  segments that are not held.
- A disk of the host that fails, or changes under the program.

## 6. Plan

Order, the most important first; all of these are done.

1. `PagedMemory` with `VirtualMemory`, its runs and `Robust`.
2. `FileSystem` with any and with patient clients, restarts, quitting.
3. `PCBQueue` implementing `ProcessQueue`.
4. `Scheduling`: loaders, scheduler, CPU.
5. The steps of a request on the host, texts of files, kills between any two steps;
   `FileSystem` without a recursive operator.
6. The other scheduling function and orders; the end of the program.
7. `SegmentedMemory`.
8. Proofs for the careful client: exclusiveness, blocks, `EvictsOnlyWhenFull`.
9. Proof that `PagedMemory` implements `VirtualMemory` for a careful client.
10. Proofs of the life of processes in `Scheduling`, and that `PCBQueue` implements
    `ProcessQueue`.
11. Proofs about the tree of `FileSystem` with any clients, and of `SegmentedMemory`.
12. Proofs for the patient shell: it stands, nothing crashes, tree and host agree,
    promises are true.
13. Proofs of the order of last use.

Left:

14. Lemmas behind liveness that need no fairness: what keeps a waiting request
    servable, and what each pass of the scheduler brings nearer to the end.
15. What tree and host still share when a `cd` overtakes waiting requests: not all
    of it, for `md` can then bring a removed directory back on the host only.
