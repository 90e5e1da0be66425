---- MODULE Scheduling ----
(***************************************************************************)
(* Processes of FakeOS between their loading and their end: the loaders    *)
(* (ScheduleQueue.cpp), the scheduler thread (ProcessScheduler.cpp) and the *)
(* CPU thread (CPUCore.cpp).  Only the queues are under mutexes, and the   *)
(* CPU takes none of them: it looks for the front of the ready queue again *)
(* at every use, and writes PCBs the scheduler writes too.  When the shell *)
(* is left, the main thread tells the others to stop, and destroys what    *)
(* they use while they may still run.                                      *)
(*                                                                         *)
(* Nothing in the program sets the states kRunning and kWaiting, so those  *)
(* branches of the two ProcessSchedule functions are left out.  What a     *)
(* directive does to memory and files is the matter of PagedMemory and     *)
(* FileSystem.                                                             *)
(***************************************************************************)
EXTENDS Integers, Sequences, FiniteSets

CONSTANTS MaxProcs,       \* bound on the processes loaded
          Priorities,     \* a smaller one is more urgent
          MaxDirectives,  \* bound on the directives of a program
          MaxCycles,      \* bound on the cycles before a directive
          Wrap,           \* programCounter is counted modulo Wrap (a size_t)
          Prompt,         \* the scheduler pops a terminated head while the CPU sleeps
          Algorithms      \* a ProcessSchedule and a ProcessResort; the program has
                          \* threadFunc call Preemptive, and that FCFS

ASSUME SchedulingAssumption ==
  /\ MaxProcs \in Nat /\ Priorities \subseteq Nat
  /\ MaxDirectives \in Nat \ {0} /\ MaxCycles \in Nat \ {0}
  /\ Wrap \in Nat /\ MaxCycles < Wrap
  /\ Prompt \in BOOLEAN
  /\ Algorithms \subseteq [pass : {"Preemptive", "Nonpreem"}, order : {"FCFS", "SJF", "HRRN"}]

VARIABLES
  newly,     \* NewlyCreatedQueue
  ready,     \* ReadyQueue
  retired,   \* the PCBs that have left the ready queue
  pcb,       \* the PCBs in the order they were loaded in; queues hold their numbers
  sched,     \* where the scheduler thread is
  count,     \* newlyCreatedCount
  adding,    \* a PCB has been added to ready, and the state not yet written
  cpu,       \* where the CPU thread is
  main,      \* how far the main thread is: "commands", "cpu told", "told",
             \* "files going", "files gone", "cpu gone", "gone"
  algorithm, \* chosen once
  crash      \* what the CPU thread has followed that was not there, or "no"

vars == <<newly, ready, retired, pcb, sched, count, adding, cpu, main, algorithm, crash>>

Init ==
  /\ newly = << >> /\ ready = << >> /\ retired = {}
  /\ pcb = << >>
  /\ sched = "look" /\ count = 1 /\ adding = FALSE
  /\ cpu = "look"
  /\ main = "commands"
  /\ algorithm \in Algorithms
  /\ crash = "no"

----------------------------------------------------------------------------
(* LoadProcess                                                             *)

\* time_count++ is not synchronised: two loads at once may be given one stamp.
\* (Bound: followed for the order that is called only.)
Stamps ==
  {Len(pcb)} \cup (IF algorithm.order = "FCFS" THEN {Len(pcb) - 1} \cap Nat ELSE {})

\* What the order compares, of timeCreated and predictedCount, when priorities do
\* not tell.
Key(stamp, predicted) ==
  CASE algorithm.order = "FCFS" -> stamp
    [] algorithm.order = "SJF"  -> predicted
    [] algorithm.order = "HRRN" -> stamp + predicted

\* The scheduler holds newlyCreatedQueueMutex through one of its loops, and through
\* one round of the others.  Cycles are what a script says, 0 too: those of the
\* last directive become the counter, their sum is predicted.
Load ==
  /\ Len(pcb) < MaxProcs   \* bound
  /\ sched # "fill while ready" /\ ~adding
  /\ \E priority \in Priorities, rest \in 1 .. MaxDirectives,
        cycles \in 0 .. MaxCycles, stamp \in Stamps :
       \E predicted \in cycles .. cycles + (rest - 1) * MaxCycles :
         pcb' = Append(pcb, [state |-> "new", priority |-> priority,
                             key |-> Key(stamp, predicted),
                             rest |-> rest, programCounter |-> cycles])
  /\ newly' = Append(newly, Len(pcb'))

----------------------------------------------------------------------------
(* The scheduler thread                                                    *)

\* (Operators called Slip... are faults this code could have had, each beside
\* the operator it stands in for; no specification uses them.)

\* getNode(seq) stops one node early.
getNode(q, seq) == q[IF seq > 2 THEN seq - 1 ELSE 1]

\* The comparisons of ProcessResort_FCFS, _SJF and _HRRN (which compares the
\* difference of two stamps with that of two counts: two sums).
Later(p, q) ==
  \/ pcb[p].priority > pcb[q].priority
  \/ /\ algorithm.order = "FCFS" /\ pcb[p].priority = pcb[q].priority
     /\ pcb[p].key > pcb[q].key
  \/ algorithm.order \in {"SJF", "HRRN"} /\ pcb[p].key < pcb[q].key

\* One comparison of the bubble sort: getNode's nodes are compared, getPCBNode's
\* change places.
Bubble(q, k) ==
  IF Later(getNode(q, k), getNode(q, k + 1))
  THEN [q EXCEPT ![k] = q[k+1], ![k+1] = q[k]] ELSE q

\* The inner loop, over the first n + 1 nodes ...
Sweep(q, n) ==
  LET swept[k \in 0 .. n] == IF k = 0 THEN q ELSE Bubble(swept[k-1], k)
  IN  swept[n]

\* ... and the sort of each of them.
Resort(q) ==
  LET sorted[j \in 0 .. Len(q) - 1] ==
        IF j = 0 THEN q ELSE Sweep(sorted[j-1], Len(q) - j)
  IN  IF Len(q) <= 1 THEN q ELSE sorted[Len(q) - 1]

SetState(p, s) == pcb' = [pcb EXCEPT ![p].state = s]

\* The CPU is told last.
SlipCpuTold == main \notin {"commands", "cpu told", "told"}

\* cpuCore->quit() and processScheduler->quit(): "must be closed before
\* processScheduler".
CpuTold == main # "commands"

SchedTold == main \notin {"commands", "cpu told"}

\* A terminated head is not looked for.
SlipSchedLook ==
  /\ sched = "look" /\ ~SchedTold
  /\ count' = 1
  /\ sched' = IF ready = << >> THEN "fill while empty" ELSE "fill while ready"
  /\ UNCHANGED <<newly, ready, retired, pcb, adding, cpu, crash>>

\* Which branch the pass takes, after the test of _quit.  A head that is still
\* "new" makes it do nothing.
SchedLook ==
  /\ sched = "look" /\ ~SchedTold
  /\ count' = 1
  /\ \/ ready = << >> /\ sched' = "fill while empty"
     \/ ready # << >> /\ pcb[Head(ready)].state = "terminated" /\ sched' = "pop"
     \/ ready # << >> /\ pcb[Head(ready)].state = "ready" /\ sched' = "fill while ready"
  /\ UNCHANGED <<newly, ready, retired, pcb, adding, cpu, crash>>

\* The wait of line 540 is there: only the CPU wakes the scheduler.
SlipSchedQuit ==
  /\ sched = "look" /\ SchedTold /\ cpu # "done"
  /\ sched' = "done"
  /\ UNCHANGED <<newly, ready, retired, pcb, count, adding, cpu, crash>>

SchedQuit ==
  /\ sched = "look" /\ SchedTold
  /\ sched' = "done"
  /\ UNCHANGED <<newly, ready, retired, pcb, count, adding, cpu, crash>>

\* Nothing compares a PCB that has left: its keys are forgotten.
SchedPop ==
  /\ sched = "pop"
  /\ ready' = Tail(ready)
  /\ retired' = retired \cup {Head(ready)}
  /\ pcb' = [pcb EXCEPT ![Head(ready)].priority = 0, ![Head(ready)].key = 0]
  /\ sched' = "fill after pop"
  /\ UNCHANGED <<newly, count, adding, cpu, crash>>

Filling == sched \in {"fill while empty", "fill while ready", "fill after pop"}

\* front() for popProcess().
SlipSchedAdd ==
  /\ Filling /\ ~adding
  /\ count <= Len(newly)
  /\ ready' = Append(ready, Head(newly))
  /\ adding' = TRUE
  /\ UNCHANGED <<newly, retired, pcb, sched, count, cpu, crash>>

\* One round of the transfer loop, whose bound shrinks as count grows: a PCB is
\* added ...
SchedAdd ==
  /\ Filling /\ ~adding
  /\ count <= Len(newly)
  /\ ready' = Append(ready, Head(newly))
  /\ newly' = Tail(newly)
  /\ adding' = TRUE
  /\ UNCHANGED <<retired, pcb, sched, count, cpu, crash>>

\* ... and one marked, which the CPU, under no mutex, may have written meanwhile.
SchedMark ==
  /\ Filling /\ adding
  /\ SetState(getNode(ready, Len(ready)), "ready")
  /\ count' = count + 1
  /\ adding' = FALSE
  /\ UNCHANGED <<newly, ready, retired, sched, cpu, crash>>

\* Nonpreem sorts behind a ready head only at one of its directives.
SortsNext ==
  \/ sched = "fill after pop"
  \/ /\ sched = "fill while ready"
     /\ algorithm.pass = "Nonpreem" => Len(ready) > 1 /\ pcb[Head(ready)].programCounter = 0

SchedFilled ==
  /\ Filling /\ ~adding
  /\ count > Len(newly)
  /\ sched' = IF SortsNext THEN "resort" ELSE "look"
  /\ count' = 1
  /\ UNCHANGED <<newly, ready, retired, pcb, adding, cpu, crash>>

SchedResort ==
  /\ sched = "resort"
  /\ ready' = Resort(ready)
  /\ sched' = "look"
  /\ UNCHANGED <<newly, retired, pcb, count, adding, cpu, crash>>

Scheduler ==
  /\ SchedLook \/ SchedQuit \/ SchedPop \/ SchedAdd \/ SchedMark \/ SchedFilled \/ SchedResort
  /\ UNCHANGED <<main, algorithm>>

----------------------------------------------------------------------------
(* The CPU thread: one cycle, every step of which asks for the front anew  *)

\* No sleep between two cycles.
SlipCpuLook ==
  /\ cpu = "look" /\ ~CpuTold
  /\ ready # << >>
  /\ cpu' = "count"
  /\ UNCHANGED <<newly, ready, retired, pcb, sched, count, adding, crash>>

\* A cycle begins with the test of _quit, and does nothing for an empty queue.
CpuLook ==
  /\ cpu = "look" /\ ~CpuTold
  /\ ready # << >>
  /\ Prompt /\ sched # "done" => sched # "pop" /\ pcb[Head(ready)].state # "terminated"
  /\ cpu' = "count"
  /\ UNCHANGED <<newly, ready, retired, pcb, sched, count, adding, crash>>

CpuQuit ==
  /\ cpu = "look" /\ CpuTold
  /\ cpu' = "done"
  /\ UNCHANGED <<newly, ready, retired, pcb, sched, count, adding, crash>>

Dies(how) == crash' = how /\ UNCHANGED <<newly, pcb, cpu>>

\* A step of the CPU on the PCB at the front: nothing may be there, or the
\* scheduler may be there no longer.
OnFront(at, Do(_)) ==
  /\ cpu = at
  /\ IF main = "gone" THEN Dies("no scheduler")
     ELSE IF ready = << >> THEN Dies("null front")
     ELSE Do(Head(ready)) /\ UNCHANGED crash
  /\ UNCHANGED <<ready, retired, sched, count, adding>>

CpuCount == OnFront("count", LAMBDA p :
  /\ pcb' = [pcb EXCEPT ![p].programCounter = (@ - 1) % Wrap]
  /\ cpu' = "mark" /\ UNCHANGED newly)

CpuMark == OnFront("mark", LAMBDA p :
  SetState(p, "ready") /\ cpu' = "test" /\ UNCHANGED newly)

\* The counter is not tested.
SlipCpuTest == OnFront("test", LAMBDA p : cpu' = "do" /\ UNCHANGED <<pcb, newly>>)

CpuTest == OnFront("test", LAMBDA p :
  /\ cpu' = IF pcb[p].programCounter = 0 THEN "do" ELSE "look"
  /\ UNCHANGED <<pcb, newly>>)

\* The file system is being destroyed, or is.
FilesGone == main \in {"files going", "files gone", "cpu gone", "gone"}

\* ParseAndDoDirective: of all directives only "./" touches the queues, and
\* needs the file system for it.
CpuDo == OnFront("do", LAMBDA p :
  /\ cpu' = "next"
  /\ UNCHANGED <<pcb, newly>> \/ (~FilesGone /\ Load))

\* A directive about files, or "./", with no file system left.
CpuDoWithoutFiles ==
  /\ cpu = "do" /\ FilesGone
  /\ Dies("no files")
  /\ UNCHANGED <<ready, retired, sched, count, adding>>

\* The first directive is taken for the last ...
SlipCpuNextEarly == OnFront("next", LAMBDA p :
  SetState(p, "terminated") /\ cpu' = "look" /\ UNCHANGED newly)

\* ... or the last for one before it.
SlipCpuNext == OnFront("next", LAMBDA p :
  /\ cpu' = "look"
  /\ UNCHANGED newly
  /\ \E cycles \in 1 .. MaxCycles :
       pcb' = [pcb EXCEPT ![p].rest = @ - 1, ![p].programCounter = cycles])

\* The next counter is the code of a character (restCode.at(0)), never 0.
CpuNext == OnFront("next", LAMBDA p :
  /\ cpu' = "look"
  /\ UNCHANGED newly
  /\ \/ pcb[p].rest = 1 /\ SetState(p, "terminated")
     \/ /\ pcb[p].rest > 1
        /\ \E cycles \in 1 .. MaxCycles :
             pcb' = [pcb EXCEPT ![p].rest = @ - 1, ![p].programCounter = cycles])

Cpu ==
  /\ CpuLook \/ CpuQuit \/ CpuCount \/ CpuMark \/ CpuTest \/ CpuDo \/ CpuDoWithoutFiles \/ CpuNext
  /\ UNCHANGED <<main, algorithm>>

----------------------------------------------------------------------------
(* The main thread                                                         *)

\* "./program" typed at the shell.
ShellLoad ==
  /\ main = "commands"
  /\ Load
  /\ UNCHANGED <<ready, retired, sched, count, adding, cpu, main, algorithm, crash>>

MainGoes(from, to) ==
  /\ main = from
  /\ main' = to
  /\ UNCHANGED <<newly, ready, retired, pcb, sched, count, adding, cpu, algorithm, crash>>

\* "q": the file system (FileSystem.tla), the CPU and the scheduler are told in
\* turn to stop.
TellCpu == MainGoes("commands", "cpu told")
TellScheduler == MainGoes("cpu told", "told")

\* The globals of Kernel.cpp are destroyed, the last defined first; to destroy
\* one is to join its thread.  The file system loses its file pointers, declared
\* after the thread, before the join.  (Its thread may sleep for ever.)
DestroyFiles == MainGoes("told", "files going")
JoinFileSystem == MainGoes("files going", "files gone")
DestroyCpu == cpu = "done" /\ MainGoes("files gone", "cpu gone")
DestroyScheduler == sched = "done" /\ MainGoes("cpu gone", "gone")

Destroy == DestroyFiles \/ JoinFileSystem \/ DestroyCpu \/ DestroyScheduler

----------------------------------------------------------------------------
Running == crash = "no"

Next == Running /\ (ShellLoad \/ TellCpu \/ TellScheduler \/ Destroy \/ Scheduler \/ Cpu)

Spec == Init /\ [][Next]_vars

\* The threads loop until they are told to stop, and each is scheduled by the
\* host.
FairSpec ==
  /\ Spec
  /\ WF_vars(Running /\ Scheduler)
  /\ WF_vars(Running /\ Cpu)
  /\ WF_vars(Running /\ (TellScheduler \/ DestroyCpu \/ DestroyScheduler))

====
