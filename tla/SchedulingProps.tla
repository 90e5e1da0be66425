---- MODULE SchedulingProps ----
(***************************************************************************)
(* What becomes of processes.                                              *)
(***************************************************************************)
EXTENDS Scheduling, SequencesExt

\* The types of the variables.
TypeOK ==
  /\ pcb \in Seq([state : {"new", "ready", "terminated"}, priority : Nat, key : Nat,
                 rest : 1 .. MaxDirectives, programCounter : 0 .. Wrap - 1])
  /\ newly \in Seq(DOMAIN pcb) /\ ready \in Seq(DOMAIN pcb)
  /\ retired \subseteq DOMAIN pcb
  /\ sched \in {"look", "pop", "fill while empty", "fill while ready", "fill after pop",
                "resort", "done"}
  /\ count \in Nat \ {0} /\ adding \in BOOLEAN
  /\ cpu \in {"look", "count", "mark", "test", "do", "next", "done"}
  /\ main \in {"commands", "cpu told", "told", "files going", "files gone", "cpu gone", "gone"}
  /\ algorithm \in Algorithms
  /\ crash \in {"no", "null front", "no scheduler", "no files"}

\* A loaded process is in exactly one place, once: no interleaving of two
\* loaders, the transfer loops and the resort loses or doubles a PCB.
InOnePlace ==
  /\ IsInjective(newly \o ready)
  /\ ToSet(newly) \cup ToSet(ready) \cup retired = DOMAIN pcb
  /\ (ToSet(newly) \cup ToSet(ready)) \cap retired = {}

\* A process leaves the ready queue only when its last directive is done, and
\* its PCB is never written again (the CPU and the scheduler re-read the front
\* at every use).
RetiredIsFinished ==
  \A p \in retired :
    pcb[p].state = "terminated" /\ pcb[p].rest = 1 /\ pcb[p].programCounter = 0

\* The CPU never follows the front of an emptied queue, nor that of a scheduler
\* destroyed: the one is popped, the other ends, only where the CPU waits.
NoNullFront == crash \notin {"null front", "no scheduler"}

\* A process that has ended is left alone: until it is popped nobody counts it
\* down, marks it or goes on with it, neither in the cycle that ended it nor while
\* the threads are closed one after the other (Main.cpp:188, "must be closed before
\* processScheduler").  The scheduler's own mark is apart: see TerminatedStays.
EndedLeftAlone ==
  [][\A p \in DOMAIN pcb : pcb[p].state = "terminated" /\ ~SchedMark =>
       /\ pcb'[p].state = "terminated"
       /\ pcb'[p].programCounter = pcb[p].programCounter
       /\ pcb'[p].rest = pcb[p].rest]_vars

\* The directive done is that of a process whose own counter has run out, though
\* the CPU re-reads the front between the test and the call.
DirectiveOnTime ==
  cpu \in {"do", "next"} => ready # << >> /\ pcb[Head(ready)].programCounter = 0

\* Every process loaded is admitted, though a pass moves only half of those that
\* wait and a head not yet marked "ready" blocks it, and ends, though its state
\* may be written over.  (Only so many processes are loaded: there comes a time
\* when all of them have ended, if the shell is not left.)
AllEnd == []<>(retired = DOMAIN pcb \/ CpuTold)

\* The program that is left ends: once the file system's thread is joined the
\* other joins return, unless the CPU asks for a file system that is gone.  (None
\* of the three is ever undone: infinitely often is for good.)
ClosingEnds == []<>(main \notin {"files gone", "cpu gone"} \/ crash = "no files")

----------------------------------------------------------------------------
(* What a comment says and the code does not                               *)


\* ProcessScheduler.cpp:119: "sort the PCB by ComingTime"; ProcessScheduler.h:178:
\* "preemptive scheduling".  The resort leaves the ready queue in order, from its head
\* on: a process that is more urgent than the head goes before it.
ResortSorts ==
  [][SchedResort => \A j \in 1 .. Len(ready') - 1 : ~Later(ready'[j], ready'[j+1])]_vars

====
