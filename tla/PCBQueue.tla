---- MODULE PCBQueue ----
(***************************************************************************)
(* The linked list behind each queue of the scheduler (ProcessScheduler.h) *)
(* with the pointer surgery of the resort (ProcessScheduler.cpp:250-276).  *)
(* Nodes are never deleted: a cell may be used again when nothing can      *)
(* reach it.  A new node's followPointer is not initialised.               *)
(***************************************************************************)
EXTENDS Naturals, Sequences, FiniteSets

CONSTANTS Cells,    \* addresses of PCBNodes: bound on the length of the queue
          Values,   \* PCBs
          Null,
          Wild      \* what an uninitialised pointer holds

ASSUME PCBQueueAssumption ==
  /\ IsFiniteSet(Cells)
  /\ {Null, Wild} \cap Cells = {} /\ Null # Wild /\ Null \notin Values

VARIABLES
  startPtr, endPtr, num,
  value,    \* _value of each node
  follow,   \* followPointer of each node
  answer    \* what popProcess returned last

vars == <<startPtr, endPtr, num, value, follow, answer>>

\* num is taken to start at 0, which the constructor leaves to the allocator.
Init ==
  /\ startPtr = Null /\ endPtr = Null /\ num = 0
  /\ value = [c \in Cells |-> Null]
  /\ follow = [c \in Cells |-> Wild]
  /\ answer = Null

\* getPCBNode: the node reached from the front in seq - 1 steps; a wild or null
\* pointer followed leads to Wild.
getPCBNode(seq) ==
  LET at[i \in 1 .. seq] ==
        IF i = 1 THEN startPtr
        ELSE IF at[i-1] \in Cells THEN follow[at[i-1]] ELSE Wild
  IN  IF num < seq THEN Null ELSE at[seq]

\* The cells some pointer leads to.
InUse ==
  LET from[i \in 0 .. Cardinality(Cells)] ==
        IF i = 0 THEN {startPtr, endPtr} \cap Cells
        ELSE from[i-1] \cup ({follow[c] : c \in from[i-1]} \cap Cells)
  IN  from[Cardinality(Cells)]

addProcess(v) ==
  \E new \in Cells \ InUse :
    /\ value' = [value EXCEPT ![new] = v]
    /\ IF startPtr = Null
       THEN startPtr' = new /\ follow' = [follow EXCEPT ![new] = Wild]
       ELSE /\ UNCHANGED startPtr
            /\ follow' = [c \in Cells |->
                 IF c = new THEN Wild ELSE IF c = endPtr THEN new ELSE follow[c]]
    /\ endPtr' = new
    /\ num' = num + 1
    /\ UNCHANGED answer

\* (Operators called Slip... are faults this code could have had, each beside
\* the operator it stands in for; no specification uses them.)

\* The last PCB is popped like the others.
SlipPop ==
  /\ startPtr # Null
  /\ num' = num - 1
  /\ startPtr' = follow[startPtr]
  /\ answer' = value[startPtr]
  /\ UNCHANGED <<endPtr, value, follow>>

popProcess ==
  /\ \/ /\ startPtr = Null
        /\ endPtr' = Null /\ answer' = Null
        /\ UNCHANGED <<startPtr, num>>
     \/ /\ startPtr # Null
        /\ num' = num - 1
        /\ startPtr' = IF num' = 0 THEN Null ELSE follow[startPtr]
        /\ endPtr' = IF num' = 0 THEN Null ELSE endPtr
        /\ answer' = value[startPtr]
  /\ UNCHANGED <<value, follow>>

\* The end is not looked for again.
SlipExchange(k) ==
  LET before == getPCBNode(k - 1)
      mid    == getPCBNode(k)
      next   == getPCBNode(k + 1)
  IN  /\ k \in 2 .. num - 1
      /\ {before, mid, next} \subseteq Cells
      /\ follow' = [follow EXCEPT ![before] = next, ![mid] = follow[next], ![next] = mid]
      /\ UNCHANGED <<startPtr, endPtr, num, value, answer>>

\* The body of the resort's inner loop when the two are out of order: node k and
\* the one after it change places, and the end is looked for again.  (k = 1, the
\* other branch, is never taken: the comparison is then of a PCB with itself.)
exchange(k) ==
  LET before == getPCBNode(k - 1)
      mid    == getPCBNode(k)
      next   == getPCBNode(k + 1)
      last   == IF k + 1 = num THEN mid ELSE getPCBNode(num)
  IN  /\ k \in 2 .. num - 1
      /\ {before, mid, next} \subseteq Cells
      /\ follow' = [follow EXCEPT ![before] = next, ![mid] = follow[next], ![next] = mid]
      /\ endPtr' = last
      /\ UNCHANGED <<startPtr, num, value, answer>>

Next ==
  \/ \E v \in Values : addProcess(v)
  \/ popProcess
  \/ \E k \in 2 .. num : exchange(k)

Spec == Init /\ [][Next]_vars

----------------------------------------------------------------------------
\* The PCBs from the front to the end.
Contents == [i \in 1 .. num |->
  LET c == getPCBNode(i) IN IF c \in Cells THEN value[c] ELSE Null]

TypeOK ==
  /\ {startPtr, endPtr} \subseteq Cells \cup {Null}
  /\ num \in 0 .. Cardinality(Cells)
  /\ value \in [Cells -> Values \cup {Null}]
  /\ follow \in [Cells -> Cells \cup {Null, Wild}]
  /\ answer \in Values \cup {Null}

\* Walking num nodes from the front meets each node once, never an uninitialised
\* pointer, and ends at endPtr, where the next PCB is hung on; the pointer after
\* it is wild, and only the count says so (getPCBNode, popProcess, exchange).
ChainEndsAtEndPtr ==
  /\ num = 0 <=> startPtr = Null
  /\ num = 0 <=> endPtr = Null
  /\ num > 0 => endPtr = getPCBNode(num)
  /\ \A i \in 1 .. num : getPCBNode(i) \in Cells
  /\ \A i, j \in 1 .. num : getPCBNode(i) = getPCBNode(j) => i = j

\* The list is a queue of PCBs in which neighbours may change places: none is
\* lost, doubled or left behind by the pointer surgery.
Queue == INSTANCE ProcessQueue WITH contents <- Contents, answer <- answer

ImplementsQueue == Queue!Spec
====
