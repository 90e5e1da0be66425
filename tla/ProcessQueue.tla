---- MODULE ProcessQueue ----
(***************************************************************************)
(* What the scheduler takes a PCBQueue for: a sequence of PCBs.            *)
(***************************************************************************)
EXTENDS Naturals, Sequences

CONSTANTS Values,   \* PCBs
          Null

VARIABLES
  contents,   \* the PCBs, the front first
  answer      \* what the last call returned

Init == contents = << >> /\ answer = Null

\* addProcess
Add(v) == contents' = Append(contents, v) /\ UNCHANGED answer

\* popProcess
Pop ==
  /\ contents' = IF contents = << >> THEN << >> ELSE Tail(contents)
  /\ answer' = IF contents = << >> THEN Null ELSE Head(contents)

\* A step of the sort: a PCB changes places with the next.
Exchange(k) ==
  /\ k \in 2 .. Len(contents) - 1
  /\ contents' = [contents EXCEPT ![k] = contents[k+1], ![k+1] = contents[k]]
  /\ UNCHANGED answer

Next == (\E v \in Values : Add(v)) \/ Pop \/ (\E k \in 2 .. Len(contents) : Exchange(k))

Spec == Init /\ [][Next]_<<contents, answer>>
====
