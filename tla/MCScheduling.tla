---- MODULE MCScheduling ----
(* Small instances of the life of processes for TLC. *)
EXTENDS SchedulingProps

\* What threadFunc calls ...
Called == {[pass |-> "Preemptive", order |-> "FCFS"]}

\* ... and what it does not: each part once, and a pass that sorts whenever it looks
\* with an order that exchanges processes of one priority.
Written == Called \cup {[pass |-> "Preemptive", order |-> "SJF"],
                        [pass |-> "Nonpreem", order |-> "HRRN"]}

====
