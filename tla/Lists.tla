---- MODULE Lists ----
(***************************************************************************)
(* What is left of a list when some of its members are taken out.          *)
(***************************************************************************)
EXTENDS Integers, Sequences

\* (SlipKeep is a fault the code could have had; no specification uses it: the
\* last element is dropped.)
SlipKeep(s, T) ==
  LET K[i \in 0 .. Len(s)] ==
        IF i = 0 THEN << >>
        ELSE IF s[i] \in T THEN Append(K[i-1], s[i]) ELSE K[i-1]
  IN  K[IF s = << >> THEN 0 ELSE Len(s) - 1]

\* The members of s that are in T, in the order of s.  (SelectSeq with a set
\* for its test, so that the proofs need no operator argument.)
Keep(s, T) ==
  LET K[i \in 0 .. Len(s)] ==
        IF i = 0 THEN << >>
        ELSE IF s[i] \in T THEN Append(K[i-1], s[i]) ELSE K[i-1]
  IN  K[Len(s)]

====
