------------------------------ MODULE SessionLog ------------------------------
(***************************************************************************)
(* What the row of a session promises to whoever talks in it one request   *)
(* at a time: a log of complete exchanges in the order of the turns, that  *)
(* only grows, and is started afresh only if the customer asked for it     *)
(* after everything it loses.                                              *)
(***************************************************************************)
EXTENDS Integers, SequencesExt

CONSTANTS Turn, Reset
VARIABLES
  log,     \* questions <<n, "question">> and answers <<n, "answer">>
  resets,  \* the resets that were asked for
  after    \* after[n]: those that were asked for before turn n

Exchanges(l) ==
  /\ Len(l) % 2 = 0
  /\ \A i \in 1..Len(l) :
       /\ i % 2 = 1 => l[i][2] = "question" /\ l[i+1] = <<l[i][1], "answer">>
       /\ i < Len(l) => l[i][1] <= l[i+1][1]

Init == log = <<>> /\ resets = {} /\ after = [n \in Turn |-> {}]

Ask(n) == after' = [after EXCEPT ![n] = resets] /\ UNCHANGED <<log, resets>>
AskReset(k) == resets' = resets \cup {k} /\ UNCHANGED <<log, after>>

\* One turn or more: what could not be written earlier comes with the next.
Grow ==
  /\ IsPrefix(log, log') /\ Exchanges(log')
  /\ UNCHANGED <<resets, after>>

\* With the turns that came after the reset, if it could not be written itself.
StartAfresh ==
  /\ Exchanges(log')
  /\ \A old \in ToSet(log) :
       /\ resets \ after[old[1]] # {}
       /\ \A new \in ToSet(log') : after[new[1]] \ after[old[1]] # {}
  /\ UNCHANGED <<resets, after>>

Next ==
  \/ \E n \in Turn : Ask(n)
  \/ \E k \in Reset : AskReset(k)
  \/ Grow \/ StartAfresh

Spec == Init /\ [][Next]_<<log, resets, after>>
=============================================================================
