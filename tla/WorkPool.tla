------------------------------ MODULE WorkPool ------------------------------
(***************************************************************************)
(* What run_item_workers promises a run, without producer, queue and       *)
(* workers: a set of items is opened, each is settled at most once, well   *)
(* or badly, and the pool closes by itself only when nothing is left.      *)
(***************************************************************************)
CONSTANT Item

VARIABLES
  phase,   \* "open" while run_item_workers is awaited
  todo,    \* items not settled yet
  good,    \* items whose work succeeded
  bad      \* items whose work failed

vars == <<phase, todo, good, bad>>

Init == phase = "closed" /\ todo = {} /\ good = {} /\ bad = {}

Open(items) ==
  /\ phase = "closed" /\ phase' = "open"
  /\ todo' = items /\ good' = {} /\ bad' = {}

Settle(i) ==
  /\ phase = "open" /\ i \in todo
  /\ todo' = todo \ {i}
  /\ \/ good' = good \union {i} /\ bad' = bad
     \/ bad' = bad \union {i} /\ good' = good
  /\ UNCHANGED phase

Closed == phase' = "closed" /\ todo' = {} /\ good' = {} /\ bad' = {}

Close == phase = "open" /\ todo = {} /\ Closed

\* An exception leaves the pool, or the process dies: what is left is forgotten.
Abort == phase = "open" /\ Closed

Next ==
  \/ \E items \in SUBSET Item : Open(items)
  \/ \E i \in Item : Settle(i)
  \/ Close
  \/ Abort

\* An open pool is closed in the end.
Spec == Init /\ [][Next]_vars /\ WF_vars((\E i \in Item : Settle(i)) \/ Close \/ Abort)
=============================================================================
