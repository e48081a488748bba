------------------------------ MODULE MCAsrRun ------------------------------
(***************************************************************************)
(* Model-checking instance of AsrRun: the ways a run may be started.       *)
(***************************************************************************)
EXTENDS AsrRun

Plain == [full |-> FALSE, failedOnly |-> FALSE, dry |-> FALSE, named |-> FALSE,
          among |-> Videos, limit |-> -1, budget |-> -1]

Starts == {Plain,
           [Plain EXCEPT !.full = TRUE],
           [Plain EXCEPT !.failedOnly = TRUE],
           [Plain EXCEPT !.limit = 1],
           [Plain EXCEPT !.named = TRUE, !.among = {1}],
           [Plain EXCEPT !.budget = 1],
           [Plain EXCEPT !.dry = TRUE]}

TwoWorkers == {"w1", "w2"}
=============================================================================
