---------------------------- MODULE EndpointJob ----------------------------
(***************************************************************************)
(* What the run of one endpoint may write to its row, as FetchTask takes   *)
(* it to: the statuses and their order, without what is fetched. Shown to  *)
(* be implemented by EndpointFetch (a uid endpoint) and by ItemFanout.     *)
(***************************************************************************)
CONSTANT Fanout   \* whether the endpoint is a fan-out over items

VARIABLES
  status,   \* fetch_endpoint_state.status
  job       \* "running"; "aborted" when only left-over item coroutines run; else "idle"

vars == <<status, job>>

Init == status = "PENDING" /\ job = "idle"

Begin == job = "idle" /\ job' = "running" /\ status' = "RUNNING"

\* A failed attempt, after which the run may still go on.
Retry == ~Fanout /\ job = "running" /\ status' = "FAILED_RETRYABLE" /\ UNCHANGED job

Final == {"SUCCESS", "FAILED_EXHAUSTED", "FAILED_PERMANENT"}
           \union (IF Fanout THEN {"PARTIAL_ITEM"} ELSE {})

\* The run ends with a final status; or, by a crash or a store error, as the row stands.
End ==
  /\ job = "running" /\ job' = "idle"
  /\ status' \in Final \union {status}

\* The run returns and leaves item coroutines behind, which go on to write RUNNING.
Abort ==
  /\ Fanout /\ job = "running" /\ job' = "aborted"
  /\ status' = "FAILED_PERMANENT"

LatePublish == job = "aborted" /\ status' = "RUNNING" /\ UNCHANGED job

Exit == job = "aborted" /\ job' = "idle" /\ UNCHANGED status

Next == Begin \/ Retry \/ End \/ Abort \/ LatePublish \/ Exit

Spec == Init /\ [][Next]_vars
=============================================================================
