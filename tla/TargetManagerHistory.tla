------------------------ MODULE TargetManagerHistory ------------------------
(***************************************************************************)
(* TargetManager with a record of when each request was last queued, for   *)
(* what its documentation says of the wait.                                *)
(***************************************************************************)
EXTENDS TargetManager

VARIABLE
    enteredWith     \* a request's patience when it was last put in the queue

historyVars == <<tmVars, enteredWith>>

HistoryInit ==
    /\ TMInit
    /\ enteredWith = [r \in Request |-> 0]

HistoryNext ==
    /\ TMNext
    /\ enteredWith' =
         [r \in Request |->
            IF Queued(r)' /\ ~Queued(r) THEN patience'[r] ELSE enteredWith[r]]

HistorySpec == HistoryInit /\ [][HistoryNext]_historyVars

----------------------------------------------------------------------------
(* maxQueueWait is the "maximum time a request will wait for a free IP      *)
(* before failing" (config.py, 55-56): a request put in the queue before    *)
(* its deadline does not wait past it.  A retry sits behind requests with   *)
(* later deadlines, which the single dispatcher serves first.               *)
EveryWaitBounded ==
    \A r \in Request :
       WaitsForIp(r) /\ enteredWith[r] > Grace => patience[r] >= Grace
=============================================================================
