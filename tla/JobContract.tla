---------------------------- MODULE JobContract ----------------------------
(***************************************************************************)
(* What the API promises about the durable record of one analysis job,     *)
(* whatever the event loop, the backend process and the restarts do.       *)
(*                                                                         *)
(*   unborn -> queued -> running -> done | error | cancelled -> removed    *)
(*                                                                         *)
(* A restart turns queued and running records into "error"; a record may   *)
(* be removed at any moment; a record carries a result exactly when it is  *)
(* done, and no verdict is ever revised.  JobLifecycle is shown to         *)
(* implement this module: the record is the row of table jobs.             *)
(***************************************************************************)
CONSTANT Jobs

VARIABLES
    record,     \* [Jobs -> Record]: status of each job's durable record
    result      \* [Jobs -> BOOLEAN]: does the record carry a result bundle

vars == <<record, result>>

Pending  == {"queued", "running"}
Verdicts == {"done", "error", "cancelled"}
Record   == {"unborn", "removed"} \cup Pending \cup Verdicts

TypeOK ==
    /\ record \in [Jobs -> Record]
    /\ result \in [Jobs -> BOOLEAN]

Init ==
    /\ record = [j \in Jobs |-> "unborn"]
    /\ result = [j \in Jobs |-> FALSE]

(* The upload was accepted and its record stored. *)
Accept(j) ==
    /\ record[j] = "unborn"
    /\ record' = [record EXCEPT ![j] = "queued"]
    /\ UNCHANGED result

(* The upload never became a record: refused, or lost in a crash. *)
Refuse(j) ==
    /\ record[j] = "unborn"
    /\ record' = [record EXCEPT ![j] = "removed"]
    /\ UNCHANGED result

Start(j) ==
    /\ record[j] = "queued"
    /\ record' = [record EXCEPT ![j] = "running"]
    /\ UNCHANGED result

(* Only a running job is done, and then its result is stored with it. *)
Finish(j, v) ==
    /\ record[j] = "running"
    /\ record' = [record EXCEPT ![j] = v]
    /\ result' = [result EXCEPT ![j] = (v = "done")]

(* A restart gives up on everything still pending, all at once; what was   *)
(* being uploaded when the process died is lost.                           *)
GiveUp ==
    /\ record' = [j \in Jobs |-> IF record[j] \in Pending THEN "error" ELSE record[j]]
    /\ UNCHANGED result

Abandon(S) ==
    /\ \A j \in S : record[j] = "unborn"
    /\ record' = [j \in Jobs |-> IF j \in S THEN "removed" ELSE record[j]]
    /\ UNCHANGED result

(* One job is deleted, or an account with all its jobs. *)
Remove(S) ==
    /\ \A j \in S : record[j] \in Pending \cup Verdicts
    /\ record' = [j \in Jobs |-> IF j \in S THEN "removed" ELSE record[j]]
    /\ result' = [j \in Jobs |-> result[j] /\ j \notin S]

Next ==
    \/ \E j \in Jobs : Accept(j) \/ Refuse(j) \/ Start(j)
    \/ \E j \in Jobs, v \in Verdicts : Finish(j, v)
    \/ GiveUp
    \/ \E S \in SUBSET Jobs : Abandon(S) \/ Remove(S)

Spec == Init /\ [][Next]_vars

=============================================================================
