----------------------------- MODULE SseStream -----------------------------
(***************************************************************************)
(* The live event streams of one job: the generator of stream_job, once    *)
(* per connected client, beside the callbacks of run_job that append log   *)
(* lines and wake the generators.                                          *)
(*                                                                         *)
(* Every yield hands a chunk to the client's connection and suspends the   *)
(* generator until it was taken; the job's callbacks run meanwhile.        *)
(* on_log swaps in a fresh event and sets the old one, so an event is      *)
(* modelled by its generation.                                             *)
(***************************************************************************)
EXTENDS Naturals, Sequences, SequencesExt

CONSTANTS
    Streams,    \* connected clients
    MaxLogs     \* bound: lines the job logs

ASSUME StreamAssumption == MaxLogs \in Nat

VARIABLES
    logs,      \* number of lines in job.logs; line i is its i-th
    ended,     \* job.status is terminal
    over,      \* run_job's finally block has set the current event
    event,     \* generation of job._event
    pc,        \* [Streams -> the yield or wait at which gen() is suspended]
    cursor,    \* [Streams -> cursor]
    slice,     \* [Streams -> end of the slice job.logs[cursor:] being sent]
    on,        \* [Streams -> generation of the event awaited]
    sent,      \* [Streams -> lines sent as "log" events, in order]
    late       \* [Streams -> lines logged while the stream was sending others]

jobVars == <<logs, ended, over, event>>
sseVars == <<logs, ended, over, event, pc, cursor, slice, on, sent, late>>

Lines   == 1 .. MaxLogs
Control == {"closed", "snapshot", "sending", "phase", "parked", "keepalive", "end", "gone"}

TypeOK ==
    /\ logs \in 0 .. MaxLogs
    /\ ended \in BOOLEAN /\ over \in BOOLEAN
    /\ event \in 0 .. MaxLogs
    /\ pc \in [Streams -> Control]
    /\ cursor \in [Streams -> 0 .. MaxLogs]
    /\ slice \in [Streams -> 0 .. MaxLogs]
    /\ on \in [Streams -> 0 .. MaxLogs]
    /\ sent \in [Streams -> Seq(Lines)]
    /\ late \in [Streams -> SUBSET Lines]

Init ==
    /\ logs = 0 /\ ended = FALSE /\ over = FALSE /\ event = 0
    /\ pc = [s \in Streams |-> "closed"]
    /\ cursor = [s \in Streams |-> 0]
    /\ slice = [s \in Streams |-> 0]
    /\ on = [s \in Streams |-> 0]
    /\ sent = [s \in Streams |-> <<>>]
    /\ late = [s \in Streams |-> {}]

Goto(s, there) == pc' = [pc EXCEPT ![s] = there]

(* Between the first line of a slice and the resumption after "phase". *)
Sending(s) == pc[s] \in {"sending", "phase"}

-----------------------------------------------------------------------------
(* run_job: the callbacks and the end *)

(* on_log: append, swap in a fresh event, set the old one. *)
OnLog ==
    /\ ~ended
    /\ logs < MaxLogs
    /\ logs' = logs + 1
    /\ event' = event + 1
    /\ late' = [s \in Streams |-> IF Sending(s) THEN late[s] \cup {logs'} ELSE late[s]]
    /\ UNCHANGED <<ended, over, pc, cursor, slice, on, sent>>

(* job.status becomes done, error or cancelled; the row is written later. *)
Settle ==
    /\ ~ended
    /\ ended' = TRUE
    /\ UNCHANGED <<logs, over, event, pc, cursor, slice, on, sent, late>>

(* The finally block sets the current event and leaves it in place. *)
FinallySet ==
    /\ ended /\ ~over
    /\ over' = TRUE
    /\ UNCHANGED <<logs, ended, event, pc, cursor, slice, on, sent, late>>

-----------------------------------------------------------------------------
(* gen() *)

(* The snapshot carries the lines so far, and the cursor starts at 0. *)
Open(s) ==
    /\ pc[s] = "closed"
    /\ Goto(s, "snapshot")
    /\ UNCHANGED <<jobVars, cursor, slice, on, sent, late>>

Yield(s, i) == sent' = [sent EXCEPT ![s] = Append(@, i)]

(* Mutant: a job that is over is ended at once. *)
FreshIfRunning(s) == cursor[s] < logs /\ ~ended

Fresh(s) == cursor[s] < logs

(* Mutant: finally does not set the event. *)
WokenByLog(s) == event > on[s]

(* The event awaited was set: swapped out by on_log, or set by finally. *)
Woken(s) == event > on[s] \/ over

(* Nothing (more) to send: "end" if the job is over, or wait. *)
EndOrPark(s) ==
    IF ended THEN Goto(s, "end") /\ UNCHANGED on
    ELSE Goto(s, "parked") /\ on' = [on EXCEPT ![s] = event]

(* The head of the loop. *)
Look(s) ==
    /\ pc[s] \in {"snapshot", "keepalive"} \/ (pc[s] = "parked" /\ Woken(s))
    /\ IF Fresh(s)
         THEN /\ slice' = [slice EXCEPT ![s] = logs]
              /\ Yield(s, cursor[s] + 1)
              /\ Goto(s, "sending")
              /\ UNCHANGED on
         ELSE EndOrPark(s) /\ UNCHANGED <<slice, sent>>
    /\ UNCHANGED <<jobVars, cursor, late>>

SendNext(s) ==
    /\ pc[s] = "sending"
    /\ Last(sent[s]) < slice[s]
    /\ Yield(s, Last(sent[s]) + 1)
    /\ UNCHANGED <<jobVars, pc, cursor, slice, on, late>>

(* Mutant: one line too far. *)
CursorPast(s) == logs + 1

(* Mutant: the cursor moves by one line per round. *)
CursorByOne(s) == cursor[s] + 1

(* cursor = len(job.logs): the length now, not that of the slice sent. *)
CursorAfter(s) == logs

SendPhase(s) ==
    /\ pc[s] = "sending"
    /\ Last(sent[s]) = slice[s]
    /\ cursor' = [cursor EXCEPT ![s] = CursorAfter(s)]
    /\ Goto(s, "phase")
    /\ UNCHANGED <<jobVars, slice, on, sent, late>>

AfterPhase(s) ==
    /\ pc[s] = "phase"
    /\ EndOrPark(s)
    /\ UNCHANGED <<jobVars, cursor, slice, sent, late>>

(* Fifteen seconds without an event. *)
Keepalive(s) ==
    /\ pc[s] = "parked"
    /\ ~Woken(s)
    /\ Goto(s, "keepalive")
    /\ UNCHANGED <<jobVars, cursor, slice, on, sent, late>>

(* The client went away: the generator is cancelled where it is suspended. *)
Disconnect(s) ==
    /\ pc[s] \notin {"closed", "end", "gone"}
    /\ Goto(s, "gone")
    /\ UNCHANGED <<jobVars, cursor, slice, on, sent, late>>

Serve(s) == Look(s) \/ SendNext(s) \/ SendPhase(s) \/ AfterPhase(s)

Next ==
    \/ OnLog \/ Settle \/ FinallySet
    \/ \E s \in Streams : Open(s) \/ Serve(s) \/ Keepalive(s) \/ Disconnect(s)

Spec == Init /\ [][Next]_sseVars

(* The job settles (JobLifecycle), its coroutine runs on to its end, and a   *)
(* client that stays takes what it is sent.  The keepalive is not relied on. *)
Fairness ==
    /\ WF_sseVars(Settle)
    /\ WF_sseVars(FinallySet)
    /\ \A s \in Streams : WF_sseVars(Serve(s))

FairSpec == Spec /\ Fairness

-----------------------------------------------------------------------------
(* What must hold *)

Missing(s) == (1 .. logs) \ ToSet(sent[s])

(* Lines reach a client in the order of the log, and none twice as a "log"   *)
(* event, however the sends interleave with new lines.                       *)
SentInOrder ==
    \A s \in Streams : \A i \in 1 .. Len(sent[s]) - 1 : sent[s][i] < sent[s][i + 1]

(* A stream that ended, or that waits with nothing to wake it, has sent      *)
(* every line but those logged in the middle of its own sending.             *)
LateLinesOnly ==
    \A s \in Streams :
        pc[s] = "end" \/ (pc[s] = "parked" /\ ~Woken(s)) => Missing(s) \subseteq late[s]

(* Every stream whose client stays gets its "end", without waiting for a     *)
(* keepalive to look again.                                                  *)
StreamEnds == \A s \in Streams : pc[s] = "snapshot" ~> pc[s] \in {"end", "gone"}

(* The stream carries the log: by its "end" every line was sent.             *)
EveryLineStreamed == \A s \in Streams : pc[s] = "end" => Missing(s) = {}

=============================================================================
