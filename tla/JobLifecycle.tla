--------------------------- MODULE JobLifecycle ---------------------------
(***************************************************************************)
(* The life of the analysis jobs of the API server: the request handlers   *)
(* of main.py that create, cancel and delete jobs and accounts, the        *)
(* background coroutine run_job, the jobs table of db.py, the run          *)
(* directories, and the crash and restart of the server process.           *)
(*                                                                         *)
(* The server is one asyncio event loop: code between two awaits is one    *)
(* atomic action, and every await is a point where other coroutines run.   *)
(* The one exception is POST /cancel, a plain `def` handler that FastAPI   *)
(* runs in a worker thread: it interleaves with the loop's own code.       *)
(* asyncpg runs each statement on its own pooled connection, so statements *)
(* issued by different tasks commit in any order.                          *)
(***************************************************************************)
EXTENDS Naturals

CONSTANTS
    Jobs,        \* job ids
    Users,       \* account ids
    Handlers,    \* concurrent cancel / delete / delete-account requests
    NoJob,       \* "no job" of an idle handler
    NoUser,      \* "no user" of an idle handler or an unborn job
    LastPhase,   \* rank of phase "ioc" in runner.PHASE_ORDER
    MaxFaults,   \* bound: statements (or mkdirs) that raise
    MaxCrashes   \* bound: crashes of the server process

ASSUME LifecycleAssumption ==
    /\ LastPhase \in Nat /\ LastPhase > 0
    /\ MaxFaults \in Nat
    /\ MaxCrashes \in Nat
    /\ NoJob \notin Jobs
    /\ NoUser \notin Users

VARIABLES
    up,        \* is the server process running
    jobs,      \* the keys of the dict JOBS
    pc,        \* [Jobs -> control point of analyze, then of run_job]
    mem,       \* [Jobs -> the Job object]
    pend,      \* [Jobs -> phase writes scheduled and not yet finished]
    row,       \* [Jobs -> the row of table jobs; status "none": no row]
    owner,     \* [Jobs -> user_id]
    accounts,  \* rows of table users
    dirs,      \* run directories that exist
    hnd,       \* [Handlers -> request in progress]
    told,      \* [Jobs -> statuses sent in SSE "end" events]
    gone,      \* jobs whose owner was answered {"deleted": true}
    faults, crashes

lifeVars == <<up, jobs, pc, mem, pend, row, owner, accounts, dirs, hnd,
              told, gone, faults, crashes>>

-----------------------------------------------------------------------------
(* States *)

Live      == {"queued", "running"}
Terminal  == {"done", "error", "cancelled"}
Status    == Live \cup Terminal
Phase     == 0 .. LastPhase
Complete  == LastPhase + 1            \* progress 1.0; rank p is PHASE_PROGRESS[p]
Progress  == 0 .. Complete

(* Where the coroutine that owns the job stands.  "finishing" is the span  *)
(* of run_job between its cancel check and job.status = "done": it has no  *)
(* await, so the loop runs nothing else, but the cancel thread may run.    *)
Control == {"none", "uploading", "inserting", "inserted", "spawned", "starting",
            "streaming", "finishing", "ending", "finished", "dead"}

Working == {"inserted", "spawned", "starting", "streaming", "finishing", "ending"}

JobObject == [status: Status, phase: Phase, progress: Progress,
              result: BOOLEAN, cancel: BOOLEAN]
JobRow    == [status: Status \cup {"none"}, phase: Phase, progress: Progress,
              result: BOOLEAN]
Request   == [op: {"idle", "cancelling", "deleting", "cleaning", "wiping", "closing"},
              job: Jobs \cup {NoJob}, user: Users \cup {NoUser}, had: BOOLEAN]

NewJob == [status |-> "queued", phase |-> 0, progress |-> 0,
           result |-> FALSE, cancel |-> FALSE]
NoRow  == [status |-> "none", phase |-> 0, progress |-> 0, result |-> FALSE]
NewRow == [status |-> "queued", phase |-> 0, progress |-> 0, result |-> FALSE]
Idle   == [op |-> "idle", job |-> NoJob, user |-> NoUser, had |-> FALSE]

TypeOK ==
    /\ up \in BOOLEAN
    /\ jobs \subseteq Jobs
    /\ pc \in [Jobs -> Control]
    /\ mem \in [Jobs -> JobObject]
    /\ pend \in [Jobs -> SUBSET Phase]
    /\ row \in [Jobs -> JobRow]
    /\ owner \in [Jobs -> Users \cup {NoUser}]
    /\ accounts \subseteq Users
    /\ dirs \subseteq Jobs
    /\ hnd \in [Handlers -> Request]
    /\ told \in [Jobs -> SUBSET Status]
    /\ gone \subseteq Jobs
    /\ faults \in Nat
    /\ crashes \in Nat

Init ==
    /\ up = TRUE
    /\ jobs = {}
    /\ pc = [j \in Jobs |-> "none"]
    /\ mem = [j \in Jobs |-> NewJob]
    /\ pend = [j \in Jobs |-> {}]
    /\ row = [j \in Jobs |-> NoRow]
    /\ owner = [j \in Jobs |-> NoUser]
    /\ accounts = Users
    /\ dirs = {}
    /\ hnd = [h \in Handlers |-> Idle]
    /\ told = [j \in Jobs |-> {}]
    /\ gone = {}
    /\ faults = 0
    /\ crashes = 0

HasRow(j)   == row[j].status # "none"
LoopFree    == up /\ \A j \in Jobs : pc[j] # "finishing"
At(j, here) == LoopFree /\ pc[j] = here

Goto(j, there) == pc' = [pc EXCEPT ![j] = there]

(* Mutant: the update is an upsert. *)
StoredUpsert(j, r) == [row EXCEPT ![j] = r]

(* UPDATE jobs SET ... WHERE id = $n touches nothing when the row is gone. *)
Stored(j, r) == IF HasRow(j) THEN [row EXCEPT ![j] = r] ELSE row

(* A statement raises instead of running: the connection was lost or the   *)
(* pool is exhausted.  It is assumed not to have been applied.             *)
Fault == faults < MaxFaults /\ faults' = faults + 1

-----------------------------------------------------------------------------
(* POST /api/analyze *)

(* auth.current_user answered; the handler awaits the upload. *)
AnalyzeAuth(j, u) ==
    /\ At(j, "none")
    /\ u \in accounts
    /\ owner' = [owner EXCEPT ![j] = u]
    /\ Goto(j, "uploading")
    /\ UNCHANGED <<up, jobs, mem, pend, row, accounts, dirs, hnd, told, gone, faults, crashes>>

(* An HTTP 400: bad options, bad ZIP, LLM mode without a key. *)
AnalyzeReject(j) ==
    /\ At(j, "uploading")
    /\ Goto(j, "dead")
    /\ UNCHANGED <<up, jobs, mem, pend, row, owner, accounts, dirs, hnd, told, gone, faults, crashes>>

(* The run directory and the Job object exist before the row does. *)
AnalyzeAccept(j) ==
    /\ At(j, "uploading")
    /\ dirs' = dirs \cup {j}
    /\ jobs' = jobs \cup {j}
    /\ mem' = [mem EXCEPT ![j] = NewJob]
    /\ Goto(j, "inserting")
    /\ UNCHANGED <<up, pend, row, owner, accounts, hnd, told, gone, faults, crashes>>

AnalyzeInsert(j) ==
    /\ At(j, "inserting")
    /\ owner[j] \in accounts
    /\ row' = [row EXCEPT ![j] = NewRow]
    /\ Goto(j, "inserted")
    /\ UNCHANGED <<up, jobs, mem, pend, owner, accounts, dirs, hnd, told, gone, faults, crashes>>

(* db.insert_job raises: the owner's row is gone (foreign key), or a fault. *)
(* Nothing undoes the directory or the JOBS entry.                          *)
AnalyzeInsertFails(j) ==
    /\ At(j, "inserting")
    /\ Goto(j, "dead")
    /\ \/ owner[j] \notin accounts /\ UNCHANGED faults
       \/ Fault
    /\ UNCHANGED <<up, jobs, mem, pend, row, owner, accounts, dirs, hnd, told, gone, crashes>>

(* asyncio.create_task(run_job(job)), whatever happened to the row since. *)
AnalyzeSpawn(j) ==
    /\ At(j, "inserted")
    /\ Goto(j, "spawned")
    /\ UNCHANGED <<up, jobs, mem, pend, row, owner, accounts, dirs, hnd, told, gone, faults, crashes>>

-----------------------------------------------------------------------------
(* run_job *)

RunStart(j) ==
    /\ At(j, "spawned")
    /\ mem' = [mem EXCEPT ![j].status = "running"]
    /\ Goto(j, "starting")
    /\ UNCHANGED <<up, jobs, pend, row, owner, accounts, dirs, hnd, told, gone, faults, crashes>>

Started(j) == Stored(j, [row[j] EXCEPT !.status = "running"])

(* The first write returned; out_dir.mkdir(parents=True) makes the run      *)
(* directory again if a delete removed it meanwhile.                        *)
RunStartWrite(j) ==
    /\ At(j, "starting")
    /\ row' = Started(j)
    /\ dirs' = dirs \cup {j}
    /\ Goto(j, "streaming")
    /\ UNCHANGED <<up, jobs, mem, pend, owner, accounts, hnd, told, gone, faults, crashes>>

(* The first write or the mkdir raises.  Both stand before the try block:   *)
(* the task dies and neither the Job object nor the row is settled.         *)
RunStartFails(j) ==
    /\ At(j, "starting")
    /\ Fault
    /\ row' \in {row, Started(j)}
    /\ Goto(j, "dead")
    /\ UNCHANGED <<up, jobs, mem, pend, owner, accounts, dirs, hnd, told, gone, crashes>>

(* Mutant: the job is shown in the phase after the one reported. *)
RunnerPhaseNext(j, p) ==
    /\ At(j, "streaming")
    /\ p > mem[j].phase
    /\ mem' = [mem EXCEPT ![j] = [@ EXCEPT !.phase = p + 1, !.progress = p]]
    /\ pend' = [pend EXCEPT ![j] = @ \cup {p}]
    /\ UNCHANGED <<up, jobs, pc, row, owner, accounts, dirs, hnd, told, gone, faults, crashes>>

(* Mutant: the runner reports any other phase, not only a later one. *)
RunnerPhaseAnyOrder(j, p) ==
    /\ At(j, "streaming")
    /\ p # mem[j].phase
    /\ mem' = [mem EXCEPT ![j] = [@ EXCEPT !.phase = p, !.progress = p]]
    /\ pend' = [pend EXCEPT ![j] = @ \cup {p}]
    /\ UNCHANGED <<up, jobs, pc, row, owner, accounts, dirs, hnd, told, gone, faults, crashes>>

(* on_phase: the runner moves forward only (BackendRunner); the write is a  *)
(* task of its own, with the progress of this phase.                        *)
RunnerPhase(j, p) ==
    /\ At(j, "streaming")
    /\ p > mem[j].phase
    /\ mem' = [mem EXCEPT ![j] = [@ EXCEPT !.phase = p, !.progress = p]]
    /\ pend' = [pend EXCEPT ![j] = @ \cup {p}]
    /\ UNCHANGED <<up, jobs, pc, row, owner, accounts, dirs, hnd, told, gone, faults, crashes>>

PhaseCommit(j, p) ==
    /\ LoopFree
    /\ p \in pend[j]
    /\ row' = Stored(j, [row[j] EXCEPT !.phase = p, !.progress = p])
    /\ pend' = [pend EXCEPT ![j] = @ \ {p}]
    /\ UNCHANGED <<up, jobs, pc, mem, owner, accounts, dirs, hnd, told, gone, faults, crashes>>

(* _drain_db_tasks only logs a write that raised. *)
PhaseFails(j, p) ==
    /\ LoopFree
    /\ p \in pend[j]
    /\ Fault
    /\ pend' = [pend EXCEPT ![j] = @ \ {p}]
    /\ UNCHANGED <<up, jobs, pc, mem, row, owner, accounts, dirs, hnd, told, gone, crashes>>

(* Mutant: the cancel event is not looked at again once the runner is back. *)
RunnerReturnsUnchecked(j) ==
    /\ At(j, "streaming")
    /\ Goto(j, "finishing")
    /\ UNCHANGED <<up, jobs, mem, pend, row, owner, accounts, dirs, hnd, told, gone, faults, crashes>>

(* The runner came back; job._cancel decides between the two endings. *)
RunnerReturns(j) ==
    /\ At(j, "streaming")
    /\ IF mem[j].cancel
         THEN mem' = [mem EXCEPT ![j].status = "cancelled"] /\ Goto(j, "ending")
         ELSE mem' = mem /\ Goto(j, "finishing")
    /\ UNCHANGED <<up, jobs, pend, row, owner, accounts, dirs, hnd, told, gone, faults, crashes>>

RunDone(j) ==
    /\ up
    /\ pc[j] = "finishing"
    /\ mem' = [mem EXCEPT ![j] = [@ EXCEPT !.status = "done", !.phase = LastPhase,
                                           !.progress = Complete, !.result = TRUE]]
    /\ Goto(j, "ending")
    /\ UNCHANGED <<up, jobs, pend, row, owner, accounts, dirs, hnd, told, gone, faults, crashes>>

(* The runner, or the assembly of the result, raises. *)
RunnerRaises(j) ==
    /\ up
    /\ At(j, "streaming") \/ pc[j] = "finishing"
    /\ mem' = [mem EXCEPT ![j].status = "error"]
    /\ Goto(j, "ending")
    /\ UNCHANGED <<up, jobs, pend, row, owner, accounts, dirs, hnd, told, gone, faults, crashes>>

(* Mutant: update_job(status="done") forgets the result. *)
VerdictNoResult(j) ==
    CASE mem[j].status = "done"      -> [row[j] EXCEPT !.status = "done", !.phase = LastPhase,
                                         !.progress = Complete]
      [] mem[j].status = "cancelled" -> [row[j] EXCEPT !.status = "cancelled",
                                         !.phase = mem[j].phase,
                                         !.progress = mem[j].progress]
      [] OTHER                       -> [row[j] EXCEPT !.status = "error"]

(* Mutant: a cancellation does not store the phase it was reached in. *)
VerdictNoPhase(j) ==
    IF mem[j].status = "done"
      THEN [status |-> "done", phase |-> LastPhase, progress |-> Complete, result |-> TRUE]
      ELSE [row[j] EXCEPT !.status = mem[j].status]

(* Mutant: the verdict is decided by the cancel event at the time of the write. *)
VerdictByEvent(j) ==
    IF mem[j].status = "done" /\ ~mem[j].cancel
      THEN [status |-> "done", phase |-> LastPhase, progress |-> Complete, result |-> TRUE]
      ELSE [row[j] EXCEPT !.status = IF mem[j].cancel THEN "cancelled" ELSE "error"]

(* The row that the terminal update writes: done brings everything, a       *)
(* cancellation the phase reached, an error only the status.                *)
Verdict(j) ==
    CASE mem[j].status = "done"      -> [status |-> "done", phase |-> LastPhase,
                                         progress |-> Complete, result |-> TRUE]
      [] mem[j].status = "cancelled" -> [row[j] EXCEPT !.status = "cancelled",
                                         !.phase = mem[j].phase,
                                         !.progress = mem[j].progress]
      [] OTHER                       -> [row[j] EXCEPT !.status = "error"]

(* Mutant: the terminal update does not wait for the phase writes. *)
DrainedSkipped(j) == TRUE

Drained(j) == pend[j] = {}

(* _drain_db_tasks, the terminal update, and the finally block. *)
TerminalWrite(j) ==
    /\ At(j, "ending")
    /\ Drained(j)
    /\ row' = Stored(j, Verdict(j))
    /\ Goto(j, "finished")
    /\ UNCHANGED <<up, jobs, mem, pend, owner, accounts, dirs, hnd, told, gone, faults, crashes>>

(* The terminal update raises: inside the try it turns the job into an      *)
(* error, inside the except handler the task dies with the row unsettled.   *)
TerminalWriteFails(j) ==
    /\ At(j, "ending")
    /\ Drained(j)
    /\ Fault
    /\ IF mem[j].status = "error"
         THEN Goto(j, "finished") /\ UNCHANGED mem
         ELSE mem' = [mem EXCEPT ![j].status = "error"] /\ UNCHANGED pc
    /\ UNCHANGED <<up, jobs, pend, row, owner, accounts, dirs, hnd, told, gone, crashes>>

-----------------------------------------------------------------------------
(* POST /api/jobs/{id}/cancel: a plain def, run in a worker thread *)

(* The owner's request finds a running job; anything else changes nothing. *)
CancelLookup(h, j) ==
    /\ up
    /\ hnd[h].op = "idle"
    /\ j \in jobs
    /\ mem[j].status = "running"
    /\ hnd' = [hnd EXCEPT ![h] = [Idle EXCEPT !.op = "cancelling", !.job = j, !.user = owner[j]]]
    /\ UNCHANGED <<up, jobs, pc, mem, pend, row, owner, accounts, dirs, told, gone, faults, crashes>>

(* The thread sets the event of the job it found, whose status may have     *)
(* moved on since.                                                          *)
CancelSet(h) ==
    /\ up
    /\ hnd[h].op = "cancelling"
    /\ mem' = [mem EXCEPT ![hnd[h].job].cancel = TRUE]
    /\ hnd' = [hnd EXCEPT ![h] = Idle]
    /\ UNCHANGED <<up, jobs, pc, pend, row, owner, accounts, dirs, told, gone, faults, crashes>>

-----------------------------------------------------------------------------
(* DELETE /api/jobs/{id} *)

(* Mutant: only a running job is told to stop, as in cancel_job. *)
StoppableRunning(j) == mem[j].status = "running"

Stoppable(j) == mem[j].status \in Live

(* The client knows the id of a job once its row was stored. *)
Known(j) == pc[j] \notin {"none", "uploading", "inserting"}

DeleteStart(h, u, j) ==
    /\ LoopFree
    /\ hnd[h].op = "idle"
    /\ u \in accounts
    /\ Known(j)
    /\ IF j \in jobs /\ owner[j] = u
         THEN /\ mem' = [mem EXCEPT ![j].cancel = @ \/ Stoppable(j)]
              /\ jobs' = jobs \ {j}
         ELSE UNCHANGED <<mem, jobs>>
    /\ hnd' = [hnd EXCEPT ![h] = [op |-> "deleting", job |-> j, user |-> u, had |-> j \in jobs]]
    /\ UNCHANGED <<up, pc, pend, row, owner, accounts, dirs, told, gone, faults, crashes>>

(* db.delete_job: the row goes if this user owns it; with nothing removed   *)
(* and nothing in memory the answer is 404.                                 *)
DeleteRow(h) ==
    LET j == hnd[h].job
        removed == HasRow(j) /\ owner[j] = hnd[h].user
    IN  /\ LoopFree
        /\ hnd[h].op = "deleting"
        /\ row' = IF removed THEN [row EXCEPT ![j] = NoRow] ELSE row
        /\ hnd' = [hnd EXCEPT ![h] = IF removed \/ hnd[h].had
                                     THEN [@ EXCEPT !.op = "cleaning"] ELSE Idle]
        /\ UNCHANGED <<up, jobs, pc, mem, pend, owner, accounts, dirs, told, gone, faults, crashes>>

DeleteRowFails(h) ==
    /\ LoopFree
    /\ hnd[h].op = "deleting"
    /\ Fault
    /\ hnd' = [hnd EXCEPT ![h] = Idle]
    /\ UNCHANGED <<up, jobs, pc, mem, pend, row, owner, accounts, dirs, told, gone, crashes>>

(* rmtree of the run directory, then the answer {"deleted": true}. *)
DeleteDir(h) ==
    LET j == hnd[h].job IN
    /\ LoopFree
    /\ hnd[h].op = "cleaning"
    /\ dirs' = dirs \ {j}
    /\ gone' = IF hnd[h].user = owner[j] THEN gone \cup {j} ELSE gone
    /\ hnd' = [hnd EXCEPT ![h] = Idle]
    /\ UNCHANGED <<up, jobs, pc, mem, pend, row, owner, accounts, told, faults, crashes>>

-----------------------------------------------------------------------------
(* DELETE /api/auth/me *)

(* Every job of the account that is in JOBS is cancelled and forgotten. *)
DeleteMeStart(h, u) ==
    LET inFlight == {j \in jobs : owner[j] = u} IN
    /\ LoopFree
    /\ hnd[h].op = "idle"
    /\ u \in accounts
    /\ mem' = [j \in Jobs |-> [mem[j] EXCEPT !.cancel = @ \/ (j \in inFlight /\ Stoppable(j))]]
    /\ jobs' = jobs \ inFlight
    /\ hnd' = [hnd EXCEPT ![h] = [Idle EXCEPT !.op = "wiping", !.user = u]]
    /\ UNCHANGED <<up, pc, pend, row, owner, accounts, dirs, told, gone, faults, crashes>>

(* db.all_job_ids_for_user, and rmtree of each directory it lists. *)
DeleteMeWipe(h) ==
    /\ LoopFree
    /\ hnd[h].op = "wiping"
    /\ dirs' = {j \in dirs : ~(HasRow(j) /\ owner[j] = hnd[h].user)}
    /\ hnd' = [hnd EXCEPT ![h].op = "closing"]
    /\ UNCHANGED <<up, jobs, pc, mem, pend, row, owner, accounts, told, gone, faults, crashes>>

(* db.delete_user: the foreign keys take the job rows along. *)
DeleteMeUser(h) ==
    LET u == hnd[h].user IN
    /\ LoopFree
    /\ hnd[h].op = "closing"
    /\ accounts' = accounts \ {u}
    /\ row' = [j \in Jobs |-> IF owner[j] = u THEN NoRow ELSE row[j]]
    /\ hnd' = [hnd EXCEPT ![h] = Idle]
    /\ UNCHANGED <<up, jobs, pc, mem, pend, owner, dirs, told, gone, faults, crashes>>

(* One of the statements of the handler raises; what was done stays done. *)
DeleteMeFails(h) ==
    /\ LoopFree
    /\ hnd[h].op \in {"wiping", "closing"}
    /\ Fault
    /\ hnd' = [hnd EXCEPT ![h] = Idle]
    /\ UNCHANGED <<up, jobs, pc, mem, pend, row, owner, accounts, dirs, told, gone, crashes>>

-----------------------------------------------------------------------------
(* GET /api/jobs/{id}/stream: the "end" event *)

(* gen() of a stream opened while the job was in JOBS (SseStream has it     *)
(* whole): it ends on a terminal status of the Job object.                  *)
LiveEnd(j) ==
    /\ LoopFree
    /\ pc[j] \in {"ending", "finished"}
    /\ told' = [told EXCEPT ![j] = @ \cup {mem[j].status}]
    /\ UNCHANGED <<up, jobs, pc, mem, pend, row, owner, accounts, dirs, hnd, gone, faults, crashes>>

(* Mutant: replay() does not look whether the job is still in memory. *)
ReplayAnyEnd(j) ==
    /\ LoopFree
    /\ HasRow(j)
    /\ owner[j] \in accounts
    /\ told' = [told EXCEPT ![j] = @ \cup {row[j].status}]
    /\ UNCHANGED <<up, jobs, pc, mem, pend, row, owner, accounts, dirs, hnd, gone, faults, crashes>>

(* replay(): no Job object, so the row is taken for a finished job. *)
ReplayEnd(j) ==
    /\ LoopFree
    /\ j \notin jobs
    /\ HasRow(j)
    /\ owner[j] \in accounts
    /\ told' = [told EXCEPT ![j] = @ \cup {row[j].status}]
    /\ UNCHANGED <<up, jobs, pc, mem, pend, row, owner, accounts, dirs, hnd, gone, faults, crashes>>

-----------------------------------------------------------------------------
(* The process *)

(* Everything in memory is lost; rows and directories stay. *)
Crash ==
    /\ up
    /\ crashes < MaxCrashes
    /\ crashes' = crashes + 1
    /\ up' = FALSE
    /\ jobs' = {}
    /\ pc' = [j \in Jobs |-> IF pc[j] = "none" THEN "none" ELSE "dead"]
    /\ mem' = [j \in Jobs |-> NewJob]
    /\ pend' = [j \in Jobs |-> {}]
    /\ hnd' = [h \in Handlers |-> Idle]
    /\ UNCHANGED <<row, owner, accounts, dirs, told, gone, faults>>

(* Mutant: the recovery of db.init forgets the queued rows. *)
OrphanRunning(j) == row[j].status = "running"

(* db.init: the orphans of the previous process become errors. *)
Orphan(j) == row[j].status \in Live

Restart ==
    /\ ~up
    /\ up' = TRUE
    /\ row' = [j \in Jobs |-> IF Orphan(j) THEN [row[j] EXCEPT !.status = "error"] ELSE row[j]]
    /\ UNCHANGED <<jobs, pc, mem, pend, owner, accounts, dirs, hnd, told, gone, faults, crashes>>

-----------------------------------------------------------------------------
Analyze(j) ==
    \/ \E u \in Users : AnalyzeAuth(j, u)
    \/ AnalyzeReject(j) \/ AnalyzeAccept(j)
    \/ AnalyzeInsert(j) \/ AnalyzeInsertFails(j) \/ AnalyzeSpawn(j)

RunJob(j) ==
    \/ RunStart(j) \/ RunStartWrite(j) \/ RunStartFails(j)
    \/ RunnerReturns(j) \/ RunDone(j) \/ RunnerRaises(j)
    \/ TerminalWrite(j) \/ TerminalWriteFails(j)

PhaseWrite(j) ==
    \E p \in Phase : RunnerPhase(j, p) \/ PhaseCommit(j, p) \/ PhaseFails(j, p)

Cancel(h) == CancelSet(h) \/ \E j \in Jobs : CancelLookup(h, j)

Delete(h) ==
    \/ \E u \in Users, j \in Jobs : DeleteStart(h, u, j)
    \/ DeleteRow(h) \/ DeleteRowFails(h) \/ DeleteDir(h)

DeleteMe(h) ==
    \/ \E u \in Users : DeleteMeStart(h, u)
    \/ DeleteMeWipe(h) \/ DeleteMeUser(h) \/ DeleteMeFails(h)

Observe(j) == LiveEnd(j) \/ ReplayEnd(j)

Next ==
    \/ \E j \in Jobs : Analyze(j) \/ RunJob(j) \/ PhaseWrite(j) \/ Observe(j)
    \/ \E h \in Handlers : Cancel(h) \/ Delete(h) \/ DeleteMe(h)
    \/ Crash
    \/ Restart

Spec == Init /\ [][Next]_lifeVars

(***************************************************************************)
(* Fairness.  The event loop runs every ready task and the database        *)
(* answers or raises, so a coroutine does not wait for ever at a           *)
(* statement; the process supervisor restarts a crashed server; the        *)
(* backend ends, by itself or stopped by its timeouts (BackendRunner says  *)
(* when).  Nothing obliges clients to send requests, a statement to fail   *)
(* or the process to crash.                                                *)
(***************************************************************************)
Fairness ==
    /\ \A j \in Jobs :
         /\ WF_lifeVars(AnalyzeReject(j) \/ AnalyzeAccept(j))
         /\ WF_lifeVars(AnalyzeInsert(j) \/ AnalyzeInsertFails(j))
         /\ WF_lifeVars(AnalyzeSpawn(j))
         /\ WF_lifeVars(RunStart(j))
         /\ WF_lifeVars(RunStartWrite(j) \/ RunStartFails(j))
         /\ WF_lifeVars(RunnerReturns(j) \/ RunDone(j) \/ RunnerRaises(j))
         /\ WF_lifeVars(TerminalWrite(j) \/ TerminalWriteFails(j))
         /\ \A p \in Phase : WF_lifeVars(PhaseCommit(j, p) \/ PhaseFails(j, p))
    /\ \A h \in Handlers :
         /\ WF_lifeVars(DeleteRow(h) \/ DeleteRowFails(h))
         /\ WF_lifeVars(DeleteDir(h))
         /\ WF_lifeVars(DeleteMeWipe(h) \/ DeleteMeUser(h) \/ DeleteMeFails(h))
    /\ WF_lifeVars(Restart)

FairSpec == Spec /\ Fairness

-----------------------------------------------------------------------------
(* What must hold *)

(* The row of a job goes through the lifecycle that JobContract promises.   *)
(* A row that is missing was never stored while analyze is still on its way *)
(* to the INSERT, and is removed afterwards.                                *)
jobRecord == [j \in Jobs |-> IF HasRow(j) THEN row[j].status
                            ELSE IF Known(j) THEN "removed" ELSE "unborn"]
jobResult == [j \in Jobs |-> row[j].result]

Contract == INSTANCE JobContract WITH record <- jobRecord, result <- jobResult

(* The contract as one formula for TLC: the abstract initial state, and     *)
(* every step of the server an abstract step or a stutter.                  *)
ContractSpec == Contract!Spec

(* A verdict in the table is final, with its phase, progress and result: no *)
(* late phase write and no restart touches it; it can only be deleted.      *)
TerminalRowFinal ==
    [][\A j \in Jobs : row[j].status \in Terminal => row'[j] \in {row[j], NoRow}]_lifeVars

(* A row has a result bundle exactly when it is done, and is then complete. *)
DoneRowComplete ==
    \A j \in Jobs :
        /\ row[j].result <=> row[j].status = "done"
        /\ row[j].status = "done" => row[j].phase = LastPhase /\ row[j].progress = Complete

(* The table never runs ahead of the Job object that it mirrors.            *)
RowBehindMemory ==
    \A j \in Jobs : pc[j] \in Working =>
        /\ row[j].phase <= mem[j].phase
        /\ row[j].progress <= mem[j].progress

(* When run_job has returned and no statement failed, the table says what   *)
(* the Job object says: a client reads the same from memory and from the    *)
(* row, whatever order the phase writes committed in.  An error keeps the   *)
(* phase that its writes happened to leave.                                 *)
RowMatchesMemory ==
    \A j \in Jobs : pc[j] = "finished" /\ HasRow(j) /\ faults = 0 =>
        /\ row[j].status = mem[j].status
        /\ row[j].status # "error" =>
             /\ row[j].phase = mem[j].phase
             /\ row[j].progress = mem[j].progress
             /\ row[j].result = mem[j].result

(* A row is pending only while a coroutine is on its way to settle it; the  *)
(* rows of a dead process are settled by the restart, before any request.   *)
LiveRowHasTask ==
    up /\ faults = 0 => \A j \in Jobs : row[j].status \in Live => pc[j] \in Working

(* A cancellation that arrived while the backend was running is not         *)
(* forgotten: the job can fail or be cancelled, but never ends as done.     *)
CancelWins ==
    \A j \in Jobs :
        [](mem[j].cancel /\ pc[j] = "streaming" => [](row[j].status # "done"))

(* A job that a delete took out of JOBS before it ended has been told to    *)
(* stop: no run goes on at full length for a job nobody can reach.          *)
ForgottenRunIsStopping ==
    \A j \in Jobs :
        pc[j] \in {"inserting", "inserted", "spawned", "starting", "streaming"}
            => j \in jobs \/ mem[j].cancel

(* Every stored job settles: its row does not stay queued or running.       *)
Settles == \A j \in Jobs : row[j].status \in Live ~> row[j].status \notin Live

(* The verdict sent to a client in an "end" event is the only one any       *)
(* client is ever sent, from memory or from the row.                        *)
OneVerdict == \A j \in Jobs : \A s, t \in told[j] \cap Terminal : s = t

(* It holds as long as no statement fails and the process does not crash. *)
VerdictNeverRevised == faults = 0 /\ crashes = 0 => OneVerdict

(* An "end" event without a verdict is sent only for a job that was deleted *)
(* meanwhile, and that was told to stop or had come to its end by then.     *)
EarlyEndMeansDeleted ==
    \A j \in Jobs : told[j] \cap Live # {} =>
        j \notin jobs /\ (mem[j].cancel \/ pc[j] \in {"ending", "finished", "dead"})

(* A finished job survives a crash: what "end" said of it is what a client  *)
(* is told after the restart, statements failing or not.                    *)
FinishedJobsSurvive == faults = 0 => OneVerdict

(* A job whose deletion was answered leaves no run directory.               *)
DeletedDirStaysGone == gone \cap dirs = {}

(* No uncancelled run goes on for an account that was deleted.              *)
TeardownStopsRuns ==
    \A j \in Jobs :
        pc[j] \in {"spawned", "starting", "streaming"} /\ owner[j] \notin accounts
            => mem[j].cancel

-----------------------------------------------------------------------------
(* The inductive invariant behind the theorems of JobLifecycle_proofs *)

(* Where the coroutine stands decides the status of the Job object. *)
StatusAgrees(j) ==
    /\ pc[j] \in {"inserting", "inserted", "spawned"} => mem[j].status = "queued"
    /\ pc[j] \in {"starting", "streaming", "finishing"} => mem[j].status = "running"
    /\ pc[j] \in {"ending", "finished"} => mem[j].status \in Terminal

(* ... and, of the rows that were not deleted, the status of the row. *)
RowAgrees(j) ==
    /\ pc[j] \in {"none", "uploading", "inserting"} => ~HasRow(j)
    /\ pc[j] \in {"inserted", "spawned", "starting"} /\ HasRow(j) => row[j].status = "queued"
    /\ pc[j] \in {"streaming", "finishing", "ending"} /\ HasRow(j) => row[j].status = "running"
    /\ ~HasRow(j) => row[j] = NoRow

(* Phase writes are in flight only between the first and the last write of  *)
(* run_job, and carry phases that the Job object has reached.               *)
WritesInSpan(j) ==
    /\ pend[j] # {} => pc[j] \in {"streaming", "finishing", "ending"}
    /\ \A p \in pend[j] : p <= mem[j].phase /\ p <= mem[j].progress

ProgressAgrees(j) ==
    /\ pc[j] \in {"inserting", "inserted", "spawned", "starting", "streaming", "finishing"}
          => mem[j].progress = mem[j].phase
    /\ pc[j] = "ending" /\ mem[j].status = "done"
          => mem[j].phase = LastPhase /\ mem[j].progress = Complete

RequestsSane ==
    \A h \in Handlers :
        hnd[h].op \in {"cancelling", "deleting", "cleaning"} => hnd[h].job \in Jobs

DownMeansDead == ~up => \A j \in Jobs : pc[j] \in {"none", "dead"}

LifecycleInv ==
    /\ RequestsSane
    /\ DownMeansDead
    /\ \A j \in Jobs : StatusAgrees(j) /\ RowAgrees(j) /\ WritesInSpan(j) /\ ProgressAgrees(j)
    /\ DoneRowComplete
    /\ RowBehindMemory
    /\ LiveRowHasTask
    /\ ForgottenRunIsStopping

=============================================================================
