------------------------ MODULE JobLifecycle_proofs ------------------------
(***************************************************************************)
(* Theorems about JobLifecycle for any set of jobs, accounts and requests, *)
(* any number of phases, failing statements and crashes.                   *)
(***************************************************************************)
EXTENDS JobLifecycle, TLAPS

(* The sets a state is typed with, and the values new records are built of. *)
LEMMA States ==
    /\ NewJob \in JobObject
    /\ NoRow \in JobRow
    /\ NewRow \in JobRow
    /\ Idle \in Request
    /\ 0 \in Phase /\ LastPhase \in Phase
    /\ Complete \in Progress
    /\ Phase \subseteq Progress
    /\ Phase \subseteq Nat /\ Progress \subseteq Nat
BY LifecycleAssumption
   DEF NewJob, NoRow, NewRow, Idle, JobObject, JobRow, Request, Phase, Progress,
       Complete, Status, Live, Terminal

(* Updating one field of a row keeps it a row. *)
LEMMA RowUpdates ==
    ASSUME TypeOK, NEW j \in Jobs, NEW r \in JobRow
    PROVE  Stored(j, r) \in [Jobs -> JobRow]
BY DEF Stored, TypeOK

(* Updating the status of a Job object keeps it a Job object. *)
LEMMA ObjectUpdates ==
    ASSUME TypeOK, NEW j \in Jobs, NEW s \in Status
    PROVE  /\ [mem[j] EXCEPT !.status = s] \in JobObject
           /\ [mem EXCEPT ![j].status = s] \in [Jobs -> JobObject]
<1>1. [mem[j] EXCEPT !.status = s] \in JobObject
  BY DEF TypeOK, JobObject
<1>2. [mem EXCEPT ![j].status = s] = [mem EXCEPT ![j] = [mem[j] EXCEPT !.status = s]]
  BY DEF TypeOK
<1> QED BY <1>1, <1>2 DEF TypeOK

(* The steps of the upload handler keep the types. *)
LEMMA TypeAnalyze ==
    ASSUME TypeOK, NEW j \in Jobs, Analyze(j)
    PROVE  TypeOK'
<1>1. ASSUME NEW u \in Users, AnalyzeAuth(j, u) PROVE TypeOK'
  BY <1>1 DEF AnalyzeAuth, At, Goto, TypeOK, Control
<1>2. CASE AnalyzeReject(j)
  BY <1>2 DEF AnalyzeReject, At, Goto, TypeOK, Control
<1>3. CASE AnalyzeAccept(j)
  BY <1>3, States DEF AnalyzeAccept, At, Goto, TypeOK, Control
<1>4. CASE AnalyzeInsert(j)
  BY <1>4, States DEF AnalyzeInsert, At, Goto, TypeOK, Control
<1>5. CASE AnalyzeInsertFails(j)
  BY <1>5 DEF AnalyzeInsertFails, Fault, At, Goto, TypeOK, Control
<1>6. CASE AnalyzeSpawn(j)
  BY <1>6 DEF AnalyzeSpawn, At, Goto, TypeOK, Control
<1> QED BY <1>1, <1>2, <1>3, <1>4, <1>5, <1>6 DEF Analyze

(* The steps of run_job keep the types. *)
LEMMA TypeRunJob ==
    ASSUME TypeOK, NEW j \in Jobs, RunJob(j)
    PROVE  TypeOK'
<1>0. /\ mem[j] \in JobObject
      /\ row[j] \in JobRow
  BY DEF TypeOK
<1>1. CASE RunStart(j)
  BY <1>1 DEF RunStart, At, Goto, TypeOK, Control, JobObject, Status, Live
<1>2. Started(j) \in [Jobs -> JobRow]
  BY <1>0, RowUpdates DEF Started, JobRow, Status, Live
<1>3. CASE RunStartWrite(j)
  BY <1>3, <1>2 DEF RunStartWrite, At, Goto, TypeOK, Control
<1>4. CASE RunStartFails(j)
  BY <1>4, <1>2 DEF RunStartFails, Fault, At, Goto, TypeOK, Control
<1>5. CASE RunnerReturns(j)
  <2>1. CASE mem[j].cancel
    BY <1>5, <2>1, ObjectUpdates DEF RunnerReturns, Goto, TypeOK, Control, Status, Terminal
  <2>2. CASE ~mem[j].cancel
    BY <1>5, <2>2 DEF RunnerReturns, At, Goto, TypeOK, Control
  <2> QED BY <2>1, <2>2
<1>6. CASE RunDone(j)
  <2>1. [mem[j] EXCEPT !.status = "done", !.phase = LastPhase,
                       !.progress = Complete, !.result = TRUE] \in JobObject
    BY <1>0, States DEF JobObject, Status, Terminal
  <2>2. mem' \in [Jobs -> JobObject]
    BY <1>6, <2>1 DEF RunDone, TypeOK
  <2>3. pc' \in [Jobs -> Control]
    BY <1>6 DEF RunDone, Goto, TypeOK, Control
  <2> QED BY <1>6, <2>2, <2>3 DEF RunDone, TypeOK
<1>7. CASE RunnerRaises(j)
  BY <1>7 DEF RunnerRaises, Goto, TypeOK, Control, JobObject, Status, Terminal
<1>8. Verdict(j) \in JobRow
  BY <1>0, States DEF Verdict, JobRow, JobObject, Status, Terminal
<1>9. CASE TerminalWrite(j)
  BY <1>9, <1>8, RowUpdates DEF TerminalWrite, At, Goto, TypeOK, Control
<1>10. CASE TerminalWriteFails(j)
  <2>1. CASE mem[j].status = "error"
    BY <1>10, <2>1 DEF TerminalWriteFails, Fault, At, Goto, TypeOK, Control
  <2>2. CASE mem[j].status # "error"
    <3>1. [mem EXCEPT ![j].status = "error"] \in [Jobs -> JobObject]
      BY ObjectUpdates DEF Status, Terminal
    <3> QED BY <1>10, <2>2, <3>1 DEF TerminalWriteFails, Fault, TypeOK
  <2> QED BY <2>1, <2>2
<1> QED BY <1>1, <1>3, <1>4, <1>5, <1>6, <1>7, <1>9, <1>10 DEF RunJob

(* Reporting a phase and the fate of its write keep the types. *)
LEMMA TypePhaseWrite ==
    ASSUME TypeOK, NEW j \in Jobs, PhaseWrite(j)
    PROVE  TypeOK'
<1>0. PICK p \in Phase : RunnerPhase(j, p) \/ PhaseCommit(j, p) \/ PhaseFails(j, p)
  BY DEF PhaseWrite
<1>1. CASE RunnerPhase(j, p)
  <2>1. [mem[j] EXCEPT !.phase = p, !.progress = p] \in JobObject
    BY States DEF TypeOK, JobObject
  <2> QED BY <1>1, <2>1 DEF RunnerPhase, TypeOK
<1>2. CASE PhaseCommit(j, p)
  <2>1. [row[j] EXCEPT !.phase = p, !.progress = p] \in JobRow
    BY States DEF TypeOK, JobRow
  <2> QED BY <1>2, <2>1, RowUpdates DEF PhaseCommit, TypeOK
<1>3. CASE PhaseFails(j, p)
  BY <1>3 DEF PhaseFails, Fault, TypeOK
<1> QED BY <1>0, <1>1, <1>2, <1>3

(* The cancel, delete and delete-account requests keep the types. *)
LEMMA TypeRequests ==
    ASSUME TypeOK, RequestsSane, NEW h \in Handlers, Cancel(h) \/ Delete(h) \/ DeleteMe(h)
    PROVE  TypeOK'
<1>1. ASSUME NEW j \in Jobs, CancelLookup(h, j) PROVE TypeOK'
  <2>1. [Idle EXCEPT !.op = "cancelling", !.job = j, !.user = owner[j]] \in Request
    BY DEF Idle, Request, TypeOK
  <2> QED BY <1>1, <2>1 DEF CancelLookup, TypeOK
<1>2. CASE CancelSet(h)
  BY <1>2, States DEF CancelSet, TypeOK, JobObject
<1>3. ASSUME NEW u \in Users, NEW j \in Jobs, DeleteStart(h, u, j) PROVE TypeOK'
  <2>1. [op |-> "deleting", job |-> j, user |-> u, had |-> j \in jobs] \in Request
    BY DEF Request
  <2>2. hnd' \in [Handlers -> Request]
    BY <1>3, <2>1 DEF DeleteStart, TypeOK
  <2>3. CASE j \in jobs /\ owner[j] = u
    <3>1. [mem[j] EXCEPT !.cancel = @ \/ Stoppable(j)] \in JobObject
      BY DEF TypeOK, JobObject, Stoppable
    <3>2. mem' = [mem EXCEPT ![j] = [mem[j] EXCEPT !.cancel = @ \/ Stoppable(j)]]
      BY <1>3, <2>3 DEF DeleteStart, TypeOK
    <3> QED BY <1>3, <2>2, <2>3, <3>1, <3>2 DEF DeleteStart, TypeOK
  <2>4. CASE ~(j \in jobs /\ owner[j] = u)
    BY <1>3, <2>2, <2>4 DEF DeleteStart, TypeOK
  <2> QED BY <2>3, <2>4
<1>4. CASE DeleteRow(h)
  <2>1. row' \in [Jobs -> JobRow]
    BY <1>4, States DEF DeleteRow, TypeOK
  <2>2. hnd' \in [Handlers -> Request]
    BY <1>4, States DEF DeleteRow, TypeOK, Request
  <2> QED BY <1>4, <2>1, <2>2 DEF DeleteRow, TypeOK
<1>5. CASE DeleteRowFails(h)
  BY <1>5, States DEF DeleteRowFails, Fault, TypeOK
<1>6. CASE DeleteDir(h)
  <2>1. gone' \subseteq Jobs
    <3>1. hnd[h].job \in Jobs
      BY <1>6 DEF DeleteDir, RequestsSane
    <3> QED BY <1>6, <3>1 DEF DeleteDir, TypeOK
  <2> QED BY <1>6, <2>1, States DEF DeleteDir, TypeOK
<1>7. ASSUME NEW u \in Users, DeleteMeStart(h, u) PROVE TypeOK'
  <2>1. mem' \in [Jobs -> JobObject]
    BY <1>7 DEF DeleteMeStart, TypeOK, JobObject
  <2>2. [Idle EXCEPT !.op = "wiping", !.user = u] \in Request
    BY DEF Idle, Request
  <2> QED BY <1>7, <2>1, <2>2 DEF DeleteMeStart, TypeOK
<1>8. CASE DeleteMeWipe(h)
  BY <1>8 DEF DeleteMeWipe, TypeOK, Request
<1>9. CASE DeleteMeUser(h)
  BY <1>9, States DEF DeleteMeUser, TypeOK
<1>10. CASE DeleteMeFails(h)
  BY <1>10, States DEF DeleteMeFails, Fault, TypeOK
<1> QED BY <1>1, <1>2, <1>3, <1>4, <1>5, <1>6, <1>7, <1>8, <1>9, <1>10
        DEF Cancel, Delete, DeleteMe

(* So do the ends of streams, a crash and a restart. *)
LEMMA TypeRest ==
    ASSUME TypeOK, (\E j \in Jobs : Observe(j)) \/ Crash \/ Restart
    PROVE  TypeOK'
<1>1. ASSUME NEW j \in Jobs, Observe(j) PROVE TypeOK'
  <2>1. CASE LiveEnd(j)
    BY <2>1 DEF LiveEnd, TypeOK, JobObject
  <2>2. CASE ReplayEnd(j)
    BY <2>2 DEF ReplayEnd, HasRow, TypeOK, JobRow
  <2> QED BY <1>1, <2>1, <2>2 DEF Observe
<1>2. CASE Crash
  <2>1. pc' \in [Jobs -> Control]
    BY <1>2 DEF Crash, TypeOK, Control
  <2>2. mem' \in [Jobs -> JobObject] /\ pend' \in [Jobs -> SUBSET Phase]
    BY <1>2, States DEF Crash, TypeOK
  <2>3. hnd' \in [Handlers -> Request]
    BY <1>2, States DEF Crash, TypeOK
  <2>4. up' = FALSE /\ jobs' = {} /\ crashes' = crashes + 1
    BY <1>2 DEF Crash
  <2>5. crashes' \in Nat
    BY <2>4 DEF TypeOK
  <2>6. UNCHANGED <<row, owner, accounts, dirs, told, gone, faults>>
    BY <1>2 DEF Crash
  <2> QED BY <2>1, <2>2, <2>3, <2>4, <2>5, <2>6 DEF TypeOK
<1>3. CASE Restart
  BY <1>3 DEF Restart, TypeOK, JobRow, Status, Terminal
<1> QED BY <1>1, <1>2, <1>3

(* A request that names a job names one of Jobs. *)
LEMMA RequestsStep ==
    ASSUME TypeOK, RequestsSane, [Next]_lifeVars
    PROVE  RequestsSane'
<1>1. ASSUME UNCHANGED hnd PROVE RequestsSane'
  BY <1>1 DEF RequestsSane
<1>2. ASSUME NEW h \in Handlers, Cancel(h) \/ Delete(h) \/ DeleteMe(h) PROVE RequestsSane'
  <2>1. ASSUME NEW r, hnd' = [hnd EXCEPT ![h] = r],
               r.op \in {"cancelling", "deleting", "cleaning"} => r.job \in Jobs
        PROVE  RequestsSane'
    BY <2>1 DEF RequestsSane, TypeOK
  <2>2. ASSUME hnd' = [hnd EXCEPT ![h] = Idle] PROVE RequestsSane'
    BY <2>1, <2>2 DEF Idle
  <2>3. ASSUME NEW j \in Jobs, CancelLookup(h, j) PROVE RequestsSane'
    BY <2>3, <2>1 DEF CancelLookup, Idle
  <2>4. ASSUME NEW u \in Users, NEW j \in Jobs, DeleteStart(h, u, j) PROVE RequestsSane'
    BY <2>4, <2>1 DEF DeleteStart
  <2>5. CASE DeleteRow(h)
    <3>1. hnd[h].job \in Jobs /\ hnd[h] \in Request
      BY <2>5 DEF DeleteRow, RequestsSane, TypeOK
    <3>2. [hnd[h] EXCEPT !.op = "cleaning"].job = hnd[h].job
      BY <3>1 DEF Request
    <3>3. CASE hnd' = [hnd EXCEPT ![h] = [hnd[h] EXCEPT !.op = "cleaning"]]
      BY <3>1, <3>2, <3>3, <2>1
    <3> QED BY <2>5, <2>2, <3>3 DEF DeleteRow
  <2>6. ASSUME NEW u \in Users, DeleteMeStart(h, u) PROVE RequestsSane'
    BY <2>6, <2>1 DEF DeleteMeStart, Idle
  <2>7. CASE DeleteMeWipe(h)
    <3>1. hnd' = [hnd EXCEPT ![h] = [hnd[h] EXCEPT !.op = "closing"]]
      BY <2>7 DEF DeleteMeWipe
    <3>2. [hnd[h] EXCEPT !.op = "closing"].op = "closing"
      BY DEF TypeOK, Request
    <3> QED BY <3>1, <3>2, <2>1
  <2> QED BY <1>2, <2>2, <2>3, <2>4, <2>5, <2>6, <2>7
          DEF Cancel, CancelSet, Delete, DeleteRowFails, DeleteDir, DeleteMe, DeleteMeUser,
              DeleteMeFails
<1>3. CASE Crash
  BY <1>3 DEF Crash, RequestsSane, Idle
<1>4. ASSUME NEW j \in Jobs, Analyze(j) \/ RunJob(j) \/ PhaseWrite(j) \/ Observe(j)
      PROVE  UNCHANGED hnd
  BY <1>4 DEF Analyze, AnalyzeAuth, AnalyzeReject, AnalyzeAccept, AnalyzeInsert,
             AnalyzeInsertFails, AnalyzeSpawn, RunJob, RunStart, RunStartWrite, RunStartFails,
             RunnerReturns, RunDone, RunnerRaises, TerminalWrite, TerminalWriteFails,
             PhaseWrite, RunnerPhase, PhaseCommit, PhaseFails, Observe, LiveEnd, ReplayEnd
<1>5. CASE Restart
  BY <1>5, <1>1 DEF Restart
<1>6. CASE UNCHANGED lifeVars
  BY <1>6, <1>1 DEF lifeVars
<1> QED BY <1>1, <1>2, <1>3, <1>4, <1>5, <1>6 DEF Next

(* Every variable keeps its type in every behaviour, crashes included. *)
THEOREM TypeCorrect == Spec => []TypeOK
<1>1. Init => TypeOK /\ RequestsSane
  BY States DEF Init, TypeOK, Control, RequestsSane, Idle
<1>2. TypeOK /\ RequestsSane /\ [Next]_lifeVars => TypeOK' /\ RequestsSane'
  <2>1. TypeOK /\ UNCHANGED lifeVars => TypeOK'
    BY DEF lifeVars, TypeOK
  <2> QED BY <2>1, TypeAnalyze, TypeRunJob, TypePhaseWrite, TypeRequests, TypeRest, RequestsStep DEF Next
<1> QED BY <1>1, <1>2, PTL DEF Spec

-----------------------------------------------------------------------------
(* The invariant of one job: the conjuncts of LifecycleInv that speak of it. *)
JobInv(k) ==
    /\ ~up => pc[k] \in {"none", "dead"}
    /\ StatusAgrees(k)
    /\ RowAgrees(k)
    /\ WritesInSpan(k)
    /\ ProgressAgrees(k)
    /\ row[k].result <=> row[k].status = "done"
    /\ row[k].status = "done" => row[k].phase = LastPhase /\ row[k].progress = Complete
    /\ pc[k] \in Working => row[k].phase <= mem[k].phase /\ row[k].progress <= mem[k].progress
    /\ up /\ faults = 0 /\ row[k].status \in Live => pc[k] \in Working
    /\ pc[k] \in {"inserting", "inserted", "spawned", "starting", "streaming"}
          => k \in jobs \/ mem[k].cancel

(* The invariant, job by job. *)
LEMMA PerJob == LifecycleInv <=> RequestsSane /\ \A k \in Jobs : JobInv(k)
BY DEF LifecycleInv, JobInv, DownMeansDead, DoneRowComplete, RowBehindMemory, LiveRowHasTask,
       ForgottenRunIsStopping

(* What one job's invariant reads. *)
SameJob(k) ==
    /\ pc'[k] = pc[k] /\ mem'[k] = mem[k] /\ pend'[k] = pend[k] /\ row'[k] = row[k]
    /\ (k \in jobs') <=> (k \in jobs)
    /\ up' = up
    /\ faults' = faults \/ faults' = faults + 1

(* A step that leaves a job alone keeps its invariant. *)
LEMMA Untouched ==
    ASSUME TypeOK, NEW k \in Jobs, JobInv(k), SameJob(k)
    PROVE  JobInv(k)'
<1>1. faults' = 0 => faults = 0
  BY DEF SameJob, TypeOK
<1> QED BY <1>1 DEF JobInv, SameJob, StatusAgrees, RowAgrees, WritesInSpan, ProgressAgrees, HasRow

(* The upload handler keeps the invariant of its job. *)
LEMMA InvAnalyze ==
    ASSUME TypeOK, NEW j \in Jobs, JobInv(j), Analyze(j)
    PROVE  JobInv(j)'
<1> USE DEF JobInv, StatusAgrees, RowAgrees, WritesInSpan, ProgressAgrees, HasRow, Working, Live
<1>1. ASSUME NEW u \in Users, AnalyzeAuth(j, u) PROVE JobInv(j)'
  BY <1>1 DEF AnalyzeAuth, At, Goto, LoopFree, TypeOK
<1>2. CASE AnalyzeReject(j)
  BY <1>2 DEF AnalyzeReject, At, Goto, LoopFree, TypeOK
<1>3. CASE AnalyzeAccept(j)
  BY <1>3 DEF AnalyzeAccept, At, Goto, LoopFree, NewJob, TypeOK
<1>4. CASE AnalyzeInsert(j)
  <2>1. /\ pc[j] = "inserting" /\ up
        /\ pc'[j] = "inserted" /\ row'[j] = NewRow
        /\ UNCHANGED <<up, jobs, mem, pend, faults>>
    BY <1>4 DEF AnalyzeInsert, At, Goto, LoopFree, TypeOK
  <2>2. mem[j] \in JobObject /\ pend[j] \subseteq Phase
    BY DEF TypeOK
  <2>3. mem[j].phase \in Nat /\ mem[j].progress \in Nat
    BY <2>2, States DEF JobObject
  <2> QED BY <2>1, <2>3 DEF NewRow
<1>5. CASE AnalyzeInsertFails(j)
  <2>1. /\ pc[j] = "inserting" /\ up
        /\ pc'[j] = "dead"
        /\ UNCHANGED <<up, mem, pend, row, jobs>>
    BY <1>5 DEF AnalyzeInsertFails, At, Goto, LoopFree, TypeOK
  <2> QED BY <2>1
<1>6. CASE AnalyzeSpawn(j)
  BY <1>6 DEF AnalyzeSpawn, At, Goto, LoopFree, TypeOK
<1> QED BY <1>1, <1>2, <1>3, <1>4, <1>5, <1>6 DEF Analyze

(* run_job keeps the invariant of its job. *)
LEMMA InvRunJob ==
    ASSUME TypeOK, NEW j \in Jobs, JobInv(j), RunJob(j)
    PROVE  JobInv(j)'
<1> USE DEF JobInv, StatusAgrees, RowAgrees, WritesInSpan, ProgressAgrees, HasRow, Working, Live
<1>0. mem[j] \in JobObject /\ row[j] \in JobRow
  BY DEF TypeOK
<1>1. CASE RunStart(j)
  BY <1>0, <1>1 DEF RunStart, At, Goto, LoopFree, TypeOK, JobObject
<1>2. CASE RunStartWrite(j)
  BY <1>0, <1>2 DEF RunStartWrite, Started, Stored, At, Goto, LoopFree, TypeOK, JobRow
<1>3. CASE RunStartFails(j)
  BY <1>0, <1>3 DEF RunStartFails, Started, Stored, At, Goto, LoopFree, Fault, TypeOK, JobRow
<1>4. CASE RunnerReturns(j)
  <2>0. /\ pc[j] = "streaming" /\ up
        /\ UNCHANGED <<up, jobs, pend, row, faults>>
    BY <1>4 DEF RunnerReturns, At, LoopFree
  <2>1. CASE mem[j].cancel
    <3>1. pc'[j] = "ending" /\ mem'[j] = [mem[j] EXCEPT !.status = "cancelled"]
      BY <1>4, <2>1 DEF RunnerReturns, Goto, TypeOK
    <3> QED BY <1>0, <2>0, <3>1 DEF JobObject, Terminal
  <2>2. CASE ~mem[j].cancel
    <3>1. pc'[j] = "finishing" /\ mem'[j] = mem[j]
      BY <1>4, <2>2 DEF RunnerReturns, Goto, TypeOK
    <3> QED BY <1>0, <2>0, <3>1
  <2> QED BY <2>1, <2>2
<1>5. CASE RunDone(j)
  <2>1. /\ pc[j] = "finishing" /\ up
        /\ pc'[j] = "ending"
        /\ mem'[j] = [mem[j] EXCEPT !.status = "done", !.phase = LastPhase,
                                    !.progress = Complete, !.result = TRUE]
        /\ UNCHANGED <<up, jobs, pend, row, faults>>
    BY <1>5 DEF RunDone, Goto, TypeOK
  <2>2. mem'[j].status = "done" /\ mem'[j].phase = LastPhase /\ mem'[j].progress = Complete
    BY <1>0, <2>1 DEF JobObject
  <2>3. /\ row[j].phase <= LastPhase /\ row[j].progress <= Complete
        /\ \A p \in pend[j] : p <= LastPhase /\ p <= Complete
    BY <1>0, LifecycleAssumption DEF JobRow, TypeOK, Phase, Progress, Complete
  <2> QED BY <2>1, <2>2, <2>3 DEF Terminal
<1>6. CASE RunnerRaises(j)
  <2>1. /\ pc[j] \in {"streaming", "finishing"} /\ up
        /\ pc'[j] = "ending" /\ mem'[j] = [mem[j] EXCEPT !.status = "error"]
        /\ UNCHANGED <<up, jobs, pend, row, faults>>
    BY <1>6 DEF RunnerRaises, At, Goto, TypeOK
  <2> QED BY <1>0, <2>1 DEF JobObject, Terminal
<1>7. CASE TerminalWrite(j)
  <2>1. /\ pc[j] = "ending" /\ up /\ pend[j] = {}
        /\ pc'[j] = "finished"
        /\ row'[j] = IF HasRow(j) THEN Verdict(j) ELSE row[j]
        /\ UNCHANGED <<up, jobs, mem, pend, faults>>
    BY <1>7 DEF TerminalWrite, Drained, Stored, At, Goto, LoopFree, TypeOK
  <2>2. CASE HasRow(j)
    <3>1. row[j].status = "running" /\ ~row[j].result
      BY <2>1, <2>2, <1>0 DEF JobRow
    <3>2. /\ Verdict(j).status \in Terminal
          /\ Verdict(j).result <=> Verdict(j).status = "done"
          /\ Verdict(j).status = "done"
               => Verdict(j).phase = LastPhase /\ Verdict(j).progress = Complete
      BY <1>0, <3>1 DEF Verdict, JobRow, Terminal
    <3> QED BY <2>1, <2>2, <3>2 DEF Terminal
  <2>3. CASE ~HasRow(j)
    BY <2>1, <2>3
  <2> QED BY <2>2, <2>3
<1>8. CASE TerminalWriteFails(j)
  <2>0. /\ pc[j] = "ending" /\ up /\ pend[j] = {}
        /\ faults' # 0
        /\ UNCHANGED <<up, jobs, pend, row>>
    BY <1>8 DEF TerminalWriteFails, Drained, At, LoopFree, Fault, TypeOK
  <2>1. CASE mem[j].status = "error"
    <3>1. pc'[j] = "finished" /\ mem'[j] = mem[j]
      BY <1>8, <2>1 DEF TerminalWriteFails, Goto, TypeOK
    <3> QED BY <2>0, <3>1
  <2>2. CASE mem[j].status # "error"
    <3>1. pc'[j] = "ending" /\ mem'[j] = [mem[j] EXCEPT !.status = "error"]
      BY <1>8, <2>2, <2>0 DEF TerminalWriteFails, TypeOK
    <3> QED BY <1>0, <2>0, <3>1 DEF JobObject, Terminal
  <2> QED BY <2>1, <2>2
<1> QED BY <1>1, <1>2, <1>3, <1>4, <1>5, <1>6, <1>7, <1>8 DEF RunJob

(* Phase writes keep the invariant of their job, whenever they commit. *)
LEMMA InvPhaseWrite ==
    ASSUME TypeOK, NEW j \in Jobs, JobInv(j), PhaseWrite(j)
    PROVE  JobInv(j)'
<1> USE DEF JobInv, StatusAgrees, RowAgrees, WritesInSpan, ProgressAgrees, HasRow, Working, Live
<1>0. PICK p \in Phase : RunnerPhase(j, p) \/ PhaseCommit(j, p) \/ PhaseFails(j, p)
  BY DEF PhaseWrite
<1>1. /\ mem[j] \in JobObject /\ row[j] \in JobRow /\ pend[j] \subseteq Phase
      /\ p \in Nat /\ mem[j].phase \in Nat /\ mem[j].progress \in Nat
      /\ row[j].phase \in Nat /\ row[j].progress \in Nat /\ pend[j] \subseteq Nat
  BY States DEF TypeOK, JobObject, JobRow
<1>2. CASE RunnerPhase(j, p)
  <2>1. /\ pc[j] = "streaming" /\ up /\ p > mem[j].phase
        /\ mem'[j].phase = p /\ mem'[j].progress = p
        /\ mem'[j].status = mem[j].status /\ mem'[j].cancel = mem[j].cancel
        /\ pend'[j] = pend[j] \cup {p}
        /\ UNCHANGED <<up, jobs, pc, row, faults>>
    BY <1>1, <1>2 DEF RunnerPhase, At, LoopFree, TypeOK, JobObject
  <2>2. /\ \A q \in pend'[j] : q <= p
        /\ row[j].phase <= p /\ row[j].progress <= p
    BY <1>1, <2>1
  <2> QED BY <1>1, <2>1, <2>2
<1>3. CASE PhaseCommit(j, p)
  <2>1. /\ pc[j] \in {"streaming", "finishing", "ending"} /\ up
        /\ p <= mem[j].phase /\ p <= mem[j].progress
        /\ pend'[j] = pend[j] \ {p}
        /\ row'[j] = IF HasRow(j) THEN [row[j] EXCEPT !.phase = p, !.progress = p] ELSE row[j]
        /\ UNCHANGED <<up, jobs, pc, mem, faults>>
    BY <1>1, <1>3 DEF PhaseCommit, Stored, LoopFree, TypeOK
  <2>2. CASE HasRow(j)
    <3>1. /\ row'[j].status = "running" /\ row'[j].result = row[j].result
          /\ row'[j].phase = p /\ row'[j].progress = p
      BY <1>1, <2>1, <2>2 DEF JobRow
    <3> QED BY <1>1, <2>1, <2>2, <3>1
  <2>3. CASE ~HasRow(j)
    BY <2>1, <2>3
  <2> QED BY <2>2, <2>3
<1>4. CASE PhaseFails(j, p)
  <2>1. /\ pend'[j] = pend[j] \ {p} /\ p \in pend[j]
        /\ faults' # 0
        /\ UNCHANGED <<up, jobs, pc, mem, row>>
    BY <1>4 DEF PhaseFails, Fault, TypeOK
  <2> QED BY <2>1
<1> QED BY <1>0, <1>2, <1>3, <1>4

(* The steps of one job's coroutine leave every other job alone. *)
LEMMA OthersUntouched ==
    ASSUME TypeOK, NEW j \in Jobs, NEW k \in Jobs, k # j,
           Analyze(j) \/ RunJob(j) \/ PhaseWrite(j) \/ Observe(j)
    PROVE  SameJob(k)
<1> USE DEF SameJob, TypeOK, Goto, Stored, Fault
<1>1. CASE Analyze(j)
  BY <1>1 DEF Analyze, AnalyzeAuth, AnalyzeReject, AnalyzeAccept, AnalyzeInsert,
             AnalyzeInsertFails, AnalyzeSpawn
<1>2. CASE RunJob(j)
  BY <1>2 DEF RunJob, RunStart, RunStartWrite, RunStartFails, Started, RunnerReturns, RunDone,
             RunnerRaises, TerminalWrite, TerminalWriteFails
<1>3. CASE PhaseWrite(j)
  BY <1>3 DEF PhaseWrite, RunnerPhase, PhaseCommit, PhaseFails
<1>4. CASE Observe(j)
  BY <1>4 DEF Observe, LiveEnd, ReplayEnd
<1> QED BY <1>1, <1>2, <1>3, <1>4

(* What a cancel, a delete or an account deletion may do to a job: set its  *)
(* cancel event, drop it from JOBS once it is told to stop, drop its row.   *)
Reclaimed(k) ==
    /\ pc'[k] = pc[k] /\ pend'[k] = pend[k] /\ up' = up
    /\ \E c \in BOOLEAN : mem'[k] = [mem[k] EXCEPT !.cancel = c] /\ (mem[k].cancel => c)
    /\ row'[k] \in {row[k], NoRow}
    /\ k \in jobs => k \in jobs' \/ (mem[k].status \in Live => mem'[k].cancel)
    /\ faults' = faults \/ faults' = faults + 1

(* What the requests do to a job keeps its invariant. *)
LEMMA ReclaimedKeeps ==
    ASSUME TypeOK, NEW k \in Jobs, JobInv(k), Reclaimed(k)
    PROVE  JobInv(k)'
<1>1. /\ mem[k] \in JobObject /\ faults \in Nat
      /\ mem[k].phase \in Nat /\ mem[k].progress \in Nat
  BY States DEF TypeOK, JobObject
<1>2. /\ mem'[k].status = mem[k].status /\ mem'[k].phase = mem[k].phase
      /\ mem'[k].progress = mem[k].progress
      /\ mem[k].cancel => mem'[k].cancel
  BY <1>1 DEF Reclaimed, JobObject
<1>3. pc[k] \in {"inserting", "inserted", "spawned", "starting", "streaming"}
        => mem[k].status \in Live
  BY DEF JobInv, StatusAgrees, Live
<1>4. faults' = 0 => faults = 0
  BY <1>1 DEF Reclaimed
<1>5. CASE row'[k] = row[k]
  BY <1>2, <1>3, <1>4, <1>5
     DEF Reclaimed, JobInv, StatusAgrees, RowAgrees, WritesInSpan, ProgressAgrees, HasRow
<1>6. CASE row'[k] = NoRow
  BY <1>1, <1>2, <1>3, <1>4, <1>6
     DEF Reclaimed, JobInv, StatusAgrees, RowAgrees, WritesInSpan, ProgressAgrees, HasRow,
         NoRow, Live
<1> QED BY <1>5, <1>6 DEF Reclaimed

(* Cancel, delete and delete-account do no more than that. *)
LEMMA RequestsReclaim ==
    ASSUME TypeOK, RequestsSane, NEW h \in Handlers, NEW k \in Jobs,
           Cancel(h) \/ Delete(h) \/ DeleteMe(h)
    PROVE  Reclaimed(k)
<1>0. mem[k] \in JobObject /\ mem[k].cancel \in BOOLEAN
      /\ mem[k] = [mem[k] EXCEPT !.cancel = mem[k].cancel]
  BY DEF TypeOK, JobObject
<1>1. ASSUME UNCHANGED <<up, pc, mem, pend, row, jobs>>,
             faults' = faults \/ faults' = faults + 1
      PROVE  Reclaimed(k)
  BY <1>0, <1>1 DEF Reclaimed
<1>2. ASSUME NEW j \in Jobs, CancelLookup(h, j) PROVE Reclaimed(k)
  BY <1>1, <1>2 DEF CancelLookup
<1>3. CASE CancelSet(h)
  <2>1. hnd[h].job \in Jobs
    BY <1>3 DEF CancelSet, RequestsSane
  <2>2. mem'[k] = IF k = hnd[h].job THEN [mem[k] EXCEPT !.cancel = TRUE] ELSE mem[k]
    BY <1>3, <2>1 DEF CancelSet, TypeOK
  <2> QED BY <1>0, <1>3, <2>2 DEF CancelSet, Reclaimed
<1>4. ASSUME NEW u \in Users, NEW j \in Jobs, DeleteStart(h, u, j) PROVE Reclaimed(k)
  <2>1. CASE j \in jobs /\ owner[j] = u
    <3>1. /\ UNCHANGED <<up, pc, pend, row, faults>>
          /\ jobs' = jobs \ {j}
          /\ mem'[k] = IF k = j THEN [mem[k] EXCEPT !.cancel = mem[k].cancel \/ Stoppable(k)]
                                ELSE mem[k]
      BY <1>4, <2>1 DEF DeleteStart, TypeOK
    <3>2. CASE k = j
      <4>1. mem'[k].cancel = (mem[k].cancel \/ Stoppable(k))
        BY <1>0, <3>1, <3>2 DEF JobObject
      <4>2. (mem[k].cancel \/ Stoppable(k)) \in BOOLEAN
        BY <1>0 DEF Stoppable
      <4> QED BY <3>1, <3>2, <4>1, <4>2 DEF Reclaimed, Stoppable
    <3>3. CASE k # j
      BY <1>0, <3>1, <3>3 DEF Reclaimed
    <3> QED BY <3>2, <3>3
  <2>2. CASE ~(j \in jobs /\ owner[j] = u)
    BY <1>1, <1>4, <2>2 DEF DeleteStart
  <2> QED BY <2>1, <2>2
<1>5. CASE DeleteRow(h)
  <2>1. row'[k] \in {row[k], NoRow}
    BY <1>5 DEF DeleteRow, TypeOK
  <2> QED BY <1>0, <1>5, <2>1 DEF DeleteRow, Reclaimed
<1>6. CASE DeleteRowFails(h) \/ DeleteDir(h) \/ DeleteMeWipe(h) \/ DeleteMeFails(h)
  BY <1>1, <1>6 DEF DeleteRowFails, DeleteDir, DeleteMeWipe, DeleteMeFails, Fault
<1>7. ASSUME NEW u \in Users, DeleteMeStart(h, u) PROVE Reclaimed(k)
  <2> DEFINE c == mem[k].cancel \/ (k \in jobs /\ owner[k] = u /\ Stoppable(k))
  <2>1. /\ UNCHANGED <<up, pc, pend, row, faults>>
        /\ mem'[k] = [mem[k] EXCEPT !.cancel = c]
        /\ jobs' = jobs \ {j \in jobs : owner[j] = u}
    BY <1>7 DEF DeleteMeStart
  <2>2. c \in BOOLEAN /\ mem'[k].cancel = c
    BY <1>0, <2>1 DEF JobObject, Stoppable
  <2>3. k \in jobs => k \in jobs' \/ (mem[k].status \in Live => c)
    BY <2>1 DEF Stoppable
  <2>4. mem[k].cancel => c
    OBVIOUS
  <2> HIDE DEF c
  <2> QED BY <2>1, <2>2, <2>3, <2>4 DEF Reclaimed
<1>8. CASE DeleteMeUser(h)
  <2>1. row'[k] \in {row[k], NoRow}
    BY <1>8 DEF DeleteMeUser
  <2> QED BY <1>0, <1>8, <2>1 DEF DeleteMeUser, Reclaimed
<1> QED BY <1>2, <1>3, <1>4, <1>5, <1>6, <1>7, <1>8 DEF Cancel, Delete, DeleteMe

(* A crash and the recovery of db.init keep the invariant of every job. *)
LEMMA InvCrashRestart ==
    ASSUME TypeOK, NEW k \in Jobs, JobInv(k), Crash \/ Restart
    PROVE  JobInv(k)'
<1> USE DEF JobInv, StatusAgrees, RowAgrees, WritesInSpan, ProgressAgrees, HasRow, Working, Live
<1>0. row[k] \in JobRow
  BY DEF TypeOK
<1>1. CASE Crash
  <2>1. /\ up' = FALSE /\ pend'[k] = {} /\ row' = row
        /\ pc'[k] = IF pc[k] = "none" THEN "none" ELSE "dead"
    BY <1>1 DEF Crash
  <2> QED BY <1>0, <2>1
<1>2. CASE Restart
  <2>1. /\ ~up /\ UNCHANGED <<jobs, pc, mem, pend, faults>>
        /\ row'[k] = IF row[k].status \in Live THEN [row[k] EXCEPT !.status = "error"] ELSE row[k]
    BY <1>2 DEF Restart, Orphan
  <2>2. CASE row[k].status \in Live
    <3>1. row'[k].status = "error" /\ row'[k].result = row[k].result
      BY <1>0, <2>1, <2>2 DEF JobRow
    <3> QED BY <2>1, <2>2, <3>1
  <2>3. CASE row[k].status \notin Live
    BY <2>1, <2>3
  <2> QED BY <2>2, <2>3
<1> QED BY <1>1, <1>2

(* Every step keeps the invariant. *)
LEMMA InvStep ==
    ASSUME TypeOK, RequestsSane, NEW k \in Jobs, JobInv(k), [Next]_lifeVars
    PROVE  JobInv(k)'
<1>1. ASSUME NEW j \in Jobs, Analyze(j) \/ RunJob(j) \/ PhaseWrite(j) \/ Observe(j)
      PROVE  JobInv(k)'
  <2>1. CASE k # j
    BY <1>1, <2>1, OthersUntouched, Untouched
  <2>2. CASE k = j /\ ~Observe(j)
    BY <1>1, <2>2, InvAnalyze, InvRunJob, InvPhaseWrite
  <2>3. CASE k = j /\ Observe(j)
    <3>1. SameJob(k)
      BY <2>3 DEF Observe, LiveEnd, ReplayEnd, SameJob
    <3> QED BY <3>1, Untouched
  <2> QED BY <2>1, <2>2, <2>3
<1>2. ASSUME NEW h \in Handlers, Cancel(h) \/ Delete(h) \/ DeleteMe(h) PROVE JobInv(k)'
  BY <1>2, RequestsReclaim, ReclaimedKeeps
<1>3. CASE Crash \/ Restart
  BY <1>3, InvCrashRestart
<1>4. CASE UNCHANGED lifeVars
  <2>1. SameJob(k)
    BY <1>4 DEF lifeVars, SameJob
  <2> QED BY <2>1, Untouched
<1> QED BY <1>1, <1>2, <1>3, <1>4 DEF Next

(* The control point of every job agrees with its Job object, its row and   *)
(* the writes in flight, in every reachable state.                          *)
THEOREM LifecycleHolds == Spec => []LifecycleInv
<1> DEFINE AllJobs == \A k \in Jobs : JobInv(k)
<1>1. Init => AllJobs
  BY DEF Init, JobInv, StatusAgrees, RowAgrees, WritesInSpan, ProgressAgrees, HasRow, NoRow,
         Working, Live
<1>2. Init => RequestsSane
  BY DEF Init, RequestsSane, Idle
<1>3. TypeOK /\ RequestsSane /\ AllJobs /\ [Next]_lifeVars => RequestsSane' /\ AllJobs'
  BY InvStep, RequestsStep
<1>4. LifecycleInv <=> RequestsSane /\ AllJobs
  BY PerJob
<1> HIDE DEF AllJobs
<1> QED BY <1>4, <1>1, <1>2, <1>3, TypeCorrect, PTL DEF Spec

(* A row carries a result exactly when it is done, whatever fails. *)
THEOREM DoneRowsComplete == Spec => []DoneRowComplete
<1>1. LifecycleInv => DoneRowComplete
  BY DEF LifecycleInv
<1> QED BY <1>1, LifecycleHolds, PTL

(* The table never shows progress that the Job object has not made. *)
THEOREM RowsBehindMemory == Spec => []RowBehindMemory
<1>1. LifecycleInv => RowBehindMemory
  BY DEF LifecycleInv
<1> QED BY <1>1, LifecycleHolds, PTL

(* Without a failing statement, a pending row has a coroutine to settle it. *)
THEOREM LiveRowsHaveTasks == Spec => []LiveRowHasTask
<1>1. LifecycleInv => LiveRowHasTask
  BY DEF LifecycleInv
<1> QED BY <1>1, LifecycleHolds, PTL

(* No run goes on, unstopped, after the last reference a client can reach.  *)
THEOREM ForgottenRunsStop == Spec => []ForgottenRunIsStopping
<1>1. LifecycleInv => ForgottenRunIsStopping
  BY DEF LifecycleInv
<1> QED BY <1>1, LifecycleHolds, PTL

-----------------------------------------------------------------------------
(* Final verdicts *)

(* Every step keeps a verdict that is in the table, or removes its row. *)
LEMMA VerdictKept ==
    ASSUME TypeOK, RequestsSane, NEW k \in Jobs, JobInv(k), row[k].status \in Terminal,
           [Next]_lifeVars
    PROVE  row'[k] \in {row[k], NoRow}
<1>1. /\ pc[k] \notin {"none", "uploading", "inserting", "inserted", "spawned", "starting",
                      "streaming", "finishing", "ending"}
      /\ pend[k] = {}
  BY DEF JobInv, RowAgrees, WritesInSpan, HasRow, Terminal
<1>2. ASSUME NEW j \in Jobs, Analyze(j) \/ RunJob(j) \/ PhaseWrite(j) \/ Observe(j)
      PROVE  row'[k] = row[k]
  <2>1. CASE k # j
    BY <1>2, <2>1, OthersUntouched DEF SameJob
  <2>2. CASE k = j
    BY <1>1, <1>2, <2>2
       DEF Analyze, AnalyzeAuth, AnalyzeReject, AnalyzeAccept, AnalyzeInsert, AnalyzeInsertFails,
           AnalyzeSpawn, RunJob, RunStart, RunStartWrite, RunStartFails, RunnerReturns, RunDone,
           RunnerRaises, TerminalWrite, TerminalWriteFails, PhaseWrite, RunnerPhase, PhaseCommit,
           PhaseFails, Observe, LiveEnd, ReplayEnd, At
  <2> QED BY <2>1, <2>2
<1>3. ASSUME NEW h \in Handlers, Cancel(h) \/ Delete(h) \/ DeleteMe(h)
      PROVE  row'[k] \in {row[k], NoRow}
  BY <1>3, RequestsReclaim DEF Reclaimed
<1>4. CASE Crash \/ Restart
  BY <1>4 DEF Crash, Restart, Orphan, Live, Terminal
<1>5. CASE UNCHANGED lifeVars
  BY <1>5 DEF lifeVars
<1> QED BY <1>2, <1>3, <1>4, <1>5 DEF Next

(* No late phase write, no second verdict and no restart ever touches a row *)
(* that holds a verdict, statements failing or not: it can only be deleted. *)
THEOREM VerdictsFinal == Spec => TerminalRowFinal
<1>1. TypeOK /\ RequestsSane /\ (\A k \in Jobs : JobInv(k)) /\ [Next]_lifeVars
        => [\A j \in Jobs : row[j].status \in Terminal => row'[j] \in {row[j], NoRow}]_lifeVars
  BY VerdictKept
<1>2. LifecycleInv => RequestsSane /\ \A k \in Jobs : JobInv(k)
  BY PerJob
<1> QED BY <1>1, <1>2, TypeCorrect, LifecycleHolds, PTL DEF Spec, TerminalRowFinal

-----------------------------------------------------------------------------
(* JobLifecycle implements JobContract *)

(* The abstract record of a job, from its row and its control point. *)
LEMMA RecordIs ==
    ASSUME NEW k \in Jobs
    PROVE  /\ jobRecord[k] = IF HasRow(k) THEN row[k].status
                             ELSE IF Known(k) THEN "removed" ELSE "unborn"
           /\ jobResult[k] = row[k].result
BY DEF jobRecord, jobResult

(* The record of a job moves when its row does, or when it will have none. *)
RecordKept(k) == jobRecord'[k] = jobRecord[k] /\ jobResult'[k] = jobResult[k]

(* A step that keeps every record is a stutter of the contract. *)
LEMMA StutterStep ==
    ASSUME \A k \in Jobs : RecordKept(k)
    PROVE  UNCHANGED Contract!vars
<1>1. jobRecord' = jobRecord /\ jobResult' = jobResult
  BY DEF RecordKept, jobRecord, jobResult
<1> QED BY <1>1 DEF Contract!vars

(* A step that changes one record, as a function update. *)
LEMMA OneRecord ==
    ASSUME NEW j \in Jobs, \A k \in Jobs \ {j} : RecordKept(k)
    PROVE  /\ jobRecord' = [jobRecord EXCEPT ![j] = jobRecord'[j]]
           /\ jobResult' = [jobResult EXCEPT ![j] = jobResult'[j]]
BY DEF RecordKept, jobRecord, jobResult

(* Only pc, the row and their agreement decide a record. *)
LEMMA SameRecord ==
    ASSUME NEW k \in Jobs, row'[k] = row[k], HasRow(k) \/ (Known(k)' <=> Known(k))
    PROVE  RecordKept(k)
BY DEF RecordKept, jobRecord, jobResult, HasRow

(* A step of the coroutine of one job keeps the records of the others. *)
LEMMA OthersKept ==
    ASSUME TypeOK, NEW j \in Jobs, NEW k \in Jobs, k # j,
           Analyze(j) \/ RunJob(j) \/ PhaseWrite(j) \/ Observe(j)
    PROVE  RecordKept(k)
<1>1. pc'[k] = pc[k] /\ row'[k] = row[k]
  BY OthersUntouched DEF SameJob
<1> QED BY <1>1, SameRecord DEF Known

(* The upload handler accepts or refuses a record, or leaves it alone. *)
LEMMA AnalyzeRefines ==
    ASSUME TypeOK, NEW j \in Jobs, JobInv(j), Analyze(j)
    PROVE  Contract!Next \/ UNCHANGED Contract!vars
<1>0. \A k \in Jobs \ {j} : RecordKept(k)
  BY OthersKept
<1>1. ASSUME RecordKept(j) PROVE UNCHANGED Contract!vars
  BY <1>0, <1>1, StutterStep
<1>2. ASSUME NEW u \in Users, AnalyzeAuth(j, u) PROVE RecordKept(j)
  BY <1>2, SameRecord DEF AnalyzeAuth, At, Goto, Known, TypeOK
<1>3. CASE AnalyzeReject(j) \/ AnalyzeInsertFails(j)
  <2>1. /\ pc[j] \in {"uploading", "inserting"} /\ pc'[j] = "dead" /\ row' = row
    BY <1>3 DEF AnalyzeReject, AnalyzeInsertFails, At, Goto, TypeOK
  <2>2. ~HasRow(j)
    BY <2>1 DEF JobInv, RowAgrees
  <2>3. /\ jobRecord[j] = "unborn" /\ jobRecord'[j] = "removed"
        /\ jobResult'[j] = jobResult[j]
    BY <2>1, <2>2, RecordIs DEF jobRecord, jobResult, Known, HasRow
  <2>4. jobResult' = jobResult
    BY <1>0, <2>3 DEF RecordKept, jobResult
  <2>5. Contract!Refuse(j)
    BY <1>0, <2>3, <2>4, OneRecord DEF Contract!Refuse
  <2> QED BY <2>5 DEF Contract!Next
<1>4. CASE AnalyzeAccept(j)
  BY <1>1, <1>4, SameRecord DEF AnalyzeAccept, At, Goto, Known, TypeOK
<1>5. CASE AnalyzeInsert(j)
  <2>1. /\ pc[j] = "inserting" /\ pc'[j] = "inserted" /\ row'[j] = NewRow
    BY <1>5 DEF AnalyzeInsert, At, Goto, TypeOK
  <2>2. row[j] = NoRow
    BY <2>1 DEF JobInv, RowAgrees
  <2>3. /\ jobRecord[j] = "unborn" /\ jobRecord'[j] = "queued"
        /\ jobResult'[j] = jobResult[j]
    <3>1. /\ row[j].status = "none" /\ row'[j].status = "queued"
          /\ row'[j].result = row[j].result
      BY <2>1, <2>2 DEF NoRow, NewRow
    <3> QED BY <2>1, <3>1 DEF jobRecord, jobResult, Known, HasRow
  <2>4. jobResult' = jobResult
    BY <1>0, <2>3 DEF RecordKept, jobResult
  <2>5. Contract!Accept(j)
    BY <1>0, <2>3, <2>4, OneRecord DEF Contract!Accept
  <2> QED BY <2>5 DEF Contract!Next
<1>6. CASE AnalyzeSpawn(j)
  BY <1>1, <1>6, SameRecord DEF AnalyzeSpawn, At, Goto, Known, TypeOK
<1> QED BY <1>1, <1>2, <1>3, <1>4, <1>5, <1>6 DEF Analyze

(* run_job starts and finishes its record, and nothing else. *)
LEMMA RunJobRefines ==
    ASSUME TypeOK, NEW j \in Jobs, JobInv(j), RunJob(j)
    PROVE  Contract!Next \/ UNCHANGED Contract!vars
<1>0. /\ \A k \in Jobs \ {j} : RecordKept(k)
      /\ row[j] \in JobRow
  BY OthersKept DEF TypeOK
<1>1. Known(j) /\ Known(j)'
  BY DEF RunJob, RunStart, RunStartWrite, RunStartFails, RunnerReturns, RunDone, RunnerRaises,
         TerminalWrite, TerminalWriteFails, At, Goto, Known, TypeOK
<1>2. ASSUME row'[j] = row[j] PROVE UNCHANGED Contract!vars
  BY <1>0, <1>1, <1>2, SameRecord, StutterStep
<1>3. CASE RunStartWrite(j) \/ RunStartFails(j)
  <2>1. pc[j] = "starting" /\ row' \in {row, Started(j)}
    BY <1>3 DEF RunStartWrite, RunStartFails, At
  <2>2. CASE HasRow(j) /\ row' = Started(j)
    <3>1. row[j].status = "queued" /\ row'[j] = [row[j] EXCEPT !.status = "running"]
      BY <2>1, <2>2 DEF JobInv, RowAgrees, Started, Stored, TypeOK
    <3>2. row'[j].status = "running" /\ row'[j].result = row[j].result
      BY <1>0, <3>1 DEF JobRow
    <3>3. /\ jobRecord[j] = "queued" /\ jobRecord'[j] = "running"
          /\ jobResult'[j] = jobResult[j]
      BY <3>1, <3>2 DEF jobRecord, jobResult, HasRow
    <3>4. jobResult' = jobResult
      BY <1>0, <3>3 DEF RecordKept, jobResult
    <3>5. Contract!Start(j)
      BY <1>0, <3>3, <3>4, OneRecord DEF Contract!Start
    <3> QED BY <3>5 DEF Contract!Next
  <2>3. CASE ~(HasRow(j) /\ row' = Started(j))
    BY <1>2, <2>1, <2>3 DEF Started, Stored
  <2> QED BY <2>2, <2>3
<1>4. CASE TerminalWrite(j)
  <2>1. /\ pc[j] = "ending" /\ row' = Stored(j, Verdict(j))
    BY <1>4 DEF TerminalWrite, At
  <2>2. CASE HasRow(j)
    <3>1. /\ row[j].status = "running" /\ row'[j] = Verdict(j)
          /\ row[j].result = FALSE /\ mem[j].status \in Terminal
      BY <1>0, <2>1, <2>2 DEF JobInv, RowAgrees, StatusAgrees, Stored, TypeOK, JobRow
    <3>2. /\ row'[j].status = mem[j].status
          /\ row'[j].result = (mem[j].status = "done")
      <4>1. CASE mem[j].status = "done"
        <5>1. Verdict(j) = [status |-> "done", phase |-> LastPhase,
                            progress |-> Complete, result |-> TRUE]
          BY <4>1 DEF Verdict
        <5>2. row'[j].status = "done" /\ row'[j].result = TRUE
          BY <3>1, <5>1
        <5> QED BY <4>1, <5>2
      <4>2. CASE mem[j].status = "cancelled"
        BY <1>0, <3>1, <4>2 DEF Verdict, JobRow
      <4>3. CASE mem[j].status = "error"
        BY <1>0, <3>1, <4>3 DEF Verdict, JobRow
      <4> QED BY <3>1, <4>1, <4>2, <4>3 DEF Terminal
    <3>3. /\ jobRecord[j] = "running" /\ jobRecord'[j] = mem[j].status
          /\ jobResult'[j] = (mem[j].status = "done")
      BY <3>1, <3>2 DEF jobRecord, jobResult, HasRow, Terminal
    <3>4. Contract!Finish(j, mem[j].status)
      BY <1>0, <3>3, OneRecord DEF Contract!Finish
    <3> QED BY <3>1, <3>4 DEF Contract!Next, Contract!Verdicts, Terminal
  <2>3. CASE ~HasRow(j)
    BY <1>2, <2>1, <2>3 DEF Stored
  <2> QED BY <2>2, <2>3
<1>5. CASE ~(RunStartWrite(j) \/ RunStartFails(j) \/ TerminalWrite(j))
  BY <1>2, <1>5 DEF RunJob, RunStart, RunnerReturns, RunDone, RunnerRaises, TerminalWriteFails
<1> QED BY <1>3, <1>4, <1>5

(* Phase writes are stutters of the contract. *)
LEMMA PhaseWriteRefines ==
    ASSUME TypeOK, NEW j \in Jobs, PhaseWrite(j) \/ Observe(j)
    PROVE  UNCHANGED Contract!vars
<1>0. row[j] \in JobRow
  BY DEF TypeOK
<1>1. /\ pc' = pc
      /\ row'[j].status = row[j].status /\ row'[j].result = row[j].result
  <2>1. ASSUME NEW p \in Phase, PhaseCommit(j, p)
        PROVE  row'[j] \in {row[j], [row[j] EXCEPT !.phase = p, !.progress = p]} /\ pc' = pc
    BY <2>1 DEF PhaseCommit, Stored, TypeOK
  <2>2. CASE row' = row /\ pc' = pc
    BY <2>2
  <2>3. ASSUME NEW p \in Phase, PhaseCommit(j, p)
        PROVE  pc' = pc /\ row'[j].status = row[j].status /\ row'[j].result = row[j].result
    BY <1>0, <2>1, <2>3 DEF JobRow
  <2> QED BY <2>2, <2>3 DEF PhaseWrite, RunnerPhase, PhaseFails, Observe, LiveEnd, ReplayEnd
<1>2. RecordKept(j)
  BY <1>1 DEF RecordKept, jobRecord, jobResult, HasRow, Known
<1> QED BY <1>2, OthersKept, StutterStep

(* Deletes remove records; cancelling is a stutter. *)
LEMMA RequestRefines ==
    ASSUME TypeOK, RequestsSane, \A k \in Jobs : JobInv(k), NEW h \in Handlers,
           Cancel(h) \/ Delete(h) \/ DeleteMe(h)
    PROVE  Contract!Next \/ UNCHANGED Contract!vars
<1>1. \A k \in Jobs : /\ row'[k] \in {row[k], NoRow}
                       /\ pc'[k] = pc[k]
  BY RequestsReclaim DEF Reclaimed
<1> DEFINE S == {k \in Jobs : HasRow(k) /\ row'[k] = NoRow}
<1>2. \A k \in S : /\ jobRecord[k] \in Contract!Pending \cup Contract!Verdicts
                   /\ jobRecord'[k] = "removed" /\ jobResult'[k] = FALSE
  <2> SUFFICES ASSUME NEW k \in S
               PROVE  /\ jobRecord[k] \in Contract!Pending \cup Contract!Verdicts
                      /\ jobRecord'[k] = "removed" /\ jobResult'[k] = FALSE
    OBVIOUS
  <2>1. row[k].status \in Status /\ Known(k) /\ Known(k)'
    BY <1>1 DEF JobInv, RowAgrees, Known, HasRow, TypeOK, JobRow
  <2>2. row'[k].status = "none" /\ row'[k].result = FALSE
    BY DEF NoRow
  <2> QED BY <2>1, <2>2 DEF jobRecord, jobResult, HasRow, Contract!Pending, Contract!Verdicts,
                           Status, Live, Terminal
<1>3. \A k \in Jobs \ S : RecordKept(k)
  <2> SUFFICES ASSUME NEW k \in Jobs \ S PROVE RecordKept(k)
    OBVIOUS
  <2>1. row'[k] = row[k]
    BY <1>1 DEF JobInv, RowAgrees
  <2> QED BY <1>1, <2>1, SameRecord DEF Known
<1>4. jobResult \in [Jobs -> BOOLEAN]
  BY DEF jobResult, TypeOK, JobRow
<1> HIDE DEF S
<1>5. jobRecord' = [k \in Jobs |-> IF k \in S THEN "removed" ELSE jobRecord[k]]
  BY <1>2, <1>3 DEF RecordKept, jobRecord
<1>6. jobResult' = [k \in Jobs |-> jobResult[k] /\ k \notin S]
  <2>1. \A k \in Jobs : jobResult'[k] = (jobResult[k] /\ k \notin S)
    BY <1>2, <1>3, <1>4 DEF RecordKept
  <2>2. jobResult' = [k \in Jobs |-> jobResult'[k]]
    BY DEF jobResult
  <2> QED BY <2>1, <2>2
<1>7. Contract!Remove(S) /\ S \in SUBSET Jobs
  BY <1>2, <1>5, <1>6 DEF Contract!Remove, S
<1> QED BY <1>7 DEF Contract!Next

(* A crash abandons what was being uploaded. *)
LEMMA CrashRefines ==
    ASSUME TypeOK, \A k \in Jobs : JobInv(k), Crash
    PROVE  Contract!Next
<1> DEFINE S == {k \in Jobs : ~HasRow(k) /\ pc[k] \in {"uploading", "inserting"}}
<1>1. /\ row' = row
      /\ \A k \in Jobs : pc'[k] = IF pc[k] = "none" THEN "none" ELSE "dead"
  BY DEF Crash
<1>2. \A k \in S : jobRecord[k] = "unborn" /\ jobRecord'[k] = "removed"
  BY <1>1 DEF jobRecord, HasRow, Known
<1>3. \A k \in Jobs \ S : jobRecord'[k] = jobRecord[k]
  BY <1>1 DEF jobRecord, HasRow, Known
<1>4. jobResult' = jobResult
  BY <1>1 DEF jobResult
<1> HIDE DEF S
<1>5. jobRecord' = [k \in Jobs |-> IF k \in S THEN "removed" ELSE jobRecord[k]]
  BY <1>2, <1>3 DEF jobRecord
<1>6. Contract!Abandon(S) /\ S \in SUBSET Jobs
  BY <1>2, <1>4, <1>5 DEF Contract!Abandon, S
<1> QED BY <1>6 DEF Contract!Next

(* The recovery of db.init gives up on every pending record at once. *)
LEMMA RestartRefines ==
    ASSUME TypeOK, Restart
    PROVE  Contract!Next
<1>1. /\ pc' = pc
      /\ \A k \in Jobs : row'[k] = IF row[k].status \in Live
                                   THEN [row[k] EXCEPT !.status = "error"] ELSE row[k]
  BY DEF Restart, Orphan
<1>2. \A k \in Jobs : row'[k].result = row[k].result
  BY <1>1 DEF TypeOK, JobRow
<1>3. \A k \in Jobs :
        jobRecord'[k] = IF jobRecord[k] \in Contract!Pending THEN "error" ELSE jobRecord[k]
  <2> SUFFICES ASSUME NEW k \in Jobs
               PROVE  jobRecord'[k] = IF jobRecord[k] \in Contract!Pending
                                      THEN "error" ELSE jobRecord[k]
    OBVIOUS
  <2>1. CASE row[k].status \in Live
    <3>1. row'[k].status = "error"
      BY <1>1, <2>1 DEF TypeOK, JobRow
    <3> QED BY <2>1, <3>1 DEF jobRecord, HasRow, Contract!Pending, Live
  <2>2. CASE row[k].status \notin Live
    <3>1. row'[k] = row[k]
      BY <1>1, <2>2
    <3> QED BY <1>1, <2>2, <3>1 DEF jobRecord, HasRow, Known, Contract!Pending, Live
  <2> QED BY <2>1, <2>2
<1>4. Contract!GiveUp
  <2>1. jobResult' = jobResult
    BY <1>2 DEF jobResult
  <2>2. jobRecord' = [k \in Jobs |-> jobRecord'[k]]
    BY DEF jobRecord
  <2> QED BY <1>3, <2>1, <2>2 DEF Contract!GiveUp
<1> QED BY <1>4 DEF Contract!Next

(* Every behaviour of the server, crashes and failing statements included,  *)
(* keeps the promise of JobContract about each job's row.                   *)
THEOREM ContractKept == Spec => ContractSpec
<1>1. Init => Contract!Init
  BY DEF Init, Contract!Init, jobRecord, jobResult, HasRow, Known, NoRow
<1>2. TypeOK /\ RequestsSane /\ (\A k \in Jobs : JobInv(k)) /\ [Next]_lifeVars
        => [Contract!Next]_Contract!vars
  <2> SUFFICES ASSUME TypeOK, RequestsSane, \A k \in Jobs : JobInv(k), [Next]_lifeVars
               PROVE  Contract!Next \/ UNCHANGED Contract!vars
    OBVIOUS
  <2>1. CASE UNCHANGED lifeVars
    <3>1. \A k \in Jobs : RecordKept(k)
      BY <2>1, SameRecord DEF lifeVars, Known
    <3> QED BY <3>1, StutterStep
  <2> QED BY <2>1, AnalyzeRefines, RunJobRefines, PhaseWriteRefines, RequestRefines,
             CrashRefines, RestartRefines DEF Next
<1>3. LifecycleInv => RequestsSane /\ \A k \in Jobs : JobInv(k)
  BY PerJob
<1> QED BY <1>1, <1>2, <1>3, TypeCorrect, LifecycleHolds, PTL
        DEF Spec, ContractSpec, Contract!Spec

-----------------------------------------------------------------------------
(* A cancellation wins *)

(* The job is on its way to anything but "done", or over. *)
Doomed(j) ==
    /\ row[j].status # "done"
    /\ \/ pc[j] = "streaming" /\ mem[j].cancel
       \/ pc[j] = "ending" /\ mem[j].status # "done"
       \/ pc[j] \in {"finished", "dead"}

(* Nothing makes a doomed job done: no step, crash or restart. *)
LEMMA DoomedStable ==
    ASSUME TypeOK, RequestsSane, NEW k \in Jobs, JobInv(k), Doomed(k), [Next]_lifeVars
    PROVE  Doomed(k)'
<1>0. mem[k] \in JobObject /\ row[k] \in JobRow
  BY DEF TypeOK
<1>1. ASSUME NEW j \in Jobs, Analyze(j) \/ RunJob(j) \/ PhaseWrite(j) \/ Observe(j)
      PROVE  Doomed(k)'
  <2>1. CASE k # j
    BY <1>1, <2>1, OthersUntouched DEF SameJob, Doomed
  <2>2. CASE k = j /\ (Analyze(j) \/ Observe(j))
    BY <2>2 DEF Analyze, AnalyzeAuth, AnalyzeReject, AnalyzeAccept, AnalyzeInsert,
               AnalyzeInsertFails, AnalyzeSpawn, At, Observe, LiveEnd, ReplayEnd, Doomed
  <2>3. CASE k = j /\ PhaseWrite(j)
    <3>1. PICK p \in Phase : RunnerPhase(j, p) \/ PhaseCommit(j, p) \/ PhaseFails(j, p)
      BY <2>3 DEF PhaseWrite
    <3>2. pc' = pc /\ row'[k].status = row[k].status
      <4>1. CASE PhaseCommit(j, p)
        <5>1. row'[k] \in {row[k], [row[k] EXCEPT !.phase = p, !.progress = p]}
          BY <2>3, <4>1 DEF PhaseCommit, Stored, TypeOK
        <5> QED BY <1>0, <4>1, <5>1 DEF PhaseCommit, JobRow
      <4>2. CASE RunnerPhase(j, p) \/ PhaseFails(j, p)
        BY <4>2 DEF RunnerPhase, PhaseFails
      <4> QED BY <3>1, <4>1, <4>2
    <3>3. mem'[k].status = mem[k].status /\ mem'[k].cancel = mem[k].cancel
      <4>1. CASE RunnerPhase(j, p)
        <5>1. mem'[k] = [mem[k] EXCEPT !.phase = p, !.progress = p]
          BY <2>3, <4>1 DEF RunnerPhase, TypeOK
        <5> QED BY <1>0, <5>1 DEF JobObject
      <4>2. CASE PhaseCommit(j, p) \/ PhaseFails(j, p)
        BY <4>2 DEF PhaseCommit, PhaseFails
      <4> QED BY <3>1, <4>1, <4>2
    <3> QED BY <3>2, <3>3 DEF Doomed
  <2>4. CASE k = j /\ RunJob(j)
    <3>1. CASE RunnerReturns(j)
      <4>1. mem[k].cancel /\ row' = row
        BY <2>4, <3>1 DEF RunnerReturns, At, Doomed
      <4>2. pc'[k] = "ending" /\ mem'[k] = [mem[k] EXCEPT !.status = "cancelled"]
        BY <2>4, <3>1, <4>1 DEF RunnerReturns, Goto, TypeOK
      <4> QED BY <1>0, <4>1, <4>2 DEF Doomed, JobObject
    <3>2. CASE RunnerRaises(j)
      <4>1. pc'[k] = "ending" /\ mem'[k] = [mem[k] EXCEPT !.status = "error"] /\ row' = row
        BY <2>4, <3>2 DEF RunnerRaises, Goto, TypeOK
      <4> QED BY <1>0, <4>1 DEF Doomed, JobObject
    <3>3. CASE TerminalWrite(j)
      <4>1. /\ pc[k] = "ending" /\ pc'[k] = "finished"
            /\ row'[k] = IF HasRow(k) THEN Verdict(k) ELSE row[k]
        BY <2>4, <3>3 DEF TerminalWrite, Stored, At, Goto, TypeOK
      <4>2. mem[k].status # "done"
        BY <4>1 DEF Doomed
      <4>3. Verdict(k).status # "done"
        BY <1>0, <4>2 DEF Verdict, JobRow
      <4> QED BY <4>1, <4>3 DEF Doomed
    <3>4. CASE TerminalWriteFails(j)
      <4>1. row' = row /\ pc[k] = "ending"
        BY <2>4, <3>4 DEF TerminalWriteFails, At
      <4>2. CASE mem[k].status = "error"
        BY <2>4, <3>4, <4>1, <4>2 DEF TerminalWriteFails, Goto, TypeOK, Doomed
      <4>3. CASE mem[k].status # "error"
        <5>1. pc'[k] = "ending" /\ mem'[k] = [mem[k] EXCEPT !.status = "error"]
          BY <2>4, <3>4, <4>1, <4>3 DEF TerminalWriteFails, TypeOK
        <5> QED BY <1>0, <4>1, <5>1 DEF Doomed, JobObject
      <4> QED BY <4>2, <4>3
    <3>5. CASE RunStart(j) \/ RunStartWrite(j) \/ RunStartFails(j) \/ RunDone(j)
      BY <2>4, <3>5 DEF RunStart, RunStartWrite, RunStartFails, RunDone, At, Doomed
    <3> QED BY <2>4, <3>1, <3>2, <3>3, <3>4, <3>5 DEF RunJob
  <2> QED BY <1>1, <2>1, <2>2, <2>3, <2>4
<1>2. ASSUME NEW h \in Handlers, Cancel(h) \/ Delete(h) \/ DeleteMe(h) PROVE Doomed(k)'
  <2>1. Reclaimed(k)
    BY <1>2, RequestsReclaim
  <2>2. mem'[k].status = mem[k].status /\ (mem[k].cancel => mem'[k].cancel)
    BY <1>0, <2>1 DEF Reclaimed, JobObject
  <2>3. row'[k].status \in {row[k].status, "none"}
    BY <2>1 DEF Reclaimed, NoRow
  <2> QED BY <2>1, <2>2, <2>3 DEF Reclaimed, Doomed
<1>3. CASE Crash
  BY <1>3 DEF Crash, Doomed
<1>4. CASE Restart
  <2>1. row'[k].status \in {row[k].status, "error"}
    BY <1>0, <1>4 DEF Restart, Orphan, JobRow
  <2> QED BY <1>4, <2>1 DEF Restart, Doomed
<1>5. CASE UNCHANGED lifeVars
  BY <1>5 DEF lifeVars, Doomed
<1> QED BY <1>1, <1>2, <1>3, <1>4, <1>5 DEF Next

(* A job whose cancel event was set while its backend was running is never  *)
(* recorded as done, whatever fails, races or crashes afterwards.           *)
THEOREM CancellationWins == Spec => CancelWins
<1> SUFFICES ASSUME NEW j \in Jobs
             PROVE  Spec => [](mem[j].cancel /\ pc[j] = "streaming" => [](row[j].status # "done"))
  BY DEF CancelWins
<1>1. LifecycleInv => RequestsSane /\ JobInv(j)
  BY PerJob
<1>2. TypeOK /\ RequestsSane /\ JobInv(j) /\ Doomed(j) /\ [Next]_lifeVars => Doomed(j)'
  BY DoomedStable
<1>3. JobInv(j) /\ mem[j].cancel /\ pc[j] = "streaming" => Doomed(j)
  BY DEF JobInv, RowAgrees, HasRow, Doomed
<1>4. Doomed(j) => row[j].status # "done"
  BY DEF Doomed
<1> QED BY <1>1, <1>2, <1>3, <1>4, TypeCorrect, LifecycleHolds, PTL DEF Spec

-----------------------------------------------------------------------------
(* What clients are shown from memory and from the table *)

(* As long as no statement failed, the Job object of a finished job says     *)
(* what its row says; without a crash, every verdict that was sent is that   *)
(* of the Job object, which is then past changing it.                        *)
Mirrors(k) ==
    faults = 0 =>
        /\ mem[k].result <=> mem[k].status = "done"
        /\ pc[k] = "finished" /\ HasRow(k) =>
              /\ row[k].status = mem[k].status
              /\ row[k].status # "error" =>
                    row[k].phase = mem[k].phase /\ row[k].progress = mem[k].progress
        /\ crashes = 0 =>
              /\ pc[k] = "dead" => ~HasRow(k)
              /\ told[k] \cap Terminal # {} => pc[k] \in {"ending", "finished"}
              /\ \A s \in told[k] \cap Terminal : s = mem[k].status

(* A step that leaves the coroutine, the Job object but for its cancel event *)
(* and the row alone, or removes the row.                                    *)
Frozen(k) ==
    /\ pc'[k] = pc[k] /\ told'[k] = told[k] /\ crashes' = crashes
    /\ mem'[k].status = mem[k].status /\ mem'[k].phase = mem[k].phase
    /\ mem'[k].progress = mem[k].progress /\ mem'[k].result = mem[k].result
    /\ row'[k] \in {row[k], NoRow}
    /\ faults' = faults \/ faults' = faults + 1

(* Such a step changes nothing of what is shown. *)
LEMMA FrozenMirrors ==
    ASSUME TypeOK, NEW k \in Jobs, Mirrors(k), Frozen(k)
    PROVE  Mirrors(k)'
<1>1. faults' = 0 => faults = 0
  BY DEF Frozen, TypeOK
<1>2. HasRow(k)' => HasRow(k) /\ row'[k] = row[k]
  BY DEF Frozen, HasRow, NoRow
<1> QED BY <1>1, <1>2 DEF Mirrors, Frozen

(* Steps that do not concern a job leave it frozen. *)
LEMMA OthersFrozen ==
    ASSUME TypeOK, NEW j \in Jobs, NEW k \in Jobs, k # j,
           Analyze(j) \/ RunJob(j) \/ PhaseWrite(j) \/ Observe(j)
    PROVE  Frozen(k)
<1>1. told'[k] = told[k] /\ crashes' = crashes
  BY DEF Analyze, AnalyzeAuth, AnalyzeReject, AnalyzeAccept, AnalyzeInsert, AnalyzeInsertFails,
         AnalyzeSpawn, RunJob, RunStart, RunStartWrite, RunStartFails, RunnerReturns, RunDone,
         RunnerRaises, TerminalWrite, TerminalWriteFails, PhaseWrite, RunnerPhase, PhaseCommit,
         PhaseFails, Observe, LiveEnd, ReplayEnd, TypeOK
<1> QED BY <1>1, OthersUntouched DEF SameJob, Frozen

(* A request may set the cancel event and remove the row, no more. *)
LEMMA RequestsFreeze ==
    ASSUME TypeOK, RequestsSane, NEW h \in Handlers, NEW k \in Jobs,
           Cancel(h) \/ Delete(h) \/ DeleteMe(h)
    PROVE  Frozen(k)
<1>1. told' = told /\ crashes' = crashes
  BY DEF Cancel, CancelLookup, CancelSet, Delete, DeleteStart, DeleteRow, DeleteRowFails, DeleteDir,
         DeleteMe, DeleteMeStart, DeleteMeWipe, DeleteMeUser, DeleteMeFails
<1>2. Reclaimed(k) /\ mem[k] \in JobObject
  BY RequestsReclaim DEF TypeOK
<1>3. PICK c \in BOOLEAN : mem'[k] = [mem[k] EXCEPT !.cancel = c]
  BY <1>2 DEF Reclaimed
<1>4. /\ mem'[k].status = mem[k].status /\ mem'[k].phase = mem[k].phase
      /\ mem'[k].progress = mem[k].progress /\ mem'[k].result = mem[k].result
  BY <1>2, <1>3 DEF JobObject
<1> QED BY <1>1, <1>2, <1>4 DEF Reclaimed, Frozen

(* The upload tells nobody anything and stores no row that is over. *)
LEMMA AnalyzeMirrors ==
    ASSUME TypeOK, NEW j \in Jobs, JobInv(j), Mirrors(j), Analyze(j)
    PROVE  Mirrors(j)'
<1> USE DEF Mirrors, HasRow, JobInv, RowAgrees
<1>1. ASSUME NEW u \in Users, AnalyzeAuth(j, u) PROVE Mirrors(j)'
  BY <1>1 DEF AnalyzeAuth, At, Goto, TypeOK
<1>2. CASE AnalyzeReject(j)
  BY <1>2 DEF AnalyzeReject, At, Goto, TypeOK
<1>3. CASE AnalyzeAccept(j)
  BY <1>3 DEF AnalyzeAccept, NewJob, At, Goto, TypeOK
<1>4. CASE AnalyzeInsert(j)
  BY <1>4 DEF AnalyzeInsert, At, Goto, TypeOK
<1>5. CASE AnalyzeInsertFails(j)
  BY <1>5 DEF AnalyzeInsertFails, Fault, At, Goto, TypeOK
<1>6. CASE AnalyzeSpawn(j)
  BY <1>6 DEF AnalyzeSpawn, At, Goto, TypeOK
<1> QED BY <1>1, <1>2, <1>3, <1>4, <1>5, <1>6 DEF Analyze

(* Phase writes come before any verdict, and leave the status alone. *)
LEMMA PhaseMirrors ==
    ASSUME TypeOK, NEW j \in Jobs, JobInv(j), Mirrors(j), PhaseWrite(j)
    PROVE  Mirrors(j)'
<1>0. PICK p \in Phase : RunnerPhase(j, p) \/ PhaseCommit(j, p) \/ PhaseFails(j, p)
  BY DEF PhaseWrite
<1>1. mem[j] \in JobObject /\ row[j] \in JobRow
  BY DEF TypeOK
<1>2. CASE RunnerPhase(j, p)
  <2>1. /\ pc[j] = "streaming" /\ UNCHANGED <<pc, row, told, faults, crashes>>
        /\ mem'[j] = [mem[j] EXCEPT !.phase = p, !.progress = p]
    BY <1>2 DEF RunnerPhase, At, TypeOK
  <2>2. mem'[j].status = mem[j].status /\ mem'[j].result = mem[j].result
    BY <1>1, <2>1 DEF JobObject
  <2> QED BY <2>1, <2>2 DEF Mirrors, HasRow
<1>3. CASE PhaseCommit(j, p)
  <2>1. pc[j] \in {"streaming", "finishing", "ending"}
    BY <1>3 DEF PhaseCommit, JobInv, WritesInSpan
  <2> QED BY <1>3, <2>1 DEF PhaseCommit, Mirrors
<1>4. CASE PhaseFails(j, p)
  BY <1>4 DEF PhaseFails, Fault, TypeOK, Mirrors
<1> QED BY <1>0, <1>2, <1>3, <1>4

(* The verdict is decided once, and stored as it was decided. *)
LEMMA RunMirrors ==
    ASSUME TypeOK, NEW j \in Jobs, JobInv(j), Mirrors(j), RunJob(j)
    PROVE  Mirrors(j)'
<1>0. mem[j] \in JobObject /\ row[j] \in JobRow
  BY DEF TypeOK
<1>1. CASE RunStart(j)
  <2>1. /\ pc[j] = "spawned" /\ pc'[j] = "starting"
        /\ mem'[j] = [mem[j] EXCEPT !.status = "running"]
        /\ UNCHANGED <<row, told, faults, crashes>>
    BY <1>1 DEF RunStart, At, Goto, TypeOK
  <2>2. mem[j].status = "queued" /\ mem'[j].status = "running" /\ mem'[j].result = mem[j].result
    BY <1>0, <2>1 DEF JobInv, StatusAgrees, JobObject
  <2> QED BY <2>1, <2>2 DEF Mirrors, HasRow
<1>2. CASE RunStartWrite(j)
  BY <1>2 DEF RunStartWrite, At, Goto, TypeOK, Mirrors
<1>3. CASE RunStartFails(j) \/ TerminalWriteFails(j)
  BY <1>3 DEF RunStartFails, TerminalWriteFails, Fault, TypeOK, Mirrors
<1>4. CASE RunnerReturns(j) \/ RunnerRaises(j)
  <2>1. /\ pc[j] \in {"streaming", "finishing"} /\ pc'[j] \in {"ending", "finishing"}
        /\ \/ mem'[j] = mem[j]
           \/ \E s \in {"cancelled", "error"} : mem'[j] = [mem[j] EXCEPT !.status = s]
        /\ UNCHANGED <<row, told, faults, crashes>>
    BY <1>4 DEF RunnerReturns, RunnerRaises, At, Goto, TypeOK
  <2>2. mem[j].status = "running" /\ mem'[j].result = mem[j].result /\ mem'[j].status # "done"
    BY <1>0, <2>1 DEF JobInv, StatusAgrees, JobObject
  <2> QED BY <2>1, <2>2 DEF Mirrors, HasRow
<1>5. CASE RunDone(j)
  <2>1. /\ pc[j] = "finishing" /\ pc'[j] = "ending"
        /\ mem'[j] = [mem[j] EXCEPT !.status = "done", !.phase = LastPhase,
                                    !.progress = Complete, !.result = TRUE]
        /\ UNCHANGED <<row, told, faults, crashes>>
    BY <1>5 DEF RunDone, Goto, TypeOK
  <2>2. mem'[j].result = TRUE /\ mem'[j].status = "done"
    BY <1>0, <2>1 DEF JobObject
  <2> QED BY <2>1, <2>2 DEF Mirrors
<1>6. CASE TerminalWrite(j)
  <2>1. /\ pc[j] = "ending" /\ pc'[j] = "finished"
        /\ row'[j] = IF HasRow(j) THEN Verdict(j) ELSE row[j]
        /\ UNCHANGED <<mem, told, faults, crashes>>
    BY <1>6 DEF TerminalWrite, Stored, At, Goto, TypeOK
  <2>2. HasRow(j)' => HasRow(j)
    BY <2>1 DEF HasRow
  <2>3. /\ Verdict(j).status = mem[j].status
        /\ mem[j].status # "error" =>
              Verdict(j).phase = mem[j].phase /\ Verdict(j).progress = mem[j].progress
    <3>1. mem[j].status \in Terminal
      BY <2>1 DEF JobInv, StatusAgrees
    <3>2. CASE mem[j].status = "done"
      <4>1. Verdict(j) = [status |-> "done", phase |-> LastPhase, progress |-> Complete,
                          result |-> TRUE]
        BY <3>2 DEF Verdict
      <4>2. mem[j].phase = LastPhase /\ mem[j].progress = Complete
        BY <2>1, <3>2 DEF JobInv, ProgressAgrees
      <4> QED BY <3>2, <4>1, <4>2
    <3>3. CASE mem[j].status = "cancelled"
      BY <1>0, <3>3 DEF Verdict, JobRow
    <3>4. CASE mem[j].status = "error"
      BY <1>0, <3>4 DEF Verdict, JobRow
    <3> QED BY <3>1, <3>2, <3>3, <3>4 DEF Terminal
  <2> QED BY <2>1, <2>2, <2>3 DEF Mirrors
<1> QED BY <1>1, <1>2, <1>3, <1>4, <1>5, <1>6 DEF RunJob

(* The end of a stream says the verdict of the Job object, from either side. *)
LEMMA ObserveMirrors ==
    ASSUME TypeOK, NEW j \in Jobs, JobInv(j), Mirrors(j), Observe(j)
    PROVE  Mirrors(j)'
<1>0. UNCHANGED <<pc, mem, row, faults, crashes>>
  BY DEF Observe, LiveEnd, ReplayEnd
<1>1. CASE LiveEnd(j)
  <2>1. pc[j] \in {"ending", "finished"} /\ told'[j] = told[j] \cup {mem[j].status}
    BY <1>1 DEF LiveEnd, TypeOK
  <2> QED BY <1>0, <2>1 DEF Mirrors, HasRow
<1>2. CASE ReplayEnd(j)
  <2>1. HasRow(j) /\ told'[j] = told[j] \cup {row[j].status}
    BY <1>2 DEF ReplayEnd, TypeOK
  <2>2. ASSUME faults = 0, crashes = 0, row[j].status \in Terminal
        PROVE  pc[j] = "finished" /\ row[j].status = mem[j].status
    <3>1. pc[j] \in Control
      BY DEF TypeOK
    <3>2. pc[j] \in {"finished", "dead"}
      BY <2>1, <2>2, <3>1 DEF JobInv, RowAgrees, Control, Terminal
    <3> QED BY <2>1, <2>2, <3>2 DEF Mirrors
  <2> QED BY <1>0, <2>1, <2>2 DEF Mirrors, HasRow
<1> QED BY <1>1, <1>2 DEF Observe

(* So every step of the server keeps it. *)
LEMMA MirrorsKept ==
    ASSUME TypeOK, RequestsSane, NEW k \in Jobs, JobInv(k), Mirrors(k), [Next]_lifeVars
    PROVE  Mirrors(k)'
<1>1. ASSUME NEW j \in Jobs, Analyze(j) \/ RunJob(j) \/ PhaseWrite(j) \/ Observe(j)
      PROVE  Mirrors(k)'
  <2>1. CASE k # j
    BY <1>1, <2>1, OthersFrozen, FrozenMirrors
  <2>2. CASE k = j
    BY <1>1, <2>2, AnalyzeMirrors, RunMirrors, PhaseMirrors, ObserveMirrors
  <2> QED BY <2>1, <2>2
<1>2. ASSUME NEW h \in Handlers, Cancel(h) \/ Delete(h) \/ DeleteMe(h) PROVE Mirrors(k)'
  BY <1>2, RequestsFreeze, FrozenMirrors
<1>3. CASE Crash
  <2>1. mem'[k] = NewJob /\ pc'[k] # "finished" /\ crashes' # 0
    BY <1>3 DEF Crash, TypeOK
  <2> QED BY <2>1 DEF Mirrors, NewJob
<1>4. CASE Restart
  <2>1. pc[k] \in {"none", "dead"} /\ UNCHANGED <<pc, mem, told, faults, crashes>>
    BY <1>4 DEF Restart, JobInv
  <2>2. row[k].status = "none" => row'[k].status = "none"
    BY <1>4 DEF Restart, Orphan, Live
  <2> QED BY <2>1, <2>2 DEF Mirrors, HasRow
<1>5. CASE UNCHANGED lifeVars
  <2>1. Frozen(k)
    BY <1>5 DEF lifeVars, Frozen
  <2> QED BY <2>1, FrozenMirrors
<1> QED BY <1>1, <1>2, <1>3, <1>4, <1>5 DEF Next

(* What is shown of any job agrees, in every reachable state. *)
LEMMA MirrorsHold == Spec => [](\A k \in Jobs : Mirrors(k))
<1> DEFINE AllMirrors == \A k \in Jobs : Mirrors(k)
<1>1. Init => AllMirrors
  BY DEF Init, Mirrors, NewJob
<1>2. TypeOK /\ RequestsSane /\ (\A k \in Jobs : JobInv(k)) /\ AllMirrors /\ [Next]_lifeVars
        => AllMirrors'
  BY MirrorsKept
<1>3. LifecycleInv => RequestsSane /\ \A k \in Jobs : JobInv(k)
  BY PerJob
<1> HIDE DEF AllMirrors
<1> QED
  <2>1. Spec => []AllMirrors
    BY <1>1, <1>2, <1>3, TypeCorrect, LifecycleHolds, PTL DEF Spec
  <2> QED BY <2>1 DEF AllMirrors

(* A client reads the same of a finished job from memory and from the table, *)
(* in whatever order its phase writes committed, if no statement failed.     *)
THEOREM RowsMatchMemory == Spec => []RowMatchesMemory
<1>1. TypeOK /\ LifecycleInv /\ (\A k \in Jobs : Mirrors(k)) => RowMatchesMemory
  <2> SUFFICES ASSUME TypeOK, NEW j \in Jobs, JobInv(j), Mirrors(j), pc[j] = "finished",
                      HasRow(j), faults = 0
               PROVE  /\ row[j].status = mem[j].status
                      /\ row[j].status # "error" =>
                           /\ row[j].phase = mem[j].phase
                           /\ row[j].progress = mem[j].progress
                           /\ row[j].result = mem[j].result
    BY PerJob DEF RowMatchesMemory
  <2>1. row[j].result \in BOOLEAN /\ mem[j].result \in BOOLEAN
    BY DEF TypeOK, JobRow, JobObject
  <2> QED BY <2>1 DEF Mirrors, JobInv
<1> QED BY <1>1, MirrorsHold, TypeCorrect, LifecycleHolds, PTL

(* All "end" events of a job carry one verdict, if no statement failed and   *)
(* the process did not crash.                                                *)
THEOREM VerdictsNotRevised == Spec => []VerdictNeverRevised
<1>1. (\A k \in Jobs : Mirrors(k)) => VerdictNeverRevised
  BY DEF Mirrors, VerdictNeverRevised, OneVerdict
<1> QED BY <1>1, MirrorsHold, PTL

-----------------------------------------------------------------------------
(* What an early "end" event says of its job *)

(* Nobody is told of a job before its row; who is told too early is told of  *)
(* a job that left JOBS for good, stopping or past its run.                  *)
EarlyEnd(k) ==
    /\ told[k] # {} => pc[k] \notin {"none", "uploading", "inserting"}
    /\ told[k] \cap Live # {} =>
          k \notin jobs /\ (mem[k].cancel \/ pc[k] \in {"ending", "finished", "dead"})

(* A step that tells nobody of a job, and only takes it further from JOBS    *)
(* and nearer to its end.                                                    *)
Onward(k) ==
    /\ told'[k] = told[k]
    /\ k \in jobs' => k \in jobs
    /\ mem[k].cancel => mem'[k].cancel
    /\ pc'[k] \in {"none", "uploading", "inserting"} => pc'[k] = pc[k]
    /\ pc[k] \in {"ending", "finished", "dead"} => pc'[k] \in {"ending", "finished", "dead"}

(* Such a step takes nothing back of what was said. *)
LEMMA OnwardKeeps ==
    ASSUME NEW k \in Jobs, EarlyEnd(k), Onward(k)
    PROVE  EarlyEnd(k)'
BY DEF EarlyEnd, Onward

(* Until its row is stored a job is nobody's to be told of. *)
LEMMA AnalyzeEarlyEnd ==
    ASSUME TypeOK, NEW j \in Jobs, EarlyEnd(j), Analyze(j)
    PROVE  EarlyEnd(j)'
<1>1. told'[j] = told[j]
  BY DEF Analyze, AnalyzeAuth, AnalyzeReject, AnalyzeAccept, AnalyzeInsert, AnalyzeInsertFails,
         AnalyzeSpawn
<1>2. CASE AnalyzeSpawn(j)
  <2>1. Onward(j)
    BY <1>1, <1>2 DEF AnalyzeSpawn, At, Goto, TypeOK, Onward
  <2> QED BY <2>1, OnwardKeeps
<1>3. CASE ~AnalyzeSpawn(j)
  <2>1. pc[j] \in {"none", "uploading", "inserting"}
    BY <1>3 DEF Analyze, AnalyzeAuth, AnalyzeReject, AnalyzeAccept, AnalyzeInsert,
                AnalyzeInsertFails, At
  <2> QED BY <1>1, <2>1 DEF EarlyEnd
<1> QED BY <1>2, <1>3

(* run_job never puts a job back, and never clears its cancel event. *)
LEMMA RunOnward ==
    ASSUME TypeOK, NEW j \in Jobs, RunJob(j) \/ PhaseWrite(j)
    PROVE  Onward(j)
<1>0. mem[j] \in JobObject
  BY DEF TypeOK
<1>1. told' = told /\ jobs' = jobs
  BY DEF RunJob, RunStart, RunStartWrite, RunStartFails, RunnerReturns, RunDone, RunnerRaises,
         TerminalWrite, TerminalWriteFails, PhaseWrite, RunnerPhase, PhaseCommit, PhaseFails
<1>2. \/ pc'[j] = pc[j]
      \/ pc[j] # "dead" /\ pc'[j] \in {"starting", "streaming"}
           /\ pc[j] \in {"spawned", "starting"}
      \/ pc'[j] = "finishing" /\ pc[j] = "streaming"
      \/ pc'[j] \in {"ending", "finished", "dead"}
  BY DEF RunJob, RunStart, RunStartWrite, RunStartFails, RunnerReturns, RunDone, RunnerRaises,
         TerminalWrite, TerminalWriteFails, PhaseWrite, RunnerPhase, PhaseCommit, PhaseFails,
         At, Goto, TypeOK
<1>3. mem'[j].cancel = mem[j].cancel
  <2>1. CASE PhaseWrite(j)
    <3>1. PICK p \in Phase : RunnerPhase(j, p) \/ PhaseCommit(j, p) \/ PhaseFails(j, p)
      BY <2>1 DEF PhaseWrite
    <3>2. mem'[j] = mem[j] \/ mem'[j] = [mem[j] EXCEPT !.phase = p, !.progress = p]
      BY <3>1 DEF RunnerPhase, PhaseCommit, PhaseFails, TypeOK
    <3> QED BY <1>0, <3>2 DEF JobObject
  <2>2. CASE RunDone(j)
    <3>1. mem'[j] = [mem[j] EXCEPT !.status = "done", !.phase = LastPhase,
                                   !.progress = Complete, !.result = TRUE]
      BY <2>2 DEF RunDone, TypeOK
    <3> QED BY <1>0, <3>1 DEF JobObject
  <2>3. CASE RunJob(j) /\ ~RunDone(j)
    <3>1. mem'[j] = mem[j] \/ \E s \in Status : mem'[j] = [mem[j] EXCEPT !.status = s]
      BY <2>3 DEF RunJob, RunStart, RunStartWrite, RunStartFails, RunnerReturns, RunnerRaises,
                  TerminalWrite, TerminalWriteFails, TypeOK, Status, Live, Terminal
    <3> QED BY <1>0, <3>1 DEF JobObject
  <2> QED BY <2>1, <2>2, <2>3
<1> QED BY <1>1, <1>2, <1>3 DEF Onward

(* LiveEnd tells a verdict; replay() can tell less only of a job that left   *)
(* JOBS while it was under way, and such a job is stopping.                  *)
LEMMA ObserveEarlyEnd ==
    ASSUME TypeOK, NEW j \in Jobs, JobInv(j), EarlyEnd(j), Observe(j)
    PROVE  EarlyEnd(j)'
<1>0. UNCHANGED <<pc, mem, jobs>>
  BY DEF Observe, LiveEnd, ReplayEnd
<1>1. CASE LiveEnd(j)
  <2>1. pc[j] \in {"ending", "finished"} /\ told'[j] = told[j] \cup {mem[j].status}
    BY <1>1 DEF LiveEnd, TypeOK
  <2>2. mem[j].status \notin Live
    BY <2>1 DEF JobInv, StatusAgrees, Live, Terminal
  <2> QED BY <1>0, <2>1, <2>2 DEF EarlyEnd
<1>2. CASE ReplayEnd(j)
  <2>1. j \notin jobs /\ HasRow(j) /\ pc[j] # "finishing"
    BY <1>2 DEF ReplayEnd, LoopFree
  <2>2. pc[j] \in Control /\ pc[j] \notin {"none", "uploading", "inserting"}
    BY <2>1 DEF TypeOK, JobInv, RowAgrees
  <2>3. mem[j].cancel \/ pc[j] \in {"ending", "finished", "dead"}
    BY <2>1, <2>2 DEF JobInv, Control
  <2> QED BY <1>0, <2>1, <2>2, <2>3 DEF EarlyEnd
<1> QED BY <1>1, <1>2 DEF Observe

(* So every step of the server keeps it. *)
LEMMA EarlyEndKept ==
    ASSUME TypeOK, RequestsSane, NEW k \in Jobs, JobInv(k), EarlyEnd(k), [Next]_lifeVars
    PROVE  EarlyEnd(k)'
<1>1. ASSUME NEW j \in Jobs, Analyze(j) \/ RunJob(j) \/ PhaseWrite(j) \/ Observe(j)
      PROVE  EarlyEnd(k)'
  <2>1. CASE k # j
    <3>1. SameJob(k) /\ Frozen(k)
      BY <1>1, <2>1, OthersUntouched, OthersFrozen
    <3>2. Onward(k)
      BY <3>1 DEF SameJob, Frozen, Onward
    <3> QED BY <3>2, OnwardKeeps
  <2>2. CASE k = j
    BY <1>1, <2>2, AnalyzeEarlyEnd, RunOnward, OnwardKeeps, ObserveEarlyEnd
  <2> QED BY <2>1, <2>2
<1>2. ASSUME NEW h \in Handlers, Cancel(h) \/ Delete(h) \/ DeleteMe(h) PROVE EarlyEnd(k)'
  <2>1. Reclaimed(k) /\ Frozen(k) /\ mem[k] \in JobObject
    BY <1>2, RequestsReclaim, RequestsFreeze DEF TypeOK
  <2>2. mem[k].cancel => mem'[k].cancel
    BY <2>1 DEF Reclaimed, JobObject
  <2>3. k \in jobs' => k \in jobs
    BY <1>2 DEF Cancel, CancelLookup, CancelSet, Delete, DeleteStart, DeleteRow, DeleteRowFails,
                DeleteDir, DeleteMe, DeleteMeStart, DeleteMeWipe, DeleteMeUser, DeleteMeFails
  <2>4. Onward(k)
    BY <2>1, <2>2, <2>3 DEF Frozen, Onward
  <2> QED BY <2>4, OnwardKeeps
<1>3. CASE Crash
  <2>1. /\ told' = told /\ jobs' = {}
        /\ pc'[k] = IF pc[k] = "none" THEN "none" ELSE "dead"
    BY <1>3 DEF Crash
  <2> QED BY <2>1 DEF EarlyEnd
<1>4. CASE Restart
  BY <1>4 DEF Restart, EarlyEnd
<1>5. CASE UNCHANGED lifeVars
  BY <1>5 DEF lifeVars, EarlyEnd
<1> QED BY <1>1, <1>2, <1>3, <1>4, <1>5 DEF Next

(* A stream ends without a verdict only for a job that was deleted meanwhile *)
(* and was told to stop, or had come to its end by then: replay() never      *)
(* takes the row of a job that goes on for that of a finished one.           *)
THEOREM EarlyEndsDeleted == Spec => []EarlyEndMeansDeleted
<1> DEFINE AllEarly == \A k \in Jobs : EarlyEnd(k)
<1>1. Init => AllEarly
  BY DEF Init, EarlyEnd
<1>2. TypeOK /\ RequestsSane /\ (\A k \in Jobs : JobInv(k)) /\ AllEarly /\ [Next]_lifeVars
        => AllEarly'
  BY EarlyEndKept
<1>3. LifecycleInv => RequestsSane /\ \A k \in Jobs : JobInv(k)
  BY PerJob
<1>4. AllEarly => EarlyEndMeansDeleted
  BY DEF EarlyEnd, EarlyEndMeansDeleted
<1> HIDE DEF AllEarly
<1> QED BY <1>1, <1>2, <1>3, <1>4, TypeCorrect, LifecycleHolds, PTL DEF Spec

=============================================================================
