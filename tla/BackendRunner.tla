--------------------------- MODULE BackendRunner ---------------------------
(***************************************************************************)
(* One backend process and the coroutine of runner.py that pumps it:       *)
(* _stream_process with its three reasons to stop, _stop_process_tree with *)
(* its escalation, and the tail of run_js / run_py that judges the exit.   *)
(*                                                                         *)
(* Time advances in ticks of one second, the timeout of one readline; the  *)
(* coroutine's own code takes no time.  A line is what the pump makes of   *)
(* it: the rank of the phase its text names, nothing, or a line beyond the *)
(* 64 KiB limit of asyncio's StreamReader.                                 *)
(***************************************************************************)
EXTENDS Naturals

CONSTANTS
    LastPhase,    \* rank of phase "ioc" in PHASE_ORDER
    MaxRuntime,   \* BACKEND_MAX_RUNTIME_SECONDS, 0: no limit
    IdleLimit,    \* BACKEND_IDLE_TIMEOUT_SECONDS, 0: no limit
    Grace,        \* BACKEND_STOP_GRACE_SECONDS
    MaxLines,     \* bound: lines the backend prints
    Horizon       \* bound: seconds the model looks ahead

ASSUME RunnerAssumption ==
    /\ LastPhase \in Nat /\ MaxRuntime \in Nat /\ IdleLimit \in Nat
    /\ Grace \in Nat /\ MaxLines \in Nat /\ Horizon \in Nat

VARIABLES
    windows,   \* sys.platform == "win32"
    pc,        \* control point of the coroutine
    reason,    \* why the process is being stopped
    outcome,   \* how run_js / run_py ended
    phase,     \* current_phase, the last one given to on_phase
    proc,      \* [alive, rc, report]: the backend process and what it left
    closed,    \* the process gave up its own end of the pipe
    kid,       \* a descendant outlived it and holds the pipe
    line,      \* the line waiting in the pipe
    printed,   \* lines printed so far
    killed,    \* SIGKILL (or TerminateProcess) was sent
    cancel,    \* cancel_event
    runtime, idle, waited, asked   \* seconds since start, output, stop request, cancel

procVars  == <<proc, closed, kid, line, printed>>
clocks    == <<runtime, idle, waited, asked>>
runVars   == <<windows, pc, reason, outcome, phase, proc, closed, kid, line, printed,
               killed, cancel, runtime, idle, waited, asked>>

Phase   == 0 .. LastPhase
NoLine  == [kind |-> "none", phase |-> 0]
Line    == [kind: {"text", "blank", "overlong"}, phase: Phase]
Reasons == {"cancel_requested", "max_runtime_timeout", "idle_timeout"}

TypeOK ==
    /\ windows \in BOOLEAN
    /\ pc \in {"top", "reading", "taskkill", "terminating", "killing", "waiting", "returned"}
    /\ reason \in Reasons \cup {"none"}
    /\ outcome \in {"none", "result", "cancelled", "raised"}
    /\ phase \in Phase
    /\ proc \in [alive: BOOLEAN, rc: {"none", "zero", "other"}, report: BOOLEAN]
    /\ closed \in BOOLEAN /\ kid \in BOOLEAN /\ killed \in BOOLEAN /\ cancel \in BOOLEAN
    /\ line \in Line \cup {NoLine}
    /\ printed \in 0 .. MaxLines
    /\ runtime \in 0 .. Horizon /\ idle \in 0 .. Horizon
    /\ waited \in 0 .. Horizon /\ asked \in 0 .. Horizon

(* create_subprocess_exec returned, on_phase("detect") was called. *)
Init ==
    /\ windows \in BOOLEAN
    /\ pc = "top" /\ reason = "none" /\ outcome = "none" /\ phase = 0
    /\ proc = [alive |-> TRUE, rc |-> "none", report |-> FALSE]
    /\ closed = FALSE /\ kid = FALSE /\ line = NoLine /\ printed = 0
    /\ killed = FALSE /\ cancel = FALSE
    /\ runtime = 0 /\ idle = 0 /\ waited = 0 /\ asked = 0

PipeOpen == kid \/ (proc.alive /\ ~closed)

-----------------------------------------------------------------------------
(* The process: it prints, closes its stdout, exits, on its own or on a     *)
(* signal, and may leave a descendant (a sandbox) that holds the pipe.      *)

Prints(l) ==
    /\ PipeOpen
    /\ line = NoLine
    /\ printed < MaxLines
    /\ line' = l
    /\ printed' = printed + 1
    /\ UNCHANGED <<windows, pc, reason, outcome, phase, proc, closed, kid, killed, cancel, clocks>>

Closes ==
    /\ proc.alive /\ ~closed
    /\ closed' = TRUE
    /\ UNCHANGED <<windows, pc, reason, outcome, phase, proc, kid, line, printed, killed, cancel, clocks>>

Exits(code, wrote, orphan) ==
    /\ proc.alive
    /\ killed => code = "other"
    /\ proc' = [alive |-> FALSE, rc |-> code, report |-> wrote]
    /\ kid' = orphan
    /\ UNCHANGED <<windows, pc, reason, outcome, phase, closed, line, printed, killed, cancel, clocks>>

KidEnds ==
    /\ kid
    /\ kid' = FALSE
    /\ UNCHANGED <<windows, pc, reason, outcome, phase, proc, closed, line, printed, killed, cancel, clocks>>

(* job._cancel.set(), by the cancel thread or by a delete. *)
CancelRequested ==
    /\ outcome = "none"
    /\ ~cancel
    /\ cancel' = TRUE
    /\ UNCHANGED <<windows, pc, reason, outcome, phase, procVars, killed, clocks>>

-----------------------------------------------------------------------------
(* _stop_process_tree *)

Raise == pc' = "returned" /\ outcome' = "raised"

(* A stop for a cancellation breaks out of the pump, any other one raises. *)
Stopped(why) ==
    IF why = "cancel_requested" THEN pc' = "waiting" /\ UNCHANGED outcome ELSE Raise

(* Nothing to do for a process that has exited; otherwise taskkill on       *)
(* Windows, SIGTERM elsewhere.                                              *)
Stop(why) ==
    /\ reason' = why
    /\ waited' = 0
    /\ \/ ~proc.alive /\ Stopped(why)
       \/ proc.alive /\ pc' = (IF windows THEN "taskkill" ELSE "terminating") /\ UNCHANGED outcome

(* taskkill /T /F ends the whole tree. *)
TaskkillWorks ==
    /\ pc = "taskkill"
    /\ proc' = IF proc.alive THEN [proc EXCEPT !.alive = FALSE, !.rc = "other"] ELSE proc
    /\ kid' = FALSE
    /\ Stopped(reason)
    /\ UNCHANGED <<windows, reason, phase, closed, line, printed, killed, cancel, clocks>>

(* It could not be started or timed out: terminate(), which Windows does    *)
(* not let the process refuse.                                              *)
TaskkillFails ==
    /\ pc = "taskkill"
    /\ pc' = "terminating"
    /\ killed' = TRUE
    /\ waited' = 0
    /\ UNCHANGED <<windows, reason, outcome, phase, procVars, cancel, runtime, idle, asked>>

Terminated ==
    /\ pc \in {"terminating", "killing"}
    /\ ~proc.alive
    /\ Stopped(reason)
    /\ UNCHANGED <<windows, reason, phase, procVars, killed, cancel, clocks>>

(* Mutant: a second polite request instead of the kill. *)
GraceNeverOver == FALSE

(* The grace period is over: SIGKILL, and a wait without a limit. *)
GraceOver == waited >= Grace

Kill ==
    /\ pc = "terminating"
    /\ proc.alive
    /\ GraceOver
    /\ pc' = "killing"
    /\ killed' = TRUE
    /\ UNCHANGED <<windows, reason, outcome, phase, procVars, cancel, clocks>>

-----------------------------------------------------------------------------
(* _stream_process *)

(* Mutant: the runtime limit is measured from the last output. *)
TooLongSilent == MaxRuntime > 0 /\ idle > MaxRuntime

TooLong   == MaxRuntime > 0 /\ runtime > MaxRuntime
TooSilent == IdleLimit > 0 /\ idle > IdleLimit

(* The top of the loop: the three checks, in the order of the code. *)
Check ==
    /\ pc = "top"
    /\ \/ cancel /\ Stop("cancel_requested")
       \/ ~cancel /\ TooLong /\ Stop("max_runtime_timeout")
       \/ ~cancel /\ ~TooLong /\ TooSilent /\ Stop("idle_timeout")
       \/ /\ ~cancel /\ ~TooLong /\ ~TooSilent
          /\ pc' = "reading"
          /\ UNCHANGED <<reason, outcome, waited>>
    /\ UNCHANGED <<windows, phase, procVars, killed, cancel, runtime, idle, asked>>

(* Mutant: any phase named in the text is reported. *)
PhaseNamed(l) == IF l.kind = "text" THEN l.phase ELSE phase

(* Mutant: every line with text is a phase further. *)
PhaseByCount(l) == IF l.kind = "text" THEN phase + 1 ELSE phase

(* Only text moves the phase, and only forward. *)
PhaseAfter(l) == IF l.kind = "text" /\ l.phase > phase THEN l.phase ELSE phase

(* Any line counts as output. *)
ReadLine ==
    /\ pc = "reading"
    /\ line.kind \in {"text", "blank"}
    /\ phase' = PhaseAfter(line)
    /\ line' = NoLine
    /\ idle' = 0
    /\ pc' = "top"
    /\ UNCHANGED <<windows, reason, outcome, proc, closed, kid, printed, killed, cancel,
                   runtime, waited, asked>>

(* readline raises ValueError: nothing in the runner catches it, and nothing *)
(* stops the process.                                                        *)
ReadOverlong ==
    /\ pc = "reading"
    /\ line.kind = "overlong"
    /\ Raise
    /\ UNCHANGED <<windows, reason, phase, procVars, killed, cancel, clocks>>

(* EOF ends the pump; run_js / run_py then wait for the process itself. *)
ReadEof ==
    /\ pc = "reading"
    /\ line = NoLine
    /\ ~PipeOpen
    /\ pc' = "waiting"
    /\ UNCHANGED <<windows, reason, outcome, phase, procVars, killed, cancel, clocks>>

-----------------------------------------------------------------------------
(* Mutant: the exit code decides alone. *)
JudgeByCode == IF proc.rc = "zero" /\ proc.report THEN "result" ELSE "raised"

(* The tail of run_js / run_py: cancelled, failed, no report, or a result *)
Judge ==
    IF cancel THEN "cancelled"
    ELSE IF proc.rc = "zero" /\ proc.report THEN "result" ELSE "raised"

Finish ==
    /\ pc = "waiting"
    /\ ~proc.alive
    /\ pc' = "returned"
    /\ outcome' = Judge
    /\ UNCHANGED <<windows, reason, phase, procVars, killed, cancel, clocks>>

-----------------------------------------------------------------------------
(* A second passes only while the coroutine waits; a killed process is gone  *)
(* before it does.                                                           *)
Waiting ==
    /\ ~(killed /\ proc.alive)
    /\ \/ pc = "reading" /\ line = NoLine /\ PipeOpen
       \/ pc = "taskkill" /\ proc.alive /\ waited < 2 * Grace
       \/ pc = "terminating" /\ proc.alive /\ waited < Grace
       \/ pc \in {"waiting", "returned"} /\ proc.alive

Tick ==
    /\ Waiting
    /\ runtime < Horizon
    /\ runtime' = runtime + 1
    /\ idle' = idle + 1
    /\ waited' = IF pc \in {"taskkill", "terminating"} THEN waited + 1 ELSE waited
    /\ asked' = IF cancel THEN asked + 1 ELSE asked
    /\ pc' = IF pc = "reading" THEN "top" ELSE pc
    /\ UNCHANGED <<windows, reason, outcome, phase, procVars, killed, cancel>>

Pump == Check \/ ReadLine \/ ReadOverlong \/ ReadEof
Stopping == TaskkillWorks \/ TaskkillFails \/ Terminated \/ Kill
Backend ==
    \/ \E l \in Line : Prints(l)
    \/ Closes \/ KidEnds
    \/ \E code \in {"zero", "other"}, wrote \in BOOLEAN, orphan \in BOOLEAN :
          Exits(code, wrote, orphan)

Next == Pump \/ Stopping \/ Finish \/ Tick \/ Backend \/ CancelRequested

Spec == Init /\ [][Next]_runVars

(* The event loop runs what is ready, time passes, and the kernel delivers a *)
(* SIGKILL.  Nothing makes a backend exit, print or fall silent.             *)
Fairness ==
    /\ WF_runVars(Pump)
    /\ WF_runVars(Stopping)
    /\ WF_runVars(Finish)
    /\ WF_runVars(Tick)
    /\ WF_runVars(killed /\ \E orphan \in BOOLEAN : Exits("other", TRUE, orphan))

FairSpec == Spec /\ Fairness

-----------------------------------------------------------------------------
(* What must hold *)

(* The longest a stop takes: on Windows two waits for taskkill come first. *)
StopTime == IF windows THEN 3 * Grace ELSE Grace

(* readline gave up on an overlong line, and the runner on its process. *)
Abandoned == outcome = "raised" /\ reason = "none" /\ line.kind = "overlong"

(* A process that the pump has in hand: its own stdout is open.             *)
InHand == proc.alive /\ ~closed /\ ~Abandoned

(* Both limits and a cancellation end the process, however it behaves on    *)
(* SIGTERM and whatever it prints, within a second of noticing and the time *)
(* that the escalation takes.                                               *)
OverdueIsKilled ==
    InHand =>
        /\ MaxRuntime > 0 => runtime <= MaxRuntime + 1 + StopTime
        /\ IdleLimit > 0 => idle <= IdleLimit + 1 + StopTime
        /\ asked <= 1 + StopTime

(* The runner answers only for a process that has ended, and never turns a  *)
(* cancelled, failed or reportless run into a result.                       *)
AnswerSound ==
    outcome # "none" /\ ~Abandoned =>
        /\ ~proc.alive
        /\ outcome = "result" => ~cancel /\ proc.rc = "zero" /\ proc.report
        /\ outcome = "cancelled" => cancel
        /\ cancel /\ reason \in {"none", "cancel_requested"} => outcome = "cancelled"

(* on_phase only ever moves forward: the order in which the job's row may   *)
(* see phases.                                                              *)
PhasesClimb == [][phase' >= phase]_phase

(* What run_job relies on: phases that climb until there is an answer, one  *)
(* answer, and a process that is gone when the answer is no error.          *)
Contract == INSTANCE RunnerContract WITH answer <- outcome, alive <- proc.alive

ContractSpec == Contract!Spec

(* The runner comes back, by itself or because it stopped the process,      *)
(* unless the process closed its stdout and stayed.                         *)
Answers == <>(outcome # "none" \/ closed)

(* What the operator is promised of the runtime limit: no backend lives     *)
(* longer than the limit and the time it takes to stop it.                  *)
RuntimeLimitKills == MaxRuntime > 0 /\ proc.alive => runtime <= MaxRuntime + 1 + StopTime

=============================================================================
