------------------------ MODULE BackendRunner_proofs ------------------------
(***************************************************************************)
(* Theorems about BackendRunner for any phases, limits, grace period, and  *)
(* any number of lines and seconds.                                        *)
(***************************************************************************)
EXTENDS BackendRunner, TLAPS

(* The clocks that are set back never lead the one that is not. *)
ClocksBehind == idle <= runtime /\ waited <= runtime /\ asked <= runtime

(* Where the coroutine stands says why, and whether it has answered. *)
Control ==
    /\ outcome = "none" <=> pc # "returned"
    /\ pc \in {"top", "reading"} => reason = "none"
    /\ pc \in {"taskkill", "terminating", "killing"} => reason \in Reasons
    /\ pc = "waiting" => reason \in {"none", "cancel_requested"}
    /\ reason = "cancel_requested" => cancel

(* It waits for the process only when that has given up its pipe. *)
WaitsAfterEof == pc = "waiting" => ~proc.alive \/ closed

RunnerInv == TypeOK /\ ClocksBehind /\ Control /\ WaitsAfterEof /\ AnswerSound

-----------------------------------------------------------------------------

LEMMA InitInv == Init => RunnerInv
<1> SUFFICES ASSUME Init PROVE RunnerInv
  OBVIOUS
<1>1. TypeOK
  <2>1. windows \in BOOLEAN /\ closed \in BOOLEAN /\ kid \in BOOLEAN /\ killed \in BOOLEAN
        /\ cancel \in BOOLEAN
    BY Zenon DEF Init
  <2>2. /\ phase \in Phase /\ printed \in 0 .. MaxLines /\ runtime \in 0 .. Horizon
        /\ idle \in 0 .. Horizon /\ waited \in 0 .. Horizon /\ asked \in 0 .. Horizon
    BY RunnerAssumption DEF Init, Phase
  <2>3. proc \in [alive: BOOLEAN, rc: {"none", "zero", "other"}, report: BOOLEAN]
    BY DEF Init
  <2> QED BY <2>1, <2>2, <2>3 DEF Init, TypeOK
<1>2. ClocksBehind /\ Control /\ WaitsAfterEof /\ AnswerSound
  BY DEF Init, ClocksBehind, Control, WaitsAfterEof, AnswerSound, Reasons
<1> QED BY <1>1, <1>2 DEF RunnerInv

(* Every action keeps the types, and the clocks in their order. *)
LEMMA TypeKept ==
    ASSUME TypeOK, ClocksBehind, Control, [Next]_runVars
    PROVE  TypeOK' /\ ClocksBehind'
<1> USE RunnerAssumption
<1> USE DEF TypeOK, ClocksBehind
<1>1. CASE Check
  BY <1>1 DEF Check, Stop, Stopped, Raise, procVars, Reasons
<1>2. CASE ReadLine
  <2>1. line \in Line
    BY <1>2 DEF ReadLine, NoLine
  <2>2. PhaseAfter(line) \in Phase
    BY <2>1 DEF PhaseAfter, Line
  <2> QED BY <1>2, <2>2 DEF ReadLine
<1>3. CASE ReadOverlong
  BY <1>3 DEF ReadOverlong, Raise, procVars, clocks
<1>4. CASE ReadEof
  BY <1>4 DEF ReadEof, procVars, clocks
<1>5. CASE TaskkillWorks
  BY <1>5 DEF TaskkillWorks, Stopped, Raise, clocks
<1>6. CASE TaskkillFails
  BY <1>6 DEF TaskkillFails, procVars
<1>7. CASE Terminated
  BY <1>7 DEF Terminated, Stopped, Raise, procVars, clocks
<1>8. CASE Kill
  BY <1>8 DEF Kill, procVars, clocks
<1>9. CASE Finish
  BY <1>9 DEF Finish, Judge, procVars, clocks
<1>10. CASE Tick
  <2>1. asked' <= runtime' /\ idle' <= runtime' /\ waited' <= runtime'
    BY <1>10 DEF Tick
  <2>2. runtime' \in 0 .. Horizon /\ idle' \in 0 .. Horizon
    BY <1>10, <2>1 DEF Tick
  <2>3. waited' \in 0 .. Horizon /\ asked' \in 0 .. Horizon
    BY <1>10, <2>1, <2>2 DEF Tick
  <2> QED BY <1>10, <2>1, <2>2, <2>3 DEF Tick, procVars
<1>11. CASE \E l \in Line : Prints(l)
  BY <1>11 DEF Prints, clocks
<1>12. CASE Closes
  BY <1>12 DEF Closes, clocks
<1>13. CASE KidEnds
  <2>1. kid' \in BOOLEAN
    BY <1>13, Zenon DEF KidEnds
  <2>2. UNCHANGED <<windows, pc, reason, outcome, phase, proc, closed, line, printed, killed,
                    cancel, runtime, idle, waited, asked>>
    BY <1>13 DEF KidEnds, clocks
  <2> QED BY <2>1, <2>2
<1>14. CASE \E code \in {"zero", "other"}, wrote \in BOOLEAN, orphan \in BOOLEAN :
               Exits(code, wrote, orphan)
  BY <1>14 DEF Exits, clocks
<1>15. CASE CancelRequested
  BY <1>15 DEF CancelRequested, procVars, clocks
<1>16. CASE UNCHANGED runVars
  BY <1>16 DEF runVars
<1> QED
  BY <1>1, <1>2, <1>3, <1>4, <1>5, <1>6, <1>7, <1>8, <1>9, <1>10, <1>11, <1>12, <1>13, <1>14,
     <1>15, <1>16 DEF Next, Pump, Stopping, Backend

(* Why it stops, and that it has not answered before it returned. *)
LEMMA ControlKept ==
    ASSUME TypeOK, Control, WaitsAfterEof, [Next]_runVars
    PROVE  Control' /\ WaitsAfterEof'
<1> USE DEF TypeOK, Control, WaitsAfterEof, Reasons
<1>1. CASE Check
  BY <1>1 DEF Check, Stop, Stopped, Raise, procVars
<1>2. CASE ReadLine
  BY <1>2 DEF ReadLine
<1>3. CASE ReadOverlong
  BY <1>3 DEF ReadOverlong, Raise, procVars, clocks
<1>4. CASE ReadEof
  BY <1>4 DEF ReadEof, PipeOpen, procVars, clocks
<1>5. CASE TaskkillWorks
  BY <1>5 DEF TaskkillWorks, Stopped, Raise, clocks
<1>6. CASE TaskkillFails
  BY <1>6 DEF TaskkillFails, procVars
<1>7. CASE Terminated
  BY <1>7 DEF Terminated, Stopped, Raise, procVars, clocks
<1>8. CASE Kill
  BY <1>8 DEF Kill, procVars, clocks
<1>9. CASE Finish
  BY <1>9 DEF Finish, Judge, procVars, clocks
<1>10. CASE Tick
  BY <1>10 DEF Tick, procVars
<1>11. CASE \E l \in Line : Prints(l)
  BY <1>11 DEF Prints, clocks
<1>12. CASE Closes
  BY <1>12 DEF Closes, clocks
<1>13. CASE KidEnds
  BY <1>13 DEF KidEnds, clocks
<1>14. CASE \E code \in {"zero", "other"}, wrote \in BOOLEAN, orphan \in BOOLEAN :
               Exits(code, wrote, orphan)
  BY <1>14 DEF Exits, clocks
<1>15. CASE CancelRequested
  BY <1>15 DEF CancelRequested, procVars, clocks
<1>16. CASE UNCHANGED runVars
  BY <1>16 DEF runVars
<1> QED
  BY <1>1, <1>2, <1>3, <1>4, <1>5, <1>6, <1>7, <1>8, <1>9, <1>10, <1>11, <1>12, <1>13, <1>14,
     <1>15, <1>16 DEF Next, Pump, Stopping, Backend

(* An answer is given in four places, and what it rests on stays as it was:  *)
(* a process that ended is not restarted, a late cancellation not let in.    *)
LEMMA AnswerKept ==
    ASSUME TypeOK, Control, WaitsAfterEof, AnswerSound, [Next]_runVars
    PROVE  AnswerSound'
<1> USE DEF TypeOK, Control, AnswerSound, Abandoned, Reasons
<1>1. CASE Check
  BY <1>1 DEF Check, Stop, Stopped, Raise, procVars
<1>2. CASE ReadLine
  BY <1>2 DEF ReadLine
<1>3. CASE ReadOverlong
  BY <1>3 DEF ReadOverlong, Raise, procVars, clocks
<1>4. CASE ReadEof
  BY <1>4 DEF ReadEof, PipeOpen, procVars, clocks
<1>5. CASE TaskkillWorks
  BY <1>5 DEF TaskkillWorks, Stopped, Raise, clocks
<1>6. CASE TaskkillFails
  BY <1>6 DEF TaskkillFails, procVars
<1>7. CASE Terminated
  BY <1>7 DEF Terminated, Stopped, Raise, procVars, clocks
<1>8. CASE Kill
  BY <1>8 DEF Kill, procVars, clocks
<1>9. CASE Finish
  BY <1>9 DEF Finish, Judge, procVars, clocks
<1>10. CASE Tick
  BY <1>10 DEF Tick, procVars
<1>11. CASE \E l \in Line : Prints(l)
  BY <1>11 DEF Prints, NoLine, clocks
<1>12. CASE Closes
  BY <1>12 DEF Closes, clocks
<1>13. CASE KidEnds
  BY <1>13 DEF KidEnds, clocks
<1>14. CASE \E code \in {"zero", "other"}, wrote \in BOOLEAN, orphan \in BOOLEAN :
               Exits(code, wrote, orphan)
  BY <1>14 DEF Exits, clocks
<1>15. CASE CancelRequested
  BY <1>15 DEF CancelRequested, procVars, clocks
<1>16. CASE UNCHANGED runVars
  BY <1>16 DEF runVars
<1> QED
  BY <1>1, <1>2, <1>3, <1>4, <1>5, <1>6, <1>7, <1>8, <1>9, <1>10, <1>11, <1>12, <1>13, <1>14,
     <1>15, <1>16 DEF Next, Pump, Stopping, Backend

LEMMA StepInv == RunnerInv /\ [Next]_runVars => RunnerInv'
BY TypeKept, ControlKept, AnswerKept DEF RunnerInv

(* The inductive invariant. *)
THEOREM RunnerHolds == Spec => []RunnerInv
BY InitInv, StepInv, PTL DEF Spec

(* Every variable keeps its type; in particular no clock passes the horizon. *)
THEOREM RunnerTypes == Spec => []TypeOK
<1>1. RunnerInv => TypeOK
  BY DEF RunnerInv
<1> QED BY <1>1, RunnerHolds, PTL

(* The answer of run_js and run_py fits how the process ended and whether    *)
(* the run was cancelled.                                                    *)
THEOREM AnswersSound == Spec => []AnswerSound
<1>1. RunnerInv => AnswerSound
  BY DEF RunnerInv
<1> QED BY <1>1, RunnerHolds, PTL

(* The phase that on_phase reports never goes back, whatever is printed. *)
THEOREM PhasesAdvance == Spec => PhasesClimb
<1>1. RunnerInv /\ [Next]_runVars => [phase' >= phase]_phase
  <2> SUFFICES ASSUME RunnerInv, [Next]_runVars PROVE [phase' >= phase]_phase
    OBVIOUS
  <2>1. phase \in Nat
    BY RunnerAssumption DEF RunnerInv, TypeOK, Phase
  <2>2. CASE ReadLine
    <3>1. line \in Line
      BY <2>2 DEF ReadLine, NoLine, RunnerInv, TypeOK
    <3>2. line.phase \in Nat
      BY <3>1, RunnerAssumption DEF Line, Phase
    <3> QED BY <2>1, <2>2, <3>2 DEF ReadLine, PhaseAfter
  <2>3. CASE ~ReadLine
    BY <2>3 DEF Next, Pump, Stopping, Backend, Check, ReadOverlong, ReadEof, TaskkillWorks,
       TaskkillFails, Terminated, Kill, Finish, Tick, Prints, Closes, KidEnds, Exits,
       CancelRequested, Raise, procVars, clocks, runVars
  <2> QED BY <2>2, <2>3
<1> QED BY <1>1, RunnerHolds, PTL DEF Spec, PhasesClimb

-----------------------------------------------------------------------------
(* RunnerContract.  Of what the coroutine and the process do, only four      *)
(* things show: a later phase, a cancellation, an end, an answer.            *)

LEMMA ContractInit == Init => Contract!Init
BY DEF Init, Contract!Init

(* A line gives a later phase or none.                                       *)
LEMMA ReadAdvances ==
    ASSUME RunnerInv, ReadLine
    PROVE  Contract!Next \/ UNCHANGED Contract!vars
<1>1. line \in Line /\ outcome = "none" /\ phase \in 0 .. LastPhase /\ LastPhase \in Nat
  BY RunnerAssumption DEF RunnerInv, TypeOK, Control, ReadLine, NoLine, Phase
<1>2. line.phase \in 0 .. LastPhase /\ UNCHANGED <<cancel, outcome, proc>> /\ phase' = PhaseAfter(line)
  BY <1>1 DEF Line, Phase, ReadLine
<1>3. CASE line.kind = "text" /\ line.phase > phase
  <2>1. line.phase \in 1 .. LastPhase
    BY <1>1, <1>2, <1>3
  <2>2. Contract!Advance(line.phase)
    BY <1>1, <1>2, <1>3 DEF PhaseAfter, Contract!Advance
  <2> QED BY <2>1, <2>2 DEF Contract!Next
<1>4. CASE ~(line.kind = "text" /\ line.phase > phase)
  BY <1>2, <1>4 DEF PhaseAfter, Contract!vars
<1> QED BY <1>3, <1>4

(* A stop ends the process or not, and raises or goes on.                    *)
LEMMA StopShows ==
    ASSUME outcome = "none", UNCHANGED <<phase, cancel>>,
           proc'.alive \in {proc.alive, FALSE}, outcome' \in {"none", "raised"}
    PROVE  Contract!Next \/ UNCHANGED Contract!vars
<1>1. CASE outcome' = "raised"
  <2>1. Contract!Answer("raised")
    BY <1>1 DEF Contract!Answer
  <2> QED BY <2>1 DEF Contract!Next
<1>2. CASE outcome' = "none" /\ proc'.alive = FALSE
  <2>1. Contract!End
    BY <1>2 DEF Contract!End
  <2> QED BY <2>1 DEF Contract!Next
<1>3. CASE outcome' = "none" /\ proc'.alive = proc.alive
  BY <1>3 DEF Contract!vars
<1> QED BY <1>1, <1>2, <1>3

LEMMA StepShows ==
    ASSUME RunnerInv, [Next]_runVars
    PROVE  Contract!Next \/ UNCHANGED Contract!vars
<1> USE DEF RunnerInv, TypeOK, Control, Reasons
<1>1. CASE Check
  <2>1. /\ outcome = "none" /\ UNCHANGED <<phase, cancel, proc>>
        /\ outcome' \in {"none", "raised"}
    BY <1>1 DEF Check, Stop, Stopped, Raise, procVars
  <2> QED BY <2>1, StopShows
<1>2. CASE ReadLine
  BY <1>2, ReadAdvances
<1>3. CASE ReadOverlong
  <2>1. outcome = "none" /\ UNCHANGED <<phase, cancel, proc>> /\ outcome' = "raised"
    BY <1>3 DEF ReadOverlong, Raise, procVars
  <2> QED BY <2>1, StopShows
<1>4. CASE ReadEof
  BY <1>4 DEF ReadEof, procVars, Contract!vars
<1>5. CASE TaskkillWorks
  <2>1. /\ outcome = "none" /\ UNCHANGED <<phase, cancel>> /\ proc'.alive = FALSE
        /\ outcome' \in {"none", "raised"}
    BY <1>5 DEF TaskkillWorks, Stopped, Raise
  <2> QED BY <2>1, StopShows
<1>6. CASE TaskkillFails
  BY <1>6 DEF TaskkillFails, procVars, Contract!vars
<1>7. CASE Terminated
  <2>1. outcome = "none" /\ UNCHANGED <<phase, cancel, proc>> /\ outcome' \in {"none", "raised"}
    BY <1>7 DEF Terminated, Stopped, Raise, procVars
  <2> QED BY <2>1, StopShows
<1>8. CASE Kill
  BY <1>8 DEF Kill, procVars, Contract!vars
<1>9. CASE Finish
  <2>1. /\ outcome = "none" /\ outcome' = Judge /\ UNCHANGED <<phase, cancel, proc>>
        /\ proc.alive = FALSE /\ Judge \in {"result", "cancelled", "raised"}
        /\ Judge = "result" => ~cancel
        /\ Judge = "cancelled" => cancel
    BY <1>9 DEF Finish, Judge, procVars
  <2>2. Contract!Answer(Judge)
    BY <2>1 DEF Contract!Answer
  <2> QED BY <2>1, <2>2 DEF Contract!Next
<1>10. CASE Tick
  BY <1>10 DEF Tick, procVars, Contract!vars
<1>11. CASE \E l \in Line : Prints(l)
  BY <1>11 DEF Prints, Contract!vars
<1>12. CASE Closes
  BY <1>12 DEF Closes, Contract!vars
<1>13. CASE KidEnds
  BY <1>13 DEF KidEnds, Contract!vars
<1>14. CASE \E code \in {"zero", "other"}, wrote \in BOOLEAN, orphan \in BOOLEAN :
               Exits(code, wrote, orphan)
  <2>1. Contract!End
    BY <1>14 DEF Exits, Contract!End
  <2> QED BY <2>1 DEF Contract!Next
<1>15. CASE CancelRequested
  <2>1. Contract!Ask
    BY <1>15 DEF CancelRequested, procVars, Contract!Ask
  <2> QED BY <2>1 DEF Contract!Next
<1>16. CASE UNCHANGED runVars
  BY <1>16 DEF runVars, Contract!vars
<1> QED
  BY <1>1, <1>2, <1>3, <1>4, <1>5, <1>6, <1>7, <1>8, <1>9, <1>10, <1>11, <1>12, <1>13, <1>14,
     <1>15, <1>16 DEF Next, Pump, Stopping, Backend

(* BackendRunner implements RunnerContract: run_job may rely on phases that  *)
(* climb until the answer, on one answer, and on a process that is gone when *)
(* the answer is a result or a cancellation, for any limits and any output.  *)
THEOREM RunnerKept == Spec => ContractSpec
BY ContractInit, StepShows, RunnerHolds, PTL DEF Spec, ContractSpec, Contract!Spec

-----------------------------------------------------------------------------
(* Limits.  Since bounds the time since the look at the clocks, or the       *)
(* cancellation, that the process is being stopped for.                      *)

Since ==
    IF pc = "reading" THEN 0
    ELSE IF pc = "top" THEN 1
    ELSE IF pc = "taskkill" THEN 1 + waited
    ELSE IF pc = "terminating" THEN 1 + waited + (IF windows THEN 2 * Grace ELSE 0)
    ELSE 1 + StopTime

(* The escalation goes on while the process is in hand, and time stands      *)
(* still for one that was killed.                                            *)
Escalation ==
    /\ pc = "taskkill" => windows /\ waited <= 2 * Grace
    /\ pc = "terminating" => waited <= Grace /\ (windows => killed)
    /\ pc = "killing" => killed
    /\ ~cancel \/ pc = "reading" => asked = 0

InTime ==
    /\ MaxRuntime > 0 => runtime <= MaxRuntime + Since
    /\ IdleLimit > 0 => idle <= IdleLimit + Since
    /\ asked <= Since

ClockInv == InHand => pc \notin {"waiting", "returned"} /\ Escalation /\ InTime

LEMMA ClockInit == Init => ClockInv
BY RunnerAssumption DEF Init, ClockInv, Escalation, InTime, Since, InHand

(* A process is not taken in hand again. *)
LEMMA HandKept ==
    ASSUME RunnerInv, [Next]_runVars, InHand'
    PROVE  InHand
<1> USE DEF RunnerInv, TypeOK, Control, InHand, Abandoned
<1>1. CASE Check
  BY <1>1 DEF Check, Stop, Stopped, Raise, procVars
<1>2. CASE ReadLine
  BY <1>2 DEF ReadLine
<1>3. CASE ReadOverlong
  BY <1>3 DEF ReadOverlong, Raise, procVars, clocks
<1>4. CASE ReadEof
  BY <1>4 DEF ReadEof, PipeOpen, procVars, clocks
<1>5. CASE TaskkillWorks
  BY <1>5 DEF TaskkillWorks, Stopped, Raise, clocks
<1>6. CASE TaskkillFails
  BY <1>6 DEF TaskkillFails, procVars
<1>7. CASE Terminated
  BY <1>7 DEF Terminated, Stopped, Raise, procVars, clocks
<1>8. CASE Kill
  BY <1>8 DEF Kill, procVars, clocks
<1>9. CASE Finish
  BY <1>9 DEF Finish, Judge, procVars, clocks
<1>10. CASE Tick
  BY <1>10 DEF Tick, procVars
<1>11. CASE \E l \in Line : Prints(l)
  BY <1>11 DEF Prints, NoLine, clocks
<1>12. CASE Closes
  BY <1>12 DEF Closes, clocks
<1>13. CASE KidEnds
  BY <1>13 DEF KidEnds, clocks
<1>14. CASE \E code \in {"zero", "other"}, wrote \in BOOLEAN, orphan \in BOOLEAN :
               Exits(code, wrote, orphan)
  BY <1>14 DEF Exits, clocks
<1>15. CASE CancelRequested
  BY <1>15 DEF CancelRequested, procVars, clocks
<1>16. CASE UNCHANGED runVars
  BY <1>16 DEF runVars
<1> QED
  BY <1>1, <1>2, <1>3, <1>4, <1>5, <1>6, <1>7, <1>8, <1>9, <1>10, <1>11, <1>12, <1>13, <1>14,
     <1>15, <1>16 DEF Next, Pump, Stopping, Backend

LEMMA ClockStep ==
    ASSUME RunnerInv, RunnerInv', ClockInv, [Next]_runVars
    PROVE  ClockInv'
<1> SUFFICES ASSUME InHand' PROVE ClockInv'
  BY DEF ClockInv
<1>0. /\ pc \notin {"waiting", "returned"} /\ Escalation /\ InTime /\ proc.alive /\ ~closed
      /\ pc' \notin {"waiting", "returned"} /\ proc'.alive
  <2>1. InHand
    BY HandKept
  <2>2. pc' # "waiting" /\ pc' # "returned"
    BY DEF RunnerInv, WaitsAfterEof, Control, AnswerSound, InHand, Abandoned
  <2> QED BY <2>1, <2>2 DEF ClockInv, InHand
<1>00. /\ Grace \in Nat /\ MaxRuntime \in Nat /\ IdleLimit \in Nat
       /\ runtime \in Nat /\ idle \in Nat /\ waited \in Nat /\ asked \in Nat
       /\ pc \in {"top", "reading", "taskkill", "terminating", "killing"}
  BY <1>0, RunnerAssumption DEF RunnerInv, TypeOK
<1> SUFFICES Escalation' /\ InTime'
  BY <1>0 DEF ClockInv
<1> USE <1>0, <1>00 DEF Escalation, InTime, Since, StopTime
<1>1. CASE Check
  BY <1>1 DEF Check, Stop, Stopped, Raise, TooLong, TooSilent, procVars
<1>2. CASE ReadLine
  BY <1>2 DEF ReadLine
<1>3. CASE ReadOverlong
  BY <1>3 DEF ReadOverlong, Raise, procVars, clocks
<1>4. CASE ReadEof
  BY <1>4 DEF ReadEof, PipeOpen, procVars, clocks
<1>5. CASE TaskkillWorks
  BY <1>5 DEF TaskkillWorks, Stopped, Raise, clocks
<1>6. CASE TaskkillFails
  BY <1>6 DEF TaskkillFails, procVars
<1>7. CASE Terminated
  BY <1>7 DEF Terminated, Stopped, Raise, procVars, clocks
<1>8. CASE Kill
  BY <1>8 DEF Kill, GraceOver, procVars, clocks
<1>9. CASE Finish
  BY <1>9 DEF Finish, Judge, procVars, clocks
<1>10. CASE Tick
  BY <1>10 DEF Tick, Waiting, procVars
<1>11. CASE \E l \in Line : Prints(l)
  BY <1>11 DEF Prints, clocks
<1>12. CASE Closes
  BY <1>12 DEF Closes, clocks
<1>13. CASE KidEnds
  BY <1>13 DEF KidEnds, clocks
<1>14. CASE \E code \in {"zero", "other"}, wrote \in BOOLEAN, orphan \in BOOLEAN :
               Exits(code, wrote, orphan)
  BY <1>14 DEF Exits, clocks
<1>15. CASE CancelRequested
  BY <1>15 DEF CancelRequested, procVars, clocks
<1>16. CASE UNCHANGED runVars
  BY <1>16 DEF runVars
<1> QED
  BY <1>1, <1>2, <1>3, <1>4, <1>5, <1>6, <1>7, <1>8, <1>9, <1>10, <1>11, <1>12, <1>13, <1>14,
     <1>15, <1>16 DEF Next, Pump, Stopping, Backend

(* Limits and cancellation end a process within a second of being noticed    *)
(* and the time the escalation takes, for any limits and any grace period.   *)
THEOREM OverdueKilled == Spec => []OverdueIsKilled
<1>1. RunnerInv /\ ClockInv => OverdueIsKilled
  <2> SUFFICES ASSUME RunnerInv, ClockInv, InHand
               PROVE  /\ MaxRuntime > 0 => runtime <= MaxRuntime + 1 + StopTime
                      /\ IdleLimit > 0 => idle <= IdleLimit + 1 + StopTime
                      /\ asked <= 1 + StopTime
    BY DEF OverdueIsKilled
  <2>1. Escalation /\ InTime
    BY DEF ClockInv
  <2>2. /\ Grace \in Nat /\ MaxRuntime \in Nat /\ IdleLimit \in Nat
        /\ runtime \in Nat /\ idle \in Nat /\ waited \in Nat /\ asked \in Nat
    BY RunnerAssumption DEF RunnerInv, TypeOK
  <2>3. Since <= 1 + StopTime /\ Since \in Nat /\ StopTime \in Nat
    BY <2>1, <2>2 DEF Escalation, Since, StopTime
  <2> QED BY <2>1, <2>2, <2>3 DEF InTime
<1>2. Spec => []ClockInv
  BY ClockInit, ClockStep, RunnerHolds, PTL DEF Spec
<1> QED BY <1>1, <1>2, RunnerHolds, PTL

=============================================================================
