--------------------------- MODULE RunnerContract ---------------------------
(***************************************************************************)
(* What run_job relies on when it awaits run_js or run_py, however the     *)
(* backend process behaves, on either platform and with any limits.        *)
(*                                                                         *)
(* Until it answers, the runner reports phases, each later than the last;  *)
(* then it answers once.  A result, or the word that the run was           *)
(* cancelled, is the answer of a process that has ended, and says whether  *)
(* the cancellation came in time.  After the answer no phase is reported.  *)
(* BackendRunner is shown to implement this module; JobLifecycle lets the  *)
(* runner of a job do all that is possible here.                           *)
(***************************************************************************)
EXTENDS Naturals

CONSTANT LastPhase   \* rank of phase "ioc" in PHASE_ORDER

VARIABLES
    phase,    \* the last one given to on_phase
    cancel,   \* cancel_event
    answer,   \* how run_js / run_py ended
    alive     \* the backend process is there

vars == <<phase, cancel, answer, alive>>

Init == phase = 0 /\ cancel = FALSE /\ answer = "none" /\ alive = TRUE

Advance(p) ==
    /\ answer = "none"
    /\ p > phase
    /\ phase' = p
    /\ UNCHANGED <<cancel, answer, alive>>

(* Somebody asks for the run to end; after the answer nobody is heard. *)
Ask ==
    /\ answer = "none"
    /\ cancel' = TRUE
    /\ UNCHANGED <<phase, answer, alive>>

(* The process ends, now or long after a runner that gave up on it. *)
End ==
    /\ alive' = FALSE
    /\ UNCHANGED <<phase, cancel, answer>>

(* The process may end with the answer. *)
Answer(how) ==
    /\ answer = "none"
    /\ answer' = how
    /\ alive' \in {alive, FALSE}
    /\ how = "result" => ~cancel /\ ~alive'
    /\ how = "cancelled" => cancel /\ ~alive'
    /\ UNCHANGED <<phase, cancel>>

Next ==
    \/ \E p \in 1 .. LastPhase : Advance(p)
    \/ Ask
    \/ End
    \/ \E how \in {"result", "cancelled", "raised"} : Answer(how)

Spec == Init /\ [][Next]_vars

=============================================================================
