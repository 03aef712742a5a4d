--------------------------- MODULE SessionContract ---------------------------
(***************************************************************************)
(* What the API promises about accounts and sessions, whatever requests    *)
(* overlap, fail or are cut off.                                           *)
(*                                                                         *)
(*   account:  unborn -> open -> closed                                    *)
(*   session:  unissued -> valid, for one open account -> ended            *)
(*                                                                         *)
(* A session keeps its account; an ended one is never valid again, and an  *)
(* account takes all of its sessions with it.  Accounts is shown to        *)
(* implement this module: the sessions are the rows of table tokens.       *)
(***************************************************************************)
CONSTANTS Owners, Sessions, Nobody

VARIABLES
    account,    \* [Owners -> "unborn" | "open" | "closed"]
    session,    \* [Sessions -> "unissued" | "valid" | "ended"]
    holder      \* [Sessions -> the account of a valid session, or Nobody]

vars == <<account, session, holder>>

TypeOK ==
    /\ account \in [Owners -> {"unborn", "open", "closed"}]
    /\ session \in [Sessions -> {"unissued", "valid", "ended"}]
    /\ holder \in [Sessions -> Owners \cup {Nobody}]

Init ==
    /\ account = [a \in Owners |-> "unborn"]
    /\ session = [s \in Sessions |-> "unissued"]
    /\ holder = [s \in Sessions |-> Nobody]

Of(a) == {s \in Sessions : holder[s] = a}

(* Sessions that are over, for good. *)
Ended(gone) ==
    /\ session' = [s \in Sessions |-> IF s \in gone THEN "ended" ELSE session[s]]
    /\ holder' = [s \in Sessions |-> IF s \in gone THEN Nobody ELSE holder[s]]

Open(a) ==
    /\ account[a] = "unborn"
    /\ account' = [account EXCEPT ![a] = "open"]
    /\ UNCHANGED <<session, holder>>

Grant(s, a) ==
    /\ account[a] = "open"
    /\ session[s] = "unissued"
    /\ session' = [session EXCEPT ![s] = "valid"]
    /\ holder' = [holder EXCEPT ![s] = a]
    /\ UNCHANGED account

(* One account signs out of some of its sessions, never of another's. *)
SignOut(a, gone) ==
    /\ gone \subseteq Of(a)
    /\ Ended(gone)
    /\ UNCHANGED account

Close(a) ==
    /\ account[a] = "open"
    /\ account' = [account EXCEPT ![a] = "closed"]
    /\ Ended(Of(a))

Next ==
    \E a \in Owners :
        \/ Open(a) \/ Close(a)
        \/ \E s \in Sessions : Grant(s, a)
        \/ \E gone \in SUBSET Sessions : SignOut(a, gone)

Spec == Init /\ [][Next]_vars

=============================================================================
