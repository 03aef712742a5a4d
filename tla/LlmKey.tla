------------------------------- MODULE LlmKey -------------------------------
(***************************************************************************)
(* The LLM connection all users share: llm_config.toml of the JS and of    *)
(* the Python backend, the row llm_key_owner that says whose key they      *)
(* hold, the "Test connection" stamp in llm_verified.json, and the         *)
(* analysis runs that use the key.                                         *)
(*                                                                         *)
(* The files are written without an await, each statement is a step of its *)
(* own: a request is modelled from await to await.  A key is who pasted it *)
(* and its text; the fields that do not take part in the connection are    *)
(* left out.                                                               *)
(***************************************************************************)
CONSTANTS
    Users, Handlers,
    Texts, Tails, Tail,   \* keys, last four characters, and which key has which
    Fields, Values,       \* provider, model and base_url, and what they say
    Keep, Clear,          \* of a request: leave it, empty it
    NoUser, NoKey, NoTail, NoValue, NoStamp, Stale, Untested

ASSUME LlmAssumption ==
    /\ NoUser \notin Users
    /\ Tail \in [Texts -> Tails \cup {NoTail}]
    /\ NoValue \notin Values /\ Keep \notin Values \cup {NoValue, Clear}
    /\ \A u \in Users \cup {NoUser}, t \in Texts :
          [saver |-> u, text |-> t] \notin {NoKey, Keep, Clear}

VARIABLES
    account,   \* [Users -> "unborn", "member" (a row of users), "gone"]
    owner,     \* table llm_key_owner
    files,     \* [js, py]: what the two llm_config.toml say
    missing,   \* the engines that have no llm_config.toml yet
    stamp,     \* llm_verified.json, and what was tested for it; Stale if it cannot vouch
    reqs,      \* [Handlers -> the request it serves and the await it is at]
    server,    \* "down", "adopting", "up"
    heir,      \* history: the account that adopted the stored key, one from before the row
    apart      \* history: what left file and row apart was not put right yet

llmVars == <<account, owner, files, missing, stamp, reqs, server, heir, apart>>

Engines    == {"js", "py"}
Key        == [saver: Users \cup {NoUser}, text: Texts]
Connection == [Fields -> Values \cup {NoValue}]
File       == [key: Key \cup {NoKey}, conn: Connection]
Blank      == [key |-> NoKey, conn |-> [x \in Fields |-> NoValue]]
Tested     == [Engines -> File \cup {Untested}]
None       == [e \in Engines |-> Untested]

Fingerprints == Connection \X (Tails \cup {NoTail})
Stamps == [fp: Fingerprints, user: Users, tested: Tested]

(* A request: whether it read itself as the owner and, for a check, the     *)
(* fingerprint of what it read and the probes so far.  "queued" is a run on its   *)
(* way from the upload to its backend.  clean and alone are history: no     *)
(* write of the files during the check or the run, no other writer during   *)
(* the write.  What only an unclean check would use is not kept.            *)
NoPrint == <<Blank.conn, NoTail>>
Free == [at |-> "free", user |-> NoUser, owns |-> FALSE, fp |-> NoPrint, todo |-> {},
         tested |-> None, ok |-> TRUE, clean |-> TRUE, alone |-> TRUE]

(* The question whose key it is, and where its answer leads *)
Answered == [ask_put |-> "put", ask_check |-> "check", ask_gate |-> "gate",
             ask_delete |-> "delete"]

Awaits == DOMAIN Answered \cup
          {"free", "put", "set_owner", "clear_owner", "put_clear", "drop_owner", "check",
           "probing", "gate", "queued", "delete", "del_owner", "del_stamp", "del_user"}

Request == [at: Awaits, user: Users \cup {NoUser}, owns: BOOLEAN,
            fp: Fingerprints, todo: SUBSET Engines, tested: Tested,
            ok: BOOLEAN, clean: BOOLEAN, alone: BOOLEAN]

users == {u \in Users : account[u] = "member"}

TypeOK ==
    /\ account \in [Users -> {"unborn", "member", "gone"}]
    /\ owner \in users \cup {NoUser}
    /\ files \in [Engines -> File]
    /\ missing \subseteq Engines
    /\ stamp \in Stamps \cup {NoStamp, Stale}
    /\ reqs \in [Handlers -> Request]
    /\ server \in {"down", "adopting", "up"}
    /\ heir \in Users \cup {NoUser}
    /\ apart \in BOOLEAN

(* What a file may say that no request wrote: an example file, or one from  *)
(* before keys had owners.                                                  *)
Old == [key: {NoKey} \cup [saver: {NoUser}, text: Texts], conn: Connection]

(* Before the first start: a fresh checkout or an old one, where the two    *)
(* files are there or not, and agree or not.                                *)
Init ==
    /\ account \in [Users -> {"unborn", "member"}] /\ owner = NoUser
    /\ missing \in SUBSET Engines
    /\ files \in [Engines -> Old] /\ \A e \in missing : files[e] = Blank
    /\ stamp = NoStamp
    /\ reqs = [h \in Handlers |-> Free]
    /\ server = "down"
    /\ heir = NoUser /\ apart = FALSE

-----------------------------------------------------------------------------
(* llm_config.py *)

(* read_config: JS wins where it says something. *)
Merge(fs) ==
    [key  |-> IF fs["js"].key # NoKey THEN fs["js"].key ELSE fs["py"].key,
     conn |-> [x \in Fields |-> IF fs["js"].conn[x] # NoValue THEN fs["js"].conn[x]
                                ELSE fs["py"].conn[x]]]

TailOf(key) == IF key = NoKey THEN NoTail ELSE Tail[key.text]

(* Mutant: the fingerprint of the key alone. *)
FingerprintOfKey(f) == <<Blank.conn, TailOf(f.key)>>

(* fingerprint_for *)
Fingerprint(f) == <<f.conn, TailOf(f.key)>>

Configured(fs) == Merge(fs).key # NoKey

(* is_verified, for the owner of the key and a stamp that is followed *)
Verified(u) ==
    /\ owner = u
    /\ Configured(files)
    /\ stamp \notin {NoStamp, Stale}
    /\ stamp.fp = Fingerprint(Merge(files))
    /\ stamp.user = u

(* What a PUT may ask for; delete_me asks for the key to be cleared. *)
Bodies(u) == [key: [saver: {u}, text: Texts] \cup {Keep, Clear},
              conn: [Fields -> Values \cup {NoValue, Keep}]]
ClearKey  == [key |-> Clear, conn |-> [x \in Fields |-> Keep]]

(* _js_updates and _py_updates: the same for both, in these fields. *)
Update(f, b) ==
    [key  |-> IF b.key = Keep THEN f.key ELSE IF b.key = Clear THEN NoKey ELSE b.key,
     conn |-> [x \in Fields |-> IF b.conn[x] = Keep THEN f.conn[x] ELSE b.conn[x]]]

(* Mutant: the Python file keeps its key when the key is cleared. *)
UpdatedJsOnly(fs, b) ==
    [js |-> Update(fs["js"], b),
     py |-> IF b.key = Clear THEN fs["py"] ELSE Update(fs["py"], b)]

(* _update_toml_file, for each of the two files. *)
Updated(fs, b) == [e \in Engines |-> Update(fs[e], b)]

(* _ensure_exists: each missing file from its own example, or empty. *)
Bootstrapped(es) ==
    {[e \in Engines |-> IF e \in es THEN example[e] ELSE files[e]] : example \in [es -> Old]}

(* A stamp that cannot vouch for the files: what it says is not followed.   *)
Soiled == IF stamp = NoStamp THEN NoStamp ELSE Stale

(* clear_verified_fingerprint: best effort, the file may stay. *)
ClearStamp == stamp' \in {NoStamp, Soiled}

(* The files as an error in the middle of the writing leaves them: write_text *)
(* truncates a file and then fills it, and the Python file comes second.      *)
Pieces(f) ==
    [key: {f.key, NoKey},
     conn: {c \in Connection : \A x \in Fields : c[x] \in {f.conn[x], NoValue}}]

Torn(old, new) ==
    {old} \cup {[old EXCEPT !["js"] = f] : f \in Pieces(new["js"])}
          \cup {[new EXCEPT !["py"] = f] : f \in Pieces(new["py"])}

(* The same with the bootstrapping, that an error may leave at the files es. *)
TornBy(b, es) ==
    UNION {IF es = missing THEN Torn(old, Updated(old, b)) ELSE {old} : old \in Bootstrapped(es)}

-----------------------------------------------------------------------------
(* Requests *)

Become(h, r) == reqs' = [reqs EXCEPT ![h] = r]
MoveTo(h, where) == Become(h, [reqs[h] EXCEPT !.at = where])

(* A request that may still write the files or the row. *)
Reading    == {"free", "ask_check", "check", "probing", "ask_gate", "gate", "queued"}
Writing(h) == reqs[h].at \notin Reading

(* A check under way may now probe two configurations, and a run find another *)
(* key than at its upload.                                                    *)
Crossed(r) == IF r.at \in {"probing", "ask_gate", "gate", "queued"}
              THEN [r EXCEPT !.clean = FALSE, !.fp = NoPrint, !.tested = None] ELSE r

BecomeWriter(h, r) == reqs' = [o \in Handlers |-> IF o = h THEN r ELSE Crossed(reqs[o])]

(* The heir goes with the last key that it adopted. *)
Adopted(fs) == \E e \in Engines : fs[e].key # NoKey /\ fs[e].key.saver = NoUser

(* write_config and the move to the next await; a connection that changed     *)
(* loses its stamp.                                                           *)
WriteConfig(h, old, new, r) ==
    /\ files' = new /\ missing' = {}
    /\ heir' = IF Adopted(new) THEN heir ELSE NoUser
    /\ IF Fingerprint(Merge(old)) # Fingerprint(Merge(new)) THEN ClearStamp ELSE UNCHANGED stamp
    /\ BecomeWriter(h, r)

(* current_user *)
Begin(h, u, at) ==
    /\ server = "up"
    /\ reqs[h] = Free
    /\ u \in users
    /\ UNCHANGED <<account, owner, files, missing, stamp, server, heir>>
    /\ LET r == [Free EXCEPT !.at = at, !.user = u]
           others == {o \in Handlers : Writing(o)}
       IN  IF at \in Reading
             THEN /\ Become(h, [r EXCEPT !.clean = at = "ask_check" \/ others = {}])
                  /\ UNCHANGED apart
             ELSE /\ reqs' = [o \in Handlers |->
                                 IF o = h THEN [r EXCEPT !.alone = others = {}]
                                 ELSE IF o \in others THEN [reqs[o] EXCEPT !.alone = FALSE]
                                 ELSE reqs[o]]
                  /\ apart' = (apart \/ others # {})

(* llm_key_owner_user_id, for the handler that acts upon the answer *)
ReadOwner(h) ==
    /\ reqs[h].at \in DOMAIN Answered
    /\ Become(h, [reqs[h] EXCEPT !.at = Answered[reqs[h].at], !.owns = owner = reqs[h].user])
    /\ UNCHANGED <<account, owner, files, missing, stamp, server, heir, apart>>

(* A question that raises ends the request with nothing done; so does one of  *)
(* the statements whose effect nothing depends on.                            *)
QuestionFails(h) ==
    /\ reqs[h].at \in DOMAIN Answered \cup {"drop_owner", "del_user"}
    /\ Become(h, Free)
    /\ UNCHANGED <<account, owner, files, missing, stamp, server, heir, apart>>

-----------------------------------------------------------------------------
(* llm_put_config.  What the request asks for is not looked at before here.  *)

(* 403: not the owner's to clear, nor to change around a stored key. *)
Forbidden(r, b) ==
    /\ ~r.owns
    /\ b.key = Clear \/ (b.key = Keep /\ Configured(files))

Allowed(r) == {b \in Bodies(r.user) : ~Forbidden(r, b)}

PutForbidden(h) ==
    /\ reqs[h].at = "put"
    /\ Allowed(reqs[h]) # Bodies(reqs[h].user)
    /\ Become(h, Free)
    /\ UNCHANGED <<account, owner, files, missing, stamp, server, heir, apart>>

Written(r, at) == [r EXCEPT !.at = at, !.owns = FALSE]

AfterWrite(r, b, new) ==
    IF b.key \notin {Keep, Clear} THEN Written(r, "set_owner")
    ELSE IF b.key = Clear THEN Written(r, "clear_owner")
    ELSE IF ~Configured(new) THEN Written(r, "drop_owner")
    ELSE Free

PutWrite(h) ==
    /\ reqs[h].at = "put"
    /\ \E b \in Allowed(reqs[h]), old \in Bootstrapped(missing) :
          WriteConfig(h, old, Updated(old, b), AfterWrite(reqs[h], b, Updated(old, b)))
    /\ UNCHANGED <<account, owner, server, apart>>

(* set_llm_key_owner *)
SetOwner(h) ==
    /\ reqs[h].at = "set_owner"
    /\ reqs[h].user \in users
    /\ owner' = reqs[h].user
    /\ MoveTo(h, "put_clear")
    /\ UNCHANGED <<account, files, missing, stamp, server, heir, apart>>

NextAwait == [clear_owner |-> "put_clear", drop_owner |-> "free", del_owner |-> "del_stamp"]

OwnerWithout(u) == IF owner = u THEN NoUser ELSE owner

(* clear_llm_key_owner(user_id): only the caller's own row. *)
ClearOwner(h) ==
    /\ reqs[h].at \in DOMAIN NextAwait
    /\ owner' = OwnerWithout(reqs[h].user)
    /\ IF NextAwait[reqs[h].at] = "free" THEN Become(h, Free)
       ELSE MoveTo(h, NextAwait[reqs[h].at])
    /\ UNCHANGED <<account, files, missing, stamp, server, heir, apart>>

(* The statement after a write raises, or the foreign key refuses the row of  *)
(* a user that is gone: done or not, the request ends in a 500, with the key  *)
(* written and the rest left undone.                                          *)
OwnerFails(h) ==
    /\ \/ /\ reqs[h].at = "set_owner"
          /\ owner' \in {owner} \cup (users \cap {reqs[h].user})
       \/ /\ reqs[h].at \in {"clear_owner", "del_owner"}
          /\ owner' \in {owner, OwnerWithout(reqs[h].user)}
    /\ apart' = TRUE
    /\ stamp' = Soiled
    /\ Become(h, Free)
    /\ UNCHANGED <<account, files, missing, server, heir>>

(* clear_verified_fingerprint, once the row is done; a key that was set or   *)
(* cleared with no other writer about puts file and row right again.         *)
PutClear(h) ==
    /\ reqs[h].at = "put_clear"
    /\ ClearStamp
    /\ apart' = (apart /\ ~reqs[h].alone)
    /\ Become(h, Free)
    /\ UNCHANGED <<account, owner, files, missing, server, heir>>

-----------------------------------------------------------------------------
(* llm_check *)

(* The two files say the same, but for the key.  A check that finds them apart *)
(* is not clean: a later save may change one and leave the fingerprint.        *)
Agree(fs) == fs["js"].conn = fs["py"].conn

Probing(r, todo) == [r EXCEPT !.at = "probing", !.owns = FALSE, !.todo = todo]

CheckRead(h) ==
    /\ reqs[h].at = "check"
    /\ IF reqs[h].owns /\ Configured(files)
         THEN \E todo \in SUBSET Engines \ {{}} :
                 Become(h, IF Agree(files) /\ missing = {}
                             THEN [Probing(reqs[h], todo) EXCEPT !.fp = Fingerprint(Merge(files))]
                             ELSE [Probing(reqs[h], todo) EXCEPT !.clean = FALSE])
         ELSE Become(h, Free)
    /\ UNCHANGED <<account, owner, files, missing, stamp, server, heir, apart>>

(* The probes run one after the other, JS first; each reads its own file.    *)
NextProbe(r) == IF "js" \in r.todo THEN "js" ELSE "py"

Probe(h, ok) ==
    /\ reqs[h].at = "probing"
    /\ reqs[h].todo # {}
    /\ LET r == reqs[h]
           e == NextProbe(r)
       IN  Become(h, [r EXCEPT !.todo = @ \ {e}, !.ok = @ /\ ok,
                               !.tested = IF ok /\ r.ok /\ r.clean
                                            THEN [@ EXCEPT ![e] = files[e]] ELSE None])
    /\ UNCHANGED <<account, owner, files, missing, stamp, server, heir, apart>>

(* No executable for the probe: the handler of FileNotFoundError uses        *)
(* process_log, which main.py does not have, and llm_check ends in a 500     *)
(* with the stamp as it was.                                                 *)
ProbeRaises(h) ==
    /\ reqs[h].at = "probing"
    /\ reqs[h].todo # {}
    /\ Become(h, Free)
    /\ UNCHANGED <<account, owner, files, missing, stamp, server, heir, apart>>

StampOf(r) == [fp |-> r.fp, user |-> r.user, tested |-> r.tested]

(* The stamp is for the configuration read before the probes; writing it is  *)
(* best effort too.                                                          *)
CheckEnd(h) ==
    /\ reqs[h].at = "probing"
    /\ reqs[h].todo = {}
    /\ IF reqs[h].ok
         THEN stamp' \in {stamp, IF reqs[h].clean THEN StampOf(reqs[h]) ELSE Stale}
         ELSE ClearStamp
    /\ Become(h, Free)
    /\ UNCHANGED <<account, owner, files, missing, server, heir, apart>>

-----------------------------------------------------------------------------
(* analyze with an LLM mode, and the run it starts *)

(* Mutant: any stored key will do. *)
AnyKey(r) == Configured(files)

(* _llm_configured_for_user, for the owner that was read *)
MayUseKey(r) == r.owns /\ Configured(files)

Gate(h) ==
    /\ reqs[h].at = "gate"
    /\ Become(h, IF MayUseKey(reqs[h]) THEN [reqs[h] EXCEPT !.at = "queued", !.owns = FALSE]
                 ELSE Free)
    /\ UNCHANGED <<account, owner, files, missing, stamp, server, heir, apart>>

(* The backend is started with the mode's flag and reads its own file.       *)
BackendReads(h) ==
    /\ reqs[h].at = "queued"
    /\ Become(h, Free)
    /\ UNCHANGED <<account, owner, files, missing, stamp, server, heir, apart>>

-----------------------------------------------------------------------------
(* signup, and delete_me from the question whose key it is on *)

(* insert_user: a new id. *)
Signup(u) ==
    /\ server = "up"
    /\ account[u] = "unborn"
    /\ account' = [account EXCEPT ![u] = "member"]
    /\ UNCHANGED <<owner, files, missing, stamp, reqs, server, heir, apart>>

(* Mutant: the account goes, the key stays. *)
DeleteLeavesKey(h) ==
    /\ reqs[h].at = "delete"
    /\ MoveTo(h, "del_user")
    /\ UNCHANGED <<account, owner, files, missing, stamp, server, heir, apart>>

DeleteKey(h) ==
    /\ reqs[h].at = "delete"
    /\ IF reqs[h].owns
         THEN \E old \in Bootstrapped(missing) :
                 WriteConfig(h, old, Updated(old, ClearKey), Written(reqs[h], "del_owner"))
         ELSE MoveTo(h, "del_user") /\ UNCHANGED <<files, missing, stamp, heir>>
    /\ UNCHANGED <<account, owner, server, apart>>

DeleteClear(h) ==
    /\ reqs[h].at = "del_stamp"
    /\ ClearStamp
    /\ MoveTo(h, "del_user")
    /\ UNCHANGED <<account, owner, files, missing, server, heir, apart>>

(* Mutant: no ON DELETE CASCADE. *)
DeleteUserRow(h) ==
    /\ reqs[h].at = "del_user"
    /\ account' = [account EXCEPT ![reqs[h].user] = "gone"]
    /\ Become(h, Free)
    /\ UNCHANGED <<owner, files, missing, stamp, server, heir, apart>>

(* delete_user: the row of llm_key_owner goes with the user. *)
DeleteUser(h) ==
    /\ reqs[h].at = "del_user"
    /\ account' = [account EXCEPT ![reqs[h].user] = "gone"]
    /\ owner' = OwnerWithout(reqs[h].user)
    /\ Become(h, Free)
    /\ UNCHANGED <<files, missing, stamp, server, heir, apart>>

-----------------------------------------------------------------------------
(* What cuts write_config short, crash and start *)

(* An error in write_config: while bootstrapping, in the JS file or in the   *)
(* Python file.                                                              *)
Tear(h) ==
    /\ \E es \in SUBSET missing :
          /\ missing' = missing \ es
          /\ \/ reqs[h].at = "put" /\ files' \in UNION {TornBy(b, es) : b \in Allowed(reqs[h])}
             \/ reqs[h].at = "delete" /\ reqs[h].owns /\ files' \in TornBy(ClearKey, es)
    /\ apart' = TRUE
    /\ stamp' = Soiled
    /\ UNCHANGED <<account, owner, heir>>

(* A full disk or a locked file: the request ends in a 500. *)
WriteFails(h) ==
    /\ Tear(h)
    /\ BecomeWriter(h, Free)
    /\ UNCHANGED server

Die ==
    /\ server' = "down"
    /\ reqs' = [h \in Handlers |-> Free]

CrashInWrite(h) == Tear(h) /\ Die

Crash ==
    /\ server # "down"
    /\ Die
    /\ IF \E h \in Handlers : Writing(h)
         THEN apart' = TRUE /\ stamp' = Soiled ELSE UNCHANGED <<apart, stamp>>
    /\ UNCHANGED <<account, owner, files, missing, heir>>

(* _adopt_legacy_llm_key_owner *)
Adoptable == owner = NoUser /\ Configured(files)

(* single_user_id, set_llm_key_owner *)
StartAdopt ==
    /\ server = "down"
    /\ IF Adoptable
         THEN /\ \/ \E u \in Users : users = {u} /\ owner' = u /\ heir' = u
                 \/ (\A u \in Users : users # {u}) /\ UNCHANGED <<owner, heir>>
              /\ server' = "adopting"
         ELSE UNCHANGED <<owner, heir>> /\ server' = "up"
    /\ UNCHANGED <<account, files, missing, stamp, reqs, apart>>

StartClear ==
    /\ server = "adopting"
    /\ server' = "up"
    /\ ClearStamp
    /\ UNCHANGED <<account, owner, files, missing, reqs, heir, apart>>

Serve(h) ==
    \/ \E u \in Users, at \in DOMAIN Answered : Begin(h, u, at)
    \/ ReadOwner(h) \/ QuestionFails(h)
    \/ PutForbidden(h) \/ PutWrite(h) \/ SetOwner(h) \/ ClearOwner(h) \/ OwnerFails(h)
    \/ PutClear(h)
    \/ CheckRead(h) \/ Probe(h, TRUE) \/ Probe(h, FALSE) \/ ProbeRaises(h) \/ CheckEnd(h)
    \/ Gate(h) \/ BackendReads(h)
    \/ DeleteKey(h) \/ DeleteClear(h) \/ DeleteUser(h)
    \/ WriteFails(h) \/ CrashInWrite(h)

Next ==
    \/ \E h \in Handlers : Serve(h)
    \/ \E u \in Users : Signup(u)
    \/ Crash \/ StartAdopt \/ StartClear

Spec == Init /\ [][Next]_llmVars

-----------------------------------------------------------------------------
(* What must hold *)

Settled == server = "up" /\ \A h \in Handlers : ~Writing(h)

(* Whose key it is: its saver's, or its heir's if nobody is known to have    *)
(* pasted it.                                                                *)
Holder(key) == IF key.saver = NoUser THEN heir ELSE key.saver

(* Between requests the row names the user who pasted the stored key, for a  *)
(* key from before the row the one account there was when it was adopted,    *)
(* and no one if there is no key: the answer that gates use_llm, GET and PUT *)
(* of the configuration.  File and row are not one step: writers that        *)
(* overlap, and a crash, a failing write or a failing statement inside one,  *)
(* are excepted until a key is set or cleared with no other writer about.    *)
OwnerSavedKey ==
    Settled /\ ~apart =>
        LET key == Merge(files).key IN
        owner = IF key = NoKey THEN NoUser ELSE Holder(key)

(* The key was changed and the stamp is about to be cleared. *)
Pending(h) == reqs[h].at \in {"set_owner", "clear_owner", "put_clear", "del_owner", "del_stamp"}

(* A connection shown as verified passed its probes with what the file of    *)
(* each engine probed says now, to the whole text of the key, although the   *)
(* fingerprint sees its last four characters and the merge of the files.     *)
(* Excepted are stamps of a check that found the files apart or was crossed  *)
(* by a write, or that a torn write, a failing statement or a failing clear  *)
(* has outlived.                                                             *)
VerifiedWasTested ==
    \A u \in Users :
        Verified(u) /\ (\A h \in Handlers : ~Pending(h)) =>
            \A e \in Engines :
                stamp.tested[e] # Untested => stamp.tested[e] = files[e]

(* An account that was deleted has left no key in either file, neither one   *)
(* it pasted nor one it adopted, with the exceptions of OwnerSavedKey.       *)
DeletedKeyGone ==
    Settled /\ ~apart =>
        \A e \in Engines :
            files[e].key # NoKey => Holder(files[e].key) \in users \cup {NoUser}

(* A run that was let use the LLM finds no key but its user's own, whichever *)
(* engine reads.  Runs whose way from the upload to the backend a writer     *)
(* crossed are excepted.                                                     *)
RunUsesOwnKey ==
    [][\A h \in Handlers :
          reqs[h].at = "queued" /\ reqs'[h] = Free /\ server' = "up"
              /\ reqs[h].clean /\ ~apart =>
                  \A e \in Engines :
                      files[e].key # NoKey => Holder(files[e].key) = reqs[h].user]_llmVars

=============================================================================
