------------------------------ MODULE Accounts ------------------------------
(***************************************************************************)
(* Accounts and bearer tokens: signup, login, logout, change-password,     *)
(* sign-out of other devices and account deletion (main.py), the hashing   *)
(* and the dependency current_user (auth.py), tables users and tokens      *)
(* (db.py).                                                                *)
(*                                                                         *)
(* Each statement is atomic and each await lets other requests run: a      *)
(* request is modelled from await to await, with the row of users that     *)
(* current_user or the first SELECT gave it as a snapshot.  A stored hash  *)
(* is the password it was made from.  A request that is refused at once    *)
(* (400, 401, 409) changes nothing and is left out.                        *)
(***************************************************************************)
EXTENDS Naturals, FiniteSets

CONSTANTS
    Handlers, Addresses, Passwords,
    NoUser, NoPassword, NoEmail,
    MaxAccounts, MaxTokens     \* bounds: accounts and tokens ever made

ASSUME AccountsAssumption ==
    /\ MaxAccounts \in Nat /\ MaxTokens \in Nat
    /\ NoPassword \notin Passwords
    /\ \A a \in Addresses, b \in BOOLEAN : NoEmail # [address |-> a, mixed |-> b]
    /\ \A a \in Addresses, b \in BOOLEAN, p \in Passwords :
          NoUser # [email |-> [address |-> a, mixed |-> b], pw |-> p]

VARIABLES
    users,     \* table users: [Ids -> row or NoUser]; ids are never used twice
    lastId,    \* the identity sequence of users.id
    tokens,    \* table tokens: [Tokens -> user_id, 0 for a token not in it]
    issued,    \* token_urlsafe: tokens drawn so far, each of them new
    reqs,      \* [Handlers -> the request it serves and the await it is at]
    had,       \* history: the passwords each account has had
    granted    \* history: the account each token was issued for

accountVars == <<users, lastId, tokens, issued, reqs, had, granted>>

Ids    == 1 .. MaxAccounts
Tokens == 1 .. MaxTokens

(* An address as it was typed: in lower case and trimmed, or otherwise; the  *)
(* table is to hold the first kind only.                                     *)
Email  == [address: Addresses, mixed: BOOLEAN]
Stored == [address: Addresses, mixed: {FALSE}]
User   == [email: Stored, pw: Passwords]

(* What a request knows after its first statement: the id and address of its *)
(* user, the token that authenticated it and the one the handler parses      *)
(* again, what was typed: a password, and the new one.                       *)
Free == [at |-> "free", id |-> 0, email |-> NoEmail, by |-> 0, own |-> 0,
         pw |-> NoPassword, new |-> NoPassword]

Awaits == {"free", "insert", "reread", "issue", "logout", "change", "signout", "delete"}

Request == [at: Awaits, id: Ids \cup {0}, email: Stored \cup {NoEmail},
            by: Tokens \cup {0}, own: Tokens \cup {0},
            pw: Passwords \cup {NoPassword}, new: Passwords \cup {NoPassword}]

TypeOK ==
    /\ users \in [Ids -> User \cup {NoUser}]
    /\ lastId \in 0 .. MaxAccounts
    /\ tokens \in [Tokens -> Ids \cup {0}]
    /\ issued \in 0 .. MaxTokens
    /\ reqs \in [Handlers -> Request]
    /\ had \in [Ids -> SUBSET Passwords]
    /\ granted \in [Tokens -> Ids \cup {0}]

Init ==
    /\ users = [i \in Ids |-> NoUser] /\ lastId = 0
    /\ tokens = [t \in Tokens |-> 0] /\ issued = 0
    /\ reqs = [h \in Handlers |-> Free]
    /\ had = [i \in Ids |-> {}]
    /\ granted = [t \in Tokens |-> 0]

-----------------------------------------------------------------------------
(* db.py: one statement each *)

Exists(id) == id \in Ids /\ users[id] # NoUser

(* SELECT ... WHERE email = $1, an index lookup on the exact text *)
WithEmail(email) == {id \in Ids : Exists(id) /\ users[id].email = email}

(* Mutant: no UNIQUE constraint behind the check. *)
NoClash(email) == TRUE

(* email TEXT UNIQUE *)
Insertable(email) == WithEmail(email) = {}

InsertUser(email, pw) ==
    /\ lastId' = lastId + 1
    /\ users' = [users EXCEPT ![lastId + 1] = [email |-> email, pw |-> pw]]
    /\ had' = [had EXCEPT ![lastId + 1] = {pw}]

(* Mutant: a token for whoever has the address by now. *)
InsertTokenByEmail(r) ==
    /\ issued' = issued + 1
    /\ \E id \in WithEmail(r.email) :
          /\ tokens' = [tokens EXCEPT ![issued + 1] = id]
          /\ granted' = [granted EXCEPT ![issued + 1] = id]

(* insert_token; user_id REFERENCES users(id) *)
InsertToken(r) ==
    /\ Exists(r.id)
    /\ issued' = issued + 1
    /\ tokens' = [tokens EXCEPT ![issued + 1] = r.id]
    /\ granted' = [granted EXCEPT ![issued + 1] = r.id]

(* DELETE FROM tokens, for a set of them *)
DropTokens(gone) == tokens' = [t \in Tokens |-> IF t \in gone THEN 0 ELSE tokens[t]]

SessionsOf(id) == {t \in Tokens : tokens[t] = id}

(* Mutant: the row is found by its address. *)
ChangedByEmail(r) == WithEmail(r.email)

(* update_user_password: UPDATE users ... WHERE id = $3 *)
Changed(r) == {id \in {r.id} : Exists(id)}

(* Mutant: tokens without a foreign key. *)
Uncascaded(id) == {}

(* ON DELETE CASCADE *)
Cascade(id) == SessionsOf(id)

-----------------------------------------------------------------------------
(* auth.py, and what the handlers repeat of it *)

(* Mutant: addresses are taken as they are typed. *)
AsTyped(email) == email

(* body.email.strip().lower() *)
Canonical(email) == [email EXCEPT !.mixed = FALSE]

(* The token of a request: "Authorization: Bearer ..." (0: nothing after it) *)
(* or, without that header, the query parameter (0: none).                   *)
Credentials == [bearer: BOOLEAN, header: 0 .. issued, query: 0 .. issued]

(* _extract_token *)
ExtractToken(c) == IF c.bearer THEN c.header ELSE c.query

(* Mutant: the query parameter first. *)
QueryFirst(c) == IF c.query # 0 THEN c.query ELSE c.header

(* logout and auth_delete_tokens parse header and query themselves. *)
OwnToken(c) == IF c.bearer THEN c.header ELSE c.query

Become(h, r) == reqs' = [reqs EXCEPT ![h] = r]

(* current_user: the token is looked up and joined with its user. *)
Authenticated(h, c, at, pw, new) ==
    LET tok == ExtractToken(c) IN
    /\ reqs[h] = Free
    /\ tok \in Tokens
    /\ Exists(tokens[tok])
    /\ Become(h, [at |-> at, id |-> tokens[tok], email |-> users[tokens[tok]].email,
                  by |-> tok, own |-> OwnToken(c), pw |-> pw, new |-> new])
    /\ UNCHANGED <<users, lastId, tokens, issued, had, granted>>

-----------------------------------------------------------------------------
(* The handlers up to their first await that matters *)

(* signup: user_by_email finds nobody. *)
SignupStart(h, email, pw) ==
    /\ reqs[h] = Free
    /\ lastId < MaxAccounts
    /\ WithEmail(Canonical(email)) = {}
    /\ Become(h, [Free EXCEPT !.at = "insert", !.email = Canonical(email), !.pw = pw])
    /\ UNCHANGED <<users, lastId, tokens, issued, had, granted>>

(* login: the hash that was read is the one of the password. *)
LoginStart(h, email, pw) ==
    /\ reqs[h] = Free
    /\ \E id \in WithEmail(Canonical(email)) :
          /\ users[id].pw = pw
          /\ Become(h, [Free EXCEPT !.at = "issue", !.id = id, !.email = Canonical(email), !.pw = pw])
    /\ UNCHANGED <<users, lastId, tokens, issued, had, granted>>

LogoutStart(h, c)  == Authenticated(h, c, "logout", NoPassword, NoPassword)
SignoutStart(h, c) == Authenticated(h, c, "signout", NoPassword, NoPassword)

(* change_password: verified against the hash that current_user read *)
ChangeStart(h, c, pw, new) ==
    /\ Authenticated(h, c, "change", pw, new)
    /\ users[tokens[ExtractToken(c)]].pw = pw

(* delete_me: the confirmation is the address that current_user read.  The   *)
(* awaits before the user row goes concern jobs and the LLM key.             *)
DeleteStart(h, c, confirm) ==
    /\ Authenticated(h, c, "delete", NoPassword, NoPassword)
    /\ Canonical(confirm) = Canonical(users[tokens[ExtractToken(c)]].email)

-----------------------------------------------------------------------------
(* What follows an await *)

(* insert_user: the loser of two signups gets a ValueError and a 500. *)
SignupInsert(h) ==
    /\ reqs[h].at = "insert"
    /\ lastId < MaxAccounts
    /\ IF Insertable(reqs[h].email)
         THEN /\ InsertUser(reqs[h].email, reqs[h].pw)
              /\ Become(h, [reqs[h] EXCEPT !.at = "reread", !.id = lastId + 1])
         ELSE Become(h, Free) /\ UNCHANGED <<users, lastId, had>>
    /\ UNCHANGED <<tokens, issued, granted>>

(* user_by_id at the end of insert_user; None makes signup raise. *)
SignupReread(h) ==
    /\ reqs[h].at = "reread"
    /\ Become(h, IF Exists(reqs[h].id) THEN [reqs[h] EXCEPT !.at = "issue"] ELSE Free)
    /\ UNCHANGED <<users, lastId, tokens, issued, had, granted>>

(* issue_token; for a user that is gone the foreign key refuses it. *)
IssueToken(h) ==
    /\ reqs[h].at = "issue"
    /\ issued < MaxTokens
    /\ InsertToken(reqs[h])
    /\ Become(h, Free)
    /\ UNCHANGED <<users, lastId, had>>

LogoutDelete(h) ==
    /\ reqs[h].at = "logout"
    /\ DropTokens({reqs[h].own})
    /\ Become(h, Free)
    /\ UNCHANGED <<users, lastId, issued, had, granted>>

ChangeUpdate(h) ==
    /\ reqs[h].at = "change"
    /\ users' = [id \in Ids |-> IF id \in Changed(reqs[h])
                                   THEN [users[id] EXCEPT !.pw = reqs[h].new] ELSE users[id]]
    /\ had' = [id \in Ids |-> IF id \in Changed(reqs[h])
                                 THEN had[id] \cup {reqs[h].new} ELSE had[id]]
    /\ Become(h, Free)
    /\ UNCHANGED <<lastId, tokens, issued, granted>>

(* delete_user_tokens(user_id, except_token=own_token) *)
SignoutRevoke(h) ==
    /\ reqs[h].at = "signout"
    /\ DropTokens(SessionsOf(reqs[h].id) \ {reqs[h].own})
    /\ Become(h, Free)
    /\ UNCHANGED <<users, lastId, issued, had, granted>>

DeleteUser(h) ==
    /\ reqs[h].at = "delete"
    /\ users' = [users EXCEPT ![reqs[h].id] = NoUser]
    /\ DropTokens(Cascade(reqs[h].id))
    /\ Become(h, Free)
    /\ UNCHANGED <<lastId, issued, had, granted>>

(* A statement raises, the foreign key refuses a token, or the process dies: *)
(* the request ends at its await.  A statement that was executed all the     *)
(* same is the step above, and this one at the next await.                   *)
CutOff(h) ==
    /\ reqs[h] # Free
    /\ Become(h, Free)
    /\ UNCHANGED <<users, lastId, tokens, issued, had, granted>>

Begin(h) ==
    \/ \E email \in Email, pw \in Passwords : SignupStart(h, email, pw) \/ LoginStart(h, email, pw)
    \/ \E c \in Credentials :
          \/ LogoutStart(h, c) \/ SignoutStart(h, c)
          \/ \E pw, new \in Passwords : ChangeStart(h, c, pw, new)
          \/ \E confirm \in Email : DeleteStart(h, c, confirm)

Continue(h) ==
    \/ SignupInsert(h) \/ SignupReread(h) \/ IssueToken(h) \/ LogoutDelete(h)
    \/ ChangeUpdate(h) \/ SignoutRevoke(h) \/ DeleteUser(h) \/ CutOff(h)

Next == \E h \in Handlers : Begin(h) \/ Continue(h)

Spec == Init /\ [][Next]_accountVars

-----------------------------------------------------------------------------
(* What must hold *)

(* No two accounts have addresses that differ only in case and spaces,       *)
(* however signups overlap: each of them looks before the other inserts.     *)
OneAccountPerAddress ==
    \A i, j \in Ids :
        Exists(i) /\ Exists(j) /\ users[i].email.address = users[j].email.address => i = j

(* A session is granted only by a request in which its account's address     *)
(* was typed, and a password that this account has had, although the account *)
(* may be removed and its address registered again while the request waits.  *)
Earned(t) ==
    tokens[t] = 0 /\ tokens'[t] # 0 =>
        \E h \in Handlers :
            /\ reqs[h].at = "issue" /\ reqs'[h] = Free
            /\ Exists(tokens'[t])
            /\ reqs[h].email = users[tokens'[t]].email
            /\ reqs[h].pw \in had[tokens'[t]]

SessionEarned == [][\A t \in Tokens : Earned(t)]_accountVars

(* A password is replaced, and an account removed, only by a request that    *)
(* was authenticated by a session of this very account, with one of its      *)
(* passwords typed for a change.  The session may have ended by then.        *)
Permitted(id) ==
    Exists(id) /\ users'[id] # users[id] =>
        \E h \in Handlers :
            /\ reqs[h].at \in {"change", "delete"} /\ reqs'[h] = Free
            /\ granted[reqs[h].by] = id
            /\ reqs[h].at = "change" => reqs[h].pw \in had[id]

ChangeEarned == [][\A id \in Ids : Permitted(id)]_accountVars

(* A logout ends the session that authenticated it and no other; a sign-out  *)
(* of other devices spares that session and ends all others of the account   *)
(* and none of another one: also when header and query name two tokens.      *)
Ends(h) ==
    LET own == reqs[h].by IN
    reqs'[h] = Free /\ tokens' # tokens =>
        /\ reqs[h].at = "logout" => tokens' = [tokens EXCEPT ![own] = 0]
        /\ reqs[h].at = "signout" =>
               \A t \in Tokens :
                   tokens'[t] = IF t # own /\ tokens[t] = granted[own] THEN 0 ELSE tokens[t]

OwnSession == [][\A h \in Handlers : Ends(h)]_accountVars

(* The tables keep SessionContract. *)
accountIs == [id \in Ids |-> IF id > lastId THEN "unborn"
                             ELSE IF Exists(id) THEN "open" ELSE "closed"]
sessionIs == [t \in Tokens |-> IF t > issued THEN "unissued"
                               ELSE IF tokens[t] = 0 THEN "ended" ELSE "valid"]

Contract == INSTANCE SessionContract WITH
    Owners <- Ids, Sessions <- Tokens, Nobody <- 0,
    account <- accountIs, session <- sessionIs, holder <- tokens

(* Sessions are granted for open accounts, never come back, and end with     *)
(* their account: a row of tokens never outlives its user.                   *)
ContractSpec == Contract!Spec

=============================================================================
