-------------------------- MODULE Accounts_proofs --------------------------
(***************************************************************************)
(* Theorems about Accounts for any requests, addresses and passwords, and  *)
(* any number of accounts and tokens.                                      *)
(***************************************************************************)
EXTENDS Accounts, TLAPS

(* One account for an address, as the UNIQUE constraint has it. *)
Unique == \A i, j \in Ids : Exists(i) /\ Exists(j) /\ users[i].email = users[j].email => i = j

(* What the sequences have not reached is not in the tables, and a token in  *)
(* the table is of the open account that it was issued for.                  *)
Consistent ==
    /\ \A i \in Ids : Exists(i) => i <= lastId /\ users[i].pw \in had[i]
    /\ \A t \in Tokens : tokens[t] # 0 => t <= issued /\ Exists(tokens[t]) /\ granted[t] = tokens[t]

(* What a request knows stays true while it waits: ids are not used twice,   *)
(* addresses do not change, passwords are only added to what was had.        *)
Known(r) ==
    /\ r.at = "insert" => r.email \in Stored /\ r.pw \in Passwords
    /\ r.at \in {"reread", "issue"} =>
          /\ r.id \in Ids /\ r.id <= lastId
          /\ r.pw \in had[r.id]
          /\ Exists(r.id) => users[r.id].email = r.email
    /\ r.at \in {"logout", "change", "signout", "delete"} =>
          /\ r.id \in Ids /\ r.id <= lastId
          /\ r.by \in Tokens /\ r.by <= issued
          /\ r.own = r.by /\ granted[r.by] = r.id
    /\ r.at = "change" => r.pw \in had[r.id] /\ r.new \in Passwords

AccountsInv ==
    /\ TypeOK
    /\ Unique
    /\ Consistent
    /\ \A h \in Handlers : Known(reqs[h])

(* A free handler knows nothing, and is a Request. *)
LEMMA FreeIsKnown == Free \in Request /\ Known(Free)
BY DEF Free, Request, Awaits, Known

(* Canonical gives what the table stores. *)
LEMMA CanonicalIsStored ==
    ASSUME NEW e \in Email
    PROVE  Canonical(e) \in Stored
BY DEF Canonical, Email, Stored

(* A row is not the absence of one. *)
LEMMA RowsExist ==
    ASSUME NEW u \in User
    PROVE  u # NoUser
<1>1. /\ u.email.address \in Addresses /\ u.email.mixed \in BOOLEAN
      /\ u = [email |-> u.email, pw |-> u.pw]
      /\ u.email = [address |-> u.email.address, mixed |-> u.email.mixed]
      /\ u.pw \in Passwords
  BY DEF User, Stored
<1> QED BY <1>1, AccountsAssumption

(* A step of one request that leaves both tables alone keeps the invariant   *)
(* when what the request knows now is true.                                  *)
LEMMA OneRequestMoves ==
    ASSUME AccountsInv, NEW h \in Handlers, NEW r \in Request, Known(r), Become(h, r),
           UNCHANGED <<users, lastId, tokens, issued, had, granted>>
    PROVE  AccountsInv'
<1>1. TypeOK'
  BY DEF AccountsInv, TypeOK, Become
<1>2. Unique' /\ Consistent'
  BY DEF AccountsInv, Unique, Consistent, Exists
<1>3. ASSUME NEW o \in Handlers PROVE Known(reqs[o])'
  <2>1. reqs'[o] = IF o = h THEN r ELSE reqs[o]
    BY DEF Become, AccountsInv, TypeOK
  <2>2. Known(reqs'[o])
    BY <2>1 DEF AccountsInv
  <2> QED BY <2>2 DEF Known, Exists
<1> QED BY <1>1, <1>2, <1>3 DEF AccountsInv

(* current_user: what it finds is of an open account. *)
LEMMA AuthenticatedKnows ==
    ASSUME AccountsInv, NEW h \in Handlers, NEW c \in Credentials,
           NEW at \in {"logout", "signout", "change", "delete"},
           NEW pw \in Passwords \cup {NoPassword}, NEW new \in Passwords \cup {NoPassword},
           Authenticated(h, c, at, pw, new),
           at = "change" => pw = users[tokens[ExtractToken(c)]].pw /\ new \in Passwords
    PROVE  AccountsInv'
<1> DEFINE tok == ExtractToken(c)
           r   == [at |-> at, id |-> tokens[tok], email |-> users[tokens[tok]].email,
                   by |-> tok, own |-> OwnToken(c), pw |-> pw, new |-> new]
<1>1. tok \in Tokens /\ Exists(tokens[tok]) /\ tokens[tok] \in Ids
  BY DEF Authenticated, Exists
<1>2. tokens[tok] # 0 /\ OwnToken(c) = tok
  BY <1>1 DEF Ids, OwnToken, ExtractToken
<1>3. /\ tok <= issued /\ granted[tok] = tokens[tok]
      /\ tokens[tok] <= lastId /\ users[tokens[tok]].pw \in had[tokens[tok]]
  BY <1>1, <1>2 DEF AccountsInv, Consistent
<1>4. users[tokens[tok]] \in User
  BY <1>1 DEF AccountsInv, TypeOK, Exists
<1>5. r \in Request
  BY <1>1, <1>2, <1>4 DEF Request, Awaits, User
<1>6. Known(r)
  BY <1>1, <1>2, <1>3 DEF Known
<1>7. Become(h, r) /\ UNCHANGED <<users, lastId, tokens, issued, had, granted>>
  BY DEF Authenticated
<1> QED BY <1>5, <1>6, <1>7, OneRequestMoves

(* The first steps of a request. *)
LEMMA BeginKeeps ==
    ASSUME AccountsInv, NEW h \in Handlers, Begin(h)
    PROVE  AccountsInv'
<1>1. ASSUME NEW email \in Email, NEW pw \in Passwords, SignupStart(h, email, pw)
      PROVE  AccountsInv'
  <2> DEFINE r == [Free EXCEPT !.at = "insert", !.email = Canonical(email), !.pw = pw]
  <2>1. r \in Request /\ Known(r)
    BY CanonicalIsStored DEF Free, Request, Awaits, Known
  <2> QED BY <1>1, <2>1, OneRequestMoves DEF SignupStart
<1>2. ASSUME NEW email \in Email, NEW pw \in Passwords, LoginStart(h, email, pw)
      PROVE  AccountsInv'
  <2>1. PICK id \in WithEmail(Canonical(email)) :
            /\ users[id].pw = pw
            /\ Become(h, [Free EXCEPT !.at = "issue", !.id = id, !.email = Canonical(email), !.pw = pw])
    BY <1>2 DEF LoginStart
  <2> DEFINE r == [Free EXCEPT !.at = "issue", !.id = id, !.email = Canonical(email), !.pw = pw]
  <2>2. id \in Ids /\ Exists(id) /\ users[id].email = Canonical(email)
    BY <2>1 DEF WithEmail
  <2>3. id <= lastId /\ pw \in had[id]
    BY <2>1, <2>2 DEF AccountsInv, Consistent
  <2>4. r \in Request /\ Known(r)
    BY <2>2, <2>3, CanonicalIsStored DEF Free, Request, Awaits, Known
  <2> QED BY <1>2, <2>1, <2>4, OneRequestMoves DEF LoginStart
<1>3. ASSUME NEW c \in Credentials, LogoutStart(h, c) PROVE AccountsInv'
  BY <1>3, AuthenticatedKnows DEF LogoutStart
<1>4. ASSUME NEW c \in Credentials, SignoutStart(h, c) PROVE AccountsInv'
  BY <1>4, AuthenticatedKnows DEF SignoutStart
<1>5. ASSUME NEW c \in Credentials, NEW pw \in Passwords, NEW new \in Passwords,
             ChangeStart(h, c, pw, new)
      PROVE  AccountsInv'
  BY <1>5, AuthenticatedKnows DEF ChangeStart
<1>6. ASSUME NEW c \in Credentials, NEW confirm \in Email, DeleteStart(h, c, confirm)
      PROVE  AccountsInv'
  BY <1>6, AuthenticatedKnows DEF DeleteStart
<1> QED BY <1>1, <1>2, <1>3, <1>4, <1>5, <1>6 DEF Begin

(* Who a request acts for while the tables change under it: a request's      *)
(* knowledge survives a step that keeps the tokens' accounts, only adds      *)
(* accounts and passwords, and changes no address of an account that stays.  *)
LEMMA KnowledgeSurvives ==
    ASSUME AccountsInv, NEW h \in Handlers, NEW r \in Request, Known(r)', Become(h, r),
           lastId' \in Nat, lastId <= lastId', issued' \in Nat, issued <= issued',
           \A t \in Tokens : t <= issued => granted'[t] = granted[t],
           \A i \in Ids : i <= lastId => had[i] \subseteq had'[i],
           \A i \in Ids : i <= lastId /\ Exists(i)' => Exists(i) /\ users'[i].email = users[i].email
    PROVE  \A o \in Handlers : Known(reqs[o])'
<1> SUFFICES ASSUME NEW o \in Handlers PROVE Known(reqs[o])'
  OBVIOUS
<1>1. CASE o = h
  BY <1>1 DEF Become, AccountsInv, TypeOK
<1>2. CASE o # h
  <2>1. reqs'[o] = reqs[o]
    BY <1>2 DEF Become, AccountsInv, TypeOK
  <2> PICK q \in Request : q = reqs[o]
    BY DEF AccountsInv, TypeOK
  <2>2. Known(q)
    BY DEF AccountsInv
  <2>3. lastId \in Nat /\ issued \in Nat /\ Ids \subseteq Nat /\ Tokens \subseteq Nat
    BY DEF AccountsInv, TypeOK, Ids, Tokens
  <2>9. ASSUME NEW i \in Nat
        PROVE  (i <= lastId => i <= lastId') /\ (i <= issued => i <= issued')
    BY <2>3
  <2>4. q.at \in {"reread", "issue"} =>
           /\ q.id \in Ids /\ q.id <= lastId' /\ q.pw \in had'[q.id]
           /\ Exists(q.id)' => users'[q.id].email = q.email
    BY <2>2, <2>3, <2>9 DEF Known
  <2>5. q.at \in {"logout", "change", "signout", "delete"} =>
           /\ q.id \in Ids /\ q.id <= lastId'
           /\ q.by \in Tokens /\ q.by <= issued'
           /\ q.own = q.by /\ granted'[q.by] = q.id
    BY <2>2, <2>3, <2>9 DEF Known
  <2>6. q.at = "change" => q.pw \in had'[q.id] /\ q.new \in Passwords
    BY <2>2, <2>3, <2>9 DEF Known
  <2>7. q.at = "insert" => q.email \in Stored /\ q.pw \in Passwords
    BY <2>2 DEF Known
  <2>8. Known(q)'
    BY <2>4, <2>5, <2>6, <2>7 DEF Known
  <2> QED BY <2>1, <2>8
<1> QED BY <1>1, <1>2

(* Dropping tokens leaves the rest of the table consistent. *)
LEMMA DroppingKeeps ==
    ASSUME AccountsInv, NEW h \in Handlers, NEW gone, DropTokens(gone), Become(h, Free),
           UNCHANGED <<users, lastId, issued, had, granted>>
    PROVE  AccountsInv'
<1>1. TypeOK'
  BY FreeIsKnown DEF AccountsInv, TypeOK, Become, DropTokens
<1>2. Unique' /\ Consistent'
  BY DEF AccountsInv, TypeOK, Unique, Consistent, Exists, DropTokens
<1>3. Known(Free)'
  BY DEF Known, Free
<1>4. lastId \in Nat /\ issued \in Nat
  BY DEF AccountsInv, TypeOK
<1>5. \A o \in Handlers : Known(reqs[o])'
  BY <1>3, <1>4, FreeIsKnown, KnowledgeSurvives DEF Exists
<1> QED BY <1>1, <1>2, <1>5 DEF AccountsInv

(* signup stores an account: a new id, an address nobody has. *)
LEMMA InsertKeeps ==
    ASSUME AccountsInv, NEW h \in Handlers, SignupInsert(h)
    PROVE  AccountsInv'
<1> PICK r \in Request : r = reqs[h]
  BY DEF AccountsInv, TypeOK
<1> PICK n \in Nat : n = lastId + 1
  BY DEF AccountsInv, TypeOK
<1> DEFINE u == [email |-> r.email, pw |-> r.pw]
           q == [r EXCEPT !.at = "reread", !.id = n]
<1>0. r.email \in Stored /\ r.pw \in Passwords
  BY DEF SignupInsert, AccountsInv, Known
<1>1. CASE ~Insertable(r.email)
  BY <1>1, FreeIsKnown, OneRequestMoves DEF SignupInsert
<1>2. CASE Insertable(r.email)
  <2>1. /\ InsertUser(r.email, r.pw) /\ Become(h, q)
        /\ UNCHANGED <<tokens, issued, granted>>
    BY <1>2 DEF SignupInsert
  <2>2. /\ lastId \in Nat /\ issued \in Nat /\ n \in Ids
        /\ Ids \subseteq Nat
    BY AccountsAssumption DEF AccountsInv, TypeOK, SignupInsert, Ids
  <2>3. /\ u \in User /\ u # NoUser
    BY <1>0, RowsExist DEF User
  <2>4. /\ lastId' = n
        /\ users' = [users EXCEPT ![n] = u]
        /\ had' = [had EXCEPT ![n] = {r.pw}]
    BY <2>1 DEF InsertUser
  <2>5. q \in Request
    BY <1>0, <2>2 DEF Request, Awaits
  <2>6. TypeOK'
    BY <1>0, <2>1, <2>2, <2>3, <2>4, <2>5, AccountsAssumption
       DEF AccountsInv, TypeOK, Become, Ids, SignupInsert
  <2>7. \A i \in Ids : i # n => users'[i] = users[i] /\ had'[i] = had[i]
    BY <2>2, <2>4 DEF AccountsInv, TypeOK
  <2>8. users'[n] = u /\ had'[n] = {r.pw}
    BY <2>2, <2>4 DEF AccountsInv, TypeOK
  <2>9. ~Exists(n)
    BY <2>2 DEF AccountsInv, Consistent
  <2>10. Unique'
    <3>1. \A i \in Ids : Exists(i) => users[i].email # r.email
      BY <1>2 DEF Insertable, WithEmail
    <3>2. u.email = r.email
      OBVIOUS
    <3> SUFFICES ASSUME NEW i \in Ids, NEW j \in Ids, Exists(i)', Exists(j)',
                        users'[i].email = users'[j].email
                 PROVE  i = j
      BY DEF Unique
    <3>3. CASE i # n /\ j # n
      BY <3>3, <2>7 DEF Exists, AccountsInv, Unique
    <3>4. CASE i = n /\ j # n
      BY <3>4, <3>1, <3>2, <2>7, <2>8 DEF Exists
    <3>5. CASE i # n /\ j = n
      BY <3>5, <3>1, <3>2, <2>7, <2>8 DEF Exists
    <3> QED BY <3>3, <3>4, <3>5
  <2>11. Consistent'
    <3>1. ASSUME NEW i \in Ids, Exists(i)' PROVE i <= lastId' /\ users'[i].pw \in had'[i]
      <4>1. CASE i = n
        BY <4>1, <2>2, <2>4, <2>8
      <4>2. CASE i # n
        BY <3>1, <4>2, <2>2, <2>4, <2>7 DEF AccountsInv, Consistent, Exists
      <4> QED BY <4>1, <4>2
    <3>2. ASSUME NEW t \in Tokens, tokens[t] # 0
          PROVE  t <= issued /\ Exists(tokens[t])' /\ granted[t] = tokens[t]
      <4>1. t <= issued /\ Exists(tokens[t]) /\ granted[t] = tokens[t]
        BY <3>2 DEF AccountsInv, Consistent
      <4>2. tokens[t] # n
        BY <4>1, <2>9
      <4>3. tokens[t] \in Ids
        BY <4>1 DEF Exists
      <4>4. users'[tokens[t]] = users[tokens[t]]
        BY <4>2, <4>3, <2>7
      <4> QED BY <4>1, <4>4, <2>1 DEF Exists
    <3> QED BY <3>1, <3>2, <2>1 DEF Consistent, Exists
  <2>12. Known(q)'
    <3>1. /\ q.at = "reread" /\ q.id = n /\ q.pw = r.pw /\ q.email = r.email
      BY DEF Request
    <3>2. /\ n \in Ids /\ n <= lastId' /\ r.pw \in had'[n] /\ users'[n].email = r.email
      BY <2>2, <2>4, <2>8
    <3> HIDE DEF q
    <3> QED BY <3>1, <3>2 DEF Known
  <2>13. \A i \in Ids : i <= lastId => i # n
    BY <2>2
  <2>14. \A o \in Handlers : Known(reqs[o])'
    <3>1. \A i \in Ids : i <= lastId => had[i] \subseteq had'[i]
      BY <2>7, <2>13
    <3>2. \A i \in Ids : i <= lastId /\ Exists(i)' => Exists(i) /\ users'[i].email = users[i].email
      BY <2>7, <2>13 DEF Exists
    <3>3. /\ lastId' \in Nat /\ lastId <= lastId' /\ issued' \in Nat /\ issued <= issued'
          /\ \A t \in Tokens : t <= issued => granted'[t] = granted[t]
      BY <2>1, <2>2, <2>4
    <3> HIDE DEF q
    <3> QED BY <2>1, <2>5, <2>12, <3>1, <3>2, <3>3, KnowledgeSurvives
  <2> QED BY <2>6, <2>10, <2>11, <2>14 DEF AccountsInv
<1> QED BY <1>1, <1>2

(* A new token is of an open account, and is new. *)
LEMMA IssueKeeps ==
    ASSUME AccountsInv, NEW h \in Handlers, IssueToken(h)
    PROVE  AccountsInv'
<1> DEFINE r == reqs[h]
           n == issued + 1
<1>1. /\ Exists(r.id) /\ r.id \in Ids /\ issued' = n
      /\ tokens' = [tokens EXCEPT ![n] = r.id]
      /\ granted' = [granted EXCEPT ![n] = r.id]
      /\ Become(h, Free) /\ UNCHANGED <<users, lastId, had>>
  BY DEF IssueToken, InsertToken, Exists
<1>2. /\ lastId \in Nat /\ issued \in Nat /\ n \in Tokens /\ Tokens \subseteq Nat
  BY AccountsAssumption DEF AccountsInv, TypeOK, IssueToken, Tokens
<1>3. TypeOK'
  BY <1>1, <1>2, FreeIsKnown, AccountsAssumption
     DEF AccountsInv, TypeOK, Become, Tokens, IssueToken
<1>4. Unique'
  BY <1>1 DEF AccountsInv, Unique, Exists
<1>5. Consistent'
  <2>1. ASSUME NEW t \in Tokens, tokens'[t] # 0
        PROVE  t <= issued' /\ Exists(tokens'[t]) /\ granted'[t] = tokens'[t]
    <3>1. CASE t = n
      BY <3>1, <1>1, <1>2 DEF AccountsInv, TypeOK
    <3>2. CASE t # n
      BY <2>1, <3>2, <1>1, <1>2 DEF AccountsInv, TypeOK, Consistent
    <3> QED BY <3>1, <3>2
  <2> QED BY <2>1, <1>1 DEF AccountsInv, Consistent, Exists
<1>6. Known(Free)'
  BY DEF Known, Free
<1>7. \A t \in Tokens : t <= issued => granted'[t] = granted[t]
  BY <1>1, <1>2 DEF AccountsInv, TypeOK
<1>8. \A o \in Handlers : Known(reqs[o])'
  BY <1>1, <1>2, <1>6, <1>7, FreeIsKnown, KnowledgeSurvives DEF Exists
<1> QED BY <1>3, <1>4, <1>5, <1>8 DEF AccountsInv

(* A new password goes to the row of the request's own account, if any. *)
LEMMA ChangeKeeps ==
    ASSUME AccountsInv, NEW h \in Handlers, ChangeUpdate(h)
    PROVE  AccountsInv'
<1> PICK r \in Request : r = reqs[h]
  BY DEF AccountsInv, TypeOK
<1>1. /\ users' = [id \in Ids |-> IF id \in Changed(r) THEN [users[id] EXCEPT !.pw = r.new] ELSE users[id]]
      /\ had' = [id \in Ids |-> IF id \in Changed(r) THEN had[id] \cup {r.new} ELSE had[id]]
      /\ Become(h, Free) /\ UNCHANGED <<lastId, tokens, issued, granted>>
  BY DEF ChangeUpdate
<1>2. r.new \in Passwords
  BY DEF AccountsInv, Known, ChangeUpdate
<1>3. lastId \in Nat /\ issued \in Nat
  BY DEF AccountsInv, TypeOK
<1>4. ASSUME NEW id \in Ids
      PROVE  /\ had[id] \subseteq had'[id] /\ had'[id] \subseteq Passwords
             /\ users'[id] \in User \cup {NoUser}
             /\ Exists(id)' <=> Exists(id)
             /\ Exists(id) => users'[id].email = users[id].email /\ users'[id].pw \in had'[id]
  <2>1. CASE id \in Changed(r)
    <3>1. Exists(id) /\ users[id] \in User /\ had[id] \subseteq Passwords
      BY <2>1 DEF Changed, Exists, AccountsInv, TypeOK
    <3>2. /\ [users[id] EXCEPT !.pw = r.new] \in User
          /\ [users[id] EXCEPT !.pw = r.new].email = users[id].email
          /\ [users[id] EXCEPT !.pw = r.new].pw = r.new
      BY <3>1, <1>2 DEF User
    <3>3. users'[id] = [users[id] EXCEPT !.pw = r.new] /\ had'[id] = had[id] \cup {r.new}
      BY <2>1, <1>1
    <3> QED BY <3>1, <3>2, <3>3, <1>2, RowsExist DEF Exists
  <2>2. CASE id \notin Changed(r)
    BY <2>2, <1>1 DEF AccountsInv, TypeOK, Consistent, Exists
  <2> QED BY <2>1, <2>2
<1>5. TypeOK'
  <2>1. users' \in [Ids -> User \cup {NoUser}] /\ had' \in [Ids -> SUBSET Passwords]
    BY <1>1, <1>4
  <2>2. reqs' \in [Handlers -> Request]
    BY <1>1, FreeIsKnown DEF Become, AccountsInv, TypeOK
  <2> QED BY <1>1, <2>1, <2>2 DEF AccountsInv, TypeOK
<1>6. Unique'
  BY <1>4 DEF AccountsInv, Unique, Exists
<1>7. Consistent'
  <2>1. \A i \in Ids : Exists(i)' => i <= lastId' /\ users'[i].pw \in had'[i]
    BY <1>1, <1>4 DEF AccountsInv, Consistent
  <2>2. ASSUME NEW t \in Tokens, tokens'[t] # 0
        PROVE  t <= issued' /\ Exists(tokens[t])' /\ granted'[t] = tokens'[t]
    <3>1. t <= issued /\ Exists(tokens[t]) /\ granted[t] = tokens[t]
      BY <2>2, <1>1 DEF AccountsInv, Consistent
    <3>2. PICK i \in Ids : i = tokens[t]
      BY <3>1 DEF Exists
    <3>3. Exists(i)'
      BY <3>1, <3>2, <1>4
    <3> QED BY <3>1, <3>2, <3>3, <1>1
  <2> QED BY <2>1, <2>2 DEF Consistent
<1>8. Known(Free)'
  BY DEF Known, Free
<1>9. \A o \in Handlers : Known(reqs[o])'
  <2>1. \A i \in Ids : i <= lastId => had[i] \subseteq had'[i]
    BY <1>4
  <2>2. \A i \in Ids : i <= lastId /\ Exists(i)' => Exists(i) /\ users'[i].email = users[i].email
    BY <1>4
  <2> QED BY <1>1, <1>3, <1>8, <2>1, <2>2, FreeIsKnown, KnowledgeSurvives
<1> QED BY <1>5, <1>6, <1>7, <1>9 DEF AccountsInv

(* An account goes with its tokens. *)
LEMMA DeleteKeeps ==
    ASSUME AccountsInv, NEW h \in Handlers, DeleteUser(h)
    PROVE  AccountsInv'
<1> PICK n \in Ids : n = reqs[h].id
  BY DEF AccountsInv, Known, DeleteUser
<1>1. /\ users' = [users EXCEPT ![n] = NoUser]
      /\ tokens' = [t \in Tokens |-> IF tokens[t] = n THEN 0 ELSE tokens[t]]
      /\ Become(h, Free) /\ UNCHANGED <<lastId, issued, had, granted>>
  BY DEF DeleteUser, DropTokens, Cascade, SessionsOf
<1>2. /\ \A i \in Ids : i # n => users'[i] = users[i]
      /\ users'[n] = NoUser
  BY <1>1 DEF AccountsInv, TypeOK
<1>3. TypeOK'
  BY <1>1, FreeIsKnown DEF AccountsInv, TypeOK, Become
<1>4. Unique'
  BY <1>2 DEF AccountsInv, Unique, Exists
<1>5. Consistent'
  <2>1. \A i \in Ids : Exists(i)' => i <= lastId' /\ users'[i].pw \in had'[i]
    BY <1>1, <1>2 DEF AccountsInv, Consistent, Exists
  <2>2. ASSUME NEW t \in Tokens, tokens'[t] # 0
        PROVE  t <= issued' /\ Exists(tokens[t])' /\ granted'[t] = tokens'[t]
    <3>1. tokens[t] # n /\ tokens'[t] = tokens[t] /\ tokens[t] # 0
      BY <2>2, <1>1
    <3>2. t <= issued /\ Exists(tokens[t]) /\ granted[t] = tokens[t]
      BY <3>1 DEF AccountsInv, Consistent
    <3> QED BY <3>1, <3>2, <1>1, <1>2 DEF Exists
  <2> QED BY <2>1, <2>2 DEF Consistent
<1>6. Known(Free)'
  BY DEF Known, Free
<1>7. /\ \A i \in Ids : i <= lastId /\ Exists(i)' => Exists(i) /\ users'[i].email = users[i].email
      /\ lastId \in Nat /\ issued \in Nat
  BY <1>2 DEF Exists, AccountsInv, TypeOK
<1>8. \A o \in Handlers : Known(reqs[o])'
  BY <1>1, <1>6, <1>7, FreeIsKnown, KnowledgeSurvives
<1> QED BY <1>3, <1>4, <1>5, <1>8 DEF AccountsInv

(* signup looks its account up again, and issues a token if it is there. *)
LEMMA RereadKeeps ==
    ASSUME AccountsInv, NEW h \in Handlers, SignupReread(h)
    PROVE  AccountsInv'
<1> DEFINE q == [reqs[h] EXCEPT !.at = "issue"]
<1>1. reqs[h] \in Request /\ Known(reqs[h])
  BY DEF AccountsInv, TypeOK
<1>2. q \in Request
  BY <1>1 DEF Request, Awaits
<1>3. /\ q.at = "issue" /\ q.id = reqs[h].id /\ q.pw = reqs[h].pw /\ q.email = reqs[h].email
  BY <1>1 DEF Request
<1>4. Known(q)
  BY <1>1, <1>3 DEF Known, SignupReread
<1> QED BY <1>2, <1>4, FreeIsKnown, OneRequestMoves DEF SignupReread

(* One case for each action. *)
LEMMA StepKeeps ==
    ASSUME AccountsInv, [Next]_accountVars
    PROVE  AccountsInv'
<1>1. CASE UNCHANGED accountVars
  BY <1>1 DEF accountVars, AccountsInv, TypeOK, Unique, Consistent, Known, Exists
<1>2. ASSUME NEW h \in Handlers, Begin(h) PROVE AccountsInv'
  BY <1>2, BeginKeeps
<1>3. ASSUME NEW h \in Handlers, Continue(h) PROVE AccountsInv'
  <2>1. CASE SignupInsert(h)
    BY <2>1, InsertKeeps
  <2>2. CASE SignupReread(h)
    BY <2>2, RereadKeeps
  <2>3. CASE IssueToken(h)
    BY <2>3, IssueKeeps
  <2>4. CASE LogoutDelete(h)
    BY <2>4, DroppingKeeps DEF LogoutDelete
  <2>5. CASE ChangeUpdate(h)
    BY <2>5, ChangeKeeps
  <2>6. CASE SignoutRevoke(h)
    BY <2>6, DroppingKeeps DEF SignoutRevoke
  <2>7. CASE DeleteUser(h)
    BY <2>7, DeleteKeeps
  <2>8. CASE CutOff(h)
    BY <2>8, FreeIsKnown, OneRequestMoves DEF CutOff
  <2> QED BY <1>3, <2>1, <2>2, <2>3, <2>4, <2>5, <2>6, <2>7, <2>8 DEF Continue
<1> QED BY <1>1, <1>2, <1>3 DEF Next

LEMMA InitHolds == Init => AccountsInv
<1> SUFFICES ASSUME Init PROVE AccountsInv
  OBVIOUS
<1>1. TypeOK
  BY FreeIsKnown, AccountsAssumption DEF Init, TypeOK
<1>2. Unique /\ Consistent
  BY DEF Init, Unique, Consistent, Exists
<1> QED BY <1>1, <1>2, FreeIsKnown DEF Init, AccountsInv

(* The inductive invariant: tables, sequences and what waiting requests know *)
(* agree.                                                                    *)
THEOREM AccountsHold == Spec => []AccountsInv
BY InitHolds, StepKeeps, PTL DEF Spec

(* The tables and requests have their types: in particular, addresses are    *)
(* stored in lower case.                                                     *)
THEOREM AccountTypes == Spec => []TypeOK
<1>1. AccountsInv => TypeOK
  BY DEF AccountsInv
<1> QED BY <1>1, AccountsHold, PTL

(* No two accounts share an address, whatever signups overlap. *)
THEOREM AddressesUnique == Spec => []OneAccountPerAddress
<1>1. AccountsInv => OneAccountPerAddress
  <2> SUFFICES ASSUME AccountsInv, NEW i \in Ids, NEW j \in Ids, Exists(i), Exists(j),
                      users[i].email.address = users[j].email.address
               PROVE  i = j
    BY DEF OneAccountPerAddress
  <2>1. users[i].email \in Stored /\ users[j].email \in Stored
    BY DEF AccountsInv, TypeOK, Exists, User
  <2>2. ASSUME NEW e \in Stored PROVE e = [address |-> e.address, mixed |-> FALSE]
    BY DEF Stored
  <2>3. users[i].email = users[j].email
    BY <2>1, <2>2
  <2> QED BY <2>3 DEF AccountsInv, Unique
<1> QED BY <1>1, AccountsHold, PTL

-----------------------------------------------------------------------------
(* What a step may never do *)

Tables == <<users, lastId, tokens, issued, had, granted>>

(* Only what follows an await changes a table, and not every such step does. *)
LEMMA QuietSteps ==
    ASSUME NEW h \in Handlers, Begin(h) \/ SignupReread(h) \/ CutOff(h)
    PROVE  UNCHANGED Tables
<1>1. CASE Begin(h)
  BY <1>1 DEF Begin, SignupStart, LoginStart, LogoutStart, SignoutStart, ChangeStart,
              DeleteStart, Authenticated, Tables
<1>2. CASE SignupReread(h) \/ CutOff(h)
  BY <1>2 DEF SignupReread, CutOff, Tables
<1> QED BY <1>1, <1>2

(* The steps that do, and that the handler is free after all but one. *)
LEMMA StepCases ==
    ASSUME [Next]_accountVars
    PROVE  \/ UNCHANGED Tables
           \/ \E h \in Handlers :
                 \/ SignupInsert(h) /\ UNCHANGED tokens
                 \/ IssueToken(h) \/ LogoutDelete(h) \/ ChangeUpdate(h)
                 \/ SignoutRevoke(h) \/ DeleteUser(h)
<1>1. CASE UNCHANGED accountVars
  BY <1>1 DEF accountVars, Tables
<1>2. ASSUME NEW h \in Handlers, Begin(h) \/ Continue(h)
      PROVE  \/ UNCHANGED Tables
             \/ \/ SignupInsert(h) /\ UNCHANGED tokens
                \/ IssueToken(h) \/ LogoutDelete(h) \/ ChangeUpdate(h)
                \/ SignoutRevoke(h) \/ DeleteUser(h)
  <2>1. SignupInsert(h) => UNCHANGED tokens
    BY DEF SignupInsert
  <2> QED BY <1>2, <2>1, QuietSteps DEF Continue
<1> QED BY <1>1, <1>2 DEF Next

(* Every step but the two of a signup leaves its handler free. *)
LEMMA HandlerFree ==
    ASSUME TypeOK, NEW h \in Handlers,
           IssueToken(h) \/ LogoutDelete(h) \/ ChangeUpdate(h) \/ SignoutRevoke(h) \/ DeleteUser(h)
    PROVE  /\ reqs'[h] = Free
           /\ \A o \in Handlers : o # h => reqs'[o] = reqs[o]
           /\ reqs[h].at # "free"
<1>1. Become(h, Free) /\ reqs[h].at # "free"
  BY DEF IssueToken, LogoutDelete, ChangeUpdate, SignoutRevoke, DeleteUser
<1> QED BY <1>1 DEF Become, TypeOK

(* A granted session was earned, for every behaviour. *)
THEOREM SessionsEarned == Spec => SessionEarned
<1>1. AccountsInv /\ [Next]_accountVars => [\A t \in Tokens : Earned(t)]_accountVars
  <2> SUFFICES ASSUME AccountsInv, [Next]_accountVars, NEW t \in Tokens,
                      tokens[t] = 0, tokens'[t] # 0
               PROVE  \E h \in Handlers :
                         /\ reqs[h].at = "issue" /\ reqs'[h] = Free
                         /\ Exists(tokens'[t])
                         /\ reqs[h].email = users[tokens'[t]].email
                         /\ reqs[h].pw \in had[tokens'[t]]
    BY DEF Earned
  <2>1. ASSUME NEW h \in Handlers, LogoutDelete(h) \/ SignoutRevoke(h) \/ DeleteUser(h)
        PROVE  FALSE
    BY <2>1 DEF LogoutDelete, SignoutRevoke, DeleteUser, DropTokens
  <2>2. ASSUME NEW h \in Handlers, ChangeUpdate(h) PROVE FALSE
    BY <2>2 DEF ChangeUpdate
  <2>3. PICK h \in Handlers : IssueToken(h)
    BY <2>1, <2>2, StepCases DEF Tables
  <2>4. tokens'[t] = reqs[h].id /\ Exists(reqs[h].id)
    BY <2>3 DEF IssueToken, InsertToken, AccountsInv, TypeOK
  <2>5. /\ reqs[h].at = "issue" /\ reqs[h].pw \in had[reqs[h].id]
        /\ users[reqs[h].id].email = reqs[h].email
    BY <2>3, <2>4 DEF IssueToken, AccountsInv, Known
  <2>6. reqs'[h] = Free
    BY <2>3, HandlerFree DEF AccountsInv
  <2> QED BY <2>4, <2>5, <2>6
<1> QED BY <1>1, AccountsHold, PTL DEF Spec, SessionEarned

(* A password or an account is changed by its own sessions only. *)
THEOREM ChangesEarned == Spec => ChangeEarned
<1>1. AccountsInv /\ [Next]_accountVars => [\A id \in Ids : Permitted(id)]_accountVars
  <2> SUFFICES ASSUME AccountsInv, [Next]_accountVars, NEW id \in Ids,
                      Exists(id), users'[id] # users[id]
               PROVE  \E h \in Handlers :
                         /\ reqs[h].at \in {"change", "delete"} /\ reqs'[h] = Free
                         /\ granted[reqs[h].by] = id
                         /\ reqs[h].at = "change" => reqs[h].pw \in had[id]
    BY DEF Permitted
  <2>1. ASSUME NEW h \in Handlers, SignupInsert(h) PROVE FALSE
    <3>1. users' = users \/ (lastId \in Nat /\ \E u : users' = [users EXCEPT ![lastId + 1] = u])
      BY <2>1 DEF SignupInsert, InsertUser, AccountsInv, TypeOK
    <3>2. id <= lastId /\ id \in Nat
      BY DEF AccountsInv, Consistent, Ids
    <3> QED BY <3>1, <3>2 DEF AccountsInv, TypeOK
  <2>2. ASSUME NEW h \in Handlers, IssueToken(h) \/ LogoutDelete(h) \/ SignoutRevoke(h)
        PROVE  FALSE
    BY <2>2 DEF IssueToken, LogoutDelete, SignoutRevoke
  <2>3. PICK h \in Handlers : ChangeUpdate(h) \/ DeleteUser(h)
    BY <2>1, <2>2, StepCases DEF Tables
  <2>4. id = reqs[h].id
    BY <2>3 DEF ChangeUpdate, Changed, DeleteUser, AccountsInv, TypeOK
  <2>5. /\ reqs[h].at \in {"change", "delete"} /\ granted[reqs[h].by] = reqs[h].id
        /\ reqs[h].at = "change" => reqs[h].pw \in had[reqs[h].id]
    BY <2>3 DEF ChangeUpdate, DeleteUser, AccountsInv, Known
  <2>6. reqs'[h] = Free
    BY <2>3, HandlerFree DEF AccountsInv
  <2> QED BY <2>4, <2>5, <2>6
<1> QED BY <1>1, AccountsHold, PTL DEF Spec, ChangeEarned

(* Logout ends its own session, sign-out spares it. *)
THEOREM OwnSessions == Spec => OwnSession
<1>1. AccountsInv /\ [Next]_accountVars => [\A h \in Handlers : Ends(h)]_accountVars
  <2> SUFFICES ASSUME AccountsInv, [Next]_accountVars, NEW h \in Handlers,
                      reqs'[h] = Free, tokens' # tokens,
                      reqs[h].at \in {"logout", "signout"}
               PROVE  Ends(h)
    BY DEF Ends
  <2>1. PICK o \in Handlers :
            IssueToken(o) \/ LogoutDelete(o) \/ SignoutRevoke(o) \/ DeleteUser(o)
    BY StepCases DEF Tables, ChangeUpdate
  <2>2. o = h
    BY <2>1, HandlerFree DEF AccountsInv, Free
  <2>3. /\ reqs[h].own = reqs[h].by /\ granted[reqs[h].by] = reqs[h].id
        /\ reqs[h].by \in Tokens
    BY DEF AccountsInv, Known
  <2>4. CASE LogoutDelete(h)
    BY <2>3, <2>4 DEF LogoutDelete, DropTokens, Ends, AccountsInv, TypeOK
  <2>5. CASE SignoutRevoke(h)
    BY <2>3, <2>5 DEF SignoutRevoke, DropTokens, SessionsOf, Ends, AccountsInv, TypeOK
  <2>6. ~IssueToken(h) /\ ~DeleteUser(h)
    BY DEF IssueToken, DeleteUser
  <2> QED BY <2>1, <2>2, <2>4, <2>5, <2>6
<1> QED BY <1>1, AccountsHold, PTL DEF Spec, OwnSession

-----------------------------------------------------------------------------
(* Accounts implements SessionContract *)

(* Tokens that are dropped, all of one account, end their sessions. *)
LEMMA DroppedIsEnded ==
    ASSUME AccountsInv, NEW gone \in SUBSET Tokens, DropTokens(gone), UNCHANGED issued,
           \A t \in gone : tokens[t] # 0
    PROVE  Contract!Ended(gone)
<1>1. ASSUME NEW t \in Tokens
      PROVE  sessionIs'[t] = IF t \in gone THEN "ended" ELSE sessionIs[t]
  <2>1. /\ tokens'[t] = IF t \in gone THEN 0 ELSE tokens[t]
        /\ issued \in Nat /\ t \in Nat
        /\ t \in gone => t <= issued
    BY DEF DropTokens, AccountsInv, TypeOK, Consistent, Tokens
  <2>2. t \in gone => ~(t > issued)
    BY <2>1
  <2> QED BY <2>1, <2>2 DEF sessionIs
<1>2. sessionIs' = [t \in Tokens |-> IF t \in gone THEN "ended" ELSE sessionIs[t]]
  BY <1>1 DEF sessionIs
<1>3. tokens' = [t \in Tokens |-> IF t \in gone THEN 0 ELSE tokens[t]]
  BY DEF DropTokens
<1> QED BY <1>2, <1>3 DEF Contract!Ended

(* The states of the accounts depend on two variables. *)
LEMMA SameAccounts ==
    ASSUME UNCHANGED lastId, \A id \in Ids : Exists(id)' <=> Exists(id)
    PROVE  UNCHANGED accountIs
BY DEF accountIs

LEMMA SignupOpens ==
    ASSUME AccountsInv, NEW h \in Handlers, SignupInsert(h)
    PROVE  [Contract!Next]_Contract!vars
<1>1. UNCHANGED <<tokens, issued, sessionIs>>
  BY DEF SignupInsert, sessionIs
<1>2. CASE UNCHANGED <<users, lastId>>
  <2>1. UNCHANGED accountIs
    BY <1>2 DEF accountIs, Exists
  <2> QED BY <1>1, <2>1 DEF Contract!vars
<1>3. CASE InsertUser(reqs[h].email, reqs[h].pw)
  <2> PICK n \in Nat : n = lastId + 1
    BY DEF AccountsInv, TypeOK
  <2> DEFINE u == [email |-> reqs[h].email, pw |-> reqs[h].pw]
  <2>1. n \in Ids /\ Ids \subseteq Nat /\ lastId \in Nat
    BY AccountsAssumption DEF SignupInsert, AccountsInv, TypeOK, Ids
  <2>2. lastId' = n /\ users' = [users EXCEPT ![n] = u]
    BY <1>3 DEF InsertUser
  <2>3. reqs[h].email \in Stored /\ reqs[h].pw \in Passwords
    BY DEF SignupInsert, AccountsInv, Known
  <2>4. u # NoUser
    BY <2>3, RowsExist DEF User
  <2>5. accountIs[n] = "unborn"
    BY <2>1 DEF accountIs
  <2>6. ASSUME NEW id \in Ids
        PROVE  accountIs'[id] = IF id = n THEN "open" ELSE accountIs[id]
    <3>1. CASE id = n
      <4>1. users'[n] = u /\ ~(n > lastId')
        BY <2>1, <2>2 DEF AccountsInv, TypeOK
      <4> QED BY <3>1, <4>1, <2>1, <2>4 DEF accountIs, Exists
    <3>2. CASE id # n
      <4>1. /\ users'[id] = users[id]
            /\ id > lastId' <=> id > lastId
        BY <3>2, <2>1, <2>2 DEF AccountsInv, TypeOK
      <4> QED BY <3>2, <4>1 DEF accountIs, Exists
    <3> QED BY <3>1, <3>2
  <2>7. accountIs' = [accountIs EXCEPT ![n] = "open"]
    BY <2>6 DEF accountIs
  <2>8. Contract!Open(n)
    BY <1>1, <2>5, <2>7 DEF Contract!Open
  <2> QED BY <2>1, <2>8 DEF Contract!Next
<1> QED BY <1>2, <1>3 DEF SignupInsert

LEMMA IssueGrants ==
    ASSUME AccountsInv, NEW h \in Handlers, IssueToken(h)
    PROVE  Contract!Next
<1> PICK n \in Nat : n = issued + 1
  BY DEF AccountsInv, TypeOK
<1> PICK id \in Ids : id = reqs[h].id
  BY DEF IssueToken, InsertToken, Exists
<1>1. /\ n \in Tokens /\ Tokens \subseteq Nat /\ issued \in Nat /\ lastId \in Nat /\ id \in Nat
      /\ id # 0
  BY AccountsAssumption DEF IssueToken, AccountsInv, TypeOK, Tokens, Ids
<1>2. /\ Exists(id) /\ issued' = n /\ tokens' = [tokens EXCEPT ![n] = id]
      /\ UNCHANGED <<users, lastId>>
  BY DEF IssueToken, InsertToken
<1>3. accountIs[id] = "open" /\ UNCHANGED accountIs
  BY <1>1, <1>2 DEF accountIs, AccountsInv, Consistent, Exists
<1>4. sessionIs[n] = "unissued"
  BY <1>1 DEF sessionIs
<1>5. ASSUME NEW t \in Tokens
      PROVE  sessionIs'[t] = IF t = n THEN "valid" ELSE sessionIs[t]
  <2>1. CASE t = n
    <3>1. tokens'[n] = id /\ ~(n > issued')
      BY <1>1, <1>2 DEF AccountsInv, TypeOK
    <3> QED BY <2>1, <3>1, <1>1 DEF sessionIs
  <2>2. CASE t # n
    <3>1. tokens'[t] = tokens[t] /\ (t > issued' <=> t > issued)
      BY <2>2, <1>1, <1>2 DEF AccountsInv, TypeOK
    <3> QED BY <2>2, <3>1 DEF sessionIs
  <2> QED BY <2>1, <2>2
<1>6. sessionIs' = [sessionIs EXCEPT ![n] = "valid"]
  BY <1>5 DEF sessionIs
<1>7. Contract!Grant(n, id)
  BY <1>2, <1>3, <1>4, <1>6 DEF Contract!Grant
<1> QED BY <1>1, <1>7 DEF Contract!Next

LEMMA LogoutSignsOut ==
    ASSUME AccountsInv, NEW h \in Handlers, LogoutDelete(h)
    PROVE  [Contract!Next]_Contract!vars
<1> PICK id \in Ids : id = reqs[h].id
  BY DEF LogoutDelete, AccountsInv, Known
<1> PICK own \in Tokens : own = reqs[h].own
  BY DEF LogoutDelete, AccountsInv, Known
<1>1. DropTokens({own}) /\ UNCHANGED <<users, lastId, issued>>
  BY DEF LogoutDelete
<1>2. UNCHANGED accountIs
  BY <1>1, SameAccounts DEF Exists
<1>3. CASE tokens[own] = 0
  <2>1. UNCHANGED tokens
    BY <1>1, <1>3 DEF DropTokens, AccountsInv, TypeOK
  <2> QED BY <1>1, <1>2, <2>1 DEF Contract!vars, sessionIs
<1>4. CASE tokens[own] # 0
  <2>1. Contract!Ended({own})
    BY <1>1, <1>4, DroppedIsEnded
  <2>2. tokens[own] = id
    BY <1>4 DEF LogoutDelete, AccountsInv, Known, Consistent
  <2>3. {own} \subseteq Contract!Of(id)
    BY <2>2 DEF Contract!Of
  <2>4. Contract!SignOut(id, {own})
    BY <1>2, <2>1, <2>3 DEF Contract!SignOut
  <2> QED BY <2>4 DEF Contract!Next
<1> QED BY <1>3, <1>4

LEMMA RevokeSignsOut ==
    ASSUME AccountsInv, NEW h \in Handlers, SignoutRevoke(h)
    PROVE  Contract!Next
<1> PICK id \in Ids : id = reqs[h].id
  BY DEF SignoutRevoke, AccountsInv, Known
<1> PICK gone \in SUBSET Tokens : gone = SessionsOf(id) \ {reqs[h].own}
  BY DEF SessionsOf
<1>1. DropTokens(gone) /\ UNCHANGED <<users, lastId, issued>>
  BY DEF SignoutRevoke
<1>2. \A t \in gone : tokens[t] = id /\ tokens[t] # 0
  BY DEF SessionsOf, Ids
<1>3. Contract!Ended(gone)
  BY <1>1, <1>2, DroppedIsEnded
<1>4. UNCHANGED accountIs
  BY <1>1, SameAccounts DEF Exists
<1>5. Contract!SignOut(id, gone)
  BY <1>2, <1>3, <1>4 DEF Contract!SignOut, Contract!Of
<1> QED BY <1>5 DEF Contract!Next

LEMMA DeleteCloses ==
    ASSUME AccountsInv, NEW h \in Handlers, DeleteUser(h)
    PROVE  [Contract!Next]_Contract!vars
<1> PICK id \in Ids : id = reqs[h].id
  BY DEF DeleteUser, AccountsInv, Known
<1> PICK gone \in SUBSET Tokens : gone = SessionsOf(id)
  BY DEF SessionsOf
<1>1. /\ users' = [users EXCEPT ![id] = NoUser]
      /\ DropTokens(gone) /\ UNCHANGED <<lastId, issued>>
  BY DEF DeleteUser, Cascade
<1>2. \A t \in gone : tokens[t] = id /\ tokens[t] # 0
  BY DEF SessionsOf, Ids
<1>3. Contract!Ended(gone)
  BY <1>1, <1>2, DroppedIsEnded
<1>4. id <= lastId /\ lastId \in Nat /\ id \in Nat
  BY DEF DeleteUser, AccountsInv, TypeOK, Known, Ids
<1>5. CASE Exists(id)
  <2>1. accountIs[id] = "open"
    BY <1>4, <1>5 DEF accountIs
  <2>2. accountIs' = [accountIs EXCEPT ![id] = "closed"]
    <3>1. ASSUME NEW i \in Ids
          PROVE  users'[i] = IF i = id THEN NoUser ELSE users[i]
      BY <1>1 DEF AccountsInv, TypeOK
    <3>2. ~(id > lastId')
      BY <1>1, <1>4
    <3>3. ASSUME NEW i \in Ids
          PROVE  accountIs'[i] = IF i = id THEN "closed" ELSE accountIs[i]
      BY <1>1, <3>1, <3>2 DEF accountIs, Exists
    <3> QED BY <3>3 DEF accountIs
  <2>3. gone = Contract!Of(id)
    BY DEF SessionsOf, Contract!Of
  <2>4. Contract!Close(id)
    BY <1>3, <2>1, <2>2, <2>3 DEF Contract!Close
  <2> QED BY <2>4 DEF Contract!Next
<1>6. CASE ~Exists(id)
  <2>1. UNCHANGED accountIs
    BY <1>1, <1>6, SameAccounts DEF Exists, AccountsInv, TypeOK
  <2>2. gone \subseteq Contract!Of(id)
    BY DEF SessionsOf, Contract!Of
  <2>3. Contract!SignOut(id, gone)
    BY <1>3, <2>1, <2>2 DEF Contract!SignOut
  <2> QED BY <2>3 DEF Contract!Next
<1> QED BY <1>5, <1>6

(* Tables users and tokens keep the promise about accounts and sessions,     *)
(* whatever requests overlap, fail or are cut off.                           *)
THEOREM SessionsKept == Spec => ContractSpec
<1>1. Init => Contract!Init
  <2> SUFFICES ASSUME Init PROVE Contract!Init
    OBVIOUS
  <2>1. \A id \in Ids : id > 0
    BY DEF Ids
  <2>2. \A t \in Tokens : t > 0
    BY DEF Tokens
  <2> QED BY <2>1, <2>2 DEF Init, Contract!Init, accountIs, sessionIs
<1>2. AccountsInv /\ [Next]_accountVars => [Contract!Next]_Contract!vars
  <2> SUFFICES ASSUME AccountsInv, [Next]_accountVars
               PROVE  [Contract!Next]_Contract!vars
    OBVIOUS
  <2>1. CASE UNCHANGED Tables
    BY <2>1 DEF Tables, Contract!vars, accountIs, sessionIs, Exists
  <2>2. ASSUME NEW h \in Handlers, ChangeUpdate(h)
        PROVE  [Contract!Next]_Contract!vars
    <3>1. \A id \in Ids : Exists(id)' <=> Exists(id)
      <4> SUFFICES ASSUME NEW id \in Ids PROVE Exists(id)' <=> Exists(id)
        OBVIOUS
      <4>1. users'[id] = IF id \in Changed(reqs[h])
                            THEN [users[id] EXCEPT !.pw = reqs[h].new] ELSE users[id]
        BY <2>2 DEF ChangeUpdate
      <4>2. CASE id \in Changed(reqs[h])
        <5>1. Exists(id) /\ users[id] \in User /\ reqs[h].new \in Passwords
          BY <2>2, <4>2 DEF Changed, Exists, ChangeUpdate, AccountsInv, TypeOK, Known
        <5>2. [users[id] EXCEPT !.pw = reqs[h].new] \in User
          BY <5>1 DEF User
        <5> QED BY <4>1, <4>2, <5>1, <5>2, RowsExist DEF Exists
      <4>3. CASE id \notin Changed(reqs[h])
        BY <4>1, <4>3 DEF Exists
      <4> QED BY <4>2, <4>3
    <3>2. UNCHANGED <<lastId, tokens, issued>>
      BY <2>2 DEF ChangeUpdate
    <3> QED BY <3>1, <3>2, SameAccounts DEF Contract!vars, sessionIs
  <2> QED BY <2>1, <2>2, StepCases, SignupOpens, IssueGrants, LogoutSignsOut,
             RevokeSignsOut, DeleteCloses
<1> QED BY <1>1, <1>2, AccountsHold, PTL DEF Spec, ContractSpec, Contract!Spec

=============================================================================
