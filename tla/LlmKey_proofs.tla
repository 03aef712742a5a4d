---------------------------- MODULE LlmKey_proofs ----------------------------
(***************************************************************************)
(* Theorems about LlmKey for any users, keys and connections, and any      *)
(* number of requests at once, crashes and failing statements and writes.  *)
(***************************************************************************)
EXTENDS LlmKey, TLAPS

(* Nothing has left file and row apart. *)
Peace == ~apart

Keyless == \A e \in Engines : files[e].key = NoKey

(* The row names the holder of every key there is.  As long as a file is     *)
(* missing no key was set or cleared, and the row names the heir if anyone.  *)
Good ==
    /\ \A e \in Engines : files[e].key # NoKey => Holder(files[e].key) = owner
    /\ Keyless => owner = NoUser
    /\ missing # {} => owner = heir

(* Every request is somebody's; a server that is down serves none. *)
Named == \A h \in Handlers : reqs[h].at # "free" => reqs[h].user \in Users
Idle  == server # "up" => \A h \in Handlers : reqs[h] = Free

(* A missing file says nothing. *)
Blanks == \A e \in missing : files[e] = Blank

(* Two writers at once know that they are not alone. *)
Lone ==
    /\ \A h, o \in Handlers : Writing(h) /\ Writing(o) /\ h # o => ~reqs[h].alone
    /\ \A h \in Handlers : Writing(h) /\ ~reqs[h].alone => ~Peace

Unwritten == {"ask_put", "ask_delete", "put", "delete", "drop_owner", "del_user"}

(* What a lone writer has left at each of its awaits. *)
Left(r) ==
    /\ r.user \in users
    /\ r.at \in Unwritten => (Peace => Good)
    /\ r.at \in {"put", "delete"} => (r.owns <=> owner = r.user)
    /\ r.at \in {"clear_owner", "del_owner"} => Keyless /\ missing = {} /\ owner = r.user
    /\ r.at = "drop_owner" => Keyless
    /\ r.at = "set_owner" =>
          missing = {} /\ \A e \in Engines : files[e].key # NoKey /\ files[e].key.saver = r.user
    /\ r.at \in {"put_clear", "del_stamp"} => Good
    /\ r.at \in {"del_stamp", "del_user"} => owner # r.user

LeftOK == \A h \in Handlers : Writing(h) /\ reqs[h].alone => Left(reqs[h])
RestOK == (\A h \in Handlers : ~Writing(h)) /\ Peace => Good

(* A writer that has not come to its write, nor will to the row. *)
Before(r) ==
    /\ r.at \in {"ask_put", "ask_delete", "put", "delete", "del_user"}
    /\ r.at \in {"put", "delete"} => (r.owns <=> owner = r.user)
    /\ r.at = "del_user" => owner # r.user

Unstarted == {"ask_gate", "gate", "queued"}

(* No writer has come to its write since a clean run passed its upload, and   *)
(* the row is still as the gate read it.                                     *)
RunOK(r) ==
    r.at \in Unstarted /\ r.clean =>
        /\ \A o \in Handlers : Writing(o) => Before(reqs[o])
        /\ r.at = "gate" => (r.owns <=> owner = r.user)
        /\ r.at = "queued" => owner = r.user

Runs == \A h \in Handlers : RunOK(reqs[h])

(* The files are both there and say the same connection. *)
Whole == Agree(files) /\ missing = {}

Same(tested) == \A e \in Engines : tested[e] # Untested => tested[e] = files[e]

(* A clean check has probed what it read. *)
Probed(r) ==
    /\ r.at \in {"ask_check", "check"} => r.tested = None
    /\ r.at = "probing" /\ r.clean => Whole /\ r.fp = Fingerprint(Merge(files)) /\ Same(r.tested)

(* A stamp was given for the connection it names, and for the keys there are  *)
(* unless a change of them is under way.                                     *)
Stamped ==
    stamp \notin {NoStamp, Stale} =>
        /\ Whole
        /\ \A e \in Engines : stamp.tested[e] # Untested =>
              /\ stamp.tested[e].conn = stamp.fp[1]
              /\ (\A h \in Handlers : ~Pending(h)) => stamp.tested[e].key = files[e].key

Checks == Stamped /\ \A h \in Handlers : Probed(reqs[h])

LlmInv == TypeOK /\ Named /\ Idle /\ Blanks /\ Lone /\ LeftOK /\ RestOK /\ Runs /\ Checks

-----------------------------------------------------------------------------
(* The operators that actions are built from *)

LEMMA FreeFacts ==
    /\ Free.at = "free" /\ Free.user = NoUser /\ Free.owns = FALSE /\ Free.fp = NoPrint
    /\ Free.clean = TRUE /\ Free.alone = TRUE /\ Free.tested = None
BY DEF Free

LEMMA NoUserFacts == \A u \in Users : u # NoUser
BY LlmAssumption

LEMMA BlankType == Blank \in File /\ Blank.key = NoKey
BY DEF Blank, File, Connection

LEMMA PrintType == NoPrint \in Fingerprints
BY DEF NoPrint, Fingerprints, Blank, Connection

LEMMA MergeType ==
    ASSUME NEW fs \in [Engines -> File]
    PROVE  Merge(fs) \in File
<1>1. fs["js"] \in File /\ fs["py"] \in File
  BY DEF Engines
<1>2. [x \in Fields |-> IF fs["js"].conn[x] # NoValue THEN fs["js"].conn[x]
                        ELSE fs["py"].conn[x]] \in Connection
  BY <1>1 DEF File, Connection
<1> QED BY <1>1, <1>2 DEF Merge, File

LEMMA FingerprintType ==
    ASSUME NEW f \in File
    PROVE  Fingerprint(f) \in Fingerprints /\ Fingerprint(f)[1] = f.conn
<1>1. f.conn \in Connection /\ (f.key # NoKey => f.key.text \in Texts)
  BY DEF File, Key
<1>2. TailOf(f.key) \in Tails \cup {NoTail}
  BY <1>1, LlmAssumption DEF TailOf
<1> QED BY <1>1, <1>2 DEF Fingerprint, Fingerprints

(* The merge of two files that say the same connection says it too. *)
LEMMA MergeAgreed ==
    ASSUME NEW fs \in [Engines -> File], Agree(fs)
    PROVE  \A e \in Engines : fs[e].conn = Merge(fs).conn
<1>1. fs["js"].conn \in Connection /\ fs["js"].conn = fs["py"].conn
  BY DEF Agree, File, Engines
<1>2. Merge(fs).conn = [x \in Fields |-> fs["js"].conn[x]]
  BY <1>1 DEF Merge
<1>3. Merge(fs).conn = fs["js"].conn
  BY <1>1, <1>2 DEF Connection
<1> QED BY <1>1, <1>3 DEF Engines

Asked == (UNION {Bodies(u) : u \in Users}) \cup {ClearKey}

LEMMA AskedFacts ==
    ASSUME NEW b \in Asked
    PROVE  /\ b.key \in Key \cup {Keep, Clear}
           /\ \A x \in Fields : b.conn[x] = Keep \/ b.conn[x] \in Values \cup {NoValue}
<1>1. CASE b = ClearKey
  BY <1>1 DEF ClearKey
<1>2. CASE b # ClearKey
  <2>1. PICK u \in Users : b \in Bodies(u)
    BY <1>2 DEF Asked
  <2> QED BY <2>1 DEF Bodies, Key
<1> QED BY <1>1, <1>2

LEMMA UpdateType ==
    ASSUME NEW fs \in [Engines -> File], NEW b \in Asked
    PROVE  Updated(fs, b) \in [Engines -> File]
<1> SUFFICES ASSUME NEW e \in Engines PROVE Update(fs[e], b) \in File
  BY DEF Updated
<1>1. fs[e].key \in Key \cup {NoKey} /\ fs[e].conn \in Connection
  BY DEF File
<1>2. [x \in Fields |-> IF b.conn[x] = Keep THEN fs[e].conn[x] ELSE b.conn[x]] \in Connection
  BY <1>1, AskedFacts DEF Connection
<1>3. (IF b.key = Keep THEN fs[e].key ELSE IF b.key = Clear THEN NoKey ELSE b.key) \in Key \cup {NoKey}
  BY <1>1, AskedFacts
<1> QED BY <1>2, <1>3 DEF Update, File

(* Bootstrapping fills the files that are missing and leaves the others. *)
LEMMA BootFacts ==
    ASSUME files \in [Engines -> File], NEW es, NEW old \in Bootstrapped(es)
    PROVE  /\ old \in [Engines -> File]
           /\ \A e \in Engines \ es : old[e] = files[e]
           /\ \A e \in Engines \cap es :
                 old[e].key # NoKey => old[e].key \in Key /\ old[e].key.saver = NoUser
<1>1. PICK example \in [es -> Old] :
          old = [e \in Engines |-> IF e \in es THEN example[e] ELSE files[e]]
  BY DEF Bootstrapped
<1>2. \A e \in es : /\ example[e] \in File
                    /\ example[e].key # NoKey =>
                          example[e].key \in Key /\ example[e].key.saver = NoUser
  <2> SUFFICES ASSUME NEW e \in es
               PROVE  /\ example[e] \in File
                      /\ example[e].key # NoKey =>
                            example[e].key \in Key /\ example[e].key.saver = NoUser
    OBVIOUS
  <2>1. example[e] \in Old
    OBVIOUS
  <2> QED BY <2>1 DEF Old, File, Key
<1> QED BY <1>1, <1>2

LEMMA BootNothing ==
    ASSUME files \in [Engines -> File], NEW old \in Bootstrapped({})
    PROVE  old = files
<1>1. old \in [Engines -> File] /\ \A e \in Engines : old[e] = files[e]
  BY BootFacts
<1> QED BY <1>1

LEMMA TornType ==
    ASSUME NEW old \in [Engines -> File], NEW new \in [Engines -> File]
    PROVE  Torn(old, new) \subseteq [Engines -> File]
<1>1. \A e \in Engines : Pieces(new[e]) \subseteq File
  <2> SUFFICES ASSUME NEW e \in Engines, NEW f \in Pieces(new[e]) PROVE f \in File
    OBVIOUS
  <2>1. new[e].key \in Key \cup {NoKey}
    BY DEF File
  <2> QED BY <2>1 DEF Pieces, File
<1>2. "js" \in Engines /\ "py" \in Engines
  BY DEF Engines
<1> QED BY <1>1, <1>2 DEF Torn

LEMMA TornByType ==
    ASSUME files \in [Engines -> File], NEW b \in Asked, NEW es
    PROVE  TornBy(b, es) \subseteq [Engines -> File]
<1> SUFFICES ASSUME NEW old \in Bootstrapped(es)
             PROVE  /\ old \in [Engines -> File]
                    /\ Torn(old, Updated(old, b)) \subseteq [Engines -> File]
  BY DEF TornBy
<1>1. old \in [Engines -> File]
  BY BootFacts
<1>2. Updated(old, b) \in [Engines -> File]
  BY <1>1, UpdateType
<1> QED BY <1>1, <1>2, TornType

LEMMA AllowedFacts ==
    ASSUME NEW r \in Request, r.user \in Users, NEW b \in Allowed(r)
    PROVE  /\ b \in Asked
           /\ b.key \in Key => b.key.saver = r.user
           /\ b.key \in Key \cup {Keep, Clear}
           /\ b.key = Clear => r.owns
<1>1. b \in Bodies(r.user) /\ ~Forbidden(r, b)
  BY DEF Allowed
<1>2. b \in Asked
  BY <1>1 DEF Asked
<1>3. b.key \in [saver: {r.user}, text: Texts] \cup {Keep, Clear}
  BY <1>1 DEF Bodies
<1>4. Keep \notin Key /\ Clear \notin Key
  BY LlmAssumption DEF Key
<1> QED BY <1>1, <1>2, <1>3, <1>4, AskedFacts DEF Forbidden

LEMMA SoiledFacts == Soiled \in {NoStamp, Stale}
BY DEF Soiled

LEMMA ClearStampFacts == ClearStamp => stamp' \in {NoStamp, Stale}
BY SoiledFacts DEF ClearStamp

-----------------------------------------------------------------------------
(* The requests after a step *)

LEMMA FreeType == Free \in Request
BY PrintType DEF Free, Request, Awaits, None, Tested

LEMMA BecomeFacts ==
    ASSUME reqs \in [Handlers -> Request], NEW h \in Handlers, NEW r \in Request, Become(h, r)
    PROVE  /\ reqs' \in [Handlers -> Request]
           /\ reqs'[h] = r
           /\ \A o \in Handlers \ {h} : reqs'[o] = reqs[o]
BY DEF Become

LEMMA MoveType ==
    ASSUME NEW r \in Request, NEW at \in Awaits
    PROVE  /\ [r EXCEPT !.at = at] \in Request
           /\ Written(r, at) \in Request
           /\ [r EXCEPT !.alone = FALSE] \in Request
BY DEF Request, Written

LEMMA WrittenFacts ==
    ASSUME NEW r \in Request, NEW at \in Awaits
    PROVE  /\ Written(r, at).at = at /\ Written(r, at).user = r.user
           /\ Written(r, at).alone = r.alone
BY DEF Request, Written

LEMMA AfterWriteFacts ==
    ASSUME NEW r \in Request, NEW b, NEW new
    PROVE  /\ AfterWrite(r, b, new) \in Request
           /\ \/ b.key \notin {Keep, Clear} /\ AfterWrite(r, b, new) = Written(r, "set_owner")
              \/ b.key = Clear /\ AfterWrite(r, b, new) = Written(r, "clear_owner")
              \/ /\ b.key = Keep /\ ~Configured(new)
                 /\ AfterWrite(r, b, new) = Written(r, "drop_owner")
              \/ b.key = Keep /\ Configured(new) /\ AfterWrite(r, b, new) = Free
BY FreeType, MoveType, LlmAssumption DEF AfterWrite, Awaits

LEMMA CrossedFacts ==
    ASSUME NEW r \in Request
    PROVE  /\ Crossed(r) \in Request
           /\ Crossed(r).at = r.at /\ Crossed(r).user = r.user /\ Crossed(r).owns = r.owns
           /\ Crossed(r).alone = r.alone
           /\ r.at \in {"probing"} \cup Unstarted => Crossed(r).clean = FALSE
           /\ r.at \notin {"probing"} \cup Unstarted => Crossed(r) = r
<1>1. None \in Tested
  BY DEF None, Tested
<1>2. [r EXCEPT !.clean = FALSE, !.fp = NoPrint, !.tested = None] \in Request
  BY <1>1, PrintType DEF Request
<1>3. CASE r.at \in {"probing"} \cup Unstarted
  <2>1. Crossed(r) = [r EXCEPT !.clean = FALSE, !.fp = NoPrint, !.tested = None]
    BY <1>3 DEF Crossed, Unstarted
  <2> QED BY <1>2, <1>3, <2>1 DEF Request
<1>4. CASE r.at \notin {"probing"} \cup Unstarted
  BY <1>4 DEF Crossed, Unstarted
<1> QED BY <1>3, <1>4

LEMMA BecomeWriterFacts ==
    ASSUME reqs \in [Handlers -> Request], NEW h \in Handlers, NEW r \in Request,
           BecomeWriter(h, r)
    PROVE  /\ reqs' \in [Handlers -> Request]
           /\ reqs'[h] = r
           /\ \A o \in Handlers \ {h} : reqs'[o] = Crossed(reqs[o])
BY CrossedFacts DEF BecomeWriter

Starting(u, at, clean, alone) ==
    [Free EXCEPT !.at = at, !.user = u, !.clean = clean, !.alone = alone]

LEMMA StartingFacts ==
    ASSUME NEW u \in Users, NEW at \in DOMAIN Answered, NEW clean \in BOOLEAN, NEW alone \in BOOLEAN
    PROVE  LET r == Starting(u, at, clean, alone) IN
           /\ r \in Request /\ r.at = at /\ r.user = u /\ r.owns = FALSE
           /\ r.clean = clean /\ r.alone = alone /\ r.tested = None
<1>1. at \in Awaits
  BY DEF Awaits
<1>2. Starting(u, at, clean, alone) \in Request
  BY <1>1, FreeType DEF Starting, Request
<1> QED BY <1>2, FreeFacts, FreeType DEF Starting, Request

NoWriter == \A o \in Handlers : ~Writing(o)

(* A request begins: a writer among others marks itself and them. *)
BeganReading(h, u, at) ==
    /\ at \in {"ask_check", "ask_gate"}
    /\ Become(h, Starting(u, at, at = "ask_check" \/ NoWriter, TRUE))
    /\ apart' = apart

BeganAlone(h, u, at) ==
    /\ at \in {"ask_put", "ask_delete"} /\ NoWriter
    /\ Become(h, Starting(u, at, TRUE, TRUE))
    /\ apart' = apart

BeganAmong(h, u, at) ==
    /\ at \in {"ask_put", "ask_delete"} /\ ~NoWriter
    /\ reqs' = [o \in Handlers |-> IF o = h THEN Starting(u, at, TRUE, FALSE)
                                   ELSE IF Writing(o) THEN [reqs[o] EXCEPT !.alone = FALSE]
                                   ELSE reqs[o]]
    /\ apart' = TRUE

LEMMA AskFacts ==
    /\ DOMAIN Answered = {"ask_put", "ask_check", "ask_gate", "ask_delete"}
    /\ \A at \in {"ask_check", "ask_gate"} : at \in Reading
    /\ \A at \in {"ask_put", "ask_delete"} : at \notin Reading
BY DEF Answered, Reading

LEMMA BeginCases ==
    ASSUME TypeOK, NEW h \in Handlers, NEW u \in Users, NEW at \in DOMAIN Answered, Begin(h, u, at)
    PROVE  BeganReading(h, u, at) \/ BeganAlone(h, u, at) \/ BeganAmong(h, u, at)
<1> DEFINE r      == [Free EXCEPT !.at = at, !.user = u]
           others == {o \in Handlers : Writing(o)}
<1>0. others = {} <=> NoWriter
  BY DEF NoWriter
<1>1. Free.clean = TRUE /\ Free.alone = TRUE
  BY FreeFacts
<1>2. \A b \in BOOLEAN : [r EXCEPT !.clean = b] = Starting(u, at, b, TRUE)
  BY <1>1 DEF Starting, Free
<1>3. \A b \in BOOLEAN : [r EXCEPT !.alone = b] = Starting(u, at, TRUE, b)
  BY <1>1 DEF Starting, Free
<1>4. CASE at \in Reading
  <2>1. at \in {"ask_check", "ask_gate"}
    BY <1>4, AskFacts
  <2>2. Become(h, [r EXCEPT !.clean = at = "ask_check" \/ others = {}]) /\ apart' = apart
    BY <1>4 DEF Begin
  <2>3. (at = "ask_check" \/ others = {}) \in BOOLEAN
    BY Zenon
  <2>4. Become(h, Starting(u, at, at = "ask_check" \/ others = {}, TRUE))
    BY <2>2, <2>3, <1>2
  <2>5. (at = "ask_check" \/ others = {}) = (at = "ask_check" \/ NoWriter)
    BY <1>0
  <2> QED BY <2>1, <2>2, <2>4, <2>5 DEF BeganReading
<1>5. CASE at \notin Reading
  <2>1. at \in {"ask_put", "ask_delete"}
    BY <1>5, AskFacts
  <2>2. /\ reqs' = [o \in Handlers |-> IF o = h THEN [r EXCEPT !.alone = others = {}]
                                       ELSE IF o \in others THEN [reqs[o] EXCEPT !.alone = FALSE]
                                       ELSE reqs[o]]
        /\ apart' = (apart \/ others # {})
    BY <1>5 DEF Begin
  <2>3. CASE NoWriter
    <3>1. (others = {}) = TRUE
      BY <2>3, <1>0
    <3>2. [r EXCEPT !.alone = others = {}] = Starting(u, at, TRUE, TRUE)
      BY <3>1, <1>3
    <3>3. reqs' = [o \in Handlers |-> IF o = h THEN Starting(u, at, TRUE, TRUE) ELSE reqs[o]]
      BY <2>2, <3>1, <3>2
    <3>4. Become(h, Starting(u, at, TRUE, TRUE))
      BY <3>3 DEF Become, TypeOK
    <3>5. apart' = apart
      BY <2>2, <3>1 DEF TypeOK
    <3> QED BY <2>1, <2>3, <3>4, <3>5 DEF BeganAlone
  <2>4. CASE ~NoWriter
    <3>1. (others = {}) = FALSE
      BY <2>4, <1>0
    <3>2. [r EXCEPT !.alone = others = {}] = Starting(u, at, TRUE, FALSE)
      BY <3>1, <1>3
    <3>3. apart' = TRUE
      BY <2>2, <3>1
    <3> QED BY <2>1, <2>2, <2>4, <3>2, <3>3 DEF BeganAmong
  <2> QED BY <2>3, <2>4
<1> QED BY <1>4, <1>5

LEMMA BeginType ==
    ASSUME TypeOK, NEW h \in Handlers, NEW u \in Users, NEW at \in DOMAIN Answered, Begin(h, u, at)
    PROVE  reqs' \in [Handlers -> Request] /\ apart' \in BOOLEAN /\ reqs'[h].user = u
           /\ \A o \in Handlers \ {h} : reqs'[o].user = reqs[o].user /\ reqs'[o].at = reqs[o].at
<1>0. reqs \in [Handlers -> Request] /\ apart \in BOOLEAN
  BY DEF TypeOK
<1>1. CASE BeganReading(h, u, at)
  <2>1. (at = "ask_check" \/ NoWriter) \in BOOLEAN
    BY Zenon
  <2>2. Starting(u, at, at = "ask_check" \/ NoWriter, TRUE) \in Request
        /\ Starting(u, at, at = "ask_check" \/ NoWriter, TRUE).user = u
    BY <2>1, StartingFacts
  <2> QED BY <1>0, <1>1, <2>2, BecomeFacts DEF BeganReading
<1>2. CASE BeganAlone(h, u, at)
  <2>1. Starting(u, at, TRUE, TRUE) \in Request /\ Starting(u, at, TRUE, TRUE).user = u
    BY StartingFacts
  <2> QED BY <1>0, <1>2, <2>1, BecomeFacts DEF BeganAlone
<1>3. CASE BeganAmong(h, u, at)
  <2>1. Starting(u, at, TRUE, FALSE) \in Request /\ Starting(u, at, TRUE, FALSE).user = u
    BY StartingFacts
  <2>2. \A o \in Handlers : /\ [reqs[o] EXCEPT !.alone = FALSE] \in Request
                            /\ [reqs[o] EXCEPT !.alone = FALSE].user = reqs[o].user
                            /\ [reqs[o] EXCEPT !.alone = FALSE].at = reqs[o].at
    BY <1>0 DEF Request
  <2> QED BY <1>0, <1>3, <2>1, <2>2 DEF BeganAmong
<1> QED BY <1>1, <1>2, <1>3, BeginCases

-----------------------------------------------------------------------------
(* The types *)

(* What a step that moves request h alone, or writes for it, may become. *)
NextOf(r, s) == s \in Request /\ (s = Free \/ (s.user = r.user /\ r.at # "free"))

Base == TypeOK /\ Named

LEMMA MovedType ==
    ASSUME Base, NEW h \in Handlers, NEW s, NextOf(reqs[h], s),
           Become(h, s) \/ BecomeWriter(h, s)
    PROVE  reqs' \in [Handlers -> Request] /\ Named'
<1>0. reqs \in [Handlers -> Request] /\ s \in Request
  BY DEF Base, TypeOK, NextOf
<1>1. reqs' \in [Handlers -> Request] /\ reqs'[h] = s
  BY <1>0, BecomeFacts, BecomeWriterFacts
<1>2. \A o \in Handlers \ {h} : reqs'[o].at = reqs[o].at /\ reqs'[o].user = reqs[o].user
  <2>1. CASE Become(h, s)
    BY <2>1, <1>0, BecomeFacts
  <2>2. CASE BecomeWriter(h, s)
    <3>1. \A o \in Handlers \ {h} : reqs'[o] = Crossed(reqs[o])
      BY <2>2, <1>0, BecomeWriterFacts
    <3> QED BY <1>0, <3>1, CrossedFacts
  <2> QED BY <2>1, <2>2
<1>3. s.at # "free" => s.user \in Users
  BY FreeFacts DEF NextOf, Base, Named
<1>4. Named'
  BY <1>1, <1>2, <1>3 DEF Base, Named
<1> QED BY <1>1, <1>4

LEMMA UsersFacts ==
    ASSUME account \in [Users -> {"unborn", "member", "gone"}], NEW u \in Users
    PROVE  /\ account' = [account EXCEPT ![u] = "member"] => users' = users \cup {u}
           /\ account' = [account EXCEPT ![u] = "gone"] => users' = users \ {u}
           /\ account' = account => users' = users
           /\ users \subseteq Users
BY DEF users

LEMMA UsersSame == ASSUME account' = account PROVE users' = users /\ users \subseteq Users
BY DEF users

(* A step of which nothing else is asked than that it moves request h. *)
Plain(h) ==
    /\ \E s : NextOf(reqs[h], s) /\ (Become(h, s) \/ BecomeWriter(h, s))
    /\ account' = account /\ server' = server
    /\ owner' \in {owner, NoUser} \cup (users \cap {reqs[h].user})
    /\ files' \in [Engines -> File]
    /\ missing' \subseteq Engines
    /\ stamp' \in Stamps \cup {NoStamp, Stale}
    /\ heir' \in Users \cup {NoUser}
    /\ apart' \in BOOLEAN

LEMMA PlainType == ASSUME Base, NEW h \in Handlers, Plain(h) PROVE Base'
<1>1. reqs' \in [Handlers -> Request] /\ Named'
  BY MovedType DEF Plain
<1>2. users' = users
  BY UsersSame DEF Plain
<1>3. owner' \in users' \cup {NoUser}
  BY <1>2 DEF Plain, Base, TypeOK
<1> QED BY <1>1, <1>3 DEF Plain, Base, TypeOK

LEMMA Moves ==
    ASSUME NEW r \in Request, NEW at \in Awaits, r.at # "free"
    PROVE  /\ NextOf(r, Free)
           /\ NextOf(r, [r EXCEPT !.at = at])
           /\ NextOf(r, Written(r, at))
           /\ \A owns \in BOOLEAN : NextOf(r, [r EXCEPT !.at = at, !.owns = owns])
<1>1. \A owns \in BOOLEAN : /\ [r EXCEPT !.at = at, !.owns = owns] \in Request
                            /\ [r EXCEPT !.at = at, !.owns = owns].user = r.user
  BY DEF Request
<1>2. [r EXCEPT !.at = at].user = r.user
  BY DEF Request
<1> QED BY <1>1, <1>2, FreeType, MoveType, WrittenFacts DEF NextOf

LEMMA WriteType ==
    ASSUME TypeOK, NEW h \in Handlers, NEW b \in Asked, NEW old \in Bootstrapped(missing), NEW r,
           WriteConfig(h, old, Updated(old, b), r)
    PROVE  /\ files' \in [Engines -> File] /\ missing' \subseteq Engines
           /\ stamp' \in Stamps \cup {NoStamp, Stale}
           /\ heir' \in Users \cup {NoUser}
<1>1. Updated(old, b) \in [Engines -> File]
  BY BootFacts, UpdateType DEF TypeOK
<1>2. stamp' \in Stamps \cup {NoStamp, Stale}
  BY ClearStampFacts DEF WriteConfig, TypeOK
<1> QED BY <1>1, <1>2 DEF WriteConfig, TypeOK

LEMMA TearType ==
    ASSUME Base, NEW h \in Handlers, Tear(h)
    PROVE  /\ files' \in [Engines -> File] /\ missing' \subseteq missing
           /\ stamp' \in {NoStamp, Stale} /\ apart' = TRUE
           /\ \A e \in missing' : files'[e] = files[e]
           /\ UNCHANGED <<account, owner, heir>>
<1>1. PICK es \in SUBSET missing :
          /\ missing' = missing \ es
          /\ \/ reqs[h].at = "put" /\ files' \in UNION {TornBy(b, es) : b \in Allowed(reqs[h])}
             \/ reqs[h].at = "delete" /\ reqs[h].owns /\ files' \in TornBy(ClearKey, es)
  BY DEF Tear
<1>2. PICK b \in Asked : files' \in TornBy(b, es)
  <2>1. CASE reqs[h].at = "put" /\ files' \in UNION {TornBy(b, es) : b \in Allowed(reqs[h])}
    <3>1. PICK b \in Allowed(reqs[h]) : files' \in TornBy(b, es)
      BY <2>1
    <3>2. b \in Asked
      BY <2>1, AllowedFacts DEF Base, TypeOK, Named
    <3> QED BY <3>1, <3>2
  <2>2. CASE reqs[h].at = "delete" /\ reqs[h].owns /\ files' \in TornBy(ClearKey, es)
    BY <2>2 DEF Asked
  <2> QED BY <1>1, <2>1, <2>2
<1>3. files' \in [Engines -> File]
  BY <1>2, TornByType DEF Base, TypeOK
<1>4. \A e \in missing' : files'[e] = files[e]
  <2>1. CASE es = missing
    BY <1>1, <2>1
  <2>2. CASE es # missing
    <3>1. files' \in Bootstrapped(es)
      BY <1>2, <2>2 DEF TornBy
    <3>2. \A e \in Engines \ es : files'[e] = files[e]
      BY <3>1, BootFacts DEF Base, TypeOK
    <3> QED BY <1>1, <3>2 DEF Base, TypeOK
  <2> QED BY <2>1, <2>2
<1> QED BY <1>1, <1>3, <1>4, SoiledFacts DEF Tear

LEMMA DieType ==
    ASSUME TypeOK, Die
    PROVE  reqs' \in [Handlers -> Request] /\ Named' /\ server' = "down"
           /\ \A h \in Handlers : reqs'[h] = Free
BY FreeType, FreeFacts DEF Die, Named

(* The new request of a check's steps *)
LEMMA CheckReadNext ==
    ASSUME Base, NEW h \in Handlers, CheckRead(h)
    PROVE  \E s \in Request : /\ NextOf(reqs[h], s) /\ Become(h, s)
                              /\ s = Free \/ /\ s.at = "probing" /\ s.tested = reqs[h].tested
                                             /\ s.clean => Whole /\ s.fp = Fingerprint(Merge(files))
<1>0. reqs[h] \in Request /\ reqs[h].at = "check" /\ files \in [Engines -> File]
  BY DEF Base, TypeOK, CheckRead
<1>1. CASE reqs[h].owns /\ Configured(files)
  <2>1. PICK todo \in SUBSET Engines \ {{}} :
            Become(h, IF Whole
                        THEN [Probing(reqs[h], todo) EXCEPT !.fp = Fingerprint(Merge(files))]
                        ELSE [Probing(reqs[h], todo) EXCEPT !.clean = FALSE])
    BY <1>1 DEF CheckRead, Whole
  <2>2. Probing(reqs[h], todo) \in Request
        /\ Probing(reqs[h], todo).at = "probing" /\ Probing(reqs[h], todo).user = reqs[h].user
        /\ Probing(reqs[h], todo).tested = reqs[h].tested
    BY <1>0 DEF Probing, Request, Awaits
  <2>3. Fingerprint(Merge(files)) \in Fingerprints
    BY <1>0, MergeType, FingerprintType
  <2> DEFINE p == Probing(reqs[h], todo)
             a == [p EXCEPT !.fp = Fingerprint(Merge(files))]
             b == [p EXCEPT !.clean = FALSE]
  <2>4. /\ a \in Request /\ a.at = "probing" /\ a.user = reqs[h].user
        /\ a.tested = reqs[h].tested /\ a.fp = Fingerprint(Merge(files))
    BY <2>2, <2>3 DEF Request
  <2>5. /\ b \in Request /\ b.at = "probing" /\ b.user = reqs[h].user
        /\ b.tested = reqs[h].tested /\ b.clean = FALSE
    BY <2>2 DEF Request
  <2> HIDE DEF p, a, b
  <2>6. CASE Whole
    <3>1. Become(h, a)
      BY <2>1, <2>6 DEF a, p
    <3> QED BY <1>0, <2>4, <2>6, <3>1 DEF NextOf
  <2>7. CASE ~Whole
    <3>1. Become(h, b)
      BY <2>1, <2>7 DEF b, p
    <3> QED BY <1>0, <2>5, <3>1 DEF NextOf
  <2> QED BY <2>6, <2>7
<1>2. CASE ~(reqs[h].owns /\ Configured(files))
  BY <1>0, <1>2, FreeType DEF CheckRead, NextOf
<1> QED BY <1>1, <1>2

LEMMA ProbeNext ==
    ASSUME Base, NEW h \in Handlers, NEW ok \in BOOLEAN, Probe(h, ok)
    PROVE  \E s \in Request : /\ NextOf(reqs[h], s) /\ Become(h, s) /\ s.at = "probing"
                              /\ s.clean = reqs[h].clean /\ s.fp = reqs[h].fp
                              /\ s.tested = None \/ \E e \in Engines :
                                     s.tested = [reqs[h].tested EXCEPT ![e] = files[e]]
<1>0. reqs[h] \in Request /\ reqs[h].at = "probing" /\ files \in [Engines -> File]
  BY DEF Base, TypeOK, Probe
<1> DEFINE e == NextProbe(reqs[h])
<1>1. e \in Engines /\ files[e] \in File \cup {Untested}
  BY <1>0 DEF NextProbe, Engines
<1>2. reqs[h].tested \in Tested /\ None \in Tested
  BY <1>0 DEF Request, None, Tested
<1> DEFINE tested == IF ok /\ reqs[h].ok /\ reqs[h].clean
                       THEN [reqs[h].tested EXCEPT ![e] = files[e]] ELSE None
<1>3. tested \in Tested
  BY <1>1, <1>2 DEF Tested
<1> DEFINE s == [reqs[h] EXCEPT !.todo = @ \ {e}, !.ok = @ /\ ok, !.tested = tested]
<1>4. tested = None \/ tested = [reqs[h].tested EXCEPT ![e] = files[e]]
  OBVIOUS
<1>5. Become(h, s)
  BY DEF Probe
<1>6. reqs[h].todo \ {e} \in SUBSET Engines
  BY <1>0 DEF Request
<1>7. (reqs[h].ok /\ ok) \in BOOLEAN
  BY Zenon
<1>8. /\ s \in Request /\ s.at = "probing" /\ s.user = reqs[h].user /\ s.tested = tested
      /\ s.clean = reqs[h].clean /\ s.fp = reqs[h].fp
  <2> HIDE DEF tested, e
  <2> QED BY <1>0, <1>3, <1>6, <1>7 DEF Request
<1> HIDE DEF s, tested
<1> QED BY <1>0, <1>1, <1>4, <1>5, <1>8 DEF NextOf

LEMMA StampType ==
    ASSUME Base, NEW h \in Handlers, reqs[h].at # "free"
    PROVE  StampOf(reqs[h]) \in Stamps
BY DEF Base, TypeOK, Named, Request, StampOf, Stamps

LEMMA BaseKept == ASSUME Base, [Next]_llmVars PROVE Base'
<1>0. /\ reqs \in [Handlers -> Request] /\ files \in [Engines -> File] /\ missing \subseteq Engines
      /\ stamp \in Stamps \cup {NoStamp, Stale} /\ heir \in Users \cup {NoUser}
      /\ apart \in BOOLEAN /\ owner \in users \cup {NoUser} /\ users \subseteq Users
      /\ account \in [Users -> {"unborn", "member", "gone"}]
  BY DEF Base, TypeOK, users
<1>1. ASSUME NEW h \in Handlers, NEW u \in Users, NEW at \in DOMAIN Answered, Begin(h, u, at)
      PROVE  Base'
  <2>1. reqs' \in [Handlers -> Request] /\ apart' \in BOOLEAN /\ Named'
    BY <1>0, <1>1, BeginType DEF Base, Named
  <2>2. users' = users
    BY <1>1, UsersSame DEF Begin
  <2> QED BY <1>0, <1>1, <2>1, <2>2 DEF Begin, Base, TypeOK
<1>2. ASSUME NEW h \in Handlers,
             ReadOwner(h) \/ QuestionFails(h) \/ PutForbidden(h) \/ SetOwner(h) \/ ClearOwner(h)
                \/ OwnerFails(h) \/ PutClear(h) \/ ProbeRaises(h) \/ CheckEnd(h) \/ Gate(h)
                \/ BackendReads(h) \/ DeleteClear(h)
      PROVE  Base'
  <2>0. reqs[h] \in Request /\ reqs[h].at # "free"
    BY <1>0, <1>2
       DEF ReadOwner, QuestionFails, PutForbidden, SetOwner, ClearOwner, OwnerFails, PutClear,
           ProbeRaises, CheckEnd, Gate, BackendReads, DeleteClear, Answered, NextAwait
  <2>1. \E s : NextOf(reqs[h], s) /\ Become(h, s)
    <3>1. CASE ReadOwner(h)
      <4>1. Answered[reqs[h].at] \in Awaits
        BY <3>1 DEF ReadOwner, Answered, Awaits
      <4>2. (owner = reqs[h].user) \in BOOLEAN
        BY Zenon
      <4>3. Become(h, [reqs[h] EXCEPT !.at = Answered[reqs[h].at], !.owns = owner = reqs[h].user])
        BY <3>1 DEF ReadOwner
      <4> QED BY <2>0, <4>1, <4>2, <4>3, Moves
    <3>2. CASE SetOwner(h) \/ DeleteClear(h)
      <4>1. "put_clear" \in Awaits /\ "del_user" \in Awaits
        BY DEF Awaits
      <4> QED BY <2>0, <3>2, <4>1, Moves DEF SetOwner, DeleteClear, MoveTo
    <3>3. CASE ClearOwner(h)
      <4>1. NextAwait[reqs[h].at] \in Awaits
        BY <3>3 DEF ClearOwner, NextAwait, Awaits
      <4> QED BY <2>0, <3>3, <4>1, Moves DEF ClearOwner, MoveTo
    <3>4. CASE Gate(h)
      <4>1. "queued" \in Awaits
        BY DEF Awaits
      <4> QED BY <2>0, <3>4, <4>1, Moves DEF Gate
    <3>5. CASE QuestionFails(h) \/ PutForbidden(h) \/ OwnerFails(h) \/ PutClear(h)
                  \/ ProbeRaises(h) \/ CheckEnd(h) \/ BackendReads(h)
      <4>1. Become(h, Free)
        BY <3>5 DEF QuestionFails, PutForbidden, OwnerFails, PutClear, ProbeRaises, CheckEnd,
                    BackendReads
      <4>2. NextOf(reqs[h], Free)
        BY FreeType DEF NextOf
      <4> QED BY <4>1, <4>2
    <3> QED BY <1>2, <3>1, <3>2, <3>3, <3>4, <3>5
  <2>2. /\ account' = account /\ server' = server /\ files' = files /\ missing' = missing
        /\ heir' = heir
    BY <1>2 DEF ReadOwner, QuestionFails, PutForbidden, SetOwner, ClearOwner, OwnerFails, PutClear,
                ProbeRaises, CheckEnd, Gate, BackendReads, DeleteClear
  <2>3. owner' \in {owner, NoUser} \cup (users \cap {reqs[h].user})
    <3>1. OwnerWithout(reqs[h].user) \in {owner, NoUser}
      BY DEF OwnerWithout
    <3> QED BY <1>2, <3>1
          DEF ReadOwner, QuestionFails, PutForbidden, SetOwner, ClearOwner, OwnerFails, PutClear,
              ProbeRaises, CheckEnd, Gate, BackendReads, DeleteClear
  <2>4. stamp' \in Stamps \cup {NoStamp, Stale}
    <3>1. StampOf(reqs[h]) \in Stamps
      BY <2>0, StampType
    <3> QED BY <1>0, <1>2, <3>1, SoiledFacts, ClearStampFacts
          DEF ReadOwner, QuestionFails, PutForbidden, SetOwner, ClearOwner, OwnerFails, PutClear,
              ProbeRaises, CheckEnd, Gate, BackendReads, DeleteClear
  <2>5. apart' \in BOOLEAN
    <3>1. CASE PutClear(h)
      <4>1. apart' = (apart /\ ~reqs[h].alone)
        BY <3>1 DEF PutClear
      <4> QED BY <4>1, Zenon
    <3>2. CASE ~PutClear(h)
      BY <1>0, <1>2, <3>2
         DEF ReadOwner, QuestionFails, PutForbidden, SetOwner, ClearOwner, OwnerFails,
             ProbeRaises, CheckEnd, Gate, BackendReads, DeleteClear
    <3> QED BY <3>1, <3>2
  <2> QED BY <1>0, <2>1, <2>2, <2>3, <2>4, <2>5, PlainType DEF Plain
<1>3. ASSUME NEW h \in Handlers, CheckRead(h) PROVE Base'
  <2>1. Plain(h)
    BY <1>0, <1>3, CheckReadNext DEF CheckRead, Plain
  <2> QED BY <2>1, PlainType
<1>4. ASSUME NEW h \in Handlers, NEW ok \in BOOLEAN, Probe(h, ok) PROVE Base'
  <2>1. Plain(h)
    BY <1>0, <1>4, ProbeNext DEF Probe, Plain
  <2> QED BY <2>1, PlainType
<1>5. ASSUME NEW h \in Handlers, PutWrite(h) PROVE Base'
  <2>0. reqs[h] \in Request /\ reqs[h].at = "put" /\ reqs[h].user \in Users
    BY <1>0, <1>5 DEF PutWrite, Base, Named
  <2>1. PICK b \in Allowed(reqs[h]), old \in Bootstrapped(missing) :
            WriteConfig(h, old, Updated(old, b), AfterWrite(reqs[h], b, Updated(old, b)))
    BY <1>5 DEF PutWrite
  <2>2. b \in Asked
    BY <2>0, AllowedFacts
  <2>3. NextOf(reqs[h], AfterWrite(reqs[h], b, Updated(old, b)))
    <3>1. "set_owner" \in Awaits /\ "clear_owner" \in Awaits /\ "drop_owner" \in Awaits
      BY DEF Awaits
    <3> QED BY <2>0, <3>1, AfterWriteFacts, Moves
  <2>4. BecomeWriter(h, AfterWrite(reqs[h], b, Updated(old, b)))
    BY <2>1 DEF WriteConfig
  <2>5. Plain(h)
    BY <1>0, <1>5, <2>1, <2>2, <2>3, <2>4, WriteType DEF PutWrite, Plain, Base
  <2> QED BY <2>5, PlainType
<1>6. ASSUME NEW h \in Handlers, DeleteKey(h) PROVE Base'
  <2>0. reqs[h] \in Request /\ reqs[h].at = "delete"
    BY <1>0, <1>6 DEF DeleteKey
  <2>1. CASE reqs[h].owns
    <3>1. PICK old \in Bootstrapped(missing) :
             WriteConfig(h, old, Updated(old, ClearKey), Written(reqs[h], "del_owner"))
      BY <1>6, <2>1 DEF DeleteKey
    <3>2. NextOf(reqs[h], Written(reqs[h], "del_owner"))
      BY <2>0, Moves DEF Awaits
    <3>3. BecomeWriter(h, Written(reqs[h], "del_owner")) /\ ClearKey \in Asked
      BY <3>1 DEF WriteConfig, Asked
    <3>4. Plain(h)
      BY <1>0, <1>6, <3>1, <3>2, <3>3, WriteType DEF DeleteKey, Plain, Base
    <3> QED BY <3>4, PlainType
  <2>2. CASE ~reqs[h].owns
    <3>1. NextOf(reqs[h], [reqs[h] EXCEPT !.at = "del_user"])
      BY <2>0, Moves DEF Awaits
    <3>2. Plain(h)
      BY <1>0, <1>6, <2>2, <3>1 DEF DeleteKey, MoveTo, Plain
    <3> QED BY <3>2, PlainType
  <2> QED BY <2>1, <2>2
<1>7. ASSUME NEW h \in Handlers, DeleteUser(h) PROVE Base'
  <2>0. reqs[h] \in Request /\ reqs[h].user \in Users /\ NextOf(reqs[h], Free) /\ Become(h, Free)
    BY <1>0, <1>7, FreeType DEF DeleteUser, Base, Named, NextOf
  <2>1. reqs' \in [Handlers -> Request] /\ Named'
    BY <2>0, MovedType
  <2>2. users' = users \ {reqs[h].user}
    BY <1>0, <1>7, <2>0, UsersFacts DEF DeleteUser
  <2>3. owner' \in users' \cup {NoUser}
    BY <1>0, <1>7, <2>2 DEF DeleteUser, OwnerWithout
  <2>4. account' \in [Users -> {"unborn", "member", "gone"}]
    BY <1>0, <1>7, <2>0 DEF DeleteUser
  <2> QED BY <1>0, <1>7, <2>1, <2>3, <2>4 DEF DeleteUser, Base, TypeOK
<1>8. ASSUME NEW h \in Handlers, WriteFails(h) PROVE Base'
  <2>1. NextOf(reqs[h], Free) /\ BecomeWriter(h, Free) /\ server' = server
    BY <1>8, FreeType DEF WriteFails, NextOf
  <2>2. Tear(h)
    BY <1>8 DEF WriteFails
  <2>3. Plain(h)
    BY <1>0, <2>1, <2>2, TearType DEF Plain
  <2> QED BY <2>3, PlainType
<1>9. ASSUME NEW h \in Handlers, CrashInWrite(h) PROVE Base'
  <2>1. Tear(h) /\ Die
    BY <1>9 DEF CrashInWrite
  <2>2. users' = users
    BY <2>1, TearType, UsersSame
  <2>3. reqs' \in [Handlers -> Request] /\ Named' /\ server' = "down"
    BY <2>1, DieType DEF Base
  <2>4. /\ files' \in [Engines -> File] /\ missing' \subseteq missing
        /\ stamp' \in {NoStamp, Stale} /\ apart' = TRUE
        /\ UNCHANGED <<account, owner, heir>>
    BY <2>1, TearType
  <2> QED BY <1>0, <2>2, <2>3, <2>4 DEF Base, TypeOK
<1>10. ASSUME NEW u \in Users, Signup(u) PROVE Base'
  <2>1. users' = users \cup {u}
    BY <1>0, <1>10, UsersFacts DEF Signup
  <2>2. account' \in [Users -> {"unborn", "member", "gone"}]
    BY <1>0, <1>10 DEF Signup
  <2> QED BY <1>0, <1>10, <2>1, <2>2 DEF Signup, Base, TypeOK, Named
<1>11. CASE Crash
  <2>1. reqs' \in [Handlers -> Request] /\ Named' /\ server' = "down"
    BY <1>11, DieType DEF Crash, Base
  <2>2. users' = users
    BY <1>11, UsersSame DEF Crash
  <2>3. stamp' \in Stamps \cup {NoStamp, Stale} /\ apart' \in BOOLEAN
    BY <1>0, <1>11, SoiledFacts DEF Crash
  <2> QED BY <1>0, <1>11, <2>1, <2>2, <2>3 DEF Crash, Base, TypeOK
<1>12. CASE StartAdopt
  <2>1. users' = users
    BY <1>12, UsersSame DEF StartAdopt
  <2>2. owner' \in users \cup {NoUser} /\ heir' \in Users \cup {NoUser}
    BY <1>0, <1>12 DEF StartAdopt
  <2> QED BY <1>0, <1>12, <2>1, <2>2 DEF StartAdopt, Base, TypeOK, Named
<1>13. CASE StartClear
  <2>1. users' = users /\ stamp' \in {NoStamp, Stale}
    BY <1>13, UsersSame, ClearStampFacts DEF StartClear
  <2> QED BY <1>0, <1>13, <2>1 DEF StartClear, Base, TypeOK, Named
<1>14. CASE UNCHANGED llmVars
  <2>1. users' = users
    BY <1>14, UsersSame DEF llmVars
  <2> QED BY <1>14, <2>1 DEF llmVars, Base, TypeOK, Named
<1> QED
  BY <1>1, <1>2, <1>3, <1>4, <1>5, <1>6, <1>7, <1>8, <1>9, <1>10, <1>11, <1>12, <1>13, <1>14
     DEF Next, Serve

-----------------------------------------------------------------------------
(* The writers *)

Frame(o) ==
    /\ reqs'[o].at = reqs[o].at /\ reqs'[o].user = reqs[o].user
    /\ reqs'[o].owns = reqs[o].owns /\ reqs'[o].alone = reqs[o].alone

Others(h) == \A o \in Handlers \ {h} : Frame(o)

LEMMA FrameFacts ==
    ASSUME Base, NEW h \in Handlers, NEW s \in Request, Become(h, s) \/ BecomeWriter(h, s)
    PROVE  Others(h) /\ reqs'[h] = s
<1>0. reqs \in [Handlers -> Request]
  BY DEF Base, TypeOK
<1>1. CASE Become(h, s)
  BY <1>0, <1>1, BecomeFacts DEF Others, Frame
<1>2. CASE BecomeWriter(h, s)
  <2>1. reqs'[h] = s /\ \A o \in Handlers \ {h} : reqs'[o] = Crossed(reqs[o])
    BY <1>0, <1>2, BecomeWriterFacts
  <2> QED BY <1>0, <2>1, CrossedFacts DEF Others, Frame
<1> QED BY <1>1, <1>2

Writers == Lone /\ LeftOK /\ RestOK

(* A request that does not write moves: nothing of this concerns it. *)
LEMMA QuietStep ==
    ASSUME Writers, NEW h \in Handlers, ~Writing(h), reqs'[h].at \in Reading, Others(h),
           UNCHANGED <<account, owner, files, missing, heir, apart>>
    PROVE  Writers'
<1>1. \A o \in Handlers : Writing(o)' <=> Writing(o)
  BY DEF Writing, Frame, Others
<1>2. \A o \in Handlers : Writing(o) => o # h /\ Frame(o)
  BY DEF Others
<1>3. Peace' = Peace /\ Good' = Good /\ Keyless' = Keyless /\ users' = users
  BY DEF Peace, Good, Keyless, Holder, users
<1>4. Lone'
  BY <1>1, <1>2, <1>3 DEF Lone, Writers, Frame
<1>5. LeftOK'
  <2> SUFFICES ASSUME NEW o \in Handlers, Writing(o)', reqs'[o].alone PROVE Left(reqs[o])'
    BY DEF LeftOK
  <2>1. Frame(o) /\ Left(reqs[o])
    BY <1>1, <1>2 DEF Writers, LeftOK, Frame
  <2> QED BY <1>3, <2>1 DEF Left, Frame
<1>6. RestOK'
  BY <1>1, <1>3 DEF Writers, RestOK
<1> QED BY <1>4, <1>5, <1>6 DEF Writers

(* A writer moves.  If it is not alone, nothing is claimed until somebody    *)
(* heals; if it is, there is no other whose picture it could spoil.          *)
LEMMA WriterStep ==
    ASSUME Writers, NEW h \in Handlers, Writing(h), Others(h),
           Writing(h)' => reqs'[h].alone = reqs[h].alone,
           apart /\ ~apart' => reqs[h].alone /\ ~Writing(h)',
           reqs[h].alone /\ Writing(h)' => Left(reqs[h])',
           reqs[h].alone /\ ~Writing(h)' /\ Peace' => Good'
    PROVE  Writers'
<1>1. \A o \in Handlers \ {h} : (Writing(o)' <=> Writing(o)) /\ reqs'[o].alone = reqs[o].alone
  BY DEF Writing, Frame, Others
<1>2. \A o \in Handlers \ {h} : Writing(o) => ~reqs[o].alone /\ ~reqs[h].alone
  BY DEF Writers, Lone
<1>3. ~reqs[h].alone => ~Peace /\ ~Peace'
  BY DEF Writers, Lone, Peace
<1>4. Lone'
  BY <1>1, <1>2, <1>3 DEF Lone, Writers
<1>5. LeftOK'
  BY <1>1, <1>2 DEF LeftOK
<1>6. RestOK'
  BY <1>3 DEF RestOK
<1> QED BY <1>4, <1>5, <1>6 DEF Writers

(* What the files say after a save that left the key alone: bootstrapped     *)
(* keys are held by nobody or by the heir, whom the row names.               *)
LEMMA KeptKey ==
    ASSUME files \in [Engines -> File], missing \subseteq Engines, Blanks, Good, NEW b, b.key = Keep,
           NEW old \in Bootstrapped(missing), files' = Updated(old, b), missing' = {},
           heir' = (IF Adopted(Updated(old, b)) THEN heir ELSE NoUser), owner' = owner
    PROVE  Good'
<1> DEFINE new == Updated(old, b)
<1>1. \A e \in Engines : new[e].key = old[e].key
  BY DEF Updated, Update
<1>2. /\ \A e \in Engines \ missing : old[e] = files[e]
      /\ \A e \in Engines \cap missing : old[e].key # NoKey => old[e].key.saver = NoUser
  BY BootFacts
<1>3. \A e \in Engines : new[e].key # NoKey => Holder(new[e].key)' = owner
  <2> SUFFICES ASSUME NEW e \in Engines, new[e].key # NoKey PROVE Holder(new[e].key)' = owner
    OBVIOUS
  <2>1. new[e].key.saver = NoUser => heir' = heir
    BY DEF Adopted
  <2>2. CASE e \in missing
    <3>1. new[e].key.saver = NoUser
      BY <1>1, <1>2, <2>2
    <3>2. heir = owner
      BY <2>2 DEF Good
    <3> QED BY <2>1, <3>1, <3>2 DEF Holder
  <2>3. CASE e \notin missing
    <3>1. Holder(new[e].key) = owner
      BY <1>1, <1>2, <2>3 DEF Good
    <3> QED BY <2>1, <3>1 DEF Holder
  <2> QED BY <2>2, <2>3
<1>4. Keyless' => owner = NoUser
  <2>1. ASSUME Keyless' PROVE Keyless
    <3> SUFFICES ASSUME NEW e \in Engines PROVE files[e].key = NoKey
      BY DEF Keyless
    <3>1. new[e].key = NoKey
      BY <2>1 DEF Keyless
    <3>2. CASE e \in missing
      BY <3>2, BlankType DEF Blanks
    <3>3. CASE e \notin missing
      BY <1>1, <1>2, <3>1, <3>3
    <3> QED BY <3>2, <3>3
  <2> QED BY <2>1 DEF Good
<1> QED BY <1>3, <1>4 DEF Good, Keyless

(* After a save that set a key, or cleared it. *)
LEMMA SetKey ==
    ASSUME NEW b, b.key \in Key, NEW old, files' = Updated(old, b)
    PROVE  \A e \in Engines : files'[e].key # NoKey /\ files'[e].key.saver = b.key.saver
<1>1. \A e \in Engines : Keep \notin Key /\ Clear \notin Key /\ NoKey \notin Key
  BY LlmAssumption DEF Key
<1> QED BY <1>1 DEF Updated, Update

LEMMA ClearedKey ==
    ASSUME NEW b, b.key = Clear, NEW old, files' = Updated(old, b)
    PROVE  Keyless'
BY LlmAssumption DEF Updated, Update, Keyless

LEMMA GoodSame ==
    ASSUME UNCHANGED <<files, missing, heir, owner>>
    PROVE  Good' = Good /\ Keyless' = Keyless
BY DEF Good, Keyless, Holder

LEMMA WritingFacts ==
    ASSUME NEW h \in Handlers
    PROVE  /\ reqs[h].at \in {"ask_put", "ask_delete", "put", "set_owner", "clear_owner", "put_clear",
                              "drop_owner", "delete", "del_owner", "del_stamp", "del_user"} => Writing(h)
           /\ reqs[h].at \in {"free", "ask_check", "check", "probing", "ask_gate", "gate", "queued"}
                 => ~Writing(h)
           /\ reqs[h] = Free => ~Writing(h)
BY FreeFacts DEF Writing, Reading

Tidy == Idle /\ Blanks

(* A server that is down serves nobody, and a missing file says nothing. *)
LEMMA TidyKept == ASSUME Base, Tidy, [Next]_llmVars PROVE Tidy'
<1>0. /\ reqs \in [Handlers -> Request] /\ files \in [Engines -> File] /\ missing \subseteq Engines
  BY DEF Base, TypeOK
<1>1. ASSUME NEW h \in Handlers, CrashInWrite(h) PROVE Tidy'
  <2>1. \A o \in Handlers : reqs'[o] = Free
    BY <1>1, DieType DEF CrashInWrite, Base
  <2>2. missing' \subseteq missing /\ \A e \in missing' : files'[e] = files[e]
    BY <1>1, TearType DEF CrashInWrite
  <2> QED BY <2>1, <2>2 DEF Tidy, Idle, Blanks
<1>2. CASE Crash
  <2>1. \A o \in Handlers : reqs'[o] = Free
    BY <1>2, DieType DEF Crash, Base
  <2> QED BY <1>2, <2>1 DEF Crash, Tidy, Idle, Blanks
<1>3. CASE StartAdopt \/ StartClear \/ UNCHANGED llmVars
  <2>1. server' # "up" => server # "up"
    BY <1>3 DEF StartAdopt, StartClear, llmVars
  <2> QED BY <1>3, <2>1 DEF StartAdopt, StartClear, llmVars, Tidy, Idle, Blanks
<1>4. ASSUME NEW u \in Users, Signup(u) PROVE Tidy'
  BY <1>4 DEF Signup, Tidy, Idle, Blanks
<1>5. ASSUME NEW h \in Handlers, Serve(h), ~CrashInWrite(h) PROVE Tidy'
  <2>1. server = "up"
    <3>1. CASE \E u \in Users, at \in DOMAIN Answered : Begin(h, u, at)
      BY <3>1 DEF Begin
    <3>2. CASE ~\E u \in Users, at \in DOMAIN Answered : Begin(h, u, at)
      <4>1. reqs[h].at # "free"
        BY <1>5, <3>2
           DEF Serve, ReadOwner, QuestionFails, PutForbidden, PutWrite, SetOwner, ClearOwner,
               OwnerFails, PutClear, CheckRead, Probe, ProbeRaises, CheckEnd, Gate, BackendReads,
               DeleteKey, DeleteClear, DeleteUser, WriteFails, Tear, Answered, NextAwait
      <4> QED BY <4>1, FreeFacts DEF Tidy, Idle
    <3> QED BY <3>1, <3>2
  <2>2. server' = "up"
    BY <1>5, <2>1
       DEF Serve, Begin, ReadOwner, QuestionFails, PutForbidden, PutWrite, SetOwner, ClearOwner,
           OwnerFails, PutClear, CheckRead, Probe, ProbeRaises, CheckEnd, Gate, BackendReads,
           DeleteKey, DeleteClear, DeleteUser, WriteFails
  <2>3. missing' = {} \/ (missing' \subseteq missing /\ \A e \in missing' : files'[e] = files[e])
    <3>1. CASE WriteFails(h)
      BY <3>1, TearType DEF WriteFails
    <3>2. CASE ~WriteFails(h)
      <4>1. missing' = {} \/ UNCHANGED <<missing, files>>
        BY <1>5, <3>2
           DEF Serve, Begin, ReadOwner, QuestionFails, PutForbidden, PutWrite, SetOwner,
               ClearOwner, OwnerFails, PutClear, CheckRead, Probe, ProbeRaises, CheckEnd, Gate,
               BackendReads, DeleteKey, DeleteClear, DeleteUser, WriteConfig
      <4> QED BY <4>1
    <3> QED BY <3>1, <3>2
  <2> QED BY <2>2, <2>3 DEF Tidy, Idle, Blanks
<1> QED BY <1>1, <1>2, <1>3, <1>4, <1>5 DEF Next

(* One lemma for each kind of step. *)
LEMMA BeginWriters ==
    ASSUME Base, Tidy, Writers, NEW h \in Handlers, NEW u \in Users, NEW at \in DOMAIN Answered,
           Begin(h, u, at)
    PROVE  Writers'
<1>0. /\ reqs \in [Handlers -> Request] /\ ~Writing(h) /\ u \in users
      /\ UNCHANGED <<account, owner, files, missing, heir>>
  BY WritingFacts DEF Base, TypeOK, Begin
<1>1. CASE BeganReading(h, u, at)
  <2> DEFINE s == Starting(u, at, at = "ask_check" \/ NoWriter, TRUE)
  <2>1. (at = "ask_check" \/ NoWriter) \in BOOLEAN
    BY Zenon
  <2>2. s \in Request /\ s.at = at
    BY <2>1, StartingFacts
  <2>3. Become(h, s)
    BY <1>1 DEF BeganReading
  <2> HIDE DEF s
  <2>4. Others(h) /\ reqs'[h] = s
    BY <2>2, <2>3, FrameFacts
  <2>5. reqs'[h].at \in Reading
    BY <1>1, <2>2, <2>4, AskFacts DEF BeganReading
  <2> QED BY <1>0, <1>1, <2>4, <2>5, QuietStep DEF BeganReading
<1>2. CASE BeganAlone(h, u, at)
  <2> DEFINE s == Starting(u, at, TRUE, TRUE)
  <2>1. s \in Request /\ s.at = at /\ s.user = u /\ s.alone = TRUE
    BY StartingFacts
  <2>2. Become(h, s)
    BY <1>2 DEF BeganAlone
  <2> HIDE DEF s
  <2>3. Others(h) /\ reqs'[h] = s
    BY <2>1, <2>2, FrameFacts
  <2>4. \A o \in Handlers \ {h} : ~Writing(o)'
    BY <1>2, <2>3 DEF BeganAlone, NoWriter, Writing, Others, Frame
  <2>5. Peace' = Peace /\ Good' = Good /\ users' = users
    BY <1>0, <1>2, GoodSame, UsersSame DEF BeganAlone, Peace
  <2>6. Peace => Good
    BY <1>2 DEF BeganAlone, NoWriter, Writers, RestOK
  <2>7. Left(reqs[h])'
    BY <1>0, <1>2, <2>1, <2>3, <2>5, <2>6 DEF BeganAlone, Left, Unwritten
  <2>8. Writing(h)'
    BY <1>2, <2>1, <2>3, AskFacts DEF BeganAlone, Writing
  <2>9. reqs'[h].alone
    BY <2>1, <2>3
  <2>10. Lone' /\ LeftOK' /\ RestOK'
    BY <2>4, <2>7, <2>8, <2>9 DEF Lone, LeftOK, RestOK
  <2> QED BY <2>10 DEF Writers
<1>3. CASE BeganAmong(h, u, at)
  <2>1. Starting(u, at, TRUE, FALSE).alone = FALSE /\ Starting(u, at, TRUE, FALSE).at = at
    BY StartingFacts
  <2>2. \A o \in Handlers \ {h} : reqs'[o] = IF Writing(o) THEN [reqs[o] EXCEPT !.alone = FALSE]
                                             ELSE reqs[o]
    BY <1>3 DEF BeganAmong
  <2>3. \A o \in Handlers : [reqs[o] EXCEPT !.alone = FALSE].alone = FALSE
                            /\ [reqs[o] EXCEPT !.alone = FALSE].at = reqs[o].at
    BY <1>0 DEF Request
  <2>4. \A o \in Handlers \ {h} : Writing(o)' => reqs'[o].alone = FALSE
    BY <2>2, <2>3 DEF Writing
  <2>5. reqs'[h].alone = FALSE
    BY <1>3, <2>1 DEF BeganAmong
  <2>6. ~Peace'
    BY <1>3 DEF BeganAmong, Peace
  <2>7. \A o \in Handlers : Writing(o)' => reqs'[o].alone = FALSE
    BY <2>4, <2>5
  <2>8. Lone' /\ LeftOK' /\ RestOK'
    BY <2>6, <2>7 DEF Lone, LeftOK, RestOK
  <2> QED BY <2>8 DEF Writers
<1> QED BY <1>1, <1>2, <1>3, BeginCases DEF Base

LEMMA QuietWriters ==
    ASSUME Base, Writers, NEW h \in Handlers, ~Writing(h),
           \/ ReadOwner(h) \/ QuestionFails(h) \/ CheckRead(h) \/ Probe(h, TRUE) \/ Probe(h, FALSE)
           \/ ProbeRaises(h) \/ CheckEnd(h) \/ Gate(h) \/ BackendReads(h)
    PROVE  Writers'
<1>0. reqs[h] \in Request /\ reqs[h].at \in Reading
  BY DEF Base, TypeOK, Writing
<1>1. PICK s \in Request : Become(h, s) /\ s.at \in Reading
  <2>0. "free" \in Reading /\ "probing" \in Reading /\ "check" \in Reading /\ "gate" \in Reading
        /\ "queued" \in Reading
    BY DEF Reading
  <2>1. CASE ReadOwner(h)
    <3> DEFINE s == [reqs[h] EXCEPT !.at = Answered[reqs[h].at], !.owns = owner = reqs[h].user]
    <3>1. reqs[h].at \in {"ask_check", "ask_gate"}
      BY <1>0, <2>1, AskFacts DEF ReadOwner
    <3>2. Answered[reqs[h].at] \in {"check", "gate"}
      BY <3>1 DEF Answered
    <3>3. (owner = reqs[h].user) \in BOOLEAN
      BY Zenon
    <3>4. s \in Request /\ s.at \in Reading
      BY <1>0, <2>0, <3>2, <3>3 DEF Request, Awaits
    <3>5. Become(h, s)
      BY <2>1 DEF ReadOwner
    <3> QED BY <3>4, <3>5
  <2>2. CASE CheckRead(h)
    <3>1. PICK s \in Request : Become(h, s) /\ (s = Free \/ s.at = "probing")
      BY <2>2, CheckReadNext
    <3> QED BY <2>0, <3>1, FreeFacts
  <2>3. CASE Probe(h, TRUE) \/ Probe(h, FALSE)
    <3>1. PICK s \in Request : Become(h, s) /\ s.at = "probing"
      BY <2>3, ProbeNext
    <3> QED BY <2>0, <3>1
  <2>4. CASE Gate(h)
    <3>1. [reqs[h] EXCEPT !.at = "queued", !.owns = FALSE] \in Request
          /\ [reqs[h] EXCEPT !.at = "queued", !.owns = FALSE].at = "queued"
      BY <1>0 DEF Request, Awaits
    <3> QED BY <2>0, <2>4, <3>1, FreeFacts, FreeType DEF Gate
  <2>5. CASE QuestionFails(h) \/ ProbeRaises(h) \/ CheckEnd(h) \/ BackendReads(h)
    <3>1. Become(h, Free)
      BY <2>5 DEF QuestionFails, ProbeRaises, CheckEnd, BackendReads
    <3> QED BY <2>0, <3>1, FreeFacts, FreeType
  <2> QED BY <2>1, <2>2, <2>3, <2>4, <2>5
<1>2. Others(h) /\ reqs'[h] = s
  BY <1>1, FrameFacts
<1>3. UNCHANGED <<account, owner, files, missing, heir, apart>>
  BY DEF ReadOwner, QuestionFails, CheckRead, Probe, ProbeRaises, CheckEnd, Gate, BackendReads
<1> QED BY <1>1, <1>2, <1>3, QuietStep

LEMMA FreedWriter ==
    ASSUME Base, NEW h \in Handlers, Become(h, Free) \/ BecomeWriter(h, Free)
    PROVE  Others(h) /\ ~Writing(h)'
<1>1. Others(h) /\ reqs'[h] = Free
  BY FrameFacts, FreeType
<1> QED BY <1>1, FreeFacts DEF Writing, Reading

LEMMA MovedWriter ==
    ASSUME Base, NEW h \in Handlers, NEW at \in Awaits, NEW s \in Request,
           s = [reqs[h] EXCEPT !.at = at] \/ s = Written(reqs[h], at),
           Become(h, s) \/ BecomeWriter(h, s)
    PROVE  /\ Others(h)
           /\ reqs'[h].at = at /\ reqs'[h].user = reqs[h].user /\ reqs'[h].alone = reqs[h].alone
<1>1. Others(h) /\ reqs'[h] = s
  BY FrameFacts
<1>2. reqs[h] \in Request
  BY DEF Base, TypeOK
<1>3. s.at = at /\ s.user = reqs[h].user /\ s.alone = reqs[h].alone
  <2>1. [reqs[h] EXCEPT !.at = at].at = at /\ [reqs[h] EXCEPT !.at = at].user = reqs[h].user
        /\ [reqs[h] EXCEPT !.at = at].alone = reqs[h].alone
    BY <1>2 DEF Request
  <2>2. /\ Written(reqs[h], at).at = at /\ Written(reqs[h], at).user = reqs[h].user
        /\ Written(reqs[h], at).alone = reqs[h].alone
    BY <1>2, WrittenFacts
  <2> QED BY <2>1, <2>2
<1> QED BY <1>1, <1>3

(* A writer moves to another await. *)
LEMMA WriterMove ==
    ASSUME Writers, NEW h \in Handlers, Writing(h), Others(h), apart' = apart,
           reqs'[h].at \notin Reading, reqs'[h].alone = reqs[h].alone,
           reqs[h].alone => Left(reqs[h])'
    PROVE  Writers'
BY WriterStep DEF Writing

LEMMA ReadingFacts ==
    /\ "put" \notin Reading /\ "delete" \notin Reading /\ "set_owner" \notin Reading
    /\ "clear_owner" \notin Reading /\ "drop_owner" \notin Reading /\ "put_clear" \notin Reading
    /\ "del_owner" \notin Reading /\ "del_stamp" \notin Reading /\ "del_user" \notin Reading
BY DEF Reading

(* Requests that end without a word to files and row. *)
LEMMA EndWriters ==
    ASSUME Base, Writers, NEW h \in Handlers, Writing(h), QuestionFails(h) \/ PutForbidden(h)
    PROVE  Writers'
<1>1. Others(h) /\ ~Writing(h)'
  BY FreedWriter DEF QuestionFails, PutForbidden
<1>2. Good' = Good /\ Peace' = Peace /\ apart' = apart
  BY GoodSame DEF QuestionFails, PutForbidden, Peace
<1>3. reqs[h].at \in Unwritten
  BY AskFacts DEF QuestionFails, PutForbidden, Unwritten, Writing, Reading
<1>4. reqs[h].alone => (Peace => Good)
  BY <1>3 DEF Writers, LeftOK, Left
<1> QED BY <1>1, <1>2, <1>4, WriterStep

LEMMA FailWriters ==
    ASSUME Base, Writers, NEW h \in Handlers, OwnerFails(h) \/ WriteFails(h)
    PROVE  Writers'
<1>1. Others(h) /\ ~Writing(h)'
  BY FreedWriter DEF OwnerFails, WriteFails
<1>2. apart' = TRUE
  BY DEF OwnerFails, WriteFails, Tear
<1>3. Writing(h)
  BY WritingFacts DEF OwnerFails, WriteFails, Tear
<1> QED BY <1>1, <1>2, <1>3, WriterStep DEF Peace

LEMMA AskWriters ==
    ASSUME Base, Writers, NEW h \in Handlers, Writing(h), ReadOwner(h)
    PROVE  Writers'
<1> DEFINE s == [reqs[h] EXCEPT !.at = Answered[reqs[h].at], !.owns = owner = reqs[h].user]
<1>0. reqs[h] \in Request /\ reqs[h].at \in {"ask_put", "ask_delete"}
  BY AskFacts DEF Base, TypeOK, ReadOwner, Writing
<1>1. Answered[reqs[h].at] \in {"put", "delete"}
  BY <1>0 DEF Answered
<1>2. (owner = reqs[h].user) \in BOOLEAN
  BY Zenon
<1>3. /\ s \in Request /\ s.at \in {"put", "delete"} /\ s.user = reqs[h].user
      /\ s.alone = reqs[h].alone /\ s.owns = (owner = reqs[h].user)
  BY <1>0, <1>1, <1>2 DEF Request, Awaits
<1>4. Become(h, s) /\ UNCHANGED <<account, owner, files, missing, heir, apart>>
  BY DEF ReadOwner
<1> HIDE DEF s
<1>5. Others(h) /\ reqs'[h] = s
  BY <1>3, <1>4, FrameFacts
<1>6. Good' = Good /\ users' = users /\ Peace' = Peace
  BY <1>4, GoodSame, UsersSame DEF Peace
<1>7. reqs[h].alone => Left(reqs[h])'
  <2> SUFFICES ASSUME reqs[h].alone PROVE Left(reqs[h])'
    OBVIOUS
  <2>1. Left(reqs[h])
    BY DEF Writers, LeftOK
  <2>2. reqs[h].user \in users /\ (Peace => Good)
    BY <1>0, <2>1 DEF Left, Unwritten
  <2> QED BY <1>3, <1>4, <1>5, <1>6, <2>2 DEF Left, Unwritten
<1> QED BY <1>3, <1>4, <1>5, <1>7, WriterMove, ReadingFacts

LEMMA RowWriters ==
    ASSUME Base, Writers, NEW h \in Handlers, SetOwner(h) \/ ClearOwner(h)
    PROVE  Writers'
<1>0. /\ reqs[h] \in Request /\ reqs[h].user \in Users /\ Writing(h)
      /\ UNCHANGED <<account, files, missing, heir, apart>>
  BY WritingFacts DEF Base, TypeOK, Named, SetOwner, ClearOwner, NextAwait
<1>1. users' = users /\ Keyless' = Keyless /\ Peace' = Peace
  BY <1>0, UsersSame DEF Keyless, Peace
<1>2. reqs[h].alone => Left(reqs[h])
  BY <1>0 DEF Writers, LeftOK
<1>3. reqs[h].user # NoUser
  BY <1>0, NoUserFacts
<1>4. CASE SetOwner(h)
  <2>1. /\ Others(h) /\ reqs'[h].at = "put_clear" /\ reqs'[h].user = reqs[h].user
        /\ reqs'[h].alone = reqs[h].alone /\ owner' = reqs[h].user /\ reqs[h].at = "set_owner"
    <3>1. "put_clear" \in Awaits
      BY DEF Awaits
    <3>2. [reqs[h] EXCEPT !.at = "put_clear"] \in Request
      BY <1>0, <3>1, MoveType
    <3> QED BY <1>4, <3>1, <3>2, MovedWriter DEF SetOwner, MoveTo
  <2>2. ASSUME reqs[h].alone PROVE Left(reqs[h])'
    <3>1. /\ reqs[h].user \in users /\ missing = {}
          /\ \A e \in Engines : files[e].key # NoKey /\ files[e].key.saver = reqs[h].user
      BY <1>2, <2>1, <2>2 DEF Left
    <3>2. \A e \in Engines : Holder(files[e].key)' = owner'
      BY <1>0, <1>3, <2>1, <3>1 DEF Holder
    <3>3. ~Keyless
      BY <3>1 DEF Keyless, Engines
    <3>4. Good'
      BY <1>0, <1>1, <3>1, <3>2, <3>3 DEF Good
    <3> QED BY <1>1, <2>1, <3>1, <3>4 DEF Left, Unwritten
  <2> QED BY <1>0, <2>1, <2>2, WriterMove, ReadingFacts
<1>5. CASE ClearOwner(h) /\ reqs[h].at \in {"clear_owner", "del_owner"}
  <2>1. /\ Others(h) /\ reqs'[h].at = NextAwait[reqs[h].at] /\ reqs'[h].user = reqs[h].user
        /\ reqs'[h].at \in {"put_clear", "del_stamp"}
        /\ reqs'[h].alone = reqs[h].alone /\ owner' = OwnerWithout(reqs[h].user)
    <3>1. NextAwait[reqs[h].at] \in Awaits /\ NextAwait[reqs[h].at] \in {"put_clear", "del_stamp"}
      BY <1>5 DEF Awaits, NextAwait
    <3>2. [reqs[h] EXCEPT !.at = NextAwait[reqs[h].at]] \in Request
      BY <1>0, <3>1, MoveType
    <3>3. Become(h, [reqs[h] EXCEPT !.at = NextAwait[reqs[h].at]])
      BY <1>5, <3>1 DEF ClearOwner, MoveTo
    <3> QED BY <1>5, <3>1, <3>2, <3>3, MovedWriter DEF ClearOwner
  <2>2. ASSUME reqs[h].alone PROVE Left(reqs[h])'
    <3>1. reqs[h].user \in users /\ Keyless /\ missing = {} /\ owner = reqs[h].user
      BY <1>2, <1>5, <2>2 DEF Left
    <3>2. owner' = NoUser
      BY <2>1, <3>1 DEF OwnerWithout
    <3>3. Good'
      BY <1>0, <1>1, <3>1, <3>2 DEF Good, Keyless
    <3> QED BY <1>1, <1>3, <2>1, <3>1, <3>2, <3>3 DEF Left, Unwritten
  <2> QED BY <1>0, <2>1, <2>2, WriterMove, ReadingFacts
<1>6. CASE ClearOwner(h) /\ reqs[h].at = "drop_owner"
  <2>1. Become(h, Free) /\ owner' = OwnerWithout(reqs[h].user)
    BY <1>6 DEF ClearOwner, NextAwait
  <2>2. Others(h) /\ ~Writing(h)'
    BY <2>1, FreedWriter
  <2>3. ASSUME reqs[h].alone, Peace' PROVE Good'
    <3>1. Good /\ Keyless
      BY <1>1, <1>2, <1>6, <2>3 DEF Left, Unwritten
    <3>2. owner' = owner
      BY <2>1, <3>1 DEF Good, OwnerWithout
    <3> QED BY <1>0, <3>1, <3>2, GoodSame
  <2> QED BY <1>0, <2>2, <2>3, WriterStep
<1> QED BY <1>4, <1>5, <1>6 DEF ClearOwner, NextAwait

LEMMA StampWriters ==
    ASSUME Base, Writers, NEW h \in Handlers, PutClear(h) \/ DeleteClear(h)
    PROVE  Writers'
<1>0. /\ reqs[h] \in Request /\ Writing(h) /\ UNCHANGED <<account, owner, files, missing, heir>>
  BY WritingFacts DEF Base, TypeOK, PutClear, DeleteClear
<1>1. users' = users /\ Good' = Good
  BY <1>0, UsersSame, GoodSame
<1>2. reqs[h].alone => Left(reqs[h])
  BY <1>0 DEF Writers, LeftOK
<1>3. CASE PutClear(h)
  <2>1. Others(h) /\ ~Writing(h)'
    BY <1>3, FreedWriter DEF PutClear
  <2>2. reqs[h].alone => Good
    BY <1>2, <1>3 DEF PutClear, Left
  <2>3. apart /\ ~apart' => reqs[h].alone
    BY <1>3 DEF PutClear
  <2> QED BY <1>0, <1>1, <2>1, <2>2, <2>3, WriterStep
<1>4. CASE DeleteClear(h)
  <2>1. /\ Others(h) /\ reqs'[h].at = "del_user" /\ reqs'[h].user = reqs[h].user
        /\ reqs'[h].alone = reqs[h].alone /\ apart' = apart /\ reqs[h].at = "del_stamp"
    <3>1. "del_user" \in Awaits
      BY DEF Awaits
    <3>2. [reqs[h] EXCEPT !.at = "del_user"] \in Request
      BY <1>0, <3>1, MoveType
    <3> QED BY <1>4, <3>1, <3>2, MovedWriter DEF DeleteClear, MoveTo
  <2>2. ASSUME reqs[h].alone PROVE Left(reqs[h])'
    <3>1. reqs[h].user \in users /\ Good /\ owner # reqs[h].user
      BY <1>2, <2>1, <2>2 DEF Left
    <3> QED BY <1>0, <1>1, <2>1, <3>1 DEF Left, Unwritten
  <2> QED BY <1>0, <2>1, <2>2, WriterMove, ReadingFacts
<1> QED BY <1>3, <1>4

LEMMA DeleteUserWriters ==
    ASSUME Base, Writers, NEW h \in Handlers, DeleteUser(h)
    PROVE  Writers'
<1>0. Writing(h) /\ reqs[h].at = "del_user" /\ UNCHANGED <<files, missing, heir, apart>>
  BY WritingFacts DEF DeleteUser
<1>1. Others(h) /\ ~Writing(h)'
  BY FreedWriter DEF DeleteUser
<1>2. ASSUME reqs[h].alone, Peace' PROVE Good'
  <2>1. Good /\ owner # reqs[h].user
    BY <1>0, <1>2 DEF Writers, LeftOK, Left, Unwritten, Peace
  <2>2. owner' = owner
    BY <2>1 DEF DeleteUser, OwnerWithout
  <2> QED BY <1>0, <2>1, <2>2, GoodSame
<1> QED BY <1>0, <1>1, <1>2, WriterStep

LEMMA PutWriters ==
    ASSUME Base, Tidy, Writers, NEW h \in Handlers, PutWrite(h)
    PROVE  Writers'
<1>0. /\ reqs[h] \in Request /\ reqs[h].user \in Users /\ reqs[h].at = "put" /\ Writing(h)
      /\ files \in [Engines -> File] /\ missing \subseteq Engines /\ Blanks
      /\ UNCHANGED <<account, owner, apart>>
  BY WritingFacts DEF Base, TypeOK, Named, PutWrite, Tidy
<1>1. PICK b \in Allowed(reqs[h]), old \in Bootstrapped(missing) :
          WriteConfig(h, old, Updated(old, b), AfterWrite(reqs[h], b, Updated(old, b)))
  BY DEF PutWrite
<1> DEFINE new == Updated(old, b)
           s   == AfterWrite(reqs[h], b, new)
<1>2. /\ files' = new /\ missing' = {} /\ BecomeWriter(h, s)
      /\ heir' = (IF Adopted(new) THEN heir ELSE NoUser)
  BY <1>1 DEF WriteConfig
<1>3. /\ b.key \in Key => b.key.saver = reqs[h].user
      /\ b.key \in Key \cup {Keep, Clear}
      /\ b.key = Clear => reqs[h].owns
  BY <1>0, AllowedFacts
<1>4. /\ s \in Request
      /\ \/ b.key \notin {Keep, Clear} /\ s = Written(reqs[h], "set_owner")
         \/ b.key = Clear /\ s = Written(reqs[h], "clear_owner")
         \/ b.key = Keep /\ ~Configured(new) /\ s = Written(reqs[h], "drop_owner")
         \/ b.key = Keep /\ s = Free
  BY <1>0, AfterWriteFacts
<1>5. users' = users /\ Peace' = Peace
  BY <1>0, UsersSame DEF Peace
<1>6. reqs[h].alone => /\ reqs[h].user \in users /\ (Peace => Good)
                       /\ (reqs[h].owns <=> owner = reqs[h].user)
  BY <1>0 DEF Writers, LeftOK, Left, Unwritten
<1> HIDE DEF s, new
<1>7. CASE b.key \notin {Keep, Clear} /\ s = Written(reqs[h], "set_owner")
  <2>1. /\ Others(h) /\ reqs'[h].at = "set_owner" /\ reqs'[h].user = reqs[h].user
        /\ reqs'[h].alone = reqs[h].alone
    BY <1>2, <1>4, <1>7, MovedWriter DEF Awaits
  <2>2. \A e \in Engines : files'[e].key # NoKey /\ files'[e].key.saver = reqs[h].user
    <3>1. b.key \in Key /\ b.key.saver = reqs[h].user
      BY <1>3, <1>7
    <3>2. files' = Updated(old, b)
      BY <1>2 DEF new
    <3> QED BY <3>1, <3>2, SetKey
  <2>3. reqs[h].alone => Left(reqs[h])'
    BY <1>2, <1>5, <1>6, <2>1, <2>2 DEF Left, Unwritten
  <2> QED BY <1>0, <2>1, <2>3, WriterMove, ReadingFacts
<1>8. CASE b.key = Clear /\ s = Written(reqs[h], "clear_owner")
  <2>1. /\ Others(h) /\ reqs'[h].at = "clear_owner" /\ reqs'[h].user = reqs[h].user
        /\ reqs'[h].alone = reqs[h].alone
    BY <1>2, <1>4, <1>8, MovedWriter DEF Awaits
  <2>2. Keyless'
    BY <1>2, <1>8, ClearedKey DEF new
  <2>3. reqs[h].alone => Left(reqs[h])'
    BY <1>0, <1>2, <1>3, <1>5, <1>6, <1>8, <2>1, <2>2 DEF Left, Unwritten
  <2> QED BY <1>0, <2>1, <2>3, WriterMove, ReadingFacts
<1>9. ASSUME b.key = Keep, reqs[h].alone, Peace PROVE Good'
  BY <1>0, <1>2, <1>6, <1>9, KeptKey DEF new
<1>10. CASE b.key = Keep /\ ~Configured(new) /\ s = Written(reqs[h], "drop_owner")
  <2>1. /\ Others(h) /\ reqs'[h].at = "drop_owner" /\ reqs'[h].user = reqs[h].user
        /\ reqs'[h].alone = reqs[h].alone
    BY <1>2, <1>4, <1>10, MovedWriter DEF Awaits
  <2>2. Keyless'
    BY <1>2, <1>10 DEF Configured, Merge, Keyless, Engines
  <2>3. reqs[h].alone => Left(reqs[h])'
    BY <1>5, <1>6, <1>9, <1>10, <2>1, <2>2 DEF Left, Unwritten
  <2> QED BY <1>0, <2>1, <2>3, WriterMove, ReadingFacts
<1>11. CASE b.key = Keep /\ s = Free
  <2>1. Others(h) /\ ~Writing(h)'
    BY <1>2, <1>11, FreedWriter
  <2> QED BY <1>0, <1>5, <1>9, <1>11, <2>1, WriterStep
<1> QED BY <1>4, <1>7, <1>8, <1>10, <1>11

LEMMA DeleteWriters ==
    ASSUME Base, Tidy, Writers, NEW h \in Handlers, DeleteKey(h)
    PROVE  Writers'
<1>0. /\ reqs[h] \in Request /\ reqs[h].at = "delete" /\ Writing(h)
      /\ UNCHANGED <<account, owner, apart>>
  BY WritingFacts DEF Base, TypeOK, DeleteKey
<1>1. users' = users /\ Peace' = Peace
  BY <1>0, UsersSame DEF Peace
<1>2. reqs[h].alone => /\ reqs[h].user \in users /\ (Peace => Good)
                       /\ (reqs[h].owns <=> owner = reqs[h].user)
  BY <1>0 DEF Writers, LeftOK, Left, Unwritten
<1>3. CASE reqs[h].owns
  <2>1. PICK old \in Bootstrapped(missing) :
           WriteConfig(h, old, Updated(old, ClearKey), Written(reqs[h], "del_owner"))
    BY <1>3 DEF DeleteKey
  <2>2. /\ files' = Updated(old, ClearKey) /\ missing' = {}
        /\ BecomeWriter(h, Written(reqs[h], "del_owner"))
    BY <2>1 DEF WriteConfig
  <2>3. Keyless'
    <3>1. ClearKey.key = Clear
      BY DEF ClearKey
    <3> QED BY <2>2, <3>1, ClearedKey
  <2>4. /\ Others(h) /\ reqs'[h].at = "del_owner" /\ reqs'[h].user = reqs[h].user
        /\ reqs'[h].alone = reqs[h].alone
    <3>1. "del_owner" \in Awaits
      BY DEF Awaits
    <3>2. Written(reqs[h], "del_owner") \in Request
      BY <1>0, <3>1, MoveType
    <3> QED BY <2>2, <3>1, <3>2, MovedWriter
  <2>5. reqs[h].alone => Left(reqs[h])'
    BY <1>0, <1>1, <1>2, <1>3, <2>2, <2>3, <2>4 DEF Left, Unwritten
  <2> QED BY <1>0, <2>4, <2>5, WriterMove, ReadingFacts
<1>4. CASE ~reqs[h].owns
  <2>1. MoveTo(h, "del_user") /\ UNCHANGED <<files, missing, stamp, heir>>
    BY <1>4 DEF DeleteKey
  <2>2. /\ Others(h) /\ reqs'[h].at = "del_user" /\ reqs'[h].user = reqs[h].user
        /\ reqs'[h].alone = reqs[h].alone
    <3>1. "del_user" \in Awaits
      BY DEF Awaits
    <3>2. [reqs[h] EXCEPT !.at = "del_user"] \in Request
      BY <1>0, <3>1, MoveType
    <3> QED BY <2>1, <3>1, <3>2, MovedWriter DEF MoveTo
  <2>3. Good' = Good
    BY <1>0, <2>1, GoodSame
  <2>4. reqs[h].alone => Left(reqs[h])'
    BY <1>0, <1>1, <1>2, <1>4, <2>2, <2>3 DEF Left, Unwritten
  <2> QED BY <1>0, <2>2, <2>4, WriterMove, ReadingFacts
<1> QED BY <1>3, <1>4

LEMMA RestWriters ==
    ASSUME Base, Tidy, Writers, Crash \/ StartAdopt \/ StartClear \/ \E h \in Handlers : CrashInWrite(h)
    PROVE  Writers'
<1>1. \A h \in Handlers : ~Writing(h)'
  <2>1. \A h \in Handlers : reqs'[h] = Free
    BY DieType DEF Crash, CrashInWrite, StartAdopt, StartClear, Tidy, Idle, Base
  <2> QED BY <2>1, FreeFacts DEF Writing, Reading
<1>2. Lone' /\ LeftOK'
  BY <1>1 DEF Lone, LeftOK
<1>3. ASSUME Peace' PROVE Good'
  <2>1. CASE Crash
    <3>1. \A h \in Handlers : ~Writing(h)
      BY <1>3, <2>1 DEF Crash, Peace
    <3>2. Peace /\ UNCHANGED <<files, missing, heir, owner>>
      BY <1>3, <2>1, <3>1 DEF Crash, Peace
    <3>3. Good
      BY <3>1, <3>2 DEF Writers, RestOK
    <3> QED BY <3>2, <3>3, GoodSame
  <2>2. ASSUME NEW h \in Handlers, CrashInWrite(h) PROVE FALSE
    BY <1>3, <2>2 DEF CrashInWrite, Tear, Peace
  <2>3. CASE StartAdopt \/ StartClear
    <3>1. server # "up" /\ apart' = apart
      BY <2>3 DEF StartAdopt, StartClear
    <3>2. \A h \in Handlers : ~Writing(h)
      BY <3>1, WritingFacts DEF Tidy, Idle
    <3>3. Good
      BY <1>3, <3>1, <3>2 DEF Writers, RestOK, Peace
    <3>4. CASE UNCHANGED <<files, missing, heir, owner>>
      BY <3>3, <3>4, GoodSame
    <3>5. ASSUME NEW u \in Users, Adoptable, owner' = u, heir' = u, files' = files, missing' = missing
          PROVE  Good'
      <4>1. owner = NoUser /\ u # NoUser /\ ~Keyless
        BY <3>5, NoUserFacts DEF Adoptable, Configured, Merge, Keyless, Engines
      <4>2. \A e \in Engines : files[e].key # NoKey => files[e].key.saver = NoUser
        <5> SUFFICES ASSUME NEW e \in Engines, files[e].key # NoKey PROVE files[e].key.saver = NoUser
          OBVIOUS
        <5>1. Holder(files[e].key) = NoUser
          BY <3>3, <4>1 DEF Good
        <5> QED BY <5>1 DEF Holder
      <4>3. \A e \in Engines : files[e].key # NoKey => Holder(files[e].key)' = u
        BY <3>5, <4>2 DEF Holder
      <4> QED BY <3>5, <4>1, <4>3 DEF Good, Keyless
    <3> QED BY <2>3, <3>4, <3>5 DEF StartAdopt, StartClear
  <2> QED BY <2>1, <2>2, <2>3
<1> QED BY <1>2, <1>3 DEF Writers, RestOK

LEMMA SignupWriters ==
    ASSUME Base, Writers, NEW u \in Users, Signup(u)
    PROVE  Writers'
<1>1. users' = users \cup {u} /\ UNCHANGED <<owner, files, missing, reqs, heir, apart>>
  BY UsersFacts DEF Base, TypeOK, Signup
<1>2. Good' = Good /\ Keyless' = Keyless /\ Peace' = Peace
  BY <1>1, GoodSame DEF Peace
<1>3. \A h \in Handlers : Writing(h)' = Writing(h)
  BY <1>1 DEF Writing
<1>4. ASSUME NEW h \in Handlers, Left(reqs[h]) PROVE Left(reqs[h])'
  BY <1>1, <1>2, <1>4 DEF Left
<1>5. LeftOK'
  BY <1>1, <1>3, <1>4 DEF Writers, LeftOK
<1> QED BY <1>1, <1>2, <1>3, <1>5 DEF Writers, Lone, RestOK

LEMMA WritersKept == ASSUME Base, Tidy, Writers, [Next]_llmVars PROVE Writers'
<1>1. ASSUME NEW h \in Handlers, Serve(h) PROVE Writers'
  <2>1. CASE ReadOwner(h) \/ QuestionFails(h)
    BY <1>1, <2>1, QuietWriters, AskWriters, EndWriters
  <2>2. CASE PutForbidden(h)
    <3>1. Writing(h)
      BY <2>2, WritingFacts DEF PutForbidden
    <3> QED BY <2>2, <3>1, EndWriters
  <2>3. CASE \/ CheckRead(h) \/ Probe(h, TRUE) \/ Probe(h, FALSE)
             \/ ProbeRaises(h) \/ CheckEnd(h) \/ Gate(h) \/ BackendReads(h)
    <3>1. ~Writing(h)
      BY <2>3, WritingFacts DEF CheckRead, Probe, ProbeRaises, CheckEnd, Gate, BackendReads
    <3> QED BY <2>3, <3>1, QuietWriters
  <2> QED
    BY <1>1, <2>1, <2>2, <2>3, BeginWriters, PutWriters, RowWriters, FailWriters, StampWriters,
       DeleteWriters, DeleteUserWriters, RestWriters
       DEF Serve
<1>2. CASE UNCHANGED llmVars
  <2>1. Good' = Good /\ Keyless' = Keyless /\ users' = users /\ reqs' = reqs /\ apart' = apart
        /\ owner' = owner /\ files' = files /\ missing' = missing
    BY <1>2, GoodSame, UsersSame DEF llmVars
  <2>2. Lone'
    BY <2>1 DEF Writers, Lone, Writing, Peace
  <2>3. LeftOK'
    BY <2>1 DEF Writers, LeftOK, Left, Writing, Peace
  <2>4. RestOK'
    BY <2>1 DEF Writers, RestOK, Writing, Peace
  <2> QED BY <2>2, <2>3, <2>4 DEF Writers
<1> QED BY <1>1, <1>2, SignupWriters, RestWriters DEF Next

-----------------------------------------------------------------------------
(* The runs *)

RunFrame(h) ==
    \A o \in Handlers \ {h} :
        /\ reqs'[o].at = reqs[o].at /\ reqs'[o].user = reqs[o].user
        /\ reqs'[o].owns = reqs[o].owns
        /\ reqs'[o].at \in Unstarted /\ reqs'[o].clean => reqs[o].clean

Late == {"set_owner", "clear_owner", "put_clear", "drop_owner", "del_owner", "del_stamp"}

Waits(h) == Writing(h) => Before(reqs[h])

LEMMA RunFrameFacts ==
    ASSUME Base, NEW h \in Handlers, NEW s \in Request, Become(h, s)
    PROVE  RunFrame(h) /\ reqs'[h] = s
BY BecomeFacts DEF Base, TypeOK, RunFrame

(* A request moves that has not written, nor will be past its write. *)
LEMMA RunsOthers ==
    ASSUME Runs, NEW h \in Handlers, RunFrame(h), owner' = owner, Waits(h) => Waits(h)'
    PROVE  \A o \in Handlers \ {h} : RunOK(reqs[o])'
<1> SUFFICES ASSUME NEW o \in Handlers \ {h}, reqs'[o].at \in Unstarted, reqs'[o].clean
             PROVE  RunOK(reqs[o])'
  BY DEF RunOK
<1>1. /\ reqs'[o].at = reqs[o].at /\ reqs'[o].user = reqs[o].user
      /\ reqs'[o].owns = reqs[o].owns /\ reqs[o].clean
  BY DEF RunFrame
<1>2. RunOK(reqs[o]) /\ reqs[o].at \in Unstarted
  BY <1>1 DEF Runs
<1>3. \A w \in Handlers : Waits(w)
  BY <1>1, <1>2 DEF RunOK, Waits
<1>4. ASSUME NEW w \in Handlers PROVE Waits(w)'
  <2>1. CASE w = h
    BY <1>3, <2>1
  <2>2. CASE w # h
    <3>1. reqs'[w].at = reqs[w].at /\ reqs'[w].user = reqs[w].user /\ reqs'[w].owns = reqs[w].owns
      BY <2>2 DEF RunFrame
    <3> QED BY <1>3, <3>1 DEF Waits, Writing, Before
  <2> QED BY <2>1, <2>2
<1> QED BY <1>1, <1>2, <1>4 DEF RunOK, Waits

LEMMA RunsMove ==
    ASSUME Runs, NEW h \in Handlers, RunFrame(h), owner' = owner, Waits(h) => Waits(h)',
           reqs'[h].at \notin Unstarted
    PROVE  Runs'
<1>1. RunOK(reqs[h])'
  BY DEF RunOK
<1> QED BY <1>1, RunsOthers DEF Runs

LEMMA RunsEnd ==
    ASSUME Base, Runs, NEW h \in Handlers, Become(h, Free), owner' = owner
    PROVE  Runs'
<1>1. RunFrame(h) /\ reqs'[h] = Free
  BY RunFrameFacts, FreeType
<1>2. reqs'[h].at = "free"
  BY <1>1, FreeFacts
<1>3. Waits(h)'
  BY <1>2 DEF Waits, Writing, Reading
<1> QED BY <1>1, <1>2, <1>3, RunsMove DEF Unstarted

(* Past a write there are no clean runs. *)
LEMMA RunsLate ==
    ASSUME Runs, NEW h \in Handlers, reqs[h].at \in Late, RunFrame(h), reqs'[h].at \notin Unstarted
    PROVE  Runs'
<1>1. Writing(h) /\ ~Before(reqs[h])
  BY DEF Late, Writing, Reading, Before
<1>2. \A o \in Handlers : ~(reqs[o].at \in Unstarted /\ reqs[o].clean)
  BY <1>1 DEF Runs, RunOK
<1>3. \A o \in Handlers : ~(reqs'[o].at \in Unstarted /\ reqs'[o].clean)
  BY <1>2 DEF RunFrame
<1> QED BY <1>3 DEF Runs, RunOK

(* A write crosses them all. *)
LEMMA RunsCrossed ==
    ASSUME Base, NEW h \in Handlers, NEW s \in Request, BecomeWriter(h, s), s.at \notin Unstarted
    PROVE  Runs'
<1>1. reqs'[h] = s /\ \A o \in Handlers \ {h} : reqs'[o] = Crossed(reqs[o])
  BY BecomeWriterFacts DEF Base, TypeOK
<1>2. ASSUME NEW o \in Handlers PROVE ~(reqs'[o].at \in Unstarted /\ reqs'[o].clean)
  <2>1. CASE o = h
    BY <1>1, <2>1
  <2>2. CASE o # h
    <3>1. reqs[o] \in Request /\ reqs'[o] = Crossed(reqs[o])
      BY <1>1, <2>2 DEF Base, TypeOK
    <3>2. /\ Crossed(reqs[o]).at = reqs[o].at
          /\ reqs[o].at \in {"probing"} \cup Unstarted => Crossed(reqs[o]).clean = FALSE
      BY <3>1, CrossedFacts
    <3> QED BY <3>1, <3>2
  <2> QED BY <2>1, <2>2
<1> QED BY <1>2 DEF Runs, RunOK

LEMMA BeginRuns ==
    ASSUME Base, Runs, NEW h \in Handlers, NEW u \in Users, NEW at \in DOMAIN Answered,
           Begin(h, u, at)
    PROVE  Runs'
<1>0. reqs \in [Handlers -> Request] /\ ~Writing(h) /\ owner' = owner
  BY WritingFacts DEF Base, TypeOK, Begin
<1>1. CASE BeganReading(h, u, at)
  <2> DEFINE clean == at = "ask_check" \/ NoWriter
             s     == Starting(u, at, clean, TRUE)
  <2>1. clean \in BOOLEAN
    BY Zenon
  <2>2. s \in Request /\ s.at = at /\ s.clean = clean
    BY <2>1, StartingFacts
  <2>3. Become(h, s)
    BY <1>1 DEF BeganReading
  <2>4. clean /\ at = "ask_gate" => NoWriter
    OBVIOUS
  <2> HIDE DEF s, clean
  <2>5. RunFrame(h) /\ reqs'[h] = s
    BY <2>2, <2>3, RunFrameFacts
  <2>6. ~Writing(h)'
    BY <1>1, <2>2, <2>5, AskFacts DEF BeganReading, Writing
  <2>7. \A o \in Handlers \ {h} : RunOK(reqs[o])'
    BY <1>0, <2>5, <2>6, RunsOthers DEF Waits
  <2>8. RunOK(reqs[h])'
    <3> SUFFICES ASSUME s.at \in Unstarted, s.clean PROVE RunOK(reqs[h])'
      BY <2>5 DEF RunOK
    <3>1. at = "ask_gate" /\ clean
      BY <1>1, <2>2 DEF BeganReading, Unstarted
    <3>2. \A o \in Handlers : ~Writing(o)'
      BY <2>4, <2>5, <2>6, <3>1 DEF NoWriter, Writing, RunFrame
    <3> QED BY <2>2, <2>5, <3>1, <3>2 DEF RunOK
  <2> QED BY <2>7, <2>8 DEF Runs
<1>2. CASE BeganAlone(h, u, at)
  <2>1. /\ Starting(u, at, TRUE, TRUE) \in Request /\ Starting(u, at, TRUE, TRUE).at = at
    BY StartingFacts
  <2>2. RunFrame(h) /\ reqs'[h].at = at
    BY <1>2, <2>1, RunFrameFacts DEF BeganAlone
  <2>3. Waits(h)' /\ reqs'[h].at \notin Unstarted
    BY <1>2, <2>2 DEF BeganAlone, Waits, Before, Unstarted
  <2> QED BY <1>0, <2>2, <2>3, RunsMove
<1>3. CASE BeganAmong(h, u, at)
  <2>1. Starting(u, at, TRUE, FALSE).at = at
    BY StartingFacts
  <2>2. reqs'[h].at = at
    BY <1>3, <2>1 DEF BeganAmong
  <2>3. \A o \in Handlers : /\ [reqs[o] EXCEPT !.alone = FALSE].at = reqs[o].at
                            /\ [reqs[o] EXCEPT !.alone = FALSE].user = reqs[o].user
                            /\ [reqs[o] EXCEPT !.alone = FALSE].owns = reqs[o].owns
                            /\ [reqs[o] EXCEPT !.alone = FALSE].clean = reqs[o].clean
    BY <1>0 DEF Request
  <2>4. RunFrame(h)
    BY <1>3, <2>3 DEF BeganAmong, RunFrame
  <2>5. Waits(h)' /\ reqs'[h].at \notin Unstarted
    BY <1>3, <2>2 DEF BeganAmong, Waits, Before, Unstarted
  <2> QED BY <1>0, <2>4, <2>5, RunsMove
<1> QED BY <1>1, <1>2, <1>3, BeginCases DEF Base

LEMMA AskRuns ==
    ASSUME Base, Runs, NEW h \in Handlers, ReadOwner(h)
    PROVE  Runs'
<1> DEFINE s == [reqs[h] EXCEPT !.at = Answered[reqs[h].at], !.owns = owner = reqs[h].user]
<1>0. reqs[h] \in Request /\ reqs[h].at \in DOMAIN Answered /\ owner' = owner
  BY DEF Base, TypeOK, ReadOwner
<1>1. (owner = reqs[h].user) \in BOOLEAN
  BY Zenon
<1>2. /\ s \in Request /\ s.at = Answered[reqs[h].at] /\ s.user = reqs[h].user
      /\ s.clean = reqs[h].clean /\ (s.owns <=> owner = reqs[h].user)
  <2>1. Answered[reqs[h].at] \in Awaits
    BY <1>0 DEF Answered, Awaits
  <2> QED BY <1>0, <1>1, <2>1 DEF Request
<1>3. Become(h, s)
  BY DEF ReadOwner
<1> HIDE DEF s
<1>4. RunFrame(h) /\ reqs'[h] = s
  BY <1>2, <1>3, RunFrameFacts
<1>5. Writing(h)' => reqs'[h].at \in {"put", "delete"}
  BY <1>0, <1>2, <1>4 DEF Answered, Writing, Reading
<1>6. Waits(h)'
  BY <1>0, <1>2, <1>4, <1>5 DEF Waits, Before
<1>7. CASE reqs'[h].at \notin Unstarted
  BY <1>0, <1>4, <1>6, <1>7, RunsMove
<1>8. CASE reqs'[h].at \in Unstarted
  <2>1. reqs[h].at = "ask_gate" /\ reqs'[h].at = "gate"
    BY <1>0, <1>2, <1>4, <1>8 DEF Answered, Unstarted
  <2>2. \A o \in Handlers \ {h} : RunOK(reqs[o])'
    BY <1>0, <1>4, <1>6, RunsOthers
  <2>3. ASSUME reqs'[h].clean, NEW o \in Handlers, Writing(o)' PROVE Before(reqs[o])'
    <3>1. o # h
      BY <1>5, <2>1, <2>3
    <3>2. reqs'[o].at = reqs[o].at /\ reqs'[o].user = reqs[o].user /\ reqs'[o].owns = reqs[o].owns
      BY <1>4, <3>1 DEF RunFrame
    <3>3. RunOK(reqs[h]) /\ reqs[h].clean /\ reqs[h].at \in Unstarted
      BY <1>2, <1>4, <2>1, <2>3 DEF Runs, Unstarted
    <3> QED BY <1>0, <2>3, <3>2, <3>3 DEF RunOK, Writing, Before
  <2>4. RunOK(reqs[h])'
    BY <1>0, <1>2, <1>4, <2>1, <2>3 DEF RunOK
  <2> QED BY <2>2, <2>4 DEF Runs
<1> QED BY <1>7, <1>8

LEMMA GateRuns ==
    ASSUME Base, Runs, NEW h \in Handlers, Gate(h)
    PROVE  Runs'
<1>0. reqs[h] \in Request /\ reqs[h].at = "gate" /\ owner' = owner
  BY DEF Base, TypeOK, Gate
<1>1. CASE ~MayUseKey(reqs[h])
  BY <1>0, <1>1, RunsEnd DEF Gate
<1>2. CASE MayUseKey(reqs[h])
  <2> DEFINE s == [reqs[h] EXCEPT !.at = "queued", !.owns = FALSE]
  <2>1. /\ s \in Request /\ s.at = "queued" /\ s.user = reqs[h].user /\ s.clean = reqs[h].clean
    BY <1>0 DEF Request, Awaits
  <2>2. Become(h, s) /\ reqs[h].owns
    BY <1>2 DEF Gate, MayUseKey
  <2> HIDE DEF s
  <2>3. RunFrame(h) /\ reqs'[h] = s
    BY <2>1, <2>2, RunFrameFacts
  <2>4. ~Writing(h)'
    BY <2>1, <2>3 DEF Writing, Reading
  <2>5. \A o \in Handlers \ {h} : RunOK(reqs[o])'
    BY <1>0, <2>3, <2>4, RunsOthers DEF Waits
  <2>6. RunOK(reqs[h]) /\ reqs[h].at \in Unstarted
    BY <1>0 DEF Runs, Unstarted
  <2>7. ASSUME reqs'[h].clean, NEW o \in Handlers, Writing(o)' PROVE Before(reqs[o])'
    <3>1. reqs'[o].at = reqs[o].at /\ reqs'[o].user = reqs[o].user /\ reqs'[o].owns = reqs[o].owns
      BY <2>3, <2>4, <2>7 DEF RunFrame
    <3> QED BY <1>0, <2>1, <2>3, <2>6, <2>7, <3>1 DEF RunOK, Writing, Before
  <2>8. RunOK(reqs[h])'
    BY <1>0, <2>1, <2>2, <2>3, <2>6, <2>7 DEF RunOK
  <2> QED BY <2>5, <2>8 DEF Runs
<1> QED BY <1>1, <1>2

LEMMA CheckRuns ==
    ASSUME Base, Runs, NEW h \in Handlers, CheckRead(h) \/ Probe(h, TRUE) \/ Probe(h, FALSE)
    PROVE  Runs'
<1>1. PICK s \in Request : Become(h, s) /\ (s = Free \/ s.at = "probing")
  BY CheckReadNext, ProbeNext
<1>2. RunFrame(h) /\ reqs'[h] = s
  BY <1>1, RunFrameFacts
<1>3. reqs'[h].at \in {"free", "probing"}
  BY <1>1, <1>2, FreeFacts
<1>4. Waits(h)' /\ reqs'[h].at \notin Unstarted
  BY <1>3 DEF Waits, Writing, Reading, Unstarted
<1> QED BY <1>2, <1>4, RunsMove DEF CheckRead, Probe

LEMMA LateRuns ==
    ASSUME Base, Runs, NEW h \in Handlers,
           SetOwner(h) \/ ClearOwner(h) \/ OwnerFails(h) \/ PutClear(h) \/ DeleteClear(h)
    PROVE  Runs'
<1>0. reqs[h] \in Request /\ reqs[h].at \in Late
  BY DEF Base, TypeOK, Late, SetOwner, ClearOwner, OwnerFails, PutClear, DeleteClear, NextAwait
<1>1. PICK at \in {"put_clear", "del_stamp", "del_user"} :
          Become(h, Free) \/ Become(h, [reqs[h] EXCEPT !.at = at])
  BY DEF SetOwner, ClearOwner, OwnerFails, PutClear, DeleteClear, NextAwait, MoveTo
<1>2. at \in Awaits
  BY DEF Awaits
<1>3. [reqs[h] EXCEPT !.at = at] \in Request /\ [reqs[h] EXCEPT !.at = at].at = at
  BY <1>0, <1>2 DEF Request
<1>4. RunFrame(h) /\ reqs'[h].at \notin Unstarted
  BY <1>1, <1>3, RunFrameFacts, FreeType, FreeFacts DEF Unstarted
<1> QED BY <1>0, <1>4, RunsLate

LEMMA DeleteRuns ==
    ASSUME Base, Runs, NEW h \in Handlers, DeleteKey(h) \/ DeleteUser(h)
    PROVE  Runs'
<1>0. reqs[h] \in Request
  BY DEF Base, TypeOK
<1>1. CASE DeleteKey(h) /\ reqs[h].owns
  <2>1. BecomeWriter(h, Written(reqs[h], "del_owner"))
    BY <1>1 DEF DeleteKey, WriteConfig
  <2>2. "del_owner" \in Awaits /\ "del_owner" \notin Unstarted
    BY DEF Awaits, Unstarted
  <2>3. Written(reqs[h], "del_owner") \in Request /\ Written(reqs[h], "del_owner").at = "del_owner"
    BY <1>0, <2>2, MoveType, WrittenFacts
  <2> QED BY <2>1, <2>2, <2>3, RunsCrossed
<1>2. CASE DeleteKey(h) /\ ~reqs[h].owns
  <2>1. Become(h, [reqs[h] EXCEPT !.at = "del_user"]) /\ owner' = owner /\ reqs[h].at = "delete"
    BY <1>2 DEF DeleteKey, MoveTo
  <2>2. /\ [reqs[h] EXCEPT !.at = "del_user"] \in Request
        /\ [reqs[h] EXCEPT !.at = "del_user"].at = "del_user"
        /\ [reqs[h] EXCEPT !.at = "del_user"].user = reqs[h].user
    BY <1>0 DEF Request, Awaits
  <2>3. RunFrame(h) /\ reqs'[h].at = "del_user" /\ reqs'[h].user = reqs[h].user
    BY <2>1, <2>2, RunFrameFacts
  <2>4. Waits(h) => owner # reqs[h].user
    BY <1>2, <2>1, WritingFacts DEF Waits, Before
  <2>5. Waits(h) => Waits(h)'
    BY <2>1, <2>3, <2>4 DEF Waits, Before
  <2> QED BY <2>1, <2>3, <2>5, RunsMove DEF Unstarted
<1>3. CASE DeleteUser(h)
  <2>1. Become(h, Free) /\ owner' = OwnerWithout(reqs[h].user) /\ reqs[h].at = "del_user"
    BY <1>3 DEF DeleteUser
  <2>2. CASE owner # reqs[h].user
    BY <2>1, <2>2, RunsEnd DEF OwnerWithout
  <2>3. CASE owner = reqs[h].user
    <3>1. Writing(h) /\ ~Before(reqs[h])
      BY <2>1, <2>3, WritingFacts DEF Before
    <3>2. \A o \in Handlers : ~(reqs[o].at \in Unstarted /\ reqs[o].clean)
      BY <3>1 DEF Runs, RunOK
    <3>3. RunFrame(h) /\ reqs'[h].at = "free"
      BY <2>1, RunFrameFacts, FreeType, FreeFacts
    <3>4. \A o \in Handlers : ~(reqs'[o].at \in Unstarted /\ reqs'[o].clean)
      BY <3>2, <3>3 DEF RunFrame, Unstarted
    <3> QED BY <3>4 DEF Runs, RunOK
  <2> QED BY <2>2, <2>3
<1> QED BY <1>1, <1>2, <1>3

LEMMA WriteRuns ==
    ASSUME Base, NEW h \in Handlers, PutWrite(h) \/ WriteFails(h)
    PROVE  Runs'
<1>0. reqs[h] \in Request
  BY DEF Base, TypeOK
<1>1. PICK s \in Request : BecomeWriter(h, s) /\ s.at \notin Unstarted
  <2>1. CASE WriteFails(h)
    BY <2>1, FreeType, FreeFacts DEF WriteFails, Unstarted
  <2>2. CASE PutWrite(h)
    <3>1. PICK b \in Allowed(reqs[h]), old \in Bootstrapped(missing) :
              WriteConfig(h, old, Updated(old, b), AfterWrite(reqs[h], b, Updated(old, b)))
      BY <2>2 DEF PutWrite
    <3> DEFINE s == AfterWrite(reqs[h], b, Updated(old, b))
    <3>2. s \in Request /\ \/ \E at \in {"set_owner", "clear_owner", "drop_owner"} :
                                 s = Written(reqs[h], at)
                           \/ s = Free
      BY <1>0, AfterWriteFacts
    <3>3. \A at \in {"set_owner", "clear_owner", "drop_owner"} :
              at \in Awaits /\ Written(reqs[h], at).at = at
      BY <1>0, WrittenFacts DEF Awaits
    <3>4. BecomeWriter(h, s)
      BY <3>1 DEF WriteConfig
    <3> HIDE DEF s
    <3> QED BY <3>2, <3>3, <3>4, FreeFacts DEF Unstarted
  <2> QED BY <2>1, <2>2
<1> QED BY <1>1, RunsCrossed

LEMMA RunsKept == ASSUME Base, Tidy, Runs, [Next]_llmVars PROVE Runs'
<1>1. ASSUME NEW h \in Handlers, Serve(h), ~CrashInWrite(h) PROVE Runs'
  <2>1. CASE QuestionFails(h) \/ PutForbidden(h) \/ ProbeRaises(h) \/ CheckEnd(h) \/ BackendReads(h)
    BY <2>1, RunsEnd DEF QuestionFails, PutForbidden, ProbeRaises, CheckEnd, BackendReads
  <2> QED BY <1>1, <2>1, BeginRuns, AskRuns, GateRuns, CheckRuns, LateRuns, DeleteRuns, WriteRuns
             DEF Serve
<1>2. CASE Crash \/ StartAdopt \/ StartClear \/ \E h \in Handlers : CrashInWrite(h)
  <2>1. \A h \in Handlers : reqs'[h] = Free
    BY <1>2, DieType DEF Crash, CrashInWrite, StartAdopt, StartClear, Tidy, Idle, Base
  <2> QED BY <2>1, FreeFacts DEF Runs, RunOK, Unstarted
<1>3. CASE (\E u \in Users : Signup(u)) \/ UNCHANGED llmVars
  BY <1>3 DEF Signup, llmVars, Runs, RunOK, Writing, Before
<1> QED BY <1>1, <1>2, <1>3 DEF Next

-----------------------------------------------------------------------------
(* The checks and their stamp *)

Quiet == \A h \in Handlers : ~Pending(h)

CheckFrame(h) ==
    \A o \in Handlers \ {h} :
        /\ reqs'[o].at = reqs[o].at /\ reqs'[o].tested = reqs[o].tested
        /\ reqs'[o].fp = reqs[o].fp /\ reqs'[o].clean = reqs[o].clean

LEMMA CheckFrameFacts ==
    ASSUME Base, NEW h \in Handlers, NEW s \in Request, Become(h, s)
    PROVE  CheckFrame(h) /\ reqs'[h] = s
BY BecomeFacts DEF Base, TypeOK, CheckFrame

LEMMA NoStampStamped == ASSUME stamp' \in {NoStamp, Stale} PROVE Stamped'
BY DEF Stamped

LEMMA StampedSame ==
    ASSUME Stamped, UNCHANGED <<files, missing, stamp>>, Quiet' => Quiet
    PROVE  Stamped'
BY DEF Stamped, Whole, Quiet

LEMMA ProbedSame ==
    ASSUME Checks, NEW h \in Handlers, CheckFrame(h), UNCHANGED <<files, missing>>
    PROVE  \A o \in Handlers \ {h} : Probed(reqs[o])'
<1> SUFFICES ASSUME NEW o \in Handlers \ {h} PROVE Probed(reqs[o])'
  OBVIOUS
<1>1. Probed(reqs[o])
  BY DEF Checks
<1>2. /\ reqs'[o].at = reqs[o].at /\ reqs'[o].tested = reqs[o].tested
      /\ reqs'[o].fp = reqs[o].fp /\ reqs'[o].clean = reqs[o].clean
  BY DEF CheckFrame
<1>3. Whole' = Whole
  BY DEF Whole
<1> QED BY <1>1, <1>2, <1>3 DEF Probed, Same

(* A write crosses the checks that probe; the others have nothing tested.    *)
LEMMA ProbedCrossed ==
    ASSUME Base, Checks, NEW h \in Handlers, NEW s \in Request, BecomeWriter(h, s),
           s.at \notin {"ask_check", "check", "probing"}
    PROVE  \A o \in Handlers : Probed(reqs[o])'
<1>1. reqs'[h] = s /\ \A o \in Handlers \ {h} : reqs'[o] = Crossed(reqs[o])
  BY BecomeWriterFacts DEF Base, TypeOK
<1>2. Probed(reqs[h])'
  BY <1>1 DEF Probed
<1>3. ASSUME NEW o \in Handlers \ {h} PROVE Probed(reqs[o])'
  <2>1. Probed(reqs[o]) /\ reqs[o] \in Request /\ reqs'[o] = Crossed(reqs[o])
    BY <1>1 DEF Base, TypeOK, Checks
  <2>2. Crossed(reqs[o]).at = reqs[o].at
    BY <2>1, CrossedFacts
  <2>3. CASE reqs[o].at = "probing"
    <3>1. Crossed(reqs[o]).clean = FALSE
      BY <2>1, <2>3, CrossedFacts
    <3> QED BY <2>1, <2>2, <2>3, <3>1 DEF Probed
  <2>4. CASE reqs[o].at \in {"ask_check", "check"}
    <3>1. reqs'[o] = reqs[o]
      BY <2>1, <2>4, CrossedFacts DEF Unstarted
    <3> QED BY <2>1, <2>4, <3>1 DEF Probed
  <2>5. CASE reqs[o].at \notin {"ask_check", "check", "probing"}
    BY <2>1, <2>2, <2>5 DEF Probed
  <2> QED BY <2>3, <2>4, <2>5
<1> QED BY <1>2, <1>3

(* A request moves, files and stamp stay. *)
LEMMA ChecksMove ==
    ASSUME Checks, NEW h \in Handlers, CheckFrame(h), UNCHANGED <<files, missing>>,
           Probed(reqs[h])', stamp' \in {stamp, NoStamp, Stale},
           stamp' = stamp => (Pending(h) => Pending(h)')
    PROVE  Checks'
<1>1. \A o \in Handlers : Probed(reqs[o])'
  BY ProbedSame
<1>2. CASE stamp' \in {NoStamp, Stale}
  BY <1>1, <1>2, NoStampStamped DEF Checks
<1>3. CASE stamp' = stamp /\ stamp' \notin {NoStamp, Stale}
  <2>1. \A o \in Handlers : Pending(o) => Pending(o)'
    BY <1>3 DEF Pending, CheckFrame
  <2>2. Quiet' => Quiet
    BY <2>1 DEF Quiet
  <2> QED BY <1>1, <1>3, <2>2, StampedSame DEF Checks
<1> QED BY <1>2, <1>3

LEMMA FreeProbed ==
    ASSUME Base, NEW h \in Handlers, Become(h, Free)
    PROVE  CheckFrame(h) /\ Probed(reqs[h])' /\ ~Pending(h)'
<1>1. CheckFrame(h) /\ reqs'[h].at = "free"
  BY CheckFrameFacts, FreeType, FreeFacts
<1> QED BY <1>1 DEF Probed, Pending

LEMMA BeginChecks ==
    ASSUME Base, Checks, NEW h \in Handlers, NEW u \in Users, NEW at \in DOMAIN Answered,
           Begin(h, u, at)
    PROVE  Checks'
<1>0. /\ reqs \in [Handlers -> Request] /\ UNCHANGED <<files, missing, stamp>> /\ ~Pending(h)
  BY FreeFacts DEF Base, TypeOK, Begin, Pending
<1>1. CheckFrame(h) /\ Probed(reqs[h])'
  <2>1. CASE BeganReading(h, u, at)
    <3>1. (at = "ask_check" \/ NoWriter) \in BOOLEAN
      BY Zenon
    <3> DEFINE s == Starting(u, at, at = "ask_check" \/ NoWriter, TRUE)
    <3>2. s \in Request /\ s.at = at /\ s.tested = None
      BY <3>1, StartingFacts
    <3>3. Become(h, s)
      BY <2>1 DEF BeganReading
    <3> HIDE DEF s
    <3>4. CheckFrame(h) /\ reqs'[h] = s
      BY <3>2, <3>3, CheckFrameFacts
    <3> QED BY <2>1, <3>2, <3>4 DEF BeganReading, Probed
  <2>2. CASE BeganAlone(h, u, at)
    <3>1. Starting(u, at, TRUE, TRUE) \in Request /\ Starting(u, at, TRUE, TRUE).at = at
      BY StartingFacts
    <3>2. CheckFrame(h) /\ reqs'[h].at = at
      BY <2>2, <3>1, CheckFrameFacts DEF BeganAlone
    <3> QED BY <2>2, <3>2 DEF BeganAlone, Probed
  <2>3. CASE BeganAmong(h, u, at)
    <3>1. Starting(u, at, TRUE, FALSE).at = at
      BY StartingFacts
    <3>2. reqs'[h].at = at
      BY <2>3, <3>1 DEF BeganAmong
    <3>3. \A o \in Handlers : /\ [reqs[o] EXCEPT !.alone = FALSE].at = reqs[o].at
                              /\ [reqs[o] EXCEPT !.alone = FALSE].tested = reqs[o].tested
                              /\ [reqs[o] EXCEPT !.alone = FALSE].fp = reqs[o].fp
                              /\ [reqs[o] EXCEPT !.alone = FALSE].clean = reqs[o].clean
      BY <1>0 DEF Request
    <3>4. CheckFrame(h)
      BY <2>3, <3>3 DEF BeganAmong, CheckFrame
    <3> QED BY <2>3, <3>2, <3>4 DEF BeganAmong, Probed
  <2> QED BY <2>1, <2>2, <2>3, BeginCases DEF Base
<1> QED BY <1>0, <1>1, ChecksMove

LEMMA AskChecks ==
    ASSUME Base, Checks, NEW h \in Handlers, ReadOwner(h)
    PROVE  Checks'
<1> DEFINE s == [reqs[h] EXCEPT !.at = Answered[reqs[h].at], !.owns = owner = reqs[h].user]
<1>0. /\ reqs[h] \in Request /\ reqs[h].at \in DOMAIN Answered
      /\ UNCHANGED <<files, missing, stamp>>
  BY DEF Base, TypeOK, ReadOwner
<1>1. (owner = reqs[h].user) \in BOOLEAN
  BY Zenon
<1>2. s \in Request /\ s.at = Answered[reqs[h].at] /\ s.tested = reqs[h].tested
  <2>1. Answered[reqs[h].at] \in Awaits
    BY <1>0 DEF Answered, Awaits
  <2> QED BY <1>0, <1>1, <2>1 DEF Request
<1>3. Become(h, s)
  BY DEF ReadOwner
<1> HIDE DEF s
<1>4. CheckFrame(h) /\ reqs'[h] = s
  BY <1>2, <1>3, CheckFrameFacts
<1>5. Probed(reqs[h])'
  <2>1. Probed(reqs[h])
    BY DEF Checks
  <2>2. s.at \in {"put", "check", "gate", "delete"}
    BY <1>0, <1>2 DEF Answered
  <2>3. s.at = "check" => reqs[h].at = "ask_check"
    BY <1>0, <1>2 DEF Answered
  <2> QED BY <1>2, <1>4, <2>1, <2>2, <2>3 DEF Probed
<1>6. ~Pending(h)
  BY <1>0 DEF Answered, Pending
<1> QED BY <1>0, <1>4, <1>5, <1>6, ChecksMove

LEMMA ProbeChecks ==
    ASSUME Base, Checks, NEW h \in Handlers, CheckRead(h) \/ Probe(h, TRUE) \/ Probe(h, FALSE)
    PROVE  Checks'
<1>0. /\ reqs[h] \in Request /\ UNCHANGED <<files, missing, stamp>> /\ ~Pending(h)
      /\ reqs[h].at \in {"check", "probing"} /\ Probed(reqs[h])
  BY DEF Base, TypeOK, CheckRead, Probe, Pending, Checks
<1>1. PICK s \in Request : /\ Become(h, s)
                           /\ s = Free \/ s.at = "probing"
                           /\ s.at = "probing" /\ s.clean =>
                                 /\ Whole /\ s.fp = Fingerprint(Merge(files))
                                 /\ Same(s.tested)
  <2>0. Same(None)
    BY DEF Same, None
  <2>1. CASE CheckRead(h)
    <3>1. PICK s \in Request : /\ Become(h, s)
                               /\ s = Free \/ /\ s.at = "probing" /\ s.tested = reqs[h].tested
                                              /\ s.clean => Whole /\ s.fp = Fingerprint(Merge(files))
      BY <2>1, CheckReadNext
    <3>2. reqs[h].tested = None
      BY <1>0, <2>1 DEF CheckRead, Probed
    <3> QED BY <2>0, <3>1, <3>2, FreeFacts
  <2>2. CASE Probe(h, TRUE) \/ Probe(h, FALSE)
    <3>1. PICK s \in Request : /\ Become(h, s) /\ s.at = "probing"
                               /\ s.clean = reqs[h].clean /\ s.fp = reqs[h].fp
                               /\ s.tested = None \/ \E e \in Engines :
                                      s.tested = [reqs[h].tested EXCEPT ![e] = files[e]]
      BY <2>2, ProbeNext
    <3>2. reqs[h].at = "probing" /\ reqs[h].tested \in Tested
      BY <1>0, <2>2 DEF Probe, Request
    <3>3. ASSUME Same(reqs[h].tested) PROVE Same(s.tested)
      BY <2>0, <3>1, <3>2, <3>3 DEF Same, Tested
    <3> QED BY <1>0, <3>1, <3>2, <3>3 DEF Probed
  <2> QED BY <2>1, <2>2
<1>2. CheckFrame(h) /\ reqs'[h] = s
  BY <1>1, CheckFrameFacts
<1>3. Probed(reqs[h])'
  <2>1. Whole' = Whole /\ files' = files
    BY <1>0 DEF Whole
  <2> QED BY <1>1, <1>2, <2>1, FreeFacts DEF Probed, Same
<1> QED BY <1>0, <1>2, <1>3, ChecksMove

LEMMA EndChecks ==
    ASSUME Base, Checks, NEW h \in Handlers, CheckEnd(h)
    PROVE  Checks'
<1>0. /\ reqs[h] \in Request /\ UNCHANGED <<files, missing>> /\ reqs[h].at = "probing"
      /\ Become(h, Free) /\ files \in [Engines -> File]
  BY DEF Base, TypeOK, CheckEnd
<1>1. CheckFrame(h) /\ Probed(reqs[h])'
  BY <1>0, FreeProbed
<1>2. ~Pending(h)
  BY <1>0 DEF Pending
<1>3. CASE stamp' \in {stamp, NoStamp, Stale}
  BY <1>0, <1>1, <1>2, <1>3, ChecksMove
<1>4. CASE stamp' \notin {stamp, NoStamp, Stale}
  <2>1. stamp' = StampOf(reqs[h]) /\ reqs[h].clean
    BY <1>4, ClearStampFacts DEF CheckEnd
  <2>2. Whole /\ reqs[h].fp = Fingerprint(Merge(files)) /\ Same(reqs[h].tested)
    BY <1>0, <2>1 DEF Checks, Probed
  <2>3. reqs[h].fp[1] = Merge(files).conn
    BY <1>0, <2>2, MergeType, FingerprintType
  <2>4. \A e \in Engines : files[e].conn = reqs[h].fp[1]
    BY <1>0, <2>2, <2>3, MergeAgreed DEF Whole
  <2>5. stamp'.fp = reqs[h].fp /\ stamp'.tested = reqs[h].tested
    BY <2>1 DEF StampOf
  <2>6. Stamped'
    BY <1>0, <2>2, <2>4, <2>5 DEF Stamped, Whole, Same
  <2> QED BY <1>0, <1>1, <2>6, ProbedSame DEF Checks
<1> QED BY <1>3, <1>4

(* A save under which the fingerprint stayed: the files agreed, so they do   *)
(* still, and on the connection that the stamp is for.                       *)
LEMMA SavedStamp ==
    ASSUME Base, Checks, NEW h \in Handlers, ~Pending(h), NEW b \in Asked,
           NEW old \in Bootstrapped(missing),
           files' = Updated(old, b), missing' = {}, NEW s \in Request, BecomeWriter(h, s),
           stamp' \in {stamp, NoStamp, Stale},
           b.key = Keep \/ Pending(h)'
    PROVE  Stamped'
<1> SUFFICES ASSUME stamp' = stamp, stamp \notin {NoStamp, Stale} PROVE Stamped'
  BY DEF Stamped
<1>0. files \in [Engines -> File]
  BY DEF Base, TypeOK
<1>1. Stamped /\ Whole
  BY DEF Checks, Stamped
<1>2. old = files
  BY <1>0, <1>1, BootNothing DEF Whole
<1>3. Agree(files')
  BY <1>1, <1>2 DEF Whole, Agree, Updated, Update, Engines
<1>4. ASSUME Quiet' PROVE Quiet /\ \A e \in Engines : files'[e].key = files[e].key
  <2>1. b.key = Keep
    BY <1>4 DEF Quiet
  <2>2. \A e \in Engines : files'[e].key = files[e].key
    BY <1>2, <2>1 DEF Updated, Update
  <2>3. Others(h)
    BY FrameFacts
  <2>4. Quiet
    BY <1>4, <2>3 DEF Quiet, Pending, Others, Frame
  <2> QED BY <2>2, <2>4
<1> QED BY <1>1, <1>3, <1>4 DEF Stamped, Whole, Quiet

LEMMA PutChecks ==
    ASSUME Base, Checks, NEW h \in Handlers, PutWrite(h)
    PROVE  Checks'
<1>0. reqs[h] \in Request /\ reqs[h].user \in Users /\ reqs[h].at = "put"
  BY DEF Base, TypeOK, Named, PutWrite
<1>1. PICK b \in Allowed(reqs[h]), old \in Bootstrapped(missing) :
          WriteConfig(h, old, Updated(old, b), AfterWrite(reqs[h], b, Updated(old, b)))
  BY DEF PutWrite
<1> DEFINE new == Updated(old, b)
           s   == AfterWrite(reqs[h], b, new)
<1>2. files' = new /\ missing' = {} /\ BecomeWriter(h, s) /\ stamp' \in {stamp, NoStamp, Stale}
  BY <1>1, ClearStampFacts DEF WriteConfig
<1>3. /\ s \in Request
      /\ \/ b.key \notin {Keep, Clear} /\ s = Written(reqs[h], "set_owner")
         \/ b.key = Clear /\ s = Written(reqs[h], "clear_owner")
         \/ b.key = Keep /\ s = Written(reqs[h], "drop_owner")
         \/ b.key = Keep /\ s = Free
  BY <1>0, AfterWriteFacts
<1>4. b \in Asked
  BY <1>0, AllowedFacts
<1> HIDE DEF s, new
<1>5. /\ s.at \in {"set_owner", "clear_owner", "drop_owner", "free"}
      /\ b.key # Keep => s.at \in {"set_owner", "clear_owner"}
  <2>1. \A at \in {"set_owner", "clear_owner", "drop_owner"} : Written(reqs[h], at).at = at
    BY <1>0, WrittenFacts DEF Awaits
  <2> QED BY <1>3, <2>1, FreeFacts
<1>6. reqs'[h] = s
  BY <1>2, <1>3, BecomeWriterFacts DEF Base, TypeOK
<1>7. b.key = Keep \/ Pending(h)'
  BY <1>5, <1>6 DEF Pending
<1>8. ~Pending(h)
  BY <1>0 DEF Pending
<1>9. Stamped'
  BY <1>2, <1>3, <1>4, <1>7, <1>8, SavedStamp DEF new
<1>10. \A o \in Handlers : Probed(reqs[o])'
  BY <1>2, <1>3, <1>5, ProbedCrossed
<1> QED BY <1>9, <1>10 DEF Checks

LEMMA DeleteKeyChecks ==
    ASSUME Base, Checks, NEW h \in Handlers, DeleteKey(h)
    PROVE  Checks'
<1>0. reqs[h] \in Request /\ reqs[h].at = "delete" /\ ~Pending(h)
  BY DEF Base, TypeOK, DeleteKey, Pending
<1>1. CASE reqs[h].owns
  <2>1. PICK old \in Bootstrapped(missing) :
           WriteConfig(h, old, Updated(old, ClearKey), Written(reqs[h], "del_owner"))
    BY <1>1 DEF DeleteKey
  <2> DEFINE s == Written(reqs[h], "del_owner")
  <2>2. /\ files' = Updated(old, ClearKey) /\ missing' = {} /\ BecomeWriter(h, s)
        /\ stamp' \in {stamp, NoStamp, Stale}
    BY <2>1, ClearStampFacts DEF WriteConfig
  <2>3. s \in Request /\ s.at = "del_owner"
    BY <1>0, MoveType, WrittenFacts DEF Awaits
  <2>4. ClearKey \in Asked
    BY DEF Asked
  <2> HIDE DEF s
  <2>5. reqs'[h] = s
    BY <2>2, <2>3, BecomeWriterFacts DEF Base, TypeOK
  <2>6. Pending(h)'
    BY <2>3, <2>5 DEF Pending
  <2>7. Stamped'
    BY <1>0, <2>2, <2>3, <2>4, <2>6, SavedStamp
  <2>8. \A o \in Handlers : Probed(reqs[o])'
    BY <2>2, <2>3, ProbedCrossed
  <2> QED BY <2>7, <2>8 DEF Checks
<1>2. CASE ~reqs[h].owns
  <2>1. Become(h, [reqs[h] EXCEPT !.at = "del_user"]) /\ UNCHANGED <<files, missing, stamp>>
    BY <1>2 DEF DeleteKey, MoveTo
  <2>2. /\ [reqs[h] EXCEPT !.at = "del_user"] \in Request
        /\ [reqs[h] EXCEPT !.at = "del_user"].at = "del_user"
    BY <1>0 DEF Request, Awaits
  <2>3. CheckFrame(h) /\ reqs'[h].at = "del_user"
    BY <2>1, <2>2, CheckFrameFacts
  <2>4. Probed(reqs[h])'
    BY <2>3 DEF Probed
  <2> QED BY <1>0, <2>1, <2>3, <2>4, ChecksMove
<1> QED BY <1>1, <1>2

LEMMA RowChecks ==
    ASSUME Base, Checks, NEW h \in Handlers,
           SetOwner(h) \/ ClearOwner(h) \/ OwnerFails(h) \/ PutClear(h) \/ DeleteClear(h)
              \/ DeleteUser(h)
    PROVE  Checks'
<1>0. reqs[h] \in Request /\ UNCHANGED <<files, missing>> /\ stamp' \in {stamp, NoStamp, Stale}
  BY SoiledFacts, ClearStampFacts
     DEF Base, TypeOK, SetOwner, ClearOwner, OwnerFails, PutClear, DeleteClear, DeleteUser
<1>1. PICK at \in {"put_clear", "del_stamp", "del_user"} :
          \/ Become(h, Free)
             /\ (stamp' \in {NoStamp, Stale} \/ reqs[h].at \in {"drop_owner", "del_user"})
          \/ Become(h, [reqs[h] EXCEPT !.at = at])
             /\ (stamp' \in {NoStamp, Stale} \/ at \in {"put_clear", "del_stamp"})
  BY SoiledFacts, ClearStampFacts
     DEF SetOwner, ClearOwner, OwnerFails, PutClear, DeleteClear, DeleteUser, NextAwait, MoveTo
<1>2. CASE Become(h, Free)
           /\ (stamp' \in {NoStamp, Stale} \/ reqs[h].at \in {"drop_owner", "del_user"})
  <2>1. CheckFrame(h) /\ Probed(reqs[h])'
    BY <1>2, FreeProbed
  <2>2. CASE stamp' \in {NoStamp, Stale}
    <3>1. \A o \in Handlers : Probed(reqs[o])'
      BY <1>0, <2>1, ProbedSame
    <3> QED BY <2>2, <3>1, NoStampStamped DEF Checks
  <2>3. CASE reqs[h].at \in {"drop_owner", "del_user"}
    BY <1>0, <2>1, <2>3, ChecksMove DEF Pending
  <2> QED BY <1>2, <2>2, <2>3
<1>3. CASE Become(h, [reqs[h] EXCEPT !.at = at])
           /\ (stamp' \in {NoStamp, Stale} \/ at \in {"put_clear", "del_stamp"})
  <2>0. at \in Awaits
    BY DEF Awaits
  <2>1. [reqs[h] EXCEPT !.at = at] \in Request /\ [reqs[h] EXCEPT !.at = at].at = at
    BY <1>0, <2>0 DEF Request
  <2>2. CheckFrame(h) /\ reqs'[h].at = at
    BY <1>3, <2>1, CheckFrameFacts
  <2>3. Probed(reqs[h])'
    BY <2>2 DEF Probed
  <2>4. CASE stamp' \in {NoStamp, Stale}
    <3>1. \A o \in Handlers : Probed(reqs[o])'
      BY <1>0, <2>2, <2>3, ProbedSame
    <3> QED BY <2>4, <3>1, NoStampStamped DEF Checks
  <2>5. CASE at \in {"put_clear", "del_stamp"}
    <3>1. Pending(h)'
      BY <2>2, <2>5 DEF Pending
    <3> QED BY <1>0, <2>2, <2>3, <3>1, ChecksMove
  <2> QED BY <1>3, <2>4, <2>5
<1> QED BY <1>1, <1>2, <1>3

LEMMA GateChecks ==
    ASSUME Base, Checks, NEW h \in Handlers,
           QuestionFails(h) \/ PutForbidden(h) \/ ProbeRaises(h) \/ Gate(h) \/ BackendReads(h)
    PROVE  Checks'
<1>0. reqs[h] \in Request /\ UNCHANGED <<files, missing, stamp>> /\ ~Pending(h)
  BY DEF Base, TypeOK, QuestionFails, PutForbidden, ProbeRaises, Gate, BackendReads, Pending,
         Answered
<1>1. CASE Become(h, Free)
  BY <1>0, <1>1, FreeProbed, ChecksMove
<1>2. CASE Become(h, [reqs[h] EXCEPT !.at = "queued", !.owns = FALSE])
  <2>1. /\ [reqs[h] EXCEPT !.at = "queued", !.owns = FALSE] \in Request
        /\ [reqs[h] EXCEPT !.at = "queued", !.owns = FALSE].at = "queued"
    BY <1>0 DEF Request, Awaits
  <2>2. CheckFrame(h) /\ reqs'[h].at = "queued"
    BY <1>2, <2>1, CheckFrameFacts
  <2> QED BY <1>0, <2>2, ChecksMove DEF Probed
<1> QED BY <1>1, <1>2 DEF QuestionFails, PutForbidden, ProbeRaises, Gate, BackendReads

LEMMA StartChecks ==
    ASSUME Base, Tidy, Checks,
           \/ Crash \/ StartAdopt \/ StartClear \/ \E h \in Handlers : CrashInWrite(h)
    PROVE  Checks'
<1>1. \A h \in Handlers : reqs'[h] = Free
  BY DieType DEF Crash, CrashInWrite, StartAdopt, StartClear, Tidy, Idle, Base
<1>2. \A h \in Handlers : Probed(reqs[h])'
  BY <1>1, FreeFacts DEF Probed
<1>3. Stamped'
  <2>1. CASE StartClear \/ \E h \in Handlers : CrashInWrite(h)
    BY <2>1, ClearStampFacts, TearType, NoStampStamped DEF StartClear, CrashInWrite
  <2>2. CASE StartAdopt
    <3>1. \A h \in Handlers : reqs'[h] = reqs[h]
      BY <2>2 DEF StartAdopt
    <3> QED BY <2>2, <3>1, StampedSame DEF StartAdopt, Checks, Quiet, Pending
  <2>3. CASE Crash /\ \E h \in Handlers : Writing(h)
    BY <2>3, SoiledFacts, NoStampStamped DEF Crash
  <2>4. CASE Crash /\ \A h \in Handlers : ~Writing(h)
    <3>1. Quiet
      BY <2>4 DEF Quiet, Pending, Writing, Reading
    <3> QED BY <2>4, <3>1, StampedSame DEF Crash, Checks
  <2> QED BY <2>1, <2>2, <2>3, <2>4
<1> QED BY <1>2, <1>3 DEF Checks

LEMMA ChecksKept == ASSUME Base, Tidy, Checks, [Next]_llmVars PROVE Checks'
<1>1. ASSUME NEW h \in Handlers, WriteFails(h) PROVE Checks'
  <2>1. stamp' \in {NoStamp, Stale} /\ BecomeWriter(h, Free)
    BY <1>1, TearType DEF WriteFails
  <2>2. \A o \in Handlers : Probed(reqs[o])'
    BY <2>1, FreeType, FreeFacts, ProbedCrossed
  <2> QED BY <2>1, <2>2, NoStampStamped DEF Checks
<1>2. CASE (\E u \in Users : Signup(u)) \/ UNCHANGED llmVars
  <2>1. UNCHANGED <<files, missing, stamp, reqs>>
    BY <1>2 DEF Signup, llmVars
  <2>2. Quiet' => Quiet
    BY <2>1 DEF Quiet, Pending
  <2>3. \A h \in Handlers : Probed(reqs[h])'
    BY <2>1 DEF Checks, Probed, Whole, Same
  <2> QED BY <2>1, <2>2, <2>3, StampedSame DEF Checks
<1> QED BY <1>1, <1>2, BeginChecks, AskChecks, ProbeChecks, EndChecks, PutChecks, DeleteKeyChecks,
           RowChecks, GateChecks, StartChecks
        DEF Next, Serve

-----------------------------------------------------------------------------
(* The invariant, and what it gives *)

LEMMA InitInv == ASSUME Init PROVE LlmInv
<1>0. /\ reqs = [h \in Handlers |-> Free] /\ owner = NoUser /\ heir = NoUser /\ stamp = NoStamp
      /\ apart = FALSE /\ missing \subseteq Engines /\ files \in [Engines -> Old]
      /\ \A e \in missing : files[e] = Blank
  BY DEF Init
<1>1. Old \subseteq File /\ \A f \in Old : f.key # NoKey => f.key.saver = NoUser
  BY DEF Old, File, Key
<1>2. files \in [Engines -> File]
  BY <1>0, <1>1
<1>3. TypeOK
  BY <1>0, <1>2, FreeType DEF Init, TypeOK
<1>4. \A h \in Handlers : reqs[h] = Free
  BY <1>0
<1>5. \A h \in Handlers : ~Writing(h)
  BY <1>4, WritingFacts
<1>6. Named /\ Idle /\ Blanks
  BY <1>0, <1>4, FreeFacts DEF Named, Idle, Blanks
<1>7. Good
  BY <1>0, <1>1 DEF Good, Holder
<1>8. Lone /\ LeftOK /\ RestOK
  BY <1>5, <1>7 DEF Lone, LeftOK, RestOK
<1>9. Runs
  BY <1>4, FreeFacts DEF Runs, RunOK, Unstarted
<1>10. Checks
  BY <1>0, <1>4, FreeFacts DEF Checks, Stamped, Probed
<1> QED BY <1>3, <1>6, <1>8, <1>9, <1>10 DEF LlmInv

LEMMA StepInv == ASSUME LlmInv, [Next]_llmVars PROVE LlmInv'
<1>1. Base /\ Tidy /\ Writers /\ Runs /\ Checks
  BY DEF LlmInv, Base, Tidy, Writers
<1>2. Base' /\ Tidy' /\ Writers' /\ Runs' /\ Checks'
  BY <1>1, BaseKept, TidyKept, WritersKept, RunsKept, ChecksKept
<1> QED BY <1>2 DEF LlmInv, Base, Tidy, Writers

(* The inductive invariant holds: what a lone writer has left at each of its *)
(* awaits, what a run may rely on while no writer comes to its write, and    *)
(* what a check has tested of files that agree and that nobody wrote since.  *)
THEOREM LlmHolds == Spec => []LlmInv
BY InitInv, StepInv, PTL DEF Spec

(* Requests, rows and files stay within their types; the owner is a user.    *)
THEOREM LlmTypes == Spec => []TypeOK
<1>1. LlmInv => TypeOK
  BY DEF LlmInv
<1> QED BY <1>1, LlmHolds, PTL

(* Between requests file and row agree, if nothing has left them apart. *)
LEMMA SettledGood == ASSUME LlmInv, Settled, ~apart PROVE Good
BY DEF LlmInv, RestOK, Settled, Peace

(* Between requests the row names the user who pasted the stored key or, for *)
(* one from before the row, adopted it; no key, no owner.                    *)
THEOREM OwnersSaved == Spec => []OwnerSavedKey
<1>1. LlmInv => OwnerSavedKey
  <2> SUFFICES ASSUME LlmInv, Settled, ~apart
               PROVE  owner = IF Merge(files).key = NoKey THEN NoUser ELSE Holder(Merge(files).key)
    BY DEF OwnerSavedKey
  <2>1. Good
    BY SettledGood
  <2>2. Merge(files).key = IF files["js"].key # NoKey THEN files["js"].key ELSE files["py"].key
    BY DEF Merge
  <2> QED BY <2>1, <2>2 DEF Good, Keyless, Engines
<1> QED BY <1>1, LlmHolds, PTL

(* Between requests no file holds a key of an account that is gone, neither  *)
(* one it pasted nor one it adopted.                                         *)
THEOREM DeletedKeysGone == Spec => []DeletedKeyGone
<1>1. LlmInv => DeletedKeyGone
  BY SettledGood DEF DeletedKeyGone, Good, LlmInv, TypeOK
<1> QED BY <1>1, LlmHolds, PTL

(* A connection shown as verified passed its probes with all that each file  *)
(* probed says now: the fingerprint stands for the connection, since the     *)
(* files agree, and the stamp goes with the key it was given for.            *)
THEOREM VerifiedTested == Spec => []VerifiedWasTested
<1>1. LlmInv => VerifiedWasTested
  <2> SUFFICES ASSUME LlmInv, NEW u \in Users, Verified(u), Quiet,
                      NEW e \in Engines, stamp.tested[e] # Untested
               PROVE  stamp.tested[e] = files[e]
    BY DEF VerifiedWasTested, Quiet
  <2> DEFINE f == stamp.tested[e]
  <2>1. files \in [Engines -> File] /\ stamp \in Stamps
    BY DEF LlmInv, TypeOK, Verified
  <2>2. f \in File /\ files[e] \in File
    BY <2>1 DEF Stamps, Tested
  <2>3. Whole /\ f.conn = stamp.fp[1] /\ f.key = files[e].key
    BY DEF LlmInv, Checks, Stamped, Verified, Quiet
  <2>4. stamp.fp[1] = Merge(files).conn
    BY <2>1, MergeType, FingerprintType DEF Verified
  <2>5. files[e].conn = Merge(files).conn
    BY <2>1, <2>3, MergeAgreed DEF Whole
  <2> HIDE DEF f
  <2>6. f = files[e]
    BY <2>2, <2>3, <2>4, <2>5 DEF File
  <2> QED BY <2>6 DEF f
<1> QED BY <1>1, LlmHolds, PTL

(* A run that was let use the LLM finds no key but its user's own, if no     *)
(* writer came to its write between upload and backend: the row is as the    *)
(* gate read it, and names the holder of every key there is.                 *)
THEOREM RunsOwnKey == Spec => RunUsesOwnKey
<1> DEFINE Uses ==
      \A h \in Handlers :
          reqs[h].at = "queued" /\ reqs'[h] = Free /\ server' = "up"
              /\ reqs[h].clean /\ ~apart =>
                  \A e \in Engines :
                      files[e].key # NoKey => Holder(files[e].key) = reqs[h].user
<1>1. LlmInv /\ [Next]_llmVars => [Uses]_llmVars
  <2> SUFFICES ASSUME LlmInv, NEW h \in Handlers, reqs[h].at = "queued", reqs[h].clean, ~apart,
                      NEW e \in Engines, files[e].key # NoKey
               PROVE  Holder(files[e].key) = reqs[h].user
    OBVIOUS
  <2>1. owner = reqs[h].user /\ \A o \in Handlers : Writing(o) => Before(reqs[o])
    BY DEF LlmInv, Runs, RunOK, Unstarted
  <2>2. Good
    <3>1. CASE \A o \in Handlers : ~Writing(o)
      BY <3>1 DEF LlmInv, RestOK, Peace
    <3>2. ASSUME NEW o \in Handlers, Writing(o) PROVE Good
      <4>1. reqs[o].at \in Unwritten
        BY <2>1, <3>2 DEF Before, Unwritten
      <4>2. reqs[o].alone
        BY <3>2 DEF LlmInv, Lone, Peace
      <4> QED BY <3>2, <4>1, <4>2 DEF LlmInv, LeftOK, Left, Peace
    <3> QED BY <3>1, <3>2
  <2> QED BY <2>1, <2>2 DEF Good
<1> QED BY <1>1, LlmHolds, PTL DEF Spec, RunUsesOwnKey

=============================================================================
