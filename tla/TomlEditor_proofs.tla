-------------------------- MODULE TomlEditor_proofs --------------------------
(***************************************************************************)
(* Theorems about TomlEditor for files of any length and values of any     *)
(* length: what the editor writes reads back.  Induction runs over sets of *)
(* numbers and of sequences, by the well-foundedness of the numbers.       *)
(***************************************************************************)
EXTENDS TomlEditor, FiniteSetTheorems, SequenceTheorems, TLAPS

-----------------------------------------------------------------------------
(* Least and greatest numbers *)

(* The least and the greatest number of a set, where there is one.           *)
LEMMA MinIs == ASSUME NEW I \in SUBSET Nat, NEW m \in I, \A i \in I : m <= i PROVE Min(I) = m
<1>1. Min(I) \in I /\ \A i \in I : Min(I) <= i
  BY DEF Min
<1>2. Min(I) \in Nat /\ m \in Nat
  BY <1>1
<1>3. m <= Min(I) /\ Min(I) <= m
  BY <1>1
<1> QED BY <1>2, <1>3

LEMMA MaxIs == ASSUME NEW I \in SUBSET Nat, NEW m \in I, \A i \in I : i <= m PROVE Max(I) = m
<1>1. Max(I) \in I /\ \A i \in I : Max(I) >= i
  BY DEF Max
<1>2. Max(I) \in Nat /\ m \in Nat
  BY <1>1
<1>3. m >= Max(I) /\ Max(I) >= m
  BY <1>1
<1> QED BY <1>2, <1>3

(* A set of numbers that is not empty has a least one.                       *)
LEMMA LeastExists == ASSUME NEW S \in SUBSET Nat, S # {} PROVE Min(S) \in S /\ \A i \in S : Min(S) <= i
<1>1. PICK m \in S : \A i \in S : ~(<<i, m>> \in OpToRel(<, Nat))
  BY WFMin, NatLessThanWellFounded
<1>2. \A i \in S : m <= i
  <2> SUFFICES ASSUME NEW i \in S, i < m PROVE FALSE
    OBVIOUS
  <2>1. <<i, m>> \in OpToRel(<, Nat)
    BY DEF OpToRel
  <2> QED BY <1>1, <2>1
<1> QED BY <1>1, <1>2, MinIs

(* A finite set of numbers that is not empty has a greatest one.             *)
LEMMA FiniteHasMax ==
  ASSUME NEW S \in SUBSET Nat, IsFiniteSet(S), S # {}
  PROVE  Max(S) \in S /\ \A i \in S : i <= Max(S)
<1> DEFINE HasMax(U) == \E m \in U : \A i \in U : i <= m
           T == {U \in FiniteSubsetsOf(S) : U # {} /\ ~HasMax(U)}
<1>1. HasMax(S)
  <2> SUFFICES ASSUME ~HasMax(S) PROVE FALSE
    OBVIOUS
  <2>1. S \in T
    BY DEF FiniteSubsetsOf
  <2>2. PICK U \in T : \A V \in T : ~(<<V, U>> \in StrictSubsetOrdering(S))
    <3> HIDE DEF T
    <3>1. T \subseteq FiniteSubsetsOf(S)
      BY DEF T
    <3> QED BY <2>1, <3>1, WFMin, FS_StrictSubsetOrderingWellFounded, Zenon
  <2>3. PICK x \in U : TRUE
    OBVIOUS
  <2> DEFINE V == U \ {x}
  <2>4. IsFiniteSet(U) /\ U \in SUBSET S
    BY DEF FiniteSubsetsOf
  <2>5. IsFiniteSet(V)
    BY <2>4, FS_RemoveElement
  <2>6. V \in FiniteSubsetsOf(S) /\ V # U
    BY <2>3, <2>4, <2>5 DEF FiniteSubsetsOf
  <2>7. <<V, U>> \in StrictSubsetOrdering(S)
    BY <2>4, <2>6, Zenon DEF StrictSubsetOrdering
  <2>8. V = {} \/ HasMax(V)
    BY <2>2, <2>6, <2>7
  <2>9. CASE V = {}
    <3>1. \A i \in U : i <= x
      BY <2>4, <2>9
    <3> QED BY <2>3, <3>1
  <2>10. CASE HasMax(V)
    <3>1. PICK m \in V : \A i \in V : i <= m
      BY <2>10
    <3>2. m \in Nat /\ x \in Nat
      BY <2>3, <2>4, <3>1
    <3>3. CASE x <= m
      <4>1. m \in U /\ \A i \in U : i <= m
        BY <3>1, <3>3
      <4> QED BY <4>1
    <3>4. CASE m <= x
      <4>1. \A i \in U : i <= x
        BY <2>4, <3>1, <3>2, <3>4
      <4> QED BY <2>3, <4>1
    <3> QED BY <3>2, <3>3, <3>4
  <2> QED BY <2>8, <2>9, <2>10
<1>2. PICK m \in S : \A i \in S : i <= m
  BY <1>1
<1> QED BY <1>2, MaxIs

(* So has every part of an interval, within it.                              *)
LEMMA MaxInInterval ==
  ASSUME NEW n \in Nat, NEW D \in SUBSET (1 .. n), D # {}
  PROVE  Max(D) \in D
<1>1. IsFiniteSet(1 .. n) /\ D \in SUBSET Nat
  BY FS_Interval
<1>2. IsFiniteSet(D)
  BY <1>1, FS_Subset
<1> QED BY <1>1, <1>2, FiniteHasMax

-----------------------------------------------------------------------------
(* Induction and folds *)

(* Induction over a set of numbers                                           *)
LEMMA NatByInduction ==
  ASSUME NEW T, 0 \in T, \A n \in Nat : n \in T => n + 1 \in T
  PROVE  \A n \in Nat : n \in T
<1> DEFINE U == Nat \ T
<1> SUFFICES ASSUME U # {} PROVE FALSE
  OBVIOUS
<1>1. PICK m \in U : \A i \in U : ~(<<i, m>> \in OpToRel(<, Nat))
  <2>1. U \subseteq Nat
    OBVIOUS
  <2> HIDE DEF U
  <2> QED BY <2>1, WFMin, NatLessThanWellFounded
<1>2. m \in Nat \ {0} /\ m - 1 \in Nat /\ m - 1 < m /\ (m - 1) + 1 = m
  OBVIOUS
<1>3. m - 1 \in U
  BY <1>2
<1>4. <<m - 1, m>> \in OpToRel(<, Nat)
  BY <1>2 DEF OpToRel
<1> QED BY <1>1, <1>3, <1>4

(* What holds of the empty sequence, and of a sequence with one more element *)
(* when it holds of the sequence, holds of all.                              *)
LEMMA SeqByInduction ==
  ASSUME NEW S, NEW T, <<>> \in T, \A s \in Seq(S), x \in S : s \in T => Append(s, x) \in T
  PROVE  \A s \in Seq(S) : s \in T
<1> DEFINE N == {n \in Nat : \A s \in Seq(S) : Len(s) = n => s \in T}
<1>1. 0 \in N
  BY EmptySeq
<1>2. ASSUME NEW n \in Nat, n \in N PROVE n + 1 \in N
  <2> SUFFICES ASSUME NEW s \in Seq(S), Len(s) = n + 1 PROVE s \in T
    OBVIOUS
  <2> DEFINE front == SubSeq(s, 1, n)
  <2>1. front \in Seq(S) /\ Len(front) = n /\ s[n + 1] \in S /\ s = Append(front, s[n + 1])
    OBVIOUS
  <2>2. front \in T
    BY <1>2, <2>1
  <2> QED BY <2>1, <2>2
<1>3. \A n \in Nat : n \in N
  <2> HIDE DEF N
  <2> QED BY <1>1, <1>2, NatByInduction
<1> QED BY <1>3, LenProperties

(* Functions that compute one step of a fold over n elements                 *)
Steps(S, n) == [S \X (1 .. n) -> S]

(* Solutions of the recursion by which a left fold over k elements is        *)
(* defined, and the values that it runs through.                             *)
Solutions(S, base, k, F) ==
    {g \in [SUBSET (1 .. k) -> S] :
        \A D \in SUBSET (1 .. k) : g[D] = IF D = {} THEN base ELSE F[<<g[D \ {Max(D)}], Max(D)>>]}

Runs(S, base, n, F) ==
    {p \in [0 .. n -> S] : p[0] = base /\ \A k \in 1 .. n : p[k] = F[<<p[k - 1], k>>]}

(* A left fold has a value: its recursion has a solution.                    *)
LEMMA FoldExists ==
  ASSUME NEW S, NEW base \in S, NEW n \in Nat, NEW F \in Steps(S, n)
  PROVE  Solutions(S, base, n, F) # {}
<1> DEFINE N == {k \in Nat : k <= n => Solutions(S, base, k, F) # {}}
<1> F \in [S \X (1 .. n) -> S]
  BY DEF Steps
<1>1. 0 \in N
  <2> DEFINE g == [D \in SUBSET (1 .. 0) |-> base]
  <2>1. SUBSET (1 .. 0) = {{}}
    OBVIOUS
  <2>2. g \in Solutions(S, base, 0, F)
    BY <2>1 DEF Solutions
  <2> QED BY <2>2
<1>2. ASSUME NEW k \in Nat, k \in N PROVE k + 1 \in N
  <2> SUFFICES ASSUME k + 1 <= n PROVE Solutions(S, base, k + 1, F) # {}
    OBVIOUS
  <2>1. PICK h \in Solutions(S, base, k, F) : TRUE
    BY <1>2
  <2> DEFINE g == [D \in SUBSET (1 .. k + 1) |->
                      IF k + 1 \in D THEN F[<<h[D \ {k + 1}], k + 1>>] ELSE h[D]]
  <2> h \in [SUBSET (1 .. k) -> S]
    BY DEF Solutions
  <2>2. ASSUME NEW D \in SUBSET (1 .. k + 1)
        PROVE  /\ k + 1 \notin D => D \in SUBSET (1 .. k)
               /\ D \ {k + 1} \in SUBSET (1 .. k)
    OBVIOUS
  <2>3. g \in [SUBSET (1 .. k + 1) -> S]
    <3> SUFFICES ASSUME NEW D \in SUBSET (1 .. k + 1)
                 PROVE  (IF k + 1 \in D THEN F[<<h[D \ {k + 1}], k + 1>>] ELSE h[D]) \in S
      OBVIOUS
    <3>1. CASE k + 1 \in D
      <4>1. h[D \ {k + 1}] \in S /\ k + 1 \in 1 .. n
        BY <2>2
      <4>2. <<h[D \ {k + 1}], k + 1>> \in S \X (1 .. n)
        BY <4>1
      <4> QED BY <3>1, <4>2
    <3>2. CASE k + 1 \notin D
      BY <2>2, <3>2
    <3> QED BY <3>1, <3>2
  <2>4. ASSUME NEW D \in SUBSET (1 .. k + 1)
        PROVE  g[D] = IF D = {} THEN base ELSE F[<<g[D \ {Max(D)}], Max(D)>>]
    <3>1. CASE k + 1 \in D
      <4>1. Max(D) = k + 1
        <5>1. D \in SUBSET Nat /\ \A i \in D : i <= k + 1
          OBVIOUS
        <5> QED BY <3>1, <5>1, MaxIs
      <4>2. g[D] = F[<<h[D \ {k + 1}], k + 1>>]
        BY <3>1
      <4>3. D \ {k + 1} \in SUBSET (1 .. k + 1) /\ k + 1 \notin D \ {k + 1}
        OBVIOUS
      <4>4. g[D \ {k + 1}] = h[D \ {k + 1}]
        BY <4>3
      <4> HIDE DEF g
      <4> QED BY <3>1, <4>1, <4>2, <4>4
    <3>2. CASE k + 1 \notin D
      <4>1. g[D] = h[D] /\ D \in SUBSET (1 .. k)
        BY <2>2, <3>2
      <4>2. CASE D = {}
        BY <2>1, <4>1, <4>2 DEF Solutions
      <4>3. CASE D # {}
        <5>1. h[D] = F[<<h[D \ {Max(D)}], Max(D)>>]
          BY <2>1, <4>1, <4>3 DEF Solutions
        <5>2. D \ {Max(D)} \in SUBSET (1 .. k + 1) /\ k + 1 \notin D \ {Max(D)}
          BY <3>2
        <5>3. g[D \ {Max(D)}] = h[D \ {Max(D)}]
          BY <5>2
        <5> HIDE DEF g
        <5> QED BY <4>1, <4>3, <5>1, <5>3
      <4> QED BY <4>2, <4>3
    <3> QED BY <3>1, <3>2
  <2>5. g \in Solutions(S, base, k + 1, F)
    <3> HIDE DEF g
    <3> QED BY <2>3, <2>4 DEF Solutions
  <2> HIDE DEF g
  <2> QED BY <2>5
<1>3. \A k \in Nat : k \in N
  <2> HIDE DEF N
  <2> QED BY <1>1, <1>2, NatByInduction
<1> QED BY <1>3

(* A value that follows the recursion as far as it has the right type        *)
Unrolls(S, base, n, F, g) ==
    /\ g[{}] = base
    /\ \A k \in 1 .. n : g[1 .. k - 1] \in S => g[1 .. k] = F[<<g[1 .. k - 1], k>>]

(* It runs through the values of the fold on the first k elements.           *)
LEMMA FoldSteps ==
  ASSUME NEW S, NEW base \in S, NEW n \in Nat, NEW F \in Steps(S, n), NEW g,
         Unrolls(S, base, n, F, g)
  PROVE  \E p \in Runs(S, base, n, F) : p[n] = g[1 .. n]
<1> DEFINE p == [k \in 0 .. n |-> g[1 .. k]]
           N == {k \in Nat : k <= n => g[1 .. k] \in S}
<1> USE DEF Unrolls
<1> F \in [S \X (1 .. n) -> S]
  BY DEF Steps
<1>1. 1 .. 0 = {}
  OBVIOUS
<1>2. 0 \in N
  BY <1>1
<1>3. ASSUME NEW k \in Nat, k \in N PROVE k + 1 \in N
  <2> SUFFICES ASSUME k + 1 <= n PROVE g[1 .. k + 1] \in S
    OBVIOUS
  <2>1. g[1 .. (k + 1) - 1] \in S /\ k + 1 \in 1 .. n
    BY <1>3
  <2>2. g[1 .. k + 1] = F[<<g[1 .. (k + 1) - 1], k + 1>>]
    BY <2>1
  <2>3. <<g[1 .. (k + 1) - 1], k + 1>> \in S \X (1 .. n)
    BY <2>1
  <2> QED BY <2>2, <2>3
<1>4. \A k \in Nat : k \in N
  <2> HIDE DEF N
  <2> QED BY <1>2, <1>3, NatByInduction
<1>5. p \in [0 .. n -> S] /\ p[0] = base /\ p[n] = g[1 .. n]
  BY <1>1, <1>4
<1>6. ASSUME NEW k \in 1 .. n PROVE p[k] = F[<<p[k - 1], k>>]
  <2>1. p[k] = g[1 .. k] /\ p[k - 1] = g[1 .. k - 1] /\ g[1 .. k - 1] \in S
    BY <1>5
  <2> HIDE DEF p
  <2> QED BY <2>1
<1>7. p \in Runs(S, base, n, F)
  <2> HIDE DEF p
  <2> QED BY <1>5, <1>6 DEF Runs
<1> HIDE DEF p
<1> QED BY <1>5, <1>7

Agree(S, n, F, G) == \A x \in S \X (1 .. n) : F[x] = G[x]

(* Two runs that take the same first n steps reach the same value, ...       *)
LEMMA RunsAgree ==
  ASSUME NEW S, NEW base, NEW n \in Nat, NEW m \in Nat, n <= m, NEW F, NEW G,
         NEW p \in Runs(S, base, n, F), NEW q \in Runs(S, base, m, G),
         Agree(S, n, F, G)
  PROVE  p[n] = q[n] /\ q[n] \in S
<1> DEFINE N == {k \in Nat : k <= n => p[k] = q[k]}
<1>1. /\ p \in [0 .. n -> S] /\ p[0] = base /\ \A k \in 1 .. n : p[k] = F[<<p[k - 1], k>>]
      /\ q \in [0 .. m -> S] /\ q[0] = base /\ \A k \in 1 .. m : q[k] = G[<<q[k - 1], k>>]
  BY DEF Runs
<1>2. 0 \in N
  BY <1>1
<1>3. ASSUME NEW k \in Nat, k \in N PROVE k + 1 \in N
  <2> SUFFICES ASSUME k + 1 <= n PROVE p[k + 1] = q[k + 1]
    OBVIOUS
  <2>1. k + 1 \in 1 .. n /\ k + 1 \in 1 .. m /\ (k + 1) - 1 = k /\ p[k] = q[k] /\ p[k] \in S
    BY <1>1, <1>3
  <2>2. p[k + 1] = F[<<p[k], k + 1>>] /\ q[k + 1] = G[<<q[k], k + 1>>]
    BY <1>1, <2>1
  <2>3. <<p[k], k + 1>> \in S \X (1 .. n)
    BY <2>1
  <2> QED BY <2>1, <2>2, <2>3 DEF Agree
<1>4. \A k \in Nat : k \in N
  <2> HIDE DEF N
  <2> QED BY <1>2, <1>3, NatByInduction
<1> QED BY <1>1, <1>4

(* ... and one step more computes the value of a longer run.                 *)
LEMMA RunsAppend ==
  ASSUME NEW S, NEW base, NEW n \in Nat, NEW m \in Nat, n < m, m <= n + 1, NEW F, NEW G,
         NEW p \in Runs(S, base, n, F), NEW q \in Runs(S, base, m, G),
         Agree(S, n, F, G)
  PROVE  p[n] \in S /\ q[m] = G[<<p[n], m>>]
<1>1. p[n] = q[n] /\ p[n] \in S
  <2>1. m \in Nat /\ n <= m
    OBVIOUS
  <2>2. p[n] = q[n] /\ q[n] \in S
    BY <2>1, RunsAgree
  <2> QED BY <2>2
<1>2. q[m] = G[<<q[m - 1], m>>] /\ m - 1 = n
  BY DEF Runs
<1> QED BY <1>1, <1>2

(* The first k numbers, their greatest, and those before it                  *)
LEMMA Prefix ==
  ASSUME NEW n \in Nat, NEW k \in 1 .. n
  PROVE  Max(1 .. k) = k /\ (1 .. k) \ {k} = 1 .. k - 1 /\ 1 .. k \in SUBSET (1 .. n) /\ 1 .. k # {}
<1>1. 1 .. k \in SUBSET Nat /\ k \in 1 .. k /\ \A i \in 1 .. k : i <= k
  OBVIOUS
<1> QED BY <1>1, MaxIs

-----------------------------------------------------------------------------
(* Reading line by line *)

Values == {Absent} \cup {Value(raw) : raw \in Seq(Chars)} \cup {TextValue(t) : t \in Seq(TomlLines)}

ReadStates ==
    [top: [Keys -> Values], delim: {"none", "basic", "literal"}, key: Keys \cup {NoKey},
     text: Seq(TomlLines), rest: Seq(TomlLines), bad: BOOLEAN]

ReadStep(lines) == [x \in ReadStates \X (1 .. Len(lines)) |-> ReadLine(x[1], lines[x[2]])]

(* What the parts of a line are                                              *)
LEMMA LineTypes ==
  ASSUME NEW line \in TomlLines
  PROVE  /\ line.key \in Keys \cup {NoKey} /\ line.raw \in Seq(Chars) /\ line.count \in Nat
         /\ line.delim \in {"none", "basic", "literal"}
         /\ line.head \in {"none", "section", "noted", "array"}
         /\ line.count > 0 => line.delim # "none" /\ line.head = "none"
         /\ line.head # "none" => line.key = NoKey
<1>1. CASE line \in {Header(head) : head \in {"section", "noted", "array"}}
  <2>1. PICK head \in {"section", "noted", "array"} : line = Header(head)
    BY <1>1
  <2>2. line = [key |-> NoKey, raw |-> <<>>, delim |-> "none", count |-> 0, head |-> head]
    BY <2>1 DEF Header, Line
  <2>3. line.raw = <<>> /\ <<>> \in Seq(Chars)
    BY <2>2
  <2> QED BY <2>2, <2>3
<1>2. CASE line \notin {Header(head) : head \in {"section", "noted", "array"}}
  BY <1>2 DEF TomlLines
<1> QED BY <1>1, <1>2

(* What the parts of a state of reading are                                  *)
LEMMA ReadStateTypes ==
  ASSUME NEW s \in ReadStates
  PROVE  /\ s.top \in [Keys -> Values] /\ s.delim \in {"none", "basic", "literal"}
         /\ s.key \in Keys \cup {NoKey} /\ s.text \in Seq(TomlLines) /\ s.rest \in Seq(TomlLines)
         /\ s.bad \in BOOLEAN
  BY DEF ReadStates

(* A state with other parts of the right types is one, too.                  *)
LEMMA StateMade ==
  ASSUME NEW top \in [Keys -> Values], NEW delim \in {"none", "basic", "literal"},
         NEW key \in Keys \cup {NoKey}, NEW text \in Seq(TomlLines), NEW rest \in Seq(TomlLines),
         NEW bad \in BOOLEAN
  PROVE  [top |-> top, delim |-> delim, key |-> key, text |-> text, rest |-> rest, bad |-> bad] \in ReadStates
  BY DEF ReadStates


(* What one line does to the state of the reader, case by case               *)
Behind(s, line) == IF s.rest = <<>> \/ line = Blank THEN s.rest ELSE Append(s.rest, line)

Assigned(s, line, key, v) ==
    IF s.rest # <<>> \/ key = NoKey THEN [s EXCEPT !.rest = Behind(s, line)]
    ELSE [s EXCEPT !.top[key] = v, !.bad = @ \/ s.top[key] # Absent]

(* ReadLine by its cases                                                     *)
LEMMA ReadLineIs ==
  ASSUME NEW s \in ReadStates, NEW line \in TomlLines
  PROVE  /\ s.delim # "none" /\ line.count > 0 /\ line.delim = s.delim =>
              ReadLine(s, line) =
                 [Assigned(s, line, s.key, TextValue(Append(s.text, line))) EXCEPT
                            !.delim = "none", !.bad = @ \/ line.count > 1]
         /\ s.delim # "none" /\ ~(line.count > 0 /\ line.delim = s.delim) =>
              ReadLine(s, line) = [s EXCEPT !.text = Append(@, line), !.rest = Behind(s, line)]
         /\ s.delim = "none" /\ line.head # "none" =>
              ReadLine(s, line) = [s EXCEPT !.rest = Append(@, line)]
         /\ s.delim = "none" /\ line.head = "none" /\ line.count = 1 =>
              ReadLine(s, line) =
                 [s EXCEPT !.delim = line.delim, !.key = line.key, !.text = <<line>>,
                           !.rest = Behind(s, line), !.bad = @ \/ line.key = NoKey]
         /\ s.delim = "none" /\ line.head = "none" /\ line.count # 1 /\ line.key = NoKey =>
              ReadLine(s, line) = s
         /\ s.delim = "none" /\ line.head = "none" /\ line.count # 1 /\ line.key # NoKey =>
              ReadLine(s, line) =
                 Assigned(s, line, line.key, IF line.count > 0 THEN TextValue(<<line>>)
                                             ELSE Value(line.raw))
<1> USE DEF Behind, Assigned
<1>1. CASE s.delim # "none"
  BY <1>1 DEF ReadLine
<1>2. CASE s.delim = "none" /\ line.head # "none"
  BY <1>2 DEF ReadLine
<1>3. CASE s.delim = "none" /\ line.head = "none" /\ line.count = 1
  BY <1>3 DEF ReadLine
<1>4. CASE s.delim = "none" /\ line.head = "none" /\ line.count # 1
  BY <1>4 DEF ReadLine
<1> QED BY <1>1, <1>2, <1>3, <1>4

(* Setting a key leaves a state of the same type.                            *)
LEMMA AssignedType ==
  ASSUME NEW s \in ReadStates, NEW line \in TomlLines, NEW key \in Keys \cup {NoKey}, NEW v \in Values
  PROVE  Assigned(s, line, key, v) \in ReadStates /\ Behind(s, line) \in Seq(TomlLines)
<1>1. Behind(s, line) \in Seq(TomlLines)
  BY ReadStateTypes DEF Behind
<1>2. Assigned(s, line, key, v) \in ReadStates
  BY <1>1, ReadStateTypes DEF Assigned, ReadStates
<1> QED BY <1>1, <1>2

(* So does reading a line.                                                   *)
LEMMA ReadLineType ==
  ASSUME NEW s \in ReadStates, NEW line \in TomlLines
  PROVE  ReadLine(s, line) \in ReadStates
<1>1. Behind(s, line) \in Seq(TomlLines)
  BY ReadStateTypes DEF Behind
<1>2. /\ TextValue(Append(s.text, line)) \in Values /\ TextValue(<<line>>) \in Values
      /\ Value(line.raw) \in Values
      /\ Append(s.rest, line) \in Seq(TomlLines) /\ Append(s.text, line) \in Seq(TomlLines)
      /\ <<line>> \in Seq(TomlLines)
  <2>1. Append(s.text, line) \in Seq(TomlLines) /\ Append(s.rest, line) \in Seq(TomlLines)
    BY ReadStateTypes
  <2>2. <<line>> \in Seq(TomlLines)
    OBVIOUS
  <2>3. line.raw \in Seq(Chars)
    BY LineTypes
  <2> QED BY <2>1, <2>2, <2>3, Zenon DEF Values
<1>3. \A v \in Values : Assigned(s, line, s.key, v) \in ReadStates /\ Assigned(s, line, line.key, v) \in ReadStates
  BY AssignedType, ReadStateTypes, LineTypes
<1>4. CASE s.delim # "none" /\ line.count > 0 /\ line.delim = s.delim
  <2> DEFINE a == Assigned(s, line, s.key, TextValue(Append(s.text, line)))
  <2>1. a \in ReadStates
    BY <1>2, <1>3
  <2>2. ReadLine(s, line) = [a EXCEPT !.delim = "none", !.bad = @ \/ line.count > 1]
    BY <1>4, ReadLineIs
  <2> HIDE DEF a
  <2> QED BY <2>1, <2>2 DEF ReadStates
<1>5. CASE s.delim # "none" /\ ~(line.count > 0 /\ line.delim = s.delim)
  <2>1. ReadLine(s, line) = [s EXCEPT !.text = Append(@, line), !.rest = Behind(s, line)]
    BY <1>5, ReadLineIs
  <2> QED BY <1>1, <1>2, <2>1 DEF ReadStates
<1>6. CASE s.delim = "none" /\ line.head # "none"
  <2>1. ReadLine(s, line) = [s EXCEPT !.rest = Append(@, line)]
    BY <1>6, ReadLineIs
  <2> QED BY <1>2, <2>1 DEF ReadStates
<1>7. CASE s.delim = "none" /\ line.head = "none" /\ line.count = 1
  <2>1. ReadLine(s, line) =
                 [s EXCEPT !.delim = line.delim, !.key = line.key, !.text = <<line>>,
                           !.rest = Behind(s, line), !.bad = @ \/ line.key = NoKey]
    BY <1>7, ReadLineIs
  <2> QED BY <1>1, <1>2, <2>1, LineTypes DEF ReadStates
<1>8. CASE s.delim = "none" /\ line.head = "none" /\ line.count # 1
  <2> DEFINE v == IF line.count > 0 THEN TextValue(<<line>>) ELSE Value(line.raw)
  <2>1. v \in Values
    BY <1>2
  <2>2. line.key = NoKey => ReadLine(s, line) = s
    BY <1>8, ReadLineIs
  <2>3. line.key # NoKey => ReadLine(s, line) = Assigned(s, line, line.key, v)
    BY <1>8, ReadLineIs
  <2> HIDE DEF v
  <2> QED BY <1>3, <2>1, <2>2, <2>3
<1> QED BY <1>4, <1>5, <1>6, <1>7, <1>8

(* Reading runs through the states after each line.                          *)
LEMMA ReadRuns ==
  ASSUME NEW s \in ReadStates, NEW lines \in Seq(TomlLines)
  PROVE  \E p \in Runs(ReadStates, s, Len(lines), ReadStep(lines)) : ReadFrom(s, lines) = p[Len(lines)]
<1> DEFINE n == Len(lines)
           F == ReadStep(lines)
           Step(g) == [D \in SUBSET (1 .. n) |->
                         IF D = {} THEN s ELSE ReadLine(g[D \ {Max(D)}], lines[Max(D)])]
           it == CHOOSE g : g = Step(g)
<1>1. n \in Nat /\ DOMAIN lines = 1 .. n /\ \A i \in 1 .. n : lines[i] \in TomlLines
  OBVIOUS
<1>2. ReadFrom(s, lines) = it[1 .. n]
  BY <1>1 DEF ReadFrom, FoldLeft, MapThenFoldSet
<1> HIDE DEF Step
<1>3. s \in ReadStates /\ F \in Steps(ReadStates, n)
  BY <1>1, ReadLineType DEF Steps, ReadStep
<1>4. PICK g \in Solutions(ReadStates, s, n, F) : TRUE
  <2> HIDE DEF F, n
  <2> QED BY <1>1, <1>3, FoldExists
<1>5. g = Step(g)
  <2>1. \A D \in SUBSET (1 .. n) : D # {} => Max(D) \in 1 .. n
    BY <1>1, MaxInInterval
  <2>2. \A D \in SUBSET (1 .. n) : D # {} =>
           F[<<g[D \ {Max(D)}], Max(D)>>] = ReadLine(g[D \ {Max(D)}], lines[Max(D)])
    BY <1>4, <2>1 DEF Solutions, ReadStep
  <2> HIDE DEF F
  <2> QED BY <1>4, <2>2 DEF Step, Solutions
<1>6. it = Step(it)
  BY <1>5
<1> HIDE DEF it
<1>7. ASSUME NEW k \in 1 .. n, it[1 .. k - 1] \in ReadStates
      PROVE  it[1 .. k] = F[<<it[1 .. k - 1], k>>]
  <2>1. Max(1 .. k) = k /\ (1 .. k) \ {k} = 1 .. k - 1 /\ 1 .. k \in SUBSET (1 .. n) /\ 1 .. k # {}
    BY <1>1, Prefix
  <2>2. it[1 .. k] = IF 1 .. k = {} THEN s ELSE ReadLine(it[(1 .. k) \ {Max(1 .. k)}], lines[Max(1 .. k)])
    BY <1>6, <2>1, Zenon DEF Step
  <2>3. it[1 .. k] = ReadLine(it[1 .. k - 1], lines[k])
    BY <2>1, <2>2
  <2> QED BY <1>7, <2>3 DEF ReadStep
<1>8. it[{}] = s
  BY <1>6 DEF Step
<1>9. Unrolls(ReadStates, s, n, F, it)
  <2> HIDE DEF F, n
  <2> QED BY <1>7, <1>8 DEF Unrolls
<1> HIDE DEF F, n
<1>10. \E p \in Runs(ReadStates, s, n, F) : p[n] = it[1 .. n]
  BY <1>1, <1>3, <1>9, FoldSteps
<1> QED BY <1>2, <1>10 DEF F, n

(* One line more is read from the state that the others left.                *)
LEMMA ReadAppend ==
  ASSUME NEW s \in ReadStates, NEW lines \in Seq(TomlLines), NEW line \in TomlLines
  PROVE  /\ ReadFrom(s, lines) \in ReadStates
         /\ ReadFrom(s, Append(lines, line)) = ReadLine(ReadFrom(s, lines), line)
<1> DEFINE n == Len(lines)
           longer == Append(lines, line)
<1>1. /\ n \in Nat /\ Len(longer) = n + 1 /\ longer \in Seq(TomlLines) /\ longer[n + 1] = line
      /\ \A i \in 1 .. n : longer[i] = lines[i]
  OBVIOUS
<1> HIDE DEF longer
<1>2. PICK p \in Runs(ReadStates, s, n, ReadStep(lines)) : ReadFrom(s, lines) = p[n]
  BY ReadRuns
<1> DEFINE m == n + 1
<1>3. PICK q \in Runs(ReadStates, s, m, ReadStep(longer)) : ReadFrom(s, longer) = q[m]
  BY <1>1, ReadRuns
<1>4. Agree(ReadStates, n, ReadStep(lines), ReadStep(longer))
  BY <1>1 DEF ReadStep, Agree
<1>5. p[n] \in ReadStates /\ q[m] = ReadStep(longer)[<<p[n], m>>]
  <2>1. n \in Nat /\ m \in Nat /\ n < m /\ m <= n + 1
    BY <1>1
  <2> HIDE DEF n, m
  <2> QED BY <1>4, <2>1, RunsAppend
<1>6. q[m] = ReadLine(p[n], line)
  BY <1>1, <1>5 DEF ReadStep
<1> QED BY <1>2, <1>3, <1>5, <1>6 DEF longer

-----------------------------------------------------------------------------
(* Writing and reading a value *)

Texts == Seq(Chars)

NoText == <<>>

Escaping(out, c) == out \o Escape(c)

EscapeSteps(v) == [x \in Texts \X (1 .. Len(v)) |-> Escaping(x[1], v[x[2]])]

(* Escaping a character makes a text longer.                                 *)
LEMMA EscapeType ==
  ASSUME NEW out \in Texts, NEW c \in Chars
  PROVE  Escape(c) \in Seq(Chars) /\ Escaping(out, c) \in Texts
<1>1. Escape(c) \in Seq(Chars)
  <2>1. Slash \in Chars
    BY DEF Chars
  <2> QED BY <2>1 DEF Escape
<1> QED BY <1>1, ConcatProperties DEF Texts, Escaping

LEMMA NoTextType == NoText \in Texts
  BY DEF NoText, Texts

(* Escaping is a run of such steps.                                          *)
LEMMA EscapeRuns ==
  ASSUME NEW v \in Seq(Chars)
  PROVE  \E p \in Runs(Texts, NoText, Len(v), EscapeSteps(v)) : Escaped(v) = p[Len(v)]
<1> DEFINE n == Len(v)
           F == EscapeSteps(v)
           Step(g) == [D \in SUBSET (1 .. n) |->
                         IF D = {} THEN NoText ELSE Escaping(g[D \ {Max(D)}], v[Max(D)])]
           it == CHOOSE g : g = Step(g)
<1>1. n \in Nat /\ DOMAIN v = 1 .. n /\ \A i \in 1 .. n : v[i] \in Chars
  OBVIOUS
<1>2. Escaped(v) = it[1 .. n]
  BY <1>1 DEF Escaping, NoText, Escaped, FoldLeft, MapThenFoldSet
<1> HIDE DEF Step
<1>3. NoText \in Texts /\ F \in Steps(Texts, n)
  BY <1>1, EscapeType, NoTextType DEF Steps, EscapeSteps
<1>4. PICK g \in Solutions(Texts, NoText, n, F) : TRUE
  <2> HIDE DEF F, n
  <2> QED BY <1>1, <1>3, FoldExists
<1>5. g = Step(g)
  <2>1. \A D \in SUBSET (1 .. n) : D # {} => Max(D) \in 1 .. n
    BY <1>1, MaxInInterval
  <2>2. \A D \in SUBSET (1 .. n) : D # {} =>
           F[<<g[D \ {Max(D)}], Max(D)>>] = Escaping(g[D \ {Max(D)}], v[Max(D)])
    BY <1>4, <2>1 DEF Solutions, EscapeSteps
  <2> HIDE DEF F
  <2> QED BY <1>4, <2>2 DEF Step, Solutions
<1>6. it = Step(it)
  BY <1>5
<1> HIDE DEF it
<1>7. ASSUME NEW k \in 1 .. n, it[1 .. k - 1] \in Texts
      PROVE  it[1 .. k] = F[<<it[1 .. k - 1], k>>]
  <2>1. Max(1 .. k) = k /\ (1 .. k) \ {k} = 1 .. k - 1 /\ 1 .. k \in SUBSET (1 .. n) /\ 1 .. k # {}
    BY <1>1, Prefix
  <2>2. it[1 .. k] = IF 1 .. k = {} THEN NoText ELSE Escaping(it[(1 .. k) \ {Max(1 .. k)}], v[Max(1 .. k)])
    BY <1>6, <2>1, Zenon DEF Step
  <2>3. it[1 .. k] = Escaping(it[1 .. k - 1], v[k])
    BY <2>1, <2>2
  <2> QED BY <1>7, <2>3 DEF EscapeSteps
<1>8. it[{}] = NoText
  BY <1>6 DEF Step
<1>9. Unrolls(Texts, NoText, n, F, it)
  <2> HIDE DEF F, n
  <2> QED BY <1>7, <1>8 DEF Unrolls
<1> HIDE DEF F, n
<1>10. \E p \in Runs(Texts, NoText, n, F) : p[n] = it[1 .. n]
  BY <1>1, <1>3, <1>9, FoldSteps
<1> QED BY <1>2, <1>10 DEF F, n

(* A character more is escaped at the end.                                   *)
LEMMA EscapeAppend ==
  ASSUME NEW v \in Seq(Chars), NEW c \in Chars
  PROVE  /\ Escaped(v) \in Texts
         /\ Escaped(Append(v, c)) = Escaping(Escaped(v), c)
<1> DEFINE n == Len(v)
           longer == Append(v, c)
<1>1. /\ n \in Nat /\ Len(longer) = n + 1 /\ longer \in Seq(Chars) /\ longer[n + 1] = c
      /\ \A i \in 1 .. n : longer[i] = v[i]
  OBVIOUS
<1> HIDE DEF longer
<1>2. PICK p \in Runs(Texts, NoText, n, EscapeSteps(v)) : Escaped(v) = p[n]
  BY EscapeRuns
<1> DEFINE m == n + 1
<1>3. PICK q \in Runs(Texts, NoText, m, EscapeSteps(longer)) : Escaped(longer) = q[m]
  BY <1>1, EscapeRuns
<1>4. Agree(Texts, n, EscapeSteps(v), EscapeSteps(longer))
  BY <1>1 DEF EscapeSteps, Agree
<1>5. p[n] \in Texts /\ q[m] = EscapeSteps(longer)[<<p[n], m>>]
  <2>1. n \in Nat /\ m \in Nat /\ n < m /\ m <= n + 1
    BY <1>1
  <2> HIDE DEF n, m
  <2> QED BY <1>4, <2>1, RunsAppend
<1>6. q[m] = Escaping(p[n], c)
  BY <1>1, <1>5 DEF EscapeSteps
<1> QED BY <1>2, <1>3, <1>5, <1>6 DEF longer

UnescapeStart == [skip |-> FALSE, out |-> <<>>]

Unescaping(cs) == FoldLeft(UnescapeStep, UnescapeStart, cs)

UnescapeStates == [skip: BOOLEAN, out: Seq(Chars)]

UnescapeSteps(cs) == [x \in UnescapeStates \X (1 .. Len(cs)) |-> UnescapeStep(x[1], cs[x[2]])]

(* Unescaping goes from state to state.                                      *)
LEMMA UnescapeType ==
  ASSUME NEW s \in UnescapeStates, NEW c \in Chars
  PROVE  UnescapeStep(s, c) \in UnescapeStates
<1>1. s.out \in Seq(Chars) /\ Append(s.out, c) \in Seq(Chars)
  BY DEF UnescapeStates
<1>2. CASE ~s.skip /\ c = Slash
  <2>1. UnescapeStep(s, c) = [s EXCEPT !.skip = TRUE]
    BY <1>2 DEF UnescapeStep
  <2> QED BY <2>1 DEF UnescapeStates
<1>3. CASE ~(~s.skip /\ c = Slash)
  <2>1. UnescapeStep(s, c) = [skip |-> FALSE, out |-> Append(s.out, c)]
    BY <1>3 DEF UnescapeStep
  <2> QED BY <1>1, <2>1 DEF UnescapeStates
<1> QED BY <1>2, <1>3

LEMMA UnescapeStartType == UnescapeStart \in UnescapeStates
  BY DEF UnescapeStates, UnescapeStart

(* Unescaping is a run of such steps.                                        *)
LEMMA UnescapeRuns ==
  ASSUME NEW cs \in Seq(Chars)
  PROVE  \E p \in Runs(UnescapeStates, UnescapeStart, Len(cs), UnescapeSteps(cs)) : Unescaping(cs) = p[Len(cs)]
<1> DEFINE n == Len(cs)
           F == UnescapeSteps(cs)
           Step(g) == [D \in SUBSET (1 .. n) |->
                         IF D = {} THEN UnescapeStart ELSE UnescapeStep(g[D \ {Max(D)}], cs[Max(D)])]
           it == CHOOSE g : g = Step(g)
<1>1. n \in Nat /\ DOMAIN cs = 1 .. n /\ \A i \in 1 .. n : cs[i] \in Chars
  OBVIOUS
<1>2. Unescaping(cs) = it[1 .. n]
  BY <1>1 DEF Unescaping, FoldLeft, MapThenFoldSet
<1> HIDE DEF Step
<1>3. UnescapeStart \in UnescapeStates /\ F \in Steps(UnescapeStates, n)
  BY <1>1, UnescapeType, UnescapeStartType DEF Steps, UnescapeSteps
<1>4. PICK g \in Solutions(UnescapeStates, UnescapeStart, n, F) : TRUE
  <2> HIDE DEF F, n
  <2> QED BY <1>1, <1>3, FoldExists
<1>5. g = Step(g)
  <2>1. \A D \in SUBSET (1 .. n) : D # {} => Max(D) \in 1 .. n
    BY <1>1, MaxInInterval
  <2>2. \A D \in SUBSET (1 .. n) : D # {} =>
           F[<<g[D \ {Max(D)}], Max(D)>>] = UnescapeStep(g[D \ {Max(D)}], cs[Max(D)])
    BY <1>4, <2>1 DEF Solutions, UnescapeSteps
  <2> HIDE DEF F
  <2> QED BY <1>4, <2>2 DEF Step, Solutions
<1>6. it = Step(it)
  BY <1>5
<1> HIDE DEF it
<1>7. ASSUME NEW k \in 1 .. n, it[1 .. k - 1] \in UnescapeStates
      PROVE  it[1 .. k] = F[<<it[1 .. k - 1], k>>]
  <2>1. Max(1 .. k) = k /\ (1 .. k) \ {k} = 1 .. k - 1 /\ 1 .. k \in SUBSET (1 .. n) /\ 1 .. k # {}
    BY <1>1, Prefix
  <2>2. it[1 .. k] = IF 1 .. k = {} THEN UnescapeStart ELSE UnescapeStep(it[(1 .. k) \ {Max(1 .. k)}], cs[Max(1 .. k)])
    BY <1>6, <2>1, Zenon DEF Step
  <2>3. it[1 .. k] = UnescapeStep(it[1 .. k - 1], cs[k])
    BY <2>1, <2>2
  <2> QED BY <1>7, <2>3 DEF UnescapeSteps
<1>8. it[{}] = UnescapeStart
  BY <1>6 DEF Step
<1>9. Unrolls(UnescapeStates, UnescapeStart, n, F, it)
  <2> HIDE DEF F, n
  <2> QED BY <1>7, <1>8 DEF Unrolls
<1> HIDE DEF F, n
<1>10. \E p \in Runs(UnescapeStates, UnescapeStart, n, F) : p[n] = it[1 .. n]
  BY <1>1, <1>3, <1>9, FoldSteps
<1> QED BY <1>2, <1>10 DEF F, n

(* A character more is taken as the one before says.                         *)
LEMMA UnescapeAppend ==
  ASSUME NEW cs \in Seq(Chars), NEW c \in Chars
  PROVE  /\ Unescaping(cs) \in UnescapeStates
         /\ Unescaping(Append(cs, c)) = UnescapeStep(Unescaping(cs), c)
<1> DEFINE n == Len(cs)
           longer == Append(cs, c)
<1>1. /\ n \in Nat /\ Len(longer) = n + 1 /\ longer \in Seq(Chars) /\ longer[n + 1] = c
      /\ \A i \in 1 .. n : longer[i] = cs[i]
  OBVIOUS
<1> HIDE DEF longer
<1>2. PICK p \in Runs(UnescapeStates, UnescapeStart, n, UnescapeSteps(cs)) : Unescaping(cs) = p[n]
  BY UnescapeRuns
<1> DEFINE m == n + 1
<1>3. PICK q \in Runs(UnescapeStates, UnescapeStart, m, UnescapeSteps(longer)) : Unescaping(longer) = q[m]
  BY <1>1, UnescapeRuns
<1>4. Agree(UnescapeStates, n, UnescapeSteps(cs), UnescapeSteps(longer))
  BY <1>1 DEF UnescapeSteps, Agree
<1>5. p[n] \in UnescapeStates /\ q[m] = UnescapeSteps(longer)[<<p[n], m>>]
  <2>1. n \in Nat /\ m \in Nat /\ n < m /\ m <= n + 1
    BY <1>1
  <2> HIDE DEF n, m
  <2> QED BY <1>4, <2>1, RunsAppend
<1>6. q[m] = UnescapeStep(p[n], c)
  BY <1>1, <1>5 DEF UnescapeSteps
<1> QED BY <1>2, <1>3, <1>5, <1>6 DEF longer

EndStart == [end |-> 0, skip |-> FALSE]

EndStates(raw) == [end: 0 .. Len(raw), skip: BOOLEAN]

EndSteps(raw) == [x \in EndStates(raw) \X (1 .. Len(raw)) |-> EndStep(raw, x[1], x[2])]

(* Looking for the end goes from state to state.                             *)
LEMMA EndType ==
  ASSUME NEW raw \in Seq(Chars), NEW s \in EndStates(raw), NEW i \in 1 .. Len(raw)
  PROVE  EndStep(raw, s, i) \in EndStates(raw)
<1>1. EndStep(raw, s, i) \in {s, [s EXCEPT !.skip = FALSE], [s EXCEPT !.skip = TRUE], [s EXCEPT !.end = i]}
  BY DEF EndStep
<1>2. i \in 0 .. Len(raw)
  OBVIOUS
<1> QED BY <1>1, <1>2 DEF EndStates

LEMMA EndStartType == ASSUME NEW raw \in Seq(Chars) PROVE EndStart \in EndStates(raw)
  BY DEF EndStates, EndStart

(* Looking for the end of a string runs through the states at each place.    *)
LEMMA EndRuns ==
  ASSUME NEW raw \in Seq(Chars)
  PROVE  \E p \in Runs(EndStates(raw), EndStart, Len(raw), EndSteps(raw)) : StringEnd(raw) = p[Len(raw)].end
<1> DEFINE n == Len(raw)
           F == EndSteps(raw)
           places == [i \in DOMAIN raw |-> i]
           Step(g) == [D \in SUBSET (1 .. n) |->
                         IF D = {} THEN EndStart ELSE EndStep(raw, g[D \ {Max(D)}], places[Max(D)])]
           it == CHOOSE g : g = Step(g)
<1>1. n \in Nat /\ DOMAIN raw = 1 .. n /\ \A i \in 1 .. n : raw[i] \in Chars
  OBVIOUS
<1>2. StringEnd(raw) = it[1 .. n].end
  BY <1>1 DEF EndStart, StringEnd, FoldLeftDomain, FoldLeft, MapThenFoldSet
<1> HIDE DEF Step
<1>3. EndStart \in EndStates(raw) /\ F \in Steps(EndStates(raw), n)
  BY <1>1, EndType, EndStartType DEF Steps, EndSteps
<1>4. PICK g \in Solutions(EndStates(raw), EndStart, n, F) : TRUE
  <2> HIDE DEF F, n
  <2> QED BY <1>1, <1>3, FoldExists
<1>5. g = Step(g)
  <2>1. \A D \in SUBSET (1 .. n) : D # {} => Max(D) \in 1 .. n
    BY <1>1, MaxInInterval
  <2>2. \A D \in SUBSET (1 .. n) : D # {} =>
           F[<<g[D \ {Max(D)}], Max(D)>>] = EndStep(raw, g[D \ {Max(D)}], places[Max(D)])
    <3> SUFFICES ASSUME NEW D \in SUBSET (1 .. n), D # {}
                 PROVE  F[<<g[D \ {Max(D)}], Max(D)>>] = EndStep(raw, g[D \ {Max(D)}], places[Max(D)])
      OBVIOUS
    <3>1. g[D \ {Max(D)}] \in EndStates(raw)
      BY <1>4 DEF Solutions
    <3>2. Max(D) \in 1 .. n /\ places[Max(D)] = Max(D)
      BY <1>1, <2>1
    <3> HIDE DEF places, n
    <3> QED BY <3>1, <3>2 DEF EndSteps, n
  <2> HIDE DEF F
  <2> QED BY <1>4, <2>2 DEF Step, Solutions
<1>6. it = Step(it)
  BY <1>5
<1> HIDE DEF it
<1>7. ASSUME NEW k \in 1 .. n, it[1 .. k - 1] \in EndStates(raw)
      PROVE  it[1 .. k] = F[<<it[1 .. k - 1], k>>]
  <2>1. Max(1 .. k) = k /\ (1 .. k) \ {k} = 1 .. k - 1 /\ 1 .. k \in SUBSET (1 .. n) /\ 1 .. k # {}
    BY <1>1, Prefix
  <2>2. it[1 .. k] = IF 1 .. k = {} THEN EndStart ELSE EndStep(raw, it[(1 .. k) \ {Max(1 .. k)}], places[Max(1 .. k)])
    BY <1>6, <2>1, Zenon DEF Step
  <2>3. it[1 .. k] = EndStep(raw, it[1 .. k - 1], places[k])
    BY <2>1, <2>2
  <2> QED BY <1>7, <2>3 DEF EndSteps
<1>8. it[{}] = EndStart
  BY <1>6 DEF Step
<1>9. Unrolls(EndStates(raw), EndStart, n, F, it)
  <2> HIDE DEF F, n
  <2> QED BY <1>7, <1>8 DEF Unrolls
<1> HIDE DEF F, n
<1>10. \E p \in Runs(EndStates(raw), EndStart, n, F) : p[n] = it[1 .. n]
  BY <1>1, <1>3, <1>9, FoldSteps
<1> QED BY <1>2, <1>10 DEF F, n

(* Nothing escapes to nothing.                                               *)
LEMMA FoldStarts == Escaped(<<>>) = <<>> /\ Unescaping(<<>>) = UnescapeStart
<1>1. <<>> \in Seq(Chars) /\ Len(<<>>) = 0
  BY EmptySeq
<1>2. PICK p \in Runs(Texts, NoText, 0, EscapeSteps(<<>>)) : Escaped(<<>>) = p[0]
  BY <1>1, EscapeRuns
<1>3. PICK q \in Runs(UnescapeStates, UnescapeStart, 0, UnescapeSteps(<<>>)) : Unescaping(<<>>) = q[0]
  BY <1>1, UnescapeRuns
<1> QED BY <1>2, <1>3 DEF Runs, NoText

(* An escaped text is a text.                                                *)
LEMMA EscapedType == ASSUME NEW v \in Seq(Chars) PROVE Escaped(v) \in Seq(Chars)
<1>1. Quote \in Chars
  BY DEF Chars
<1> QED BY <1>1, EscapeAppend DEF Texts

(* What a special character needs is a backslash before it.                  *)
LEMMA EscapedAppend ==
  ASSUME NEW w \in Seq(Chars), NEW c \in Chars
  PROVE  Escaped(Append(w, c)) = IF c \in {Quote, Slash} THEN Append(Append(Escaped(w), Slash), c)
                                 ELSE Append(Escaped(w), c)
<1>1. Escaped(Append(w, c)) = Escaped(w) \o Escape(c) /\ Escaped(w) \in Seq(Chars) /\ Slash \in Chars
  BY EscapeAppend, EscapedType DEF Escaping, Chars
<1>2. CASE c \in {Quote, Slash}
  <2> DEFINE e == Escaped(w)
  <2>1. e \in Seq(Chars) /\ Slash \in Chars /\ Escape(c) = <<Slash, c>>
    BY <1>1, <1>2 DEF Escape
  <2> HIDE DEF e
  <2>2. e \o <<Slash, c>> = Append(Append(e, Slash), c)
    BY <2>1
  <2> QED BY <1>1, <1>2, <2>1, <2>2 DEF e
<1>3. CASE c \notin {Quote, Slash}
  <2>1. Escape(c) = <<c>>
    BY <1>3 DEF Escape
  <2> QED BY <1>1, <1>3, <2>1, AppendIsConcat
<1> QED BY <1>2, <1>3

(* Records with one field set                                                *)
LEMMA SkipSet == ASSUME NEW x, NEW a, NEW b PROVE [[skip |-> a, out |-> x] EXCEPT !.skip = b] = [skip |-> b, out |-> x]
  OBVIOUS

LEMMA EndSkipSet == ASSUME NEW i, NEW a, NEW b PROVE [[end |-> i, skip |-> a] EXCEPT !.skip = b] = [end |-> i, skip |-> b]
  OBVIOUS

LEMMA EndSet == ASSUME NEW a, NEW j PROVE [[end |-> 0, skip |-> a] EXCEPT !.end = j] = [end |-> j, skip |-> a]
  OBVIOUS

(* What is escaped is read as it was.                                        *)
LEMMA UnescapeEscaped ==
  ASSUME NEW v \in Seq(Chars)
  PROVE  Unescape(Escaped(v)) = v
<1> DEFINE T == {w \in Seq(Chars) : Unescaping(Escaped(w)) = [skip |-> FALSE, out |-> w]}
<1>1. <<>> \in T
  BY FoldStarts, EmptySeq DEF UnescapeStart
<1>2. ASSUME NEW w \in Seq(Chars), NEW c \in Chars, w \in T PROVE Append(w, c) \in T
  <2> DEFINE e == Escaped(w)
  <2>1. e \in Seq(Chars) /\ Slash \in Chars /\ Append(e, Slash) \in Seq(Chars) /\ Append(w, c) \in Seq(Chars)
    BY EscapedType DEF Chars
  <2>2. Unescaping(e) = [skip |-> FALSE, out |-> w]
    BY <1>2
  <2> HIDE DEF e
  <2>3. CASE c \in {Quote, Slash}
    <3>1. Unescaping(Append(e, Slash)) = UnescapeStep(Unescaping(e), Slash)
      BY <2>1, UnescapeAppend
    <3>2. Unescaping(Append(e, Slash)) = [skip |-> TRUE, out |-> w]
      <4>1. [[skip |-> FALSE, out |-> w] EXCEPT !.skip = TRUE] = [skip |-> TRUE, out |-> w]
        BY SkipSet, Zenon
      <4> QED BY <2>2, <3>1, <4>1 DEF UnescapeStep
    <3>3. Unescaping(Append(Append(e, Slash), c)) = UnescapeStep(Unescaping(Append(e, Slash)), c)
      BY <2>1, UnescapeAppend
    <3>4. Unescaping(Append(Append(e, Slash), c)) = [skip |-> FALSE, out |-> Append(w, c)]
      BY <3>2, <3>3 DEF UnescapeStep
    <3> QED BY <2>1, <2>3, <3>4, EscapedAppend DEF e
  <2>4. CASE c \notin {Quote, Slash}
    <3>1. Unescaping(Append(e, c)) = UnescapeStep(Unescaping(e), c)
      BY <2>1, UnescapeAppend
    <3>2. Unescaping(Append(e, c)) = [skip |-> FALSE, out |-> Append(w, c)]
      BY <2>2, <2>4, <3>1 DEF UnescapeStep
    <3> QED BY <2>1, <2>4, <3>2, EscapedAppend DEF e
  <2> QED BY <2>3, <2>4
<1>3. \A w \in Seq(Chars) : w \in T
  <2> HIDE DEF T
  <2> QED BY <1>1, <1>2, SeqByInduction
<1>4. Unescape(Escaped(v)) = Unescaping(Escaped(v)).out
  BY DEF Unescape, Unescaping, UnescapeStart
<1> QED BY <1>3, <1>4

LEMMA EndsAt == ASSUME NEW i PROVE [EndStart EXCEPT !.end = i] = [end |-> i, skip |-> FALSE]
  BY EndSet, Zenon DEF EndStart

(* EndStep by its cases                                                      *)
LEMMA EndStepIs ==
  ASSUME NEW raw, NEW i \in Nat, i > 1, raw[1] = Quote
  PROVE  /\ raw[i] = Slash => EndStep(raw, EndStart, i) = [end |-> 0, skip |-> TRUE]
         /\ EndStep(raw, [end |-> 0, skip |-> TRUE], i) = EndStart
         /\ raw[i] \notin {Quote, Slash} => EndStep(raw, EndStart, i) = EndStart
         /\ raw[i] = Quote => EndStep(raw, EndStart, i) = [end |-> i, skip |-> FALSE]
<1>1. /\ [EndStart EXCEPT !.skip = TRUE] = [end |-> 0, skip |-> TRUE]
      /\ [[end |-> 0, skip |-> TRUE] EXCEPT !.skip = FALSE] = EndStart
      /\ [EndStart EXCEPT !.end = i] = [end |-> i, skip |-> FALSE]
  <2>1. [EndStart EXCEPT !.skip = TRUE] = [end |-> 0, skip |-> TRUE]
    BY EndSkipSet, Zenon DEF EndStart
  <2>2. [[end |-> 0, skip |-> TRUE] EXCEPT !.skip = FALSE] = EndStart
    BY EndSkipSet, Zenon DEF EndStart
  <2>3. [EndStart EXCEPT !.end = i] = [end |-> i, skip |-> FALSE]
    BY EndsAt
  <2> QED BY <2>1, <2>2, <2>3
<1>2. Quote # Slash
  BY DEF Quote, Slash
<1>3. EndStart.skip = FALSE /\ EndStart.end = 0
  BY DEF EndStart
<1>4. ASSUME raw[i] = Slash PROVE EndStep(raw, EndStart, i) = [EndStart EXCEPT !.skip = TRUE]
  BY <1>3, <1>4 DEF EndStep
<1>5. EndStep(raw, [end |-> 0, skip |-> TRUE], i) = [[end |-> 0, skip |-> TRUE] EXCEPT !.skip = FALSE]
  BY DEF EndStep
<1>6. ASSUME raw[i] \notin {Quote, Slash} PROVE EndStep(raw, EndStart, i) = EndStart
  BY <1>3, <1>6 DEF EndStep
<1>7. ASSUME raw[i] = Quote PROVE EndStep(raw, EndStart, i) = [EndStart EXCEPT !.end = i]
  BY <1>2, <1>3, <1>7 DEF EndStep
<1> QED BY <1>1, <1>4, <1>5, <1>6, <1>7

(* A string begins with a quote and the escaped characters of w.             *)
Begins(raw, w) ==
    /\ Len(Escaped(w)) + 1 <= Len(raw) /\ raw[1] = Quote
    /\ \A i \in 1 .. Len(Escaped(w)) : raw[i + 1] = Escaped(w)[i]

(* It has not ended yet after them.                                          *)
LEMMA NotEnded ==
  ASSUME NEW raw \in Seq(Chars), NEW p \in Runs(EndStates(raw), EndStart, Len(raw), EndSteps(raw)),
         NEW v \in Seq(Chars), Begins(raw, v)
  PROVE  p[Len(Escaped(v)) + 1] = EndStart
<1> DEFINE T == {w \in Seq(Chars) : Begins(raw, w) => p[Len(Escaped(w)) + 1] = EndStart}
           n == Len(raw)
<1>1. n \in Nat /\ p \in [0 .. n -> EndStates(raw)] /\ p[0] = EndStart
      /\ \A k \in 1 .. n : p[k] = EndStep(raw, p[k - 1], k)
  <2>1. n \in Nat /\ p \in [0 .. n -> EndStates(raw)] /\ p[0] = EndStart
        /\ \A k \in 1 .. n : p[k] = EndSteps(raw)[<<p[k - 1], k>>]
    BY DEF Runs
  <2>2. ASSUME NEW k \in 1 .. n PROVE p[k] = EndStep(raw, p[k - 1], k)
    <3>1. p[k - 1] \in EndStates(raw) /\ p[k] = EndSteps(raw)[<<p[k - 1], k>>]
      BY <2>1
    <3> QED BY <3>1 DEF EndSteps
  <2> QED BY <2>1, <2>2
<1>2. <<>> \in T
  <2> SUFFICES ASSUME Begins(raw, <<>>) PROVE p[Len(Escaped(<<>>)) + 1] = EndStart
    BY EmptySeq
  <2>1. Len(Escaped(<<>>)) = 0 /\ 1 <= n
    BY FoldStarts, EmptySeq DEF Begins
  <2>2. p[1] = EndStep(raw, EndStart, 1)
    BY <1>1, <2>1
  <2> QED BY <2>1, <2>2 DEF EndStep, EndStart
<1>3. ASSUME NEW w \in Seq(Chars), NEW c \in Chars, w \in T PROVE Append(w, c) \in T
  <2> SUFFICES ASSUME Begins(raw, Append(w, c)) PROVE p[Len(Escaped(Append(w, c))) + 1] = EndStart
    BY DEF T
  <2> DEFINE e == Escaped(w)
             m == Len(e)
             f == Escaped(Append(w, c))
  <2>1. e \in Seq(Chars) /\ Slash \in Chars /\ m \in Nat
    BY EscapedType DEF Chars
  <2>2. Len(f) + 1 <= n /\ raw[1] = Quote /\ \A i \in 1 .. Len(f) : raw[i + 1] = f[i]
    BY DEF Begins
  <2>3. f = IF c \in {Quote, Slash} THEN Append(Append(e, Slash), c) ELSE Append(e, c)
    BY EscapedAppend
  <2>4. p[m + 1] = EndStart
    <3>1. Len(f) \in Nat /\ m <= Len(f) /\ \A i \in 1 .. m : f[i] = e[i]
      <4> HIDE DEF e, f
      <4> QED BY <2>1, <2>3
    <3> HIDE DEF f
    <3>2. m + 1 <= n /\ \A i \in 1 .. m : raw[i + 1] = e[i]
      BY <1>1, <2>1, <2>2, <3>1
    <3>3. Begins(raw, w)
      BY <2>2, <3>2 DEF Begins
    <3> QED BY <1>3, <3>3
  <2> HIDE DEF e, f
  <2>5. CASE c \in {Quote, Slash}
    <3>1. Len(f) = m + 2 /\ f[m + 1] = Slash /\ f[m + 2] = c
      BY <2>1, <2>3, <2>5
    <3>2. raw[m + 2] = Slash /\ raw[m + 3] = c /\ m + 2 \in 1 .. n /\ m + 3 \in 1 .. n
      <4>1. m + 1 \in 1 .. Len(f) /\ m + 2 \in 1 .. Len(f) /\ (m + 1) + 1 = m + 2 /\ (m + 2) + 1 = m + 3
        BY <2>1, <3>1
      <4> QED BY <1>1, <2>1, <2>2, <3>1, <4>1
    <3>3. p[m + 2] = EndStep(raw, p[m + 1], m + 2) /\ p[m + 3] = EndStep(raw, p[m + 2], m + 3)
      <4>1. (m + 2) - 1 = m + 1 /\ (m + 3) - 1 = m + 2
        BY <2>1
      <4> QED BY <1>1, <3>2, <4>1
    <3>4. p[m + 2] = [end |-> 0, skip |-> TRUE]
      <4>1. m + 2 \in Nat /\ m + 2 > 1
        BY <2>1
      <4> HIDE DEF m
      <4> QED BY <2>2, <2>4, <3>2, <3>3, <4>1, EndStepIs, Zenon
    <3>5. p[m + 3] = EndStart
      <4>1. m + 3 \in Nat /\ m + 3 > 1
        BY <2>1
      <4> HIDE DEF m
      <4> QED BY <2>2, <3>3, <3>4, <4>1, EndStepIs, Zenon
    <3> QED BY <2>1, <3>1, <3>5 DEF f
  <2>6. CASE c \notin {Quote, Slash}
    <3>1. Len(f) = m + 1 /\ f[m + 1] = c
      BY <2>1, <2>3, <2>6
    <3>2. raw[m + 2] = c /\ m + 2 \in 1 .. n
      <4>1. m + 1 \in 1 .. Len(f) /\ (m + 1) + 1 = m + 2
        BY <2>1, <3>1
      <4> QED BY <1>1, <2>1, <2>2, <3>1, <4>1
    <3>3. p[m + 2] = EndStep(raw, p[m + 1], m + 2)
      <4>1. (m + 2) - 1 = m + 1
        BY <2>1
      <4> QED BY <1>1, <3>2, <4>1
    <3>4. p[m + 2] = EndStart
      <4>1. m + 2 \in Nat /\ m + 2 > 1
        BY <2>1
      <4> HIDE DEF m
      <4> QED BY <2>2, <2>4, <2>6, <3>2, <3>3, <4>1, EndStepIs, Zenon
    <3> QED BY <2>1, <3>1, <3>4 DEF f
  <2> QED BY <2>5, <2>6
<1>4. \A w \in Seq(Chars) : w \in T
  <2> HIDE DEF T
  <2> QED BY <1>2, <1>3, SeqByInduction
<1> QED BY <1>4

(* A value that is written, with a comment behind it, character by character *)
IsWritten(raw, e, note) ==
    /\ raw \in Seq(Chars) /\ Len(raw) = Len(e) + 2 + Len(note)
    /\ raw[1] = Quote /\ raw[Len(e) + 2] = Quote
    /\ \A i \in 1 .. Len(e) : raw[i + 1] = e[i]
    /\ \A i \in 1 .. Len(note) : raw[Len(e) + 2 + i] = note[i]

(* The parts of a written value                                              *)
LEMMA Quoted ==
  ASSUME NEW e \in Seq(Chars), NEW note \in Seq(Chars)
  PROVE  /\ <<Quote>> \o e \o <<Quote>> \in Seq(Chars)
         /\ IsWritten((<<Quote>> \o e \o <<Quote>>) \o note, e, note)
<1> DEFINE m == Len(e)
           front == <<Quote>> \o e
           value == front \o <<Quote>>
           raw == value \o note
<1>1. m \in Nat /\ Len(note) \in Nat /\ <<Quote>> \in Seq(Chars) /\ Len(<<Quote>>) = 1 /\ <<Quote>>[1] = Quote
  BY DEF Chars
<1>2. /\ front \in Seq(Chars) /\ Len(front) = m + 1 /\ front[1] = Quote
      /\ \A i \in 1 .. m : front[i + 1] = e[i]
  BY <1>1
<1> HIDE DEF front
<1>3. /\ value \in Seq(Chars) /\ Len(value) = m + 2 /\ value[m + 2] = Quote
      /\ \A i \in 1 .. m + 1 : value[i] = front[i]
  BY <1>1, <1>2
<1> HIDE DEF value, m
<1>4. raw \in Seq(Chars) /\ Len(raw) = m + 2 + Len(note)
  <2>1. raw \in Seq(Chars) /\ Len(raw) = Len(value) + Len(note)
    BY <1>3, ConcatProperties
  <2> HIDE DEF raw
  <2> QED BY <1>1, <1>3, <2>1
<1>5. ASSUME NEW i \in 1 .. m + 2 PROVE raw[i] = value[i]
  BY <1>1, <1>3, ConcatProperties
<1>6. ASSUME NEW i \in 1 .. Len(note) PROVE raw[m + 2 + i] = note[i]
  <2>1. m + 2 + i \in 1 .. (m + 2) + Len(note) /\ ~(m + 2 + i <= m + 2) /\ (m + 2 + i) - (m + 2) = i
    BY <1>1
  <2> QED BY <1>1, <1>3, <2>1, ConcatProperties
<1> HIDE DEF raw
<1>7. raw[1] = Quote /\ raw[m + 2] = Quote
  <2>1. 1 \in 1 .. m + 2 /\ m + 2 \in 1 .. m + 2 /\ 1 \in 1 .. m + 1
    BY <1>1
  <2> QED BY <1>2, <1>3, <1>5, <2>1
<1>8. ASSUME NEW i \in 1 .. m PROVE raw[i + 1] = e[i]
  <2>1. i + 1 \in 1 .. m + 2 /\ i + 1 \in 1 .. m + 1
    BY <1>1
  <2> QED BY <1>2, <1>3, <1>5, <2>1
<1>9. IsWritten(raw, e, note)
  BY <1>4, <1>6, <1>7, <1>8 DEF IsWritten, m
<1> QED BY <1>3, <1>9 DEF raw, value, front

(* What is written for a value is a text.                                    *)
LEMMA Written ==
  ASSUME NEW v \in Seq(Chars), NEW note \in Seq(Chars)
  PROVE  TomlValue(v) \in Seq(Chars) /\ IsWritten(TomlValue(v) \o note, Escaped(v), note)
  BY EscapedType, Quoted DEF TomlValue

(* The string that is written ends with its last quote.                      *)
LEMMA ValueEnds ==
  ASSUME NEW v \in Seq(Chars), NEW note \in Seq(Chars)
  PROVE  StringEnd(TomlValue(v) \o note) = Len(Escaped(v)) + 2
<1> DEFINE raw == TomlValue(v) \o note
           m == Len(Escaped(v))
           n == Len(raw)
<1>1. /\ raw \in Seq(Chars) /\ n = m + 2 + Len(note) /\ m \in Nat /\ Len(note) \in Nat
      /\ raw[1] = Quote /\ raw[m + 2] = Quote /\ \A i \in 1 .. m : raw[i + 1] = Escaped(v)[i]
  <2>1. IsWritten(raw, Escaped(v), note)
    BY Written
  <2>2. m \in Nat /\ Len(note) \in Nat
    BY EscapedType
  <2> HIDE DEF raw
  <2> QED BY <2>1, <2>2 DEF IsWritten
<1> HIDE DEF raw
<1>2. Begins(raw, v)
  BY <1>1 DEF Begins
<1>3. PICK p \in Runs(EndStates(raw), EndStart, n, EndSteps(raw)) : StringEnd(raw) = p[n].end
  BY <1>1, EndRuns
<1>4. p[m + 1] = EndStart
  BY <1>1, <1>2, <1>3, NotEnded
<1>5. n \in Nat /\ \A k \in 1 .. n : p[k] = EndStep(raw, p[k - 1], k)
  <2>1. n \in Nat /\ \A k \in 1 .. n : p[k] = EndSteps(raw)[<<p[k - 1], k>>] /\ p[k - 1] \in EndStates(raw)
    <3>1. n \in Nat
      BY <1>1
    <3> HIDE DEF n
    <3> QED BY <1>3, <3>1 DEF Runs
  <2>2. ASSUME NEW k \in 1 .. n PROVE p[k] = EndStep(raw, p[k - 1], k)
    <3>1. p[k - 1] \in EndStates(raw) /\ p[k] = EndSteps(raw)[<<p[k - 1], k>>]
      BY <2>1
    <3> QED BY <3>1 DEF EndSteps
  <2> QED BY <2>1, <2>2
<1> HIDE DEF n, m
<1>6. p[m + 2].end = m + 2
  <2>1. m + 2 \in Nat /\ m + 2 > 1 /\ m + 2 \in 1 .. n /\ (m + 2) - 1 = m + 1
    BY <1>1
  <2>2. p[m + 2] = EndStep(raw, EndStart, m + 2)
    BY <1>4, <1>5, <2>1
  <2>3. p[m + 2] = [end |-> m + 2, skip |-> FALSE]
    BY <1>1, <2>1, <2>2, EndStepIs, Zenon
  <2> QED BY <2>3
<1> DEFINE N == {k \in Nat : m + 2 + k <= n => p[m + 2 + k].end = m + 2}
<1>7. 0 \in N
  BY <1>1, <1>6
<1>8. ASSUME NEW k \in Nat, k \in N PROVE k + 1 \in N
  <2> SUFFICES ASSUME m + 2 + (k + 1) <= n PROVE p[m + 2 + (k + 1)].end = m + 2
    OBVIOUS
  <2> DEFINE i == m + 2 + (k + 1)
  <2>1. i \in 1 .. n /\ i - 1 = m + 2 + k /\ p[i - 1].end = m + 2
    BY <1>1, <1>5, <1>8
  <2>2. p[i] = EndStep(raw, p[i - 1], i)
    BY <1>5, <2>1
  <2>3. p[i] = p[i - 1]
    BY <1>1, <2>1, <2>2 DEF EndStep
  <2> QED BY <2>1, <2>3
<1>9. \A k \in Nat : k \in N
  <2> HIDE DEF N
  <2> QED BY <1>7, <1>8, NatByInduction
<1>10. p[n].end = m + 2
  <2> DEFINE k == n - (m + 2)
  <2>1. k \in Nat /\ m + 2 + k = n /\ m + 2 + k <= n
    BY <1>1, <1>5 DEF n, m
  <2>2. k \in N
    <3> HIDE DEF N, k
    <3> QED BY <1>9, <2>1
  <2> HIDE DEF k
  <2> QED BY <2>1, <2>2
<1> QED BY <1>3, <1>10 DEF n, m, raw

(* The value that a written string stands for, and the comment behind it     *)
LEMMA ValueReadsBack ==
  ASSUME NEW v \in Seq(Chars), NEW note \in Seq(Chars)
  PROVE  Value(TomlValue(v) \o note) = [Absent EXCEPT !.kind = "line", !.chars = v, !.note = note]
<1> DEFINE raw == TomlValue(v) \o note
           m == Len(Escaped(v))
<1>1. /\ raw \in Seq(Chars) /\ Len(raw) = m + 2 + Len(note) /\ m \in Nat /\ Len(note) \in Nat
      /\ Escaped(v) \in Seq(Chars)
      /\ raw[1] = Quote /\ \A i \in 1 .. m : raw[i + 1] = Escaped(v)[i]
      /\ \A i \in 1 .. Len(note) : raw[m + 2 + i] = note[i]
  <2>1. IsWritten(raw, Escaped(v), note)
    BY Written
  <2>2. Escaped(v) \in Seq(Chars) /\ m \in Nat /\ Len(note) \in Nat
    BY EscapedType
  <2> HIDE DEF raw
  <2> QED BY <2>1, <2>2 DEF IsWritten
<1>2. StringEnd(raw) = m + 2
  BY ValueEnds
<1> HIDE DEF raw
<1>3. SubSeq(raw, 2, (m + 2) - 1) = Escaped(v)
  <2> DEFINE e == Escaped(v)
             sub == SubSeq(raw, 2, m + 1)
  <2>1. m = Len(e) /\ e \in Seq(Chars) /\ \A i \in 1 .. m : raw[i + 1] = e[i]
    BY <1>1
  <2> HIDE DEF m, e
  <2>2. sub \in Seq(Chars) /\ Len(sub) = m /\ \A i \in 1 .. m : sub[i] = raw[i + 1]
    BY <1>1
  <2>3. (m + 2) - 1 = m + 1
    BY <1>1
  <2> HIDE DEF sub
  <2>4. sub = e
    BY <1>1, <2>1, <2>2, SeqEqual
  <2> QED BY <2>3, <2>4 DEF sub, e
<1>4. SubSeq(raw, (m + 2) + 1, Len(raw)) = note
  <2> DEFINE sub == SubSeq(raw, m + 3, Len(raw))
  <2> HIDE DEF m
  <2>0. m + 3 \in Int /\ Len(raw) \in Int /\ \A i \in m + 3 .. Len(raw) : raw[i] \in Chars
    BY <1>1
  <2>5. sub \in Seq(Chars) /\ Len(sub) = (IF m + 3 <= Len(raw) THEN Len(raw) - (m + 3) + 1 ELSE 0)
        /\ \A i \in 1 .. Len(raw) - (m + 3) + 1 : sub[i] = raw[(m + 3) + i - 1]
    BY <2>0, SubSeqProperties
  <2>1. sub \in Seq(Chars) /\ Len(sub) = Len(note) /\ \A i \in 1 .. Len(note) : sub[i] = raw[m + 2 + i]
    <3>1. Len(sub) = Len(note) /\ Len(raw) - (m + 3) + 1 = Len(note)
      BY <1>1, <2>5
    <3>2. ASSUME NEW i \in 1 .. Len(note) PROVE (m + 3) + i - 1 = m + 2 + i
      BY <1>1
    <3> HIDE DEF sub
    <3> QED BY <2>5, <3>1, <3>2
  <2>2. (m + 2) + 1 = m + 3
    BY <1>1
  <2> HIDE DEF sub
  <2>3. sub = note
    BY <1>1, <2>1, SeqEqual
  <2> QED BY <2>2, <2>3 DEF sub
<1> HIDE DEF m
<1>5. Value(raw) = [Absent EXCEPT !.kind = "line", !.chars = Unescape(SubSeq(raw, 2, (m + 2) - 1)),
                                  !.note = SubSeq(raw, (m + 2) + 1, Len(raw))]
  BY <1>1, <1>2 DEF Value
<1> QED BY <1>3, <1>4, <1>5, UnescapeEscaped DEF raw

(* Any assignment gives its key a value, and a comment that is a text.       *)
LEMMA ValueTypes ==
  ASSUME NEW raw \in Seq(Chars)
  PROVE  Value(raw).note \in Seq(Chars) /\ Value(raw) # Absent /\ Value(raw).kind = "line"
<1> DEFINE hash == SelectInSeq(raw, LAMBDA c : c = Hash)
           end == IF raw[1] \in {Quote, Tick} THEN StringEnd(raw)
                  ELSE IF hash = 0 THEN Len(raw) ELSE hash - 1
<1>1. StringEnd(raw) \in Nat
  <2>1. PICK p \in Runs(EndStates(raw), EndStart, Len(raw), EndSteps(raw)) : StringEnd(raw) = p[Len(raw)].end
    BY EndRuns
  <2>2. Len(raw) \in 0 .. Len(raw)
    BY LenProperties
  <2>3. p[Len(raw)] \in EndStates(raw)
    BY <2>1, <2>2 DEF Runs
  <2> QED BY <2>1, <2>3 DEF EndStates
<1>2. hash \in Nat
  <2> DEFINE I == {i \in 1 .. Len(raw) : raw[i] = Hash}
  <2>1. hash = IF I # {} THEN Min(I) ELSE 0
    BY DEF SelectInSeq
  <2>2. I \in SUBSET Nat
    OBVIOUS
  <2>3. I # {} => Min(I) \in Nat
    <3> HIDE DEF I
    <3> QED BY <2>2, LeastExists
  <2> HIDE DEF I, hash
  <2> QED BY <2>1, <2>3
<1>3. end \in Nat
  <2>1. Len(raw) \in Nat /\ (hash # 0 => hash - 1 \in Nat)
    BY <1>2, LenProperties
  <2> HIDE DEF hash
  <2> QED BY <1>1, <2>1
<1>4. Value(raw).kind = "line" /\ Value(raw).note = SubSeq(raw, end + 1, Len(raw))
  BY DEF Value, Absent
<1>5. SubSeq(raw, end + 1, Len(raw)) \in Seq(Chars)
  <2> HIDE DEF end
  <2>1. end + 1 \in Int /\ Len(raw) \in Int /\ \A i \in end + 1 .. Len(raw) : raw[i] \in Chars
    BY <1>3
  <2> QED BY <2>1, SubSeqProperties
<1>6. Absent.kind = "absent"
  BY DEF Absent
<1> QED BY <1>4, <1>5, <1>6

-----------------------------------------------------------------------------
(* Editing line by line *)

(* The lines that the editor copes with, when it is to write u               *)
Editable(u) ==
    {line \in TomlLines :
        /\ line.count <= 2
        /\ line.key \in DOMAIN u => line.count = 0 /\ CommentOf(line.raw) = Value(line.raw).note}

EditStates(u) ==
    [delim: {"none", "basic", "literal"}, insert: Nat, todo: SUBSET (DOMAIN u), out: Seq(TomlLines)]

EditSteps(u, lines) == [x \in EditStates(u) \X (1 .. Len(lines)) |-> EditLine(u, x[1], lines[x[2]])]

(* What the parts of a state of editing are                                  *)
LEMMA EditStateTypes ==
  ASSUME NEW u, NEW s \in EditStates(u)
  PROVE  /\ s.delim \in {"none", "basic", "literal"} /\ s.insert \in Nat /\ s.todo \in SUBSET (DOMAIN u)
         /\ s.out \in Seq(TomlLines)
  BY DEF EditStates

(* A line for a key and a value, and the line it replaces                    *)
LEMMA AssignType ==
  ASSUME NEW k \in Keys, NEW v \in Seq(Chars), NEW note \in Seq(Chars)
  PROVE  LET line == Assign(k, TomlValue(v) \o note)
         IN  /\ line \in TomlLines /\ line.key = k /\ line.raw = TomlValue(v) \o note
             /\ line.count = 0 /\ line.head = "none" /\ line # Blank
<1> DEFINE raw == TomlValue(v) \o note
<1>1. raw \in Seq(Chars)
  BY Written DEF IsWritten
<1> HIDE DEF raw
<1>2. Assign(k, raw) = [key |-> k, raw |-> raw, delim |-> "none", count |-> 0, head |-> "none"]
  BY DEF Assign, Line
<1>3. Assign(k, raw) \in TomlLines
  BY <1>1, <1>2 DEF TomlLines
<1>4. Blank.key = NoKey /\ k # NoKey
  BY TomlAssumption DEF Blank, Header, Line
<1> QED BY <1>2, <1>3, <1>4 DEF raw

(* A replaced line is a line of the same key ...                             *)
LEMMA ReplacedIs ==
  ASSUME NEW u, IsUpdate(u), NEW line \in Editable(u), line.key \in DOMAIN u
  PROVE  LET new == Replaced(line, u[line.key])
         IN  new \in TomlLines /\ new.key = line.key /\ new.count = 0 /\ new.head = "none"
<1> DEFINE v == u[line.key]
           note == CommentOf(line.raw)
<1>1. line.key \in Keys /\ v \in Seq(Chars) /\ line \in TomlLines /\ note = Value(line.raw).note
  BY DEF IsUpdate, Editable
<1>2. note \in Seq(Chars)
  BY <1>1, LineTypes, ValueTypes
<1>3. Replaced(line, v) = Assign(line.key, TomlValue(v) \o note)
  BY DEF Replaced
<1> HIDE DEF v, note
<1> QED BY <1>1, <1>2, <1>3, AssignType DEF v

(* ... that reads as the new value and the old comment.                      *)
LEMMA ReplacedReads ==
  ASSUME NEW u, IsUpdate(u), NEW line \in Editable(u), line.key \in DOMAIN u
  PROVE  Value(Replaced(line, u[line.key]).raw) =
            [Absent EXCEPT !.kind = "line", !.chars = u[line.key], !.note = Value(line.raw).note]
<1> DEFINE v == u[line.key]
           note == CommentOf(line.raw)
<1>1. line.key \in Keys /\ v \in Seq(Chars) /\ line \in TomlLines /\ note = Value(line.raw).note
  BY DEF IsUpdate, Editable
<1>2. note \in Seq(Chars)
  BY <1>1, LineTypes, ValueTypes
<1>3. Replaced(line, v) = Assign(line.key, TomlValue(v) \o note)
  BY DEF Replaced
<1> HIDE DEF v, note
<1>4. Value(TomlValue(v) \o note) = [Absent EXCEPT !.kind = "line", !.chars = v, !.note = note]
  BY <1>1, <1>2, ValueReadsBack
<1>5. Replaced(line, v).raw = TomlValue(v) \o note
  BY <1>1, <1>2, <1>3, AssignType
<1> QED BY <1>1, <1>4, <1>5 DEF v

(* Where a text that spans lines is open after a line                        *)
LEMMA ToggledIs ==
  ASSUME NEW delim \in {"none", "basic", "literal"}, NEW line \in TomlLines
  PROVE  /\ Toggled(delim, line) \in {"none", "basic", "literal"}
         /\ line.count \in {0, 2} => Toggled(delim, line) = delim
         /\ line.count = 1 =>
               Toggled(delim, line) = IF delim = "none" THEN line.delim
                                      ELSE IF delim = line.delim THEN "none" ELSE delim
<1>1. line.delim \in {"none", "basic", "literal"}
  BY LineTypes
<1>2. 0 % 2 = 0 /\ 2 % 2 = 0 /\ 1 % 2 = 1
  OBVIOUS
<1> QED BY <1>1, <1>2 DEF Toggled

(* What one line does to the state of the editor                             *)
LEMMA EditLineIs ==
  ASSUME NEW u, IsUpdate(u), NEW s \in EditStates(u), NEW line \in Editable(u)
  PROVE  LET t     == EditLine(u, s, line)
             delim == Toggled(s.delim, line)
             hit   == delim = "none" /\ line.key \in s.todo
         IN  /\ t.delim = delim
             /\ t.insert = IF s.insert = 0 /\ delim = "none" /\ line.head = "section"
                             THEN Len(s.out) + 1 ELSE s.insert
             /\ t.todo = IF hit THEN s.todo \ {line.key} ELSE s.todo
             /\ t.out = Append(s.out, IF hit THEN Replaced(line, u[line.key]) ELSE line)
  BY DEF EditLine

(* The editor goes from state to state.                                      *)
LEMMA EditLineType ==
  ASSUME NEW u, IsUpdate(u), NEW s \in EditStates(u), NEW line \in Editable(u)
  PROVE  EditLine(u, s, line) \in EditStates(u)
<1> DEFINE delim == Toggled(s.delim, line)
           hit == delim = "none" /\ line.key \in s.todo
           new == IF hit THEN Replaced(line, u[line.key]) ELSE line
           insert == IF s.insert = 0 /\ delim = "none" /\ line.head = "section" THEN Len(s.out) + 1 ELSE s.insert
           todo == IF hit THEN s.todo \ {line.key} ELSE s.todo
<1>1. line \in TomlLines
  BY DEF Editable
<1>2. new \in TomlLines
  BY <1>1, EditStateTypes, ReplacedIs
<1>3. delim \in {"none", "basic", "literal"}
  BY <1>1, EditStateTypes, ToggledIs
<1>4. insert \in Nat
  BY EditStateTypes
<1>5. todo \in SUBSET (DOMAIN u)
  BY EditStateTypes
<1>6. EditLine(u, s, line) = [delim |-> delim, insert |-> insert, todo |-> todo, out |-> Append(s.out, new)]
  BY DEF EditLine
<1> HIDE DEF delim, hit, new, insert, todo
<1>7. Append(s.out, new) \in Seq(TomlLines)
  BY <1>2, EditStateTypes
<1> QED BY <1>3, <1>4, <1>5, <1>6, <1>7 DEF EditStates

LEMMA EditStartType == ASSUME NEW u PROVE EditStart(u) \in EditStates(u)
<1>1. <<>> \in Seq(TomlLines) /\ 0 \in Nat
  BY EmptySeq
<1> QED BY <1>1 DEF EditStart, EditStates

(* Editing runs through the states after each line.                          *)
LEMMA EditRuns ==
  ASSUME NEW u, IsUpdate(u), NEW lines \in Seq(Editable(u))
  PROVE  \E p \in Runs(EditStates(u), EditStart(u), Len(lines), EditSteps(u, lines)) : EditLines(u, lines) = p[Len(lines)]
<1> DEFINE n == Len(lines)
           F == EditSteps(u, lines)
           Step(g) == [D \in SUBSET (1 .. n) |->
                         IF D = {} THEN EditStart(u) ELSE EditLine(u, g[D \ {Max(D)}], lines[Max(D)])]
           it == CHOOSE g : g = Step(g)
<1>1. n \in Nat /\ DOMAIN lines = 1 .. n /\ \A i \in 1 .. n : lines[i] \in Editable(u)
  OBVIOUS
<1>2. EditLines(u, lines) = it[1 .. n]
  BY <1>1 DEF EditLines, FoldLeft, MapThenFoldSet
<1> HIDE DEF Step
<1>3. EditStart(u) \in EditStates(u) /\ F \in Steps(EditStates(u), n)
  BY <1>1, EditLineType, EditStartType DEF Steps, EditSteps
<1>4. PICK g \in Solutions(EditStates(u), EditStart(u), n, F) : TRUE
  <2> HIDE DEF F, n
  <2> QED BY <1>1, <1>3, FoldExists
<1>5. g = Step(g)
  <2>1. \A D \in SUBSET (1 .. n) : D # {} => Max(D) \in 1 .. n
    BY <1>1, MaxInInterval
  <2>2. \A D \in SUBSET (1 .. n) : D # {} =>
           F[<<g[D \ {Max(D)}], Max(D)>>] = EditLine(u, g[D \ {Max(D)}], lines[Max(D)])
    BY <1>4, <2>1 DEF Solutions, EditSteps
  <2> HIDE DEF F
  <2> QED BY <1>4, <2>2 DEF Step, Solutions
<1>6. it = Step(it)
  BY <1>5
<1> HIDE DEF it
<1>7. ASSUME NEW k \in 1 .. n, it[1 .. k - 1] \in EditStates(u)
      PROVE  it[1 .. k] = F[<<it[1 .. k - 1], k>>]
  <2>1. Max(1 .. k) = k /\ (1 .. k) \ {k} = 1 .. k - 1 /\ 1 .. k \in SUBSET (1 .. n) /\ 1 .. k # {}
    BY <1>1, Prefix
  <2>2. it[1 .. k] = IF 1 .. k = {} THEN EditStart(u) ELSE EditLine(u, it[(1 .. k) \ {Max(1 .. k)}], lines[Max(1 .. k)])
    BY <1>6, <2>1, Zenon DEF Step
  <2>3. it[1 .. k] = EditLine(u, it[1 .. k - 1], lines[k])
    BY <2>1, <2>2
  <2> QED BY <1>7, <2>3 DEF EditSteps
<1>8. it[{}] = EditStart(u)
  BY <1>6 DEF Step
<1>9. Unrolls(EditStates(u), EditStart(u), n, F, it)
  <2> HIDE DEF F, n
  <2> QED BY <1>7, <1>8 DEF Unrolls
<1> HIDE DEF F, n
<1>10. \E p \in Runs(EditStates(u), EditStart(u), n, F) : p[n] = it[1 .. n]
  BY <1>1, <1>3, <1>9, FoldSteps
<1> QED BY <1>2, <1>10 DEF F, n

(* One line more is edited in the state that the others left.                *)
LEMMA EditAppend ==
  ASSUME NEW u, IsUpdate(u), NEW lines \in Seq(Editable(u)), NEW line \in Editable(u)
  PROVE  /\ EditLines(u, lines) \in EditStates(u)
         /\ EditLines(u, Append(lines, line)) = EditLine(u, EditLines(u, lines), line)
<1> DEFINE n == Len(lines)
           longer == Append(lines, line)
<1>1. /\ n \in Nat /\ Len(longer) = n + 1 /\ longer \in Seq(Editable(u)) /\ longer[n + 1] = line
      /\ \A i \in 1 .. n : longer[i] = lines[i]
  OBVIOUS
<1> HIDE DEF longer
<1>2. PICK p \in Runs(EditStates(u), EditStart(u), n, EditSteps(u, lines)) : EditLines(u, lines) = p[n]
  BY EditRuns
<1> DEFINE m == n + 1
<1>3. PICK q \in Runs(EditStates(u), EditStart(u), m, EditSteps(u, longer)) : EditLines(u, longer) = q[m]
  BY <1>1, EditRuns
<1>4. Agree(EditStates(u), n, EditSteps(u, lines), EditSteps(u, longer))
  BY <1>1 DEF EditSteps, Agree
<1>5. p[n] \in EditStates(u) /\ q[m] = EditSteps(u, longer)[<<p[n], m>>]
  <2>1. n \in Nat /\ m \in Nat /\ n < m /\ m <= n + 1
    BY <1>1
  <2> HIDE DEF n, m
  <2> QED BY <1>4, <2>1, RunsAppend
<1>6. q[m] = EditLine(u, p[n], line)
  BY <1>1, <1>5 DEF EditSteps
<1> QED BY <1>2, <1>3, <1>5, <1>6 DEF longer

(* Without lines, nothing happens.                                           *)
LEMMA LineFolds ==
  /\ \A s \in ReadStates : ReadFrom(s, <<>>) = s
  /\ \A u : IsUpdate(u) => EditLines(u, <<>>) = EditStart(u)
<1>1. \A S : <<>> \in Seq(S) /\ Len(<<>>) = 0
  BY EmptySeq
<1>2. ASSUME NEW s \in ReadStates PROVE ReadFrom(s, <<>>) = s
  <2>1. PICK p \in Runs(ReadStates, s, 0, ReadStep(<<>>)) : ReadFrom(s, <<>>) = p[0]
    BY <1>1, ReadRuns
  <2> QED BY <2>1 DEF Runs
<1>3. ASSUME NEW u, IsUpdate(u) PROVE EditLines(u, <<>>) = EditStart(u)
  <2>1. PICK p \in Runs(EditStates(u), EditStart(u), 0, EditSteps(u, <<>>)) : EditLines(u, <<>>) = p[0]
    BY <1>1, <1>3, EditRuns
  <2> QED BY <2>1 DEF Runs
<1> QED BY <1>2, <1>3

-----------------------------------------------------------------------------
(* Reading what was edited *)

(* States with the same parts are the same.                                  *)
LEMMA SameState ==
  ASSUME NEW a \in ReadStates, NEW b \in ReadStates,
         a.top = b.top, a.delim = b.delim, a.key = b.key, a.text = b.text, a.rest = b.rest, a.bad <=> b.bad
  PROVE  a = b
  BY DEF ReadStates

(* What a line sets: the key that it gives a value, and the value            *)
Closes(s, line) == s.delim # "none" /\ line.count > 0 /\ line.delim = s.delim

Opens(s, line) == s.delim = "none" /\ line.head = "none" /\ line.count = 1

Single(s, line) == s.delim = "none" /\ line.head = "none" /\ line.count # 1

Target(s, line) == IF Closes(s, line) THEN s.key ELSE IF Single(s, line) THEN line.key ELSE NoKey

NewValue(s, line) ==
    IF Closes(s, line) THEN TextValue(Append(s.text, line))
    ELSE IF line.count > 0 THEN TextValue(<<line>>) ELSE Value(line.raw)

Sets(s, line) == s.rest = <<>> /\ Target(s, line) # NoKey

NewRest(s, line) ==
    IF s.delim = "none" /\ line.head # "none" THEN Append(s.rest, line)
    ELSE IF Single(s, line) /\ line.key = NoKey THEN s.rest ELSE Behind(s, line)

(* The parts of a state after setting a key                                  *)
LEMMA AssignedIs ==
  ASSUME NEW s \in ReadStates, NEW line \in TomlLines, NEW key \in Keys \cup {NoKey}, NEW v \in Values
  PROVE  LET t == Assigned(s, line, key, v)
             set == s.rest = <<>> /\ key # NoKey
         IN  /\ t.delim = s.delim /\ t.key = s.key /\ t.text = s.text /\ t.rest = Behind(s, line)
             /\ t.top = IF set THEN [s.top EXCEPT ![key] = v] ELSE s.top
             /\ t.bad <=> s.bad \/ (set /\ s.top[key] # Absent)
<1>1. CASE s.rest = <<>> /\ key # NoKey
  <2>1. Assigned(s, line, key, v) = [s EXCEPT !.top = [s.top EXCEPT ![key] = v], !.bad = s.bad \/ s.top[key] # Absent]
    BY <1>1 DEF Assigned
  <2>2. Behind(s, line) = s.rest
    BY <1>1 DEF Behind
  <2> QED BY <1>1, <2>1, <2>2 DEF ReadStates
<1>2. CASE ~(s.rest = <<>> /\ key # NoKey)
  <2>1. Assigned(s, line, key, v) = [s EXCEPT !.rest = Behind(s, line)]
    BY <1>2 DEF Assigned
  <2> QED BY <1>2, <2>1 DEF ReadStates
<1> QED BY <1>1, <1>2

(* What a line gives its key is a value.                                     *)
LEMMA NewValueType ==
  ASSUME NEW s \in ReadStates, NEW line \in TomlLines
  PROVE  NewValue(s, line) \in Values
<1>1. Append(s.text, line) \in Seq(TomlLines)
  BY ReadStateTypes
<1>2. <<line>> \in Seq(TomlLines)
  OBVIOUS
<1>3. line.raw \in Seq(Chars)
  BY LineTypes
<1>4. TextValue(Append(s.text, line)) \in Values /\ TextValue(<<line>>) \in Values /\ Value(line.raw) \in Values
  BY <1>1, <1>2, <1>3, Zenon DEF Values
<1> QED BY <1>4 DEF NewValue

(* The state after a line, part by part                                      *)
LEMMA ReadLineParts ==
  ASSUME NEW s \in ReadStates, NEW line \in TomlLines
  PROVE  LET t  == ReadLine(s, line)
             to == Target(s, line)
         IN  /\ t.delim = IF Closes(s, line) THEN "none" ELSE IF Opens(s, line) THEN line.delim ELSE s.delim
             /\ t.key = IF Opens(s, line) THEN line.key ELSE s.key
             /\ t.text = IF Opens(s, line) THEN <<line>>
                         ELSE IF s.delim # "none" /\ ~Closes(s, line) THEN Append(s.text, line) ELSE s.text
             /\ t.rest = NewRest(s, line)
             /\ t.top = IF Sets(s, line) THEN [s.top EXCEPT ![to] = NewValue(s, line)] ELSE s.top
             /\ t.bad <=> \/ s.bad
                          \/ Closes(s, line) /\ line.count > 1
                          \/ Opens(s, line) /\ line.key = NoKey
                          \/ Sets(s, line) /\ s.top[to] # Absent
<1> DEFINE v == NewValue(s, line)
<1>0. v \in Values /\ s.key \in Keys \cup {NoKey} /\ line.key \in Keys \cup {NoKey} /\ line.count \in Nat
  BY NewValueType, ReadStateTypes, LineTypes
<1>1. CASE Closes(s, line)
  <2> DEFINE a == Assigned(s, line, s.key, v)
  <2>1. /\ a.delim = s.delim /\ a.key = s.key /\ a.text = s.text /\ a.rest = Behind(s, line)
        /\ a.top = IF s.rest = <<>> /\ s.key # NoKey THEN [s.top EXCEPT ![s.key] = v] ELSE s.top
        /\ a.bad <=> s.bad \/ (s.rest = <<>> /\ s.key # NoKey /\ s.top[s.key] # Absent)
    BY <1>0, AssignedIs
  <2>2. a \in ReadStates
    BY <1>0, AssignedType
  <2>3. ReadLine(s, line) = [a EXCEPT !.delim = "none", !.bad = a.bad \/ line.count > 1]
    BY <1>1, ReadLineIs DEF Closes, NewValue
  <2>4. Target(s, line) = s.key /\ ~Opens(s, line) /\ NewRest(s, line) = Behind(s, line) /\ s.delim # "none"
        /\ (Sets(s, line) <=> s.rest = <<>> /\ s.key # NoKey)
    BY <1>1 DEF Target, Opens, NewRest, Closes, Single, Sets
  <2> HIDE DEF a, v
  <2>5. LET t == ReadLine(s, line)
        IN  /\ t.delim = "none" /\ t.key = a.key /\ t.text = a.text /\ t.rest = a.rest /\ t.top = a.top
            /\ t.bad <=> a.bad \/ line.count > 1
    BY <2>2, <2>3 DEF ReadStates
  <2> QED BY <1>1, <2>1, <2>4, <2>5 DEF v
<1>2. CASE s.delim # "none" /\ ~Closes(s, line)
  <2>1. ReadLine(s, line) = [s EXCEPT !.text = Append(s.text, line), !.rest = Behind(s, line)]
    BY <1>2, ReadLineIs DEF Closes
  <2>2. Target(s, line) = NoKey /\ ~Opens(s, line) /\ ~Sets(s, line) /\ NewRest(s, line) = Behind(s, line)
    BY <1>2 DEF Target, Opens, NewRest, Single, Sets
  <2>3. LET t == ReadLine(s, line)
        IN  /\ t.delim = s.delim /\ t.key = s.key /\ t.text = Append(s.text, line) /\ t.rest = Behind(s, line)
            /\ t.top = s.top /\ t.bad = s.bad
    BY <2>1 DEF ReadStates
  <2> QED BY <1>2, <2>2, <2>3
<1>3. CASE s.delim = "none" /\ line.head # "none"
  <2>1. ReadLine(s, line) = [s EXCEPT !.rest = Append(s.rest, line)]
    BY <1>3, ReadLineIs
  <2>2. Target(s, line) = NoKey /\ ~Opens(s, line) /\ ~Closes(s, line) /\ ~Sets(s, line)
        /\ NewRest(s, line) = Append(s.rest, line)
    BY <1>3 DEF Target, Opens, NewRest, Closes, Single, Sets
  <2>3. LET t == ReadLine(s, line)
        IN  /\ t.delim = s.delim /\ t.key = s.key /\ t.text = s.text /\ t.rest = Append(s.rest, line)
            /\ t.top = s.top /\ t.bad = s.bad
    BY <2>1 DEF ReadStates
  <2> QED BY <1>3, <2>2, <2>3
<1>4. CASE Opens(s, line)
  <2>1. ReadLine(s, line) = [s EXCEPT !.delim = line.delim, !.key = line.key, !.text = <<line>>,
                                      !.rest = Behind(s, line), !.bad = s.bad \/ line.key = NoKey]
    BY <1>4, ReadLineIs DEF Opens
  <2>2. Target(s, line) = NoKey /\ ~Closes(s, line) /\ ~Sets(s, line) /\ NewRest(s, line) = Behind(s, line)
    BY <1>4 DEF Target, Opens, NewRest, Closes, Single, Sets
  <2>3. LET t == ReadLine(s, line)
        IN  /\ t.delim = line.delim /\ t.key = line.key /\ t.text = <<line>> /\ t.rest = Behind(s, line)
            /\ t.top = s.top /\ (t.bad <=> s.bad \/ line.key = NoKey)
    BY <2>1 DEF ReadStates
  <2> QED BY <1>4, <2>2, <2>3
<1>5. CASE Single(s, line) /\ line.key = NoKey
  <2>1. ReadLine(s, line) = s
    BY <1>5, ReadLineIs DEF Single
  <2>2. Target(s, line) = NoKey /\ ~Closes(s, line) /\ ~Sets(s, line) /\ ~Opens(s, line) /\ NewRest(s, line) = s.rest
        /\ s.delim = "none"
    BY <1>5 DEF Target, Opens, NewRest, Closes, Single, Sets
  <2> QED BY <2>1, <2>2
<1>6. CASE Single(s, line) /\ line.key # NoKey
  <2> DEFINE a == Assigned(s, line, line.key, v)
  <2>1. /\ a.delim = s.delim /\ a.key = s.key /\ a.text = s.text /\ a.rest = Behind(s, line)
        /\ a.top = IF s.rest = <<>> /\ line.key # NoKey THEN [s.top EXCEPT ![line.key] = v] ELSE s.top
        /\ a.bad <=> s.bad \/ (s.rest = <<>> /\ line.key # NoKey /\ s.top[line.key] # Absent)
    BY <1>0, AssignedIs
  <2>3. ReadLine(s, line) = a
    BY <1>6, ReadLineIs DEF Closes, Single, NewValue
  <2>4. Target(s, line) = line.key /\ ~Opens(s, line) /\ ~Closes(s, line) /\ NewRest(s, line) = Behind(s, line)
        /\ s.delim = "none" /\ (Sets(s, line) <=> s.rest = <<>> /\ line.key # NoKey)
    BY <1>6 DEF Target, Opens, NewRest, Closes, Single, Sets
  <2> HIDE DEF a, v
  <2> QED BY <2>1, <2>3, <2>4 DEF v
<1> QED BY <1>1, <1>2, <1>3, <1>4, <1>5, <1>6 DEF Single, Opens, Closes

(* A state that differs only in the values of the keys                       *)
Topped(s, top) == [s EXCEPT !.top = top]

(* With other values, the rest of a state is as it was.                      *)
LEMMA ToppedIs ==
  ASSUME NEW s \in ReadStates, NEW top \in [Keys -> Values]
  PROVE  /\ Topped(s, top) \in ReadStates /\ Topped(s, top).top = top
         /\ Topped(s, top).delim = s.delim /\ Topped(s, top).key = s.key /\ Topped(s, top).text = s.text
         /\ Topped(s, top).rest = s.rest /\ (Topped(s, top).bad <=> s.bad)
  BY DEF Topped, ReadStates

LEMMA ToppedSame == ASSUME NEW s \in ReadStates PROVE Topped(s, s.top) = s
<1>1. s.top \in [Keys -> Values]
  BY ReadStateTypes
<1> QED BY <1>1, ToppedIs, SameState

(* How a line is read depends on the values only when it sets one twice.     *)
LEMMA TopMoves ==
  ASSUME NEW s \in ReadStates, NEW line \in TomlLines, NEW top \in [Keys -> Values],
         Sets(s, line) => (top[Target(s, line)] # Absent <=> s.top[Target(s, line)] # Absent)
  PROVE  ReadLine(Topped(s, top), line) =
            Topped(ReadLine(s, line),
                   IF Sets(s, line) THEN [top EXCEPT ![Target(s, line)] = NewValue(s, line)] ELSE top)
<1> DEFINE r  == Topped(s, top)
           to == Target(s, line)
           moved == IF Sets(s, line) THEN [top EXCEPT ![to] = NewValue(s, line)] ELSE top
           a  == ReadLine(r, line)
           b  == Topped(ReadLine(s, line), moved)
<1>1. /\ r \in ReadStates /\ r.top = top /\ r.delim = s.delim /\ r.key = s.key /\ r.text = s.text
      /\ r.rest = s.rest /\ (r.bad <=> s.bad)
  BY ToppedIs
<1> HIDE DEF r
<1>2. /\ Closes(r, line) <=> Closes(s, line)
      /\ Opens(r, line) <=> Opens(s, line)
      /\ Single(r, line) <=> Single(s, line)
  BY <1>1 DEF Closes, Opens, Single
<1>3. Target(r, line) = to /\ NewValue(r, line) = NewValue(s, line) /\ Behind(r, line) = Behind(s, line)
  BY <1>1, <1>2 DEF Target, NewValue, Behind
<1>4. (Sets(r, line) <=> Sets(s, line)) /\ NewRest(r, line) = NewRest(s, line)
  BY <1>1, <1>2, <1>3 DEF Sets, NewRest
<1>5. NewValue(s, line) \in Values /\ moved \in [Keys -> Values]
  BY NewValueType
<1>6. ReadLine(s, line) \in ReadStates /\ a \in ReadStates
  BY <1>1, ReadLineType
<1>7. /\ b \in ReadStates /\ b.top = moved /\ b.delim = ReadLine(s, line).delim
      /\ b.key = ReadLine(s, line).key /\ b.text = ReadLine(s, line).text
      /\ b.rest = ReadLine(s, line).rest /\ (b.bad <=> ReadLine(s, line).bad)
  <2> HIDE DEF moved
  <2> QED BY <1>5, <1>6, ToppedIs
<1> HIDE DEF b
<1>8. a.delim = b.delim /\ a.key = b.key /\ a.text = b.text /\ a.rest = b.rest
  <2>1. /\ a.delim = IF Closes(r, line) THEN "none" ELSE IF Opens(r, line) THEN line.delim ELSE r.delim
        /\ a.key = IF Opens(r, line) THEN line.key ELSE r.key
        /\ a.text = IF Opens(r, line) THEN <<line>>
                    ELSE IF r.delim # "none" /\ ~Closes(r, line) THEN Append(r.text, line) ELSE r.text
        /\ a.rest = NewRest(r, line)
    BY <1>1, ReadLineParts
  <2>2. /\ b.delim = IF Closes(s, line) THEN "none" ELSE IF Opens(s, line) THEN line.delim ELSE s.delim
        /\ b.key = IF Opens(s, line) THEN line.key ELSE s.key
        /\ b.text = IF Opens(s, line) THEN <<line>>
                    ELSE IF s.delim # "none" /\ ~Closes(s, line) THEN Append(s.text, line) ELSE s.text
        /\ b.rest = NewRest(s, line)
    BY <1>7, ReadLineParts
  <2> HIDE DEF a
  <2> QED BY <1>1, <1>2, <1>4, <2>1, <2>2
<1>9. a.top = b.top
  <2>1. a.top = IF Sets(r, line) THEN [r.top EXCEPT ![Target(r, line)] = NewValue(r, line)] ELSE r.top
    BY <1>1, ReadLineParts
  <2> HIDE DEF a
  <2> QED BY <1>1, <1>3, <1>4, <1>7, <2>1
<1>10. a.bad <=> b.bad
  <2>1. a.bad <=> \/ r.bad
                  \/ Closes(r, line) /\ line.count > 1
                  \/ Opens(r, line) /\ line.key = NoKey
                  \/ Sets(r, line) /\ r.top[Target(r, line)] # Absent
    BY <1>1, ReadLineParts
  <2>2. b.bad <=> \/ s.bad
                  \/ Closes(s, line) /\ line.count > 1
                  \/ Opens(s, line) /\ line.key = NoKey
                  \/ Sets(s, line) /\ s.top[to] # Absent
    BY <1>7, ReadLineParts
  <2> HIDE DEF a
  <2> QED BY <1>1, <1>2, <1>3, <1>4, <2>1, <2>2
<1>11. a = b
  <2> HIDE DEF a
  <2> QED BY <1>6, <1>7, <1>8, <1>9, <1>10, SameState
<1> QED BY <1>11 DEF b, r

(* What the editor makes of the values                                       *)
Renewed(u, top) ==
    [k \in Keys |->
       IF k \in DOMAIN u /\ top[k] # Absent
         THEN [Absent EXCEPT !.kind = "line", !.chars = u[k], !.note = top[k].note]
         ELSE top[k]]

NewLine(u, e, line) ==
    IF Toggled(e.delim, line) = "none" /\ line.key \in e.todo THEN Replaced(line, u[line.key]) ELSE line

(* The state r of reading the lines, the state e of editing them and the     *)
(* state a of reading what was edited belong together.                       *)
Followed(u, r, e, a) ==
    /\ e.delim = r.delim
    /\ r.delim # "none" => r.key \notin DOMAIN u
    /\ e.todo = {k \in DOMAIN u : r.top[k] = Absent}
    /\ a = Topped(r, Renewed(u, r.top))
    /\ e.insert = 0 => r.rest = <<>> \/ r.rest[1].head # "section"
    /\ e.insert # 0 => r.rest # <<>>

(* The file is as yet no problem.                                            *)
Unspoilt(u, r) == ~r.bad /\ \A i \in DOMAIN r.rest : r.rest[i].key \notin DOMAIN u

(* Lines only ever join the rest, and the first of them is a header.         *)
LEMMA RestGrows ==
  ASSUME NEW s \in ReadStates, NEW line \in TomlLines
  PROVE  /\ NewRest(s, line) = s.rest \/ NewRest(s, line) = Append(s.rest, line)
         /\ s.rest = <<>> /\ NewRest(s, line) # <<>> =>
               s.delim = "none" /\ line.head # "none" /\ NewRest(s, line) = Append(s.rest, line)
  BY DEF NewRest, Behind

(* What is no problem after a line was none before it.                       *)
LEMMA UnspoiltBefore ==
  ASSUME NEW u, NEW s \in ReadStates, NEW line \in TomlLines, Unspoilt(u, ReadLine(s, line))
  PROVE  Unspoilt(u, s)
<1> DEFINE t == ReadLine(s, line)
<1>1. ~t.bad /\ t.rest = NewRest(s, line) /\ \A i \in DOMAIN t.rest : t.rest[i].key \notin DOMAIN u
  BY ReadLineParts DEF Unspoilt
<1>2. ~s.bad
  BY <1>1, ReadLineParts
<1>3. s.rest \in Seq(TomlLines)
  BY ReadStateTypes
<1> HIDE DEF t
<1>4. \A i \in DOMAIN s.rest : s.rest[i].key \notin DOMAIN u
  <2> DEFINE rest == s.rest
  <2>1. t.rest = rest \/ t.rest = Append(rest, line)
    BY <1>1, RestGrows
  <2>2. rest \in Seq(TomlLines)
    BY <1>3
  <2> HIDE DEF rest
  <2>3. CASE t.rest = Append(rest, line)
    <3>1. \A i \in DOMAIN rest : i \in DOMAIN t.rest /\ t.rest[i] = rest[i]
      BY <2>2, <2>3
    <3> QED BY <1>1, <3>1 DEF rest
  <2> QED BY <1>1, <2>1, <2>3 DEF rest
<1> QED BY <1>2, <1>4 DEF Unspoilt

(* Renewed values are values.                                                *)
LEMMA RenewedType ==
  ASSUME NEW u, IsUpdate(u), NEW top \in [Keys -> Values]
  PROVE  Renewed(u, top) \in [Keys -> Values]
<1> SUFFICES ASSUME NEW k \in Keys, k \in DOMAIN u
             PROVE  [Absent EXCEPT !.kind = "line", !.chars = u[k], !.note = top[k].note] \in Values
  BY DEF Renewed
<1> DEFINE note == top[k].note
<1>1. note \in Seq(Chars)
  <2>1. top[k] \in Values
    OBVIOUS
  <2>2. Absent.note = <<>> /\ \A t : TextValue(t).note = <<>>
    BY DEF Absent, TextValue
  <2>3. <<>> \in Seq(Chars)
    BY EmptySeq
  <2> QED BY <2>1, <2>2, <2>3, ValueTypes DEF Values
<1>2. u[k] \in Seq(Chars)
  BY DEF IsUpdate
<1> HIDE DEF note
<1>3. TomlValue(u[k]) \o note \in Seq(Chars)
  BY <1>1, <1>2, Written DEF IsWritten
<1>4. Value(TomlValue(u[k]) \o note) = [Absent EXCEPT !.kind = "line", !.chars = u[k], !.note = note]
  BY <1>1, <1>2, ValueReadsBack
<1>5. Value(TomlValue(u[k]) \o note) \in Values
  BY <1>3, Zenon DEF Values
<1> QED BY <1>4, <1>5 DEF note

(* A line that is left as it is is read as before.                           *)
LEMMA KeptLine ==
  ASSUME NEW u, IsUpdate(u), NEW r \in ReadStates, NEW line \in TomlLines,
         Sets(r, line) => Target(r, line) \notin DOMAIN u
  PROVE  /\ ReadLine(Topped(r, Renewed(u, r.top)), line) = Topped(ReadLine(r, line), Renewed(u, ReadLine(r, line).top))
         /\ {k \in DOMAIN u : ReadLine(r, line).top[k] = Absent} = {k \in DOMAIN u : r.top[k] = Absent}
<1> DEFINE to == Target(r, line)
           v == NewValue(r, line)
           new == Renewed(u, r.top)
           set == Sets(r, line)
           top == ReadLine(r, line).top
<1>1. r.top \in [Keys -> Values] /\ new \in [Keys -> Values] /\ to \in Keys \cup {NoKey}
  BY ReadStateTypes, LineTypes, RenewedType DEF Target
<1>2. top = IF set THEN [r.top EXCEPT ![to] = v] ELSE r.top
  BY ReadLineParts
<1>3. set => to \in Keys /\ to \notin DOMAIN u
  BY <1>1 DEF Sets
<1>4. set => new[to] = r.top[to]
  BY <1>3 DEF Renewed
<1>5. Renewed(u, top) = IF set THEN [new EXCEPT ![to] = v] ELSE new
  <2>1. CASE set
    <3>1. to \in Keys /\ to \notin DOMAIN u /\ top = [r.top EXCEPT ![to] = v]
      BY <1>2, <1>3, <2>1
    <3> HIDE DEF set, to, v, top
    <3>2. ASSUME NEW k \in Keys PROVE Renewed(u, top)[k] = [new EXCEPT ![to] = v][k]
      BY <1>1, <3>1 DEF Renewed
    <3>3. Renewed(u, top) \in [Keys -> {Renewed(u, top)[k] : k \in Keys}]
      BY DEF Renewed
    <3> QED BY <1>1, <2>1, <3>2, <3>3 DEF Renewed
  <2>2. CASE ~set
    BY <1>2, <2>2
  <2> QED BY <2>1, <2>2
<1>6. ReadLine(Topped(r, new), line) = Topped(ReadLine(r, line), IF set THEN [new EXCEPT ![to] = v] ELSE new)
  BY <1>1, <1>4, TopMoves
<1>7. \A k \in DOMAIN u : top[k] = r.top[k]
  BY <1>1, <1>2, <1>3 DEF IsUpdate
<1> HIDE DEF to, v, set
<1> QED BY <1>5, <1>6, <1>7

(* A line that is replaced gives its key the new value and the old comment.  *)
LEMMA ReplacedLine ==
  ASSUME NEW u, IsUpdate(u), NEW r \in ReadStates, NEW line \in Editable(u), line.key \in DOMAIN u,
         r.delim = "none", r.rest = <<>>, r.top[line.key] = Absent
  PROVE  /\ ReadLine(Topped(r, Renewed(u, r.top)), Replaced(line, u[line.key])) =
               Topped(ReadLine(r, line), Renewed(u, ReadLine(r, line).top))
         /\ {k \in DOMAIN u : ReadLine(r, line).top[k] = Absent} =
               {k \in DOMAIN u : r.top[k] = Absent} \ {line.key}
<1> DEFINE key == line.key
           rep == Replaced(line, u[key])
           old == Value(line.raw)
           val == [Absent EXCEPT !.kind = "line", !.chars = u[key], !.note = old.note]
           new == Renewed(u, r.top)
           top == ReadLine(r, line).top
           a == ReadLine(Topped(r, new), rep)
           b == Topped(ReadLine(r, line), Renewed(u, top))
<1>1. line \in TomlLines /\ line.count = 0 /\ key \in Keys /\ key # NoKey
  BY TomlAssumption DEF Editable, IsUpdate
<1>2. line.head = "none" /\ line.raw \in Seq(Chars)
  BY <1>1, LineTypes
<1>3. /\ rep \in TomlLines /\ rep.key = key /\ rep.count = 0 /\ rep.head = "none" /\ Value(rep.raw) = val
  <2>1. rep \in TomlLines /\ rep.key = line.key /\ rep.count = 0 /\ rep.head = "none"
    BY ReplacedIs
  <2>2. Value(rep.raw) = val
    BY ReplacedReads
  <2> QED BY <2>1, <2>2
<1>4. old # Absent
  BY <1>2, ValueTypes
<1> HIDE DEF key, rep, old
<1>5. r.top \in [Keys -> Values] /\ new \in [Keys -> Values] /\ new[key] = Absent
  <2>1. r.top \in [Keys -> Values]
    BY ReadStateTypes
  <2>2. new \in [Keys -> Values]
    BY <2>1, RenewedType
  <2>3. new[key] = r.top[key]
    BY <1>1 DEF Renewed, key
  <2> QED BY <2>1, <2>2, <2>3 DEF key
<1>6. LET t == Topped(r, new)
      IN  /\ t \in ReadStates /\ t.top = new /\ t.delim = "none" /\ t.key = r.key /\ t.text = r.text
          /\ t.rest = <<>> /\ (t.bad <=> r.bad)
  BY <1>5, ToppedIs
<1>7. /\ ~Closes(r, line) /\ ~Opens(r, line) /\ Target(r, line) = key /\ Sets(r, line)
      /\ NewValue(r, line) = old /\ NewRest(r, line) = <<>>
  BY <1>1, <1>2 DEF Closes, Opens, Single, Target, Sets, NewValue, NewRest, Behind, key, old
<1>8. LET t == Topped(r, new)
      IN  /\ ~Closes(t, rep) /\ ~Opens(t, rep) /\ Target(t, rep) = key /\ Sets(t, rep)
          /\ NewValue(t, rep) = val /\ NewRest(t, rep) = <<>>
  BY <1>1, <1>3, <1>6 DEF Closes, Opens, Single, Target, Sets, NewValue, NewRest, Behind
<1>9. LET t == ReadLine(r, line)
      IN  /\ t \in ReadStates /\ t.delim = "none" /\ t.key = r.key /\ t.text = r.text /\ t.rest = <<>>
          /\ t.top = [r.top EXCEPT ![key] = old] /\ (t.bad <=> r.bad)
  <2> DEFINE t == ReadLine(r, line)
  <2>1. t \in ReadStates
    BY <1>1, ReadLineType
  <2>2. /\ t.delim = IF Closes(r, line) THEN "none" ELSE IF Opens(r, line) THEN line.delim ELSE r.delim
        /\ t.key = IF Opens(r, line) THEN line.key ELSE r.key
        /\ t.text = IF Opens(r, line) THEN <<line>>
                    ELSE IF r.delim # "none" /\ ~Closes(r, line) THEN Append(r.text, line) ELSE r.text
        /\ t.rest = NewRest(r, line)
        /\ t.top = IF Sets(r, line) THEN [r.top EXCEPT ![Target(r, line)] = NewValue(r, line)] ELSE r.top
        /\ t.bad <=> \/ r.bad
                     \/ Closes(r, line) /\ line.count > 1
                     \/ Opens(r, line) /\ line.key = NoKey
                     \/ Sets(r, line) /\ r.top[Target(r, line)] # Absent
    BY <1>1, ReadLineParts
  <2> HIDE DEF t
  <2>3. t.delim = "none" /\ t.key = r.key /\ t.text = r.text /\ t.rest = <<>>
    BY <1>7, <2>2
  <2>4. t.top = [r.top EXCEPT ![key] = old] /\ (t.bad <=> r.bad)
    BY <1>7, <2>2 DEF key
  <2> QED BY <2>1, <2>3, <2>4 DEF t
<1>10. /\ a \in ReadStates /\ a.delim = "none" /\ a.key = r.key /\ a.text = r.text /\ a.rest = <<>>
       /\ a.top = [new EXCEPT ![key] = val] /\ (a.bad <=> r.bad)
  <2> DEFINE t == Topped(r, new)
  <2>0. /\ t \in ReadStates /\ t.top = new /\ t.delim = "none" /\ t.key = r.key /\ t.text = r.text
        /\ t.rest = <<>> /\ (t.bad <=> r.bad)
    BY <1>6
  <2>5. /\ ~Closes(t, rep) /\ ~Opens(t, rep) /\ Target(t, rep) = key /\ Sets(t, rep)
        /\ NewValue(t, rep) = val /\ NewRest(t, rep) = <<>>
    BY <1>8
  <2> HIDE DEF t, val, new
  <2>1. ReadLine(t, rep) \in ReadStates
    BY <1>3, <2>0, ReadLineType
  <2> DEFINE n == ReadLine(t, rep)
  <2>2. /\ n.delim = IF Closes(t, rep) THEN "none" ELSE IF Opens(t, rep) THEN rep.delim ELSE t.delim
        /\ n.key = IF Opens(t, rep) THEN rep.key ELSE t.key
        /\ n.text = IF Opens(t, rep) THEN <<rep>>
                    ELSE IF t.delim # "none" /\ ~Closes(t, rep) THEN Append(t.text, rep) ELSE t.text
        /\ n.rest = NewRest(t, rep)
        /\ n.top = IF Sets(t, rep) THEN [t.top EXCEPT ![Target(t, rep)] = NewValue(t, rep)] ELSE t.top
        /\ n.bad <=> \/ t.bad
                     \/ Closes(t, rep) /\ rep.count > 1
                     \/ Opens(t, rep) /\ rep.key = NoKey
                     \/ Sets(t, rep) /\ t.top[Target(t, rep)] # Absent
    BY <1>3, <2>0, ReadLineParts
  <2> HIDE DEF n
  <2>3. n.delim = "none" /\ n.key = r.key /\ n.text = r.text /\ n.rest = <<>>
    BY <2>0, <2>2, <2>5
  <2>4. n.top = [new EXCEPT ![key] = val] /\ (n.bad <=> r.bad)
    BY <1>5, <2>0, <2>2, <2>5
  <2>6. a = n
    BY DEF n, t
  <2> HIDE DEF a
  <2> QED BY <2>1, <2>3, <2>4, <2>6 DEF n
<1>11. Renewed(u, top) = [new EXCEPT ![key] = val]
  <2>1. top = [r.top EXCEPT ![key] = old]
    BY <1>9
  <2> HIDE DEF top
  <2>2. Renewed(u, top) \in [Keys -> Values] /\ [new EXCEPT ![key] = val] \in [Keys -> Values \cup {val}]
    <3>1. top \in [Keys -> Values]
      BY <1>2, <1>5, <2>1 DEF Values, old
    <3> QED BY <1>5, <3>1, RenewedType
  <2>3. ASSUME NEW k \in Keys PROVE Renewed(u, top)[k] = [new EXCEPT ![key] = val][k]
    <3>1. CASE k = key
      <4>1. top[k] = old /\ k \in DOMAIN u
        BY <1>1, <1>5, <2>1, <3>1 DEF key
      <4> QED BY <1>4, <1>5, <3>1, <4>1 DEF Renewed
    <3>2. CASE k # key
      <4>1. top[k] = r.top[k]
        BY <1>5, <2>1, <3>2
      <4> QED BY <1>5, <3>2, <4>1 DEF Renewed
    <3> QED BY <3>1, <3>2
  <2> HIDE DEF val, new
  <2> QED BY <2>2, <2>3
<1>12. a = b
  <2>1. Renewed(u, top) \in [Keys -> Values]
    BY <1>9, ReadStateTypes, RenewedType
  <2> DEFINE n == Renewed(u, top)
             t == ReadLine(r, line)
  <2>2. /\ b \in ReadStates /\ b.top = n /\ b.delim = t.delim /\ b.key = t.key /\ b.text = t.text
        /\ b.rest = t.rest /\ (b.bad <=> t.bad)
    <3> HIDE DEF n
    <3> QED BY <1>9, <2>1, ToppedIs DEF n
  <2> HIDE DEF a, b, n
  <2> QED BY <1>9, <1>10, <1>11, <2>2, SameState DEF n
<1>13. {k \in DOMAIN u : top[k] = Absent} = {k \in DOMAIN u : r.top[k] = Absent} \ {key}
  <2>1. top = [r.top EXCEPT ![key] = old] /\ DOMAIN u \subseteq Keys
    BY <1>9 DEF IsUpdate
  <2> HIDE DEF top
  <2> QED BY <1>1, <1>4, <1>5, <2>1
<1> QED BY <1>12, <1>13 DEF key, rep

(* A line that the editor finds a key to replace in is a line of that key,   *)
(* the first one, above all sections.                                        *)
LEMMA HitIs ==
  ASSUME NEW u, IsUpdate(u), NEW r \in ReadStates, NEW e \in EditStates(u), NEW a, Followed(u, r, e, a),
         NEW line \in Editable(u), Unspoilt(u, ReadLine(r, line)),
         Toggled(e.delim, line) = "none", line.key \in e.todo
  PROVE  line.key \in DOMAIN u /\ r.delim = "none" /\ r.rest = <<>> /\ r.top[line.key] = Absent
<1>1. line.key \in DOMAIN u /\ r.top[line.key] = Absent /\ line.key # NoKey
  BY TomlAssumption DEF Followed, IsUpdate
<1>2. line \in TomlLines /\ line.count = 0
  BY <1>1 DEF Editable
<1>3. r.delim = "none"
  <2>1. e.delim = r.delim /\ e.delim \in {"none", "basic", "literal"}
    BY EditStateTypes DEF Followed
  <2> QED BY <1>2, <2>1, ToggledIs
<1>4. r.rest = <<>>
  <2> SUFFICES ASSUME r.rest # <<>> PROVE FALSE
    OBVIOUS
  <2> DEFINE rest == r.rest
  <2>1. rest \in Seq(TomlLines) /\ rest # <<>>
    BY ReadStateTypes
  <2>2. line.head = "none" /\ line # Blank
    BY <1>1, <1>2, LineTypes DEF Blank, Header, Line
  <2>3. ReadLine(r, line).rest = Append(rest, line)
    <3>1. ReadLine(r, line).rest = NewRest(r, line)
      BY <1>2, ReadLineParts
    <3> QED BY <1>1, <1>2, <1>3, <2>1, <2>2, <3>1 DEF NewRest, Behind, Single
  <2> HIDE DEF rest
  <2>4. \A i \in DOMAIN Append(rest, line) : Append(rest, line)[i].key \notin DOMAIN u
    BY <2>3 DEF Unspoilt
  <2>5. Len(rest) + 1 \in DOMAIN Append(rest, line) /\ Append(rest, line)[Len(rest) + 1] = line
    BY <1>2, <2>1
  <2> QED BY <1>1, <2>4, <2>5
<1> QED BY <1>1, <1>3, <1>4

(* A line that sets a key that is to be written is such a line.              *)
LEMMA SetsOthers ==
  ASSUME NEW u, IsUpdate(u), NEW r \in ReadStates, NEW e \in EditStates(u), NEW a, Followed(u, r, e, a),
         NEW line \in Editable(u), Unspoilt(u, ReadLine(r, line)),
         ~(Toggled(e.delim, line) = "none" /\ line.key \in e.todo),
         Sets(r, line)
  PROVE  Target(r, line) \notin DOMAIN u
<1> SUFFICES ASSUME Target(r, line) \in DOMAIN u PROVE FALSE
  OBVIOUS
<1>1. line \in TomlLines /\ e.delim = r.delim /\ e.delim \in {"none", "basic", "literal"} /\ ~ReadLine(r, line).bad
  BY EditStateTypes DEF Editable, Followed, Unspoilt
<1>2. ~Closes(r, line)
  BY DEF Followed, Closes, Target
<1>3. Single(r, line) /\ Target(r, line) = line.key
  BY <1>2, TomlAssumption DEF Target, IsUpdate
<1>4. line.count = 0 /\ r.delim = "none"
  BY <1>3 DEF Editable, Single
<1>5. Toggled(e.delim, line) = "none"
  BY <1>1, <1>4, ToggledIs
<1>6. r.top[line.key] # Absent
  BY <1>3, <1>5 DEF Followed
<1>7. ReadLine(r, line).bad
  BY <1>1, <1>3, <1>6, ReadLineParts
<1> QED BY <1>1, <1>7

(* Editing and reading one line more keeps the states together.              *)
LEMMA FollowStep ==
  ASSUME NEW u, IsUpdate(u), NEW r \in ReadStates, NEW e \in EditStates(u), NEW a, Followed(u, r, e, a),
         NEW line \in Editable(u), Unspoilt(u, ReadLine(r, line))
  PROVE  Followed(u, ReadLine(r, line), EditLine(u, e, line), ReadLine(a, NewLine(u, e, line)))
<1> DEFINE hit == Toggled(e.delim, line) = "none" /\ line.key \in e.todo
           t == ReadLine(r, line)
           f == EditLine(u, e, line)
<1>1. /\ line \in TomlLines /\ line.count \in {0, 1, 2} /\ line.delim \in {"none", "basic", "literal"}
      /\ line.key \in Keys \cup {NoKey} /\ (line.count > 0 => line.delim # "none" /\ line.head = "none")
      /\ (line.key \in DOMAIN u => line.count = 0)
  <2>1. line \in TomlLines /\ line.count <= 2 /\ (line.key \in DOMAIN u => line.count = 0)
    BY DEF Editable
  <2>2. line.count \in Nat
    BY <2>1, LineTypes
  <2> QED BY <2>1, <2>2, LineTypes
<1>2. /\ e.delim = r.delim /\ e.delim \in {"none", "basic", "literal"} /\ e.out \in Seq(TomlLines) /\ e.insert \in Nat
      /\ ~t.bad
  BY EditStateTypes DEF Followed, Unspoilt
<1>3. /\ f.delim = Toggled(e.delim, line)
      /\ f.insert = IF e.insert = 0 /\ f.delim = "none" /\ line.head = "section" THEN Len(e.out) + 1 ELSE e.insert
      /\ f.todo = IF hit THEN e.todo \ {line.key} ELSE e.todo
  BY DEF EditLine
<1>4. /\ t.delim = IF Closes(r, line) THEN "none" ELSE IF Opens(r, line) THEN line.delim ELSE r.delim
      /\ t.key = IF Opens(r, line) THEN line.key ELSE r.key
      /\ t.rest = NewRest(r, line)
      /\ ~(Closes(r, line) /\ line.count > 1)
  BY <1>1, <1>2, ReadLineParts
<1>5. hit => line.key \in DOMAIN u /\ r.delim = "none" /\ r.rest = <<>> /\ r.top[line.key] = Absent
  BY HitIs
<1>6. ~hit => (Sets(r, line) => Target(r, line) \notin DOMAIN u)
  BY SetsOthers
<1>7. r.rest \in Seq(TomlLines)
  BY ReadStateTypes
<1> HIDE DEF t, f
<1>8. f.delim = t.delim
  <2>1. CASE line.count \in {0, 2}
    <3>1. f.delim = r.delim
      BY <1>1, <1>2, <1>3, <2>1, ToggledIs
    <3> QED BY <1>4, <2>1, <3>1 DEF Closes, Opens
  <2>2. CASE line.count = 1
    <3>1. f.delim = IF r.delim = "none" THEN line.delim ELSE IF r.delim = line.delim THEN "none" ELSE r.delim
      BY <1>1, <1>2, <1>3, <2>2, ToggledIs
    <3> QED BY <1>1, <1>4, <2>2, <3>1 DEF Closes, Opens
  <2> QED BY <1>1, <2>1, <2>2
<1>9. t.delim # "none" => t.key \notin DOMAIN u
  <2> SUFFICES ASSUME t.delim # "none" PROVE t.key \notin DOMAIN u
    OBVIOUS
  <2>1. CASE Opens(r, line)
    BY <1>1, <1>4, <2>1 DEF Opens
  <2>2. CASE ~Opens(r, line)
    BY <1>4, <2>2 DEF Followed
  <2> QED BY <2>1, <2>2
<1>10. f.todo = {k \in DOMAIN u : t.top[k] = Absent}
       /\ ReadLine(a, NewLine(u, e, line)) = Topped(t, Renewed(u, t.top))
  <2>1. CASE hit
    <3>1. NewLine(u, e, line) = Replaced(line, u[line.key]) /\ f.todo = e.todo \ {line.key}
      BY <1>3, <2>1 DEF NewLine
    <3> QED BY <1>5, <2>1, <3>1, ReplacedLine DEF Followed, t
  <2>2. CASE ~hit
    <3>1. NewLine(u, e, line) = line /\ f.todo = e.todo
      BY <1>3, <2>2 DEF NewLine
    <3> QED BY <1>1, <1>6, <2>2, <3>1, KeptLine DEF Followed, t
  <2> QED BY <2>1, <2>2
<1>11. /\ f.insert = 0 => t.rest = <<>> \/ t.rest[1].head # "section"
       /\ f.insert # 0 => t.rest # <<>>
  <2> DEFINE rest == r.rest
             more == Append(rest, line)
  <2>1. rest \in Seq(TomlLines) /\ more # <<>> /\ (rest = <<>> => more[1] = line)
        /\ (rest # <<>> => more[1] = rest[1])
    BY <1>1, <1>7
  <2>2. /\ t.rest = rest \/ t.rest = more
        /\ rest = <<>> /\ t.rest # <<>> => r.delim = "none" /\ line.head # "none" /\ t.rest = more
    BY <1>1, <1>4, RestGrows
  <2>3. /\ e.insert = 0 => rest = <<>> \/ rest[1].head # "section"
        /\ e.insert # 0 => rest # <<>>
    BY DEF Followed
  <2>4. r.delim = "none" /\ line.head # "none" => t.rest = more /\ f.delim = "none"
    <3> SUFFICES ASSUME r.delim = "none", line.head # "none" PROVE t.rest = more /\ f.delim = "none"
      OBVIOUS
    <3>1. t.rest = more
      BY <1>4 DEF NewRest
    <3>2. ~Opens(r, line) /\ ~Closes(r, line)
      BY DEF Opens, Closes
    <3> QED BY <1>4, <1>8, <3>1, <3>2
  <2>5. f.delim = "none" /\ line.head = "section" => r.delim = "none"
    <3> SUFFICES ASSUME f.delim = "none", line.head = "section" PROVE r.delim = "none"
      OBVIOUS
    <3>1. line.count = 0
      BY <1>1
    <3>2. ~Closes(r, line) /\ ~Opens(r, line)
      BY <3>1 DEF Closes, Opens
    <3> QED BY <1>4, <1>8, <3>2
  <2>6. Len(e.out) + 1 # 0
    BY <1>2
  <2> HIDE DEF rest, more
  <2>7. ASSUME f.insert = 0 PROVE t.rest = <<>> \/ t.rest[1].head # "section"
    <3>1. e.insert = 0 /\ ~(f.delim = "none" /\ line.head = "section")
      BY <1>3, <2>6, <2>7
    <3> QED BY <2>1, <2>2, <2>3, <2>4, <3>1
  <2>8. ASSUME f.insert # 0 PROVE t.rest # <<>>
    <3>1. e.insert # 0 \/ (f.delim = "none" /\ line.head = "section")
      BY <1>3, <2>8
    <3> QED BY <2>1, <2>2, <2>3, <2>4, <2>5, <3>1
  <2> QED BY <2>7, <2>8
<1> QED BY <1>8, <1>9, <1>10, <1>11 DEF Followed, t, f

(* The place for new keys: what was written before the first section reads   *)
(* as a file of its own, what follows is read whatever the keys are set to.  *)
CutHere(u, r, e, a) ==
    e.insert # 0 /\ r.rest[1].head = "section" =>
        LET p == ReadToml(SubSeq(e.out, 1, e.insert - 1))
        IN  /\ e.insert <= Len(e.out)
            /\ p \in ReadStates /\ p.delim = "none" /\ p.rest = <<>> /\ p.top = a.top
            /\ \A top \in [Keys -> Values] :
                  ReadFrom(Topped(p, top), SubSeq(e.out, e.insert, Len(e.out))) = Topped(a, top)

(* The editor writes one line for each that it reads.                        *)
LEMMA NewLineType ==
  ASSUME NEW u, IsUpdate(u), NEW e \in EditStates(u), NEW line \in Editable(u)
  PROVE  NewLine(u, e, line) \in TomlLines /\ EditLine(u, e, line).out = Append(e.out, NewLine(u, e, line))
<1>1. line \in TomlLines /\ e.todo \subseteq DOMAIN u
  BY EditStateTypes DEF Editable
<1>2. line.key \in e.todo => Replaced(line, u[line.key]) \in TomlLines
  BY <1>1, ReplacedIs
<1>3. EditLine(u, e, line).out = Append(e.out, NewLine(u, e, line))
  BY DEF EditLine, NewLine
<1> QED BY <1>1, <1>2, <1>3 DEF NewLine

(* Lines that do not set a key leave the values alone.                       *)
LEMMA TopStays ==
  ASSUME NEW a \in ReadStates, NEW line \in TomlLines, ~Sets(a, line)
  PROVE  /\ ReadLine(a, line).top = a.top
         /\ \A top \in [Keys -> Values] :
               ReadLine(Topped(a, top), line) = Topped(ReadLine(a, line), top)
<1>1. ReadLine(a, line).top = a.top
  BY ReadLineParts
<1>2. ASSUME NEW top \in [Keys -> Values]
      PROVE  ReadLine(Topped(a, top), line) = Topped(ReadLine(a, line), top)
  BY TopMoves
<1> QED BY <1>1, <1>2

(* The cut stays where it is when a line is appended ...                     *)
LEMMA CutKept ==
  ASSUME NEW out \in Seq(TomlLines), NEW line \in TomlLines, NEW j \in 1 .. Len(out)
  PROVE  /\ SubSeq(Append(out, line), 1, j - 1) = SubSeq(out, 1, j - 1)
         /\ SubSeq(Append(out, line), j, Len(Append(out, line))) = Append(SubSeq(out, j, Len(out)), line)
         /\ SubSeq(out, j, Len(out)) \in Seq(TomlLines)
<1> DEFINE longer == Append(out, line)
           n == Len(out)
           p == SubSeq(longer, 1, j - 1)
           q == SubSeq(out, 1, j - 1)
           x == SubSeq(longer, j, n + 1)
           y == Append(SubSeq(out, j, n), line)
<1>1. /\ longer \in Seq(TomlLines) /\ Len(longer) = n + 1 /\ n \in Nat /\ longer[n + 1] = line
      /\ \A i \in 1 .. n : longer[i] = out[i]
  OBVIOUS
<1> HIDE DEF longer
<1>2. /\ p \in Seq(TomlLines) /\ Len(p) = j - 1 /\ q \in Seq(TomlLines) /\ Len(q) = j - 1
      /\ \A i \in 1 .. j - 1 : p[i] = longer[i] /\ q[i] = out[i]
  BY <1>1
<1>3. p = q
  <2>1. \A i \in 1 .. Len(p) : p[i] = q[i]
    BY <1>1, <1>2
  <2> HIDE DEF p, q
  <2> QED BY <1>2, <2>1, SeqEqual
<1>4. SubSeq(out, j, n) \in Seq(TomlLines) /\ Len(SubSeq(out, j, n)) = n - j + 1
      /\ \A i \in 1 .. n - j + 1 : SubSeq(out, j, n)[i] = out[j + i - 1]
  BY <1>1
<1>5. x \in Seq(TomlLines) /\ Len(x) = n - j + 2 /\ \A i \in 1 .. n - j + 2 : x[i] = longer[j + i - 1]
  BY <1>1
<1>6. y \in Seq(TomlLines) /\ Len(y) = n - j + 2 /\ y[n - j + 2] = line
      /\ \A i \in 1 .. n - j + 1 : y[i] = out[j + i - 1]
  <2> DEFINE z == SubSeq(out, j, n)
  <2>1. z \in Seq(TomlLines) /\ Len(z) = n - j + 1 /\ \A i \in 1 .. n - j + 1 : z[i] = out[j + i - 1]
    BY <1>4
  <2>2. n - j + 1 \in Nat /\ (n - j + 1) + 1 = n - j + 2
    BY <1>1
  <2> HIDE DEF z, n
  <2> QED BY <2>1, <2>2 DEF z
<1>7. x = y
  <2>1. ASSUME NEW i \in 1 .. Len(x) PROVE x[i] = y[i]
    <3>1. CASE i = n - j + 2
      <4>1. j + i - 1 = n + 1 /\ i \in 1 .. n - j + 2
        BY <1>1, <1>5, <3>1
      <4> QED BY <1>1, <1>5, <1>6, <3>1, <4>1
    <3>2. CASE i # n - j + 2
      <4>1. i \in 1 .. n - j + 1 /\ i \in 1 .. n - j + 2 /\ j + i - 1 \in 1 .. n
        BY <1>1, <1>5, <3>2
      <4> QED BY <1>1, <1>5, <1>6, <4>1
    <3> QED BY <3>1, <3>2
  <2> HIDE DEF x, y
  <2> QED BY <1>5, <1>6, <2>1, SeqEqual
<1> QED BY <1>1, <1>3, <1>4, <1>7 DEF longer

(* ... and appears with the first section.                                   *)
LEMMA CutFirst ==
  ASSUME NEW out \in Seq(TomlLines), NEW line \in TomlLines
  PROVE  /\ SubSeq(Append(out, line), 1, (Len(out) + 1) - 1) = out
         /\ SubSeq(Append(out, line), Len(out) + 1, Len(Append(out, line))) = <<line>>
         /\ Append(<<>>, line) = <<line>>
<1> DEFINE longer == Append(out, line)
           n == Len(out)
           x == SubSeq(longer, 1, n)
           y == SubSeq(longer, n + 1, n + 1)
<1>1. /\ longer \in Seq(TomlLines) /\ Len(longer) = n + 1 /\ n \in Nat /\ longer[n + 1] = line
      /\ (n + 1) - 1 = n /\ \A i \in 1 .. n : longer[i] = out[i]
  OBVIOUS
<1> HIDE DEF longer
<1>2. x \in Seq(TomlLines) /\ Len(x) = n /\ \A i \in 1 .. n : x[i] = out[i]
  BY <1>1
<1>3. x = out
  <2> HIDE DEF x
  <2> QED BY <1>2, SeqEqual
<1>4. y \in Seq(TomlLines) /\ Len(y) = 1 /\ y[1] = line
  BY <1>1
<1>5. <<line>> \in Seq(TomlLines) /\ Len(<<line>>) = 1 /\ <<line>>[1] = line
  OBVIOUS
<1>6. y = <<line>>
  <2> HIDE DEF y
  <2> QED BY <1>4, <1>5, SeqEqual
<1> QED BY <1>1, <1>3, <1>6 DEF longer

(* One more line, with a section already found or found here                 *)
LEMMA CutStep ==
  ASSUME NEW u, IsUpdate(u), NEW r \in ReadStates, NEW e \in EditStates(u), NEW a \in ReadStates,
         a = ReadToml(e.out), Followed(u, r, e, a), CutHere(u, r, e, a),
         NEW line \in Editable(u), Unspoilt(u, ReadLine(r, line))
  PROVE  CutHere(u, ReadLine(r, line), EditLine(u, e, line), ReadLine(a, NewLine(u, e, line)))
<1> DEFINE l == NewLine(u, e, line)
           t == ReadLine(r, line)
           f == EditLine(u, e, line)
           b == ReadLine(a, l)
           j == f.insert
           out == e.out
<1> SUFFICES ASSUME f.insert # 0, t.rest[1].head = "section"
             PROVE  LET p == ReadToml(SubSeq(f.out, 1, j - 1))
                    IN  /\ j <= Len(f.out)
                        /\ p \in ReadStates /\ p.delim = "none" /\ p.rest = <<>> /\ p.top = b.top
                        /\ \A top \in [Keys -> Values] :
                              ReadFrom(Topped(p, top), SubSeq(f.out, j, Len(f.out))) = Topped(b, top)
  BY DEF CutHere
<1>1. /\ l \in TomlLines /\ f.out = Append(out, l) /\ out \in Seq(TomlLines) /\ e.insert \in Nat
      /\ line \in TomlLines
  BY NewLineType, EditStateTypes DEF Editable
<1>2. /\ f.delim = Toggled(e.delim, line)
      /\ j = IF e.insert = 0 /\ f.delim = "none" /\ line.head = "section" THEN Len(out) + 1 ELSE e.insert
  BY DEF EditLine
<1>3. t.rest = r.rest \/ t.rest = Append(r.rest, line)
  <2>1. t.rest = NewRest(r, line)
    BY <1>1, ReadLineParts
  <2> QED BY <1>1, <2>1, RestGrows
<1>4. r.rest \in Seq(TomlLines)
  BY ReadStateTypes
<1>5. a.rest = r.rest /\ a.delim = r.delim /\ e.delim = r.delim
  <2>1. r.top \in [Keys -> Values]
    BY ReadStateTypes
  <2>2. Renewed(u, r.top) \in [Keys -> Values]
    BY <2>1, RenewedType
  <2> QED BY <2>2, ToppedIs DEF Followed
<1>6. r.rest # <<>> => t.rest[1] = r.rest[1]
  <2> DEFINE rest == r.rest
  <2>1. rest \in Seq(TomlLines)
    BY <1>4
  <2> HIDE DEF rest
  <2>2. rest # <<>> => Append(rest, line)[1] = rest[1]
    BY <2>1
  <2> QED BY <1>3, <2>2 DEF rest
<1>7. f.out \in Seq(TomlLines) /\ Len(f.out) = Len(out) + 1 /\ Len(out) \in Nat
  BY <1>1
<1> HIDE DEF l, t, f, b, j, out
<1>8. CASE e.insert # 0
  <2>1. r.rest # <<>> /\ j = e.insert /\ r.rest[1].head = "section"
    BY <1>2, <1>6, <1>8 DEF Followed
  <2>2. PICK p \in ReadStates :
           /\ p = ReadToml(SubSeq(out, 1, j - 1))
           /\ j <= Len(out) /\ p.delim = "none" /\ p.rest = <<>> /\ p.top = a.top
           /\ \A top \in [Keys -> Values] :
                 ReadFrom(Topped(p, top), SubSeq(out, j, Len(out))) = Topped(a, top)
    BY <1>8, <2>1 DEF CutHere, out
  <2>3. j \in 1 .. Len(out)
    BY <1>1, <1>7, <1>8, <2>1, <2>2
  <2> DEFINE post == SubSeq(out, j, Len(out))
  <2>4. /\ SubSeq(f.out, 1, j - 1) = SubSeq(out, 1, j - 1)
        /\ SubSeq(f.out, j, Len(f.out)) = Append(post, l)
        /\ post \in Seq(TomlLines)
    BY <1>1, <2>3, CutKept
  <2>5. ~Sets(a, l)
    BY <1>5, <2>1 DEF Sets
  <2>6. b.top = a.top /\ \A top \in [Keys -> Values] : ReadLine(Topped(a, top), l) = Topped(b, top)
    BY <1>1, <2>5, TopStays DEF b
  <2> HIDE DEF post
  <2>7. ASSUME NEW top \in [Keys -> Values]
        PROVE  ReadFrom(Topped(p, top), Append(post, l)) = Topped(b, top)
    <3>1. Topped(p, top) \in ReadStates
      BY ToppedIs
    <3>2. ReadFrom(Topped(p, top), Append(post, l)) = ReadLine(ReadFrom(Topped(p, top), post), l)
      BY <1>1, <2>4, <3>1, ReadAppend
    <3>3. ReadFrom(Topped(p, top), post) = Topped(a, top)
      BY <2>2 DEF post
    <3> QED BY <2>6, <3>2, <3>3
  <2>8. j <= Len(f.out)
    BY <1>7, <2>3
  <2> QED BY <2>2, <2>4, <2>6, <2>7, <2>8
<1>9. CASE e.insert = 0
  <2>1. j = Len(out) + 1 /\ f.delim = "none" /\ line.head = "section"
    BY <1>2, <1>9 DEF j
  <2>2. line.count = 0 /\ line.key = NoKey
    <3>1. line.head # "none"
      BY <2>1
    <3> QED BY <1>1, <3>1, LineTypes
  <2>3. l = line
    <3>1. line.key \notin e.todo
      BY <2>2, TomlAssumption, EditStateTypes DEF IsUpdate
    <3> QED BY <3>1 DEF l, NewLine
  <2>4. r.rest = <<>>
    BY <1>6, <1>9 DEF Followed
  <2>5. r.delim = "none"
    <3>1. e.delim \in {"none", "basic", "literal"}
      BY EditStateTypes
    <3>2. Toggled(e.delim, line) = e.delim
      BY <1>1, <2>2, <3>1, ToggledIs
    <3> QED BY <1>2, <1>5, <2>1, <3>2
  <2>6. ~Sets(a, line)
    BY <1>5, <2>1, <2>5 DEF Sets, Target, Closes, Single
  <2>7. b.top = a.top /\ \A top \in [Keys -> Values] : ReadLine(Topped(a, top), line) = Topped(b, top)
    BY <1>1, <2>3, <2>6, TopStays DEF b
  <2>8. /\ SubSeq(f.out, 1, j - 1) = out
        /\ SubSeq(f.out, j, Len(f.out)) = <<line>> /\ Append(<<>>, line) = <<line>>
    BY <1>1, <2>1, <2>3, CutFirst
  <2>9. ASSUME NEW top \in [Keys -> Values]
        PROVE  ReadFrom(Topped(a, top), <<line>>) = Topped(b, top)
    <3>1. Topped(a, top) \in ReadStates /\ <<>> \in Seq(TomlLines)
      BY ToppedIs, EmptySeq
    <3>2. ReadFrom(Topped(a, top), Append(<<>>, line)) = ReadLine(ReadFrom(Topped(a, top), <<>>), line)
      BY <1>1, <3>1, ReadAppend
    <3>3. ReadFrom(Topped(a, top), <<>>) = Topped(a, top)
      BY <3>1, LineFolds
    <3> QED BY <2>7, <2>8, <3>2, <3>3
  <2>10. j <= Len(f.out)
    BY <1>7, <2>1
  <2>11. a = ReadToml(SubSeq(f.out, 1, j - 1))
    BY <2>8 DEF out
  <2> QED BY <1>5, <2>4, <2>5, <2>7, <2>8, <2>9, <2>10, <2>11
<1> QED BY <1>8, <1>9 DEF f, b, j

(* Reading starts in a state of reading.                                     *)
LEMMA ReadStartType == ReadStart \in ReadStates
<1>1. Absent \in Values /\ <<>> \in Seq(TomlLines)
  BY EmptySeq DEF Values
<1> QED BY <1>1 DEF ReadStart, ReadStates

(* Editing a file and reading what comes of it go together, line by line.    *)
LEMMA EditFollows ==
  ASSUME NEW u, IsUpdate(u), NEW lines \in Seq(Editable(u)), Unspoilt(u, ReadToml(lines))
  PROVE  LET r == ReadToml(lines)
             e == EditLines(u, lines)
             a == ReadToml(e.out)
         IN  /\ r \in ReadStates /\ e \in EditStates(u) /\ a \in ReadStates
             /\ Followed(u, r, e, a) /\ CutHere(u, r, e, a)
<1> DEFINE R(x) == ReadToml(x)
           E(x) == EditLines(u, x)
           A(x) == ReadToml(EditLines(u, x).out)
           T == {x \in Seq(Editable(u)) : Unspoilt(u, R(x)) => Followed(u, R(x), E(x), A(x)) /\ CutHere(u, R(x), E(x), A(x))}
<1>0. \A x \in Seq(Editable(u)) : x \in Seq(TomlLines)
  <2>1. Editable(u) \subseteq TomlLines
    BY DEF Editable
  <2> QED BY <2>1, SeqMonotonic
<1>1. ASSUME NEW x \in Seq(Editable(u)), NEW line \in Editable(u)
      PROVE  /\ R(x) \in ReadStates /\ E(x) \in EditStates(u) /\ A(x) \in ReadStates
             /\ R(Append(x, line)) = ReadLine(R(x), line)
             /\ E(Append(x, line)) = EditLine(u, E(x), line)
             /\ A(Append(x, line)) = ReadLine(A(x), NewLine(u, E(x), line))
  <2>1. x \in Seq(TomlLines) /\ line \in TomlLines
    BY <1>0 DEF Editable
  <2>2. R(x) \in ReadStates /\ R(Append(x, line)) = ReadLine(R(x), line)
    BY <2>1, ReadStartType, ReadAppend DEF ReadToml
  <2>3. E(x) \in EditStates(u) /\ E(Append(x, line)) = EditLine(u, E(x), line)
    BY EditAppend
  <2> DEFINE out == E(x).out
             new == NewLine(u, E(x), line)
  <2>4. out \in Seq(TomlLines) /\ new \in TomlLines /\ E(Append(x, line)).out = Append(out, new)
    BY <2>3, EditStateTypes, NewLineType
  <2> HIDE DEF out, new
  <2>5. ReadToml(out) \in ReadStates /\ ReadToml(Append(out, new)) = ReadLine(ReadToml(out), new)
    BY <2>4, ReadStartType, ReadAppend DEF ReadToml
  <2> QED BY <2>2, <2>3, <2>4, <2>5 DEF out, new
<1>2. /\ R(<<>>) = ReadStart /\ E(<<>>) = EditStart(u) /\ A(<<>>) = ReadStart
  BY ReadStartType, LineFolds DEF ReadToml, EditStart
<1>3. <<>> \in T
  <2>1. Renewed(u, ReadStart.top) = ReadStart.top
    BY DEF Renewed, ReadStart
  <2>2. Topped(ReadStart, ReadStart.top) = ReadStart
    BY ReadStartType, ToppedSame
  <2>3. {k \in DOMAIN u : ReadStart.top[k] = Absent} = DOMAIN u
    BY DEF ReadStart, IsUpdate
  <2>4. Followed(u, ReadStart, EditStart(u), ReadStart)
    BY <2>1, <2>2, <2>3 DEF Followed, ReadStart, EditStart
  <2>5. CutHere(u, ReadStart, EditStart(u), ReadStart)
    BY DEF CutHere, EditStart
  <2> HIDE DEF R, E, A
  <2> QED BY <1>2, <2>4, <2>5, EmptySeq
<1>4. ASSUME NEW x \in Seq(Editable(u)), NEW line \in Editable(u), x \in T PROVE Append(x, line) \in T
  <2> DEFINE y == Append(x, line)
  <2>0. y \in Seq(Editable(u))
    OBVIOUS
  <2> SUFFICES ASSUME Unspoilt(u, R(y))
               PROVE  Followed(u, R(y), E(y), A(y)) /\ CutHere(u, R(y), E(y), A(y))
    BY <2>0
  <2>1. /\ R(x) \in ReadStates /\ E(x) \in EditStates(u) /\ A(x) \in ReadStates
        /\ R(y) = ReadLine(R(x), line)
        /\ E(y) = EditLine(u, E(x), line)
        /\ A(y) = ReadLine(A(x), NewLine(u, E(x), line))
    BY <1>1
  <2>2. line \in TomlLines /\ A(x) = ReadToml(E(x).out)
    BY DEF Editable
  <2> HIDE DEF R, E, A, y
  <2>3. Unspoilt(u, R(x))
    BY <2>1, <2>2, UnspoiltBefore
  <2>4. Followed(u, R(x), E(x), A(x)) /\ CutHere(u, R(x), E(x), A(x))
    BY <1>4, <2>3
  <2>5. Followed(u, R(y), E(y), A(y))
    BY <2>1, <2>4, FollowStep
  <2>6. CutHere(u, R(y), E(y), A(y))
    BY <2>1, <2>2, <2>4, CutStep
  <2> QED BY <2>5, <2>6
<1>5. \A x \in Seq(Editable(u)) : x \in T
  <2> HIDE DEF T
  <2> QED BY <1>3, <1>4, SeqByInduction
<1>6. Followed(u, R(lines), E(lines), A(lines)) /\ CutHere(u, R(lines), E(lines), A(lines))
  BY <1>5
<1>7. R(lines) \in ReadStates /\ E(lines) \in EditStates(u) /\ A(lines) \in ReadStates
  <2>1. lines \in Seq(TomlLines)
    BY <1>0
  <2>2. Blank \in TomlLines
    BY DEF Blank, Header, Line, TomlLines
  <2>3. R(lines) \in ReadStates
    BY <2>1, <2>2, ReadStartType, ReadAppend DEF ReadToml
  <2>4. E(lines) \in EditStates(u)
    <3>1. Blank \in Editable(u)
      <4>1. Blank.count = 0 /\ Blank.key = NoKey
        BY DEF Blank, Header, Line
      <4> QED BY <2>2, <4>1, TomlAssumption DEF Editable, IsUpdate
    <3> QED BY <3>1, EditAppend
  <2>5. E(lines).out \in Seq(TomlLines)
    BY <2>4, EditStateTypes
  <2>6. A(lines) \in ReadStates
    BY <2>2, <2>5, ReadStartType, ReadAppend DEF ReadToml
  <2> QED BY <2>3, <2>4, <2>6
<1> QED BY <1>6, <1>7

-----------------------------------------------------------------------------
(* Adding keys *)

(* Reading one file after another is reading them both.                      *)
LEMMA ReadConcat ==
  ASSUME NEW s \in ReadStates, NEW x \in Seq(TomlLines), NEW y \in Seq(TomlLines)
  PROVE  ReadFrom(s, x \o y) = ReadFrom(ReadFrom(s, x), y) /\ ReadFrom(s, x) \in ReadStates
<1> DEFINE t == ReadFrom(s, x)
           T == {z \in Seq(TomlLines) : ReadFrom(s, x \o z) = ReadFrom(t, z)}
<1>1. t \in ReadStates
  <2>1. Blank \in TomlLines
    BY DEF Blank, Header, Line, TomlLines
  <2> QED BY <2>1, ReadAppend
<1>2. <<>> \in T
  <2>1. <<>> \in Seq(TomlLines) /\ x \o <<>> = x
    BY EmptySeq, ConcatEmptySeq
  <2> QED BY <1>1, <2>1, LineFolds
<1>3. ASSUME NEW z \in Seq(TomlLines), NEW line \in TomlLines, z \in T PROVE Append(z, line) \in T
  <2>1. x \o z \in Seq(TomlLines) /\ Append(z, line) \in Seq(TomlLines)
    BY ConcatProperties, AppendProperties
  <2>2. x \o Append(z, line) = Append(x \o z, line)
    OBVIOUS
  <2>3. ReadFrom(s, Append(x \o z, line)) = ReadLine(ReadFrom(s, x \o z), line)
    BY <2>1, ReadAppend
  <2>4. ReadFrom(t, Append(z, line)) = ReadLine(ReadFrom(t, z), line)
    BY <1>1, ReadAppend
  <2> HIDE DEF t
  <2> QED BY <1>3, <2>1, <2>2, <2>3, <2>4
<1>4. \A z \in Seq(TomlLines) : z \in T
  <2> HIDE DEF T
  <2> QED BY <1>2, <1>3, SeqByInduction
<1> QED BY <1>1, <1>4

(* A sequence, one element at a time                                         *)
LEMMA PrefixFacts ==
  ASSUME NEW S, NEW s \in Seq(S)
  PROVE  /\ SubSeq(s, 1, 0) = <<>> /\ SubSeq(s, 1, Len(s)) = s
         /\ \A m \in Nat : m + 1 <= Len(s) =>
               /\ SubSeq(s, 1, m) \in Seq(S) /\ s[m + 1] \in S
               /\ SubSeq(s, 1, m + 1) = Append(SubSeq(s, 1, m), s[m + 1])
<1>1. SubSeq(s, 1, 0) = <<>> /\ SubSeq(s, 1, Len(s)) = s
  BY SubSeqEmpty, SubSeqFull
<1>2. ASSUME NEW m \in Nat, m + 1 <= Len(s)
      PROVE  /\ SubSeq(s, 1, m) \in Seq(S) /\ s[m + 1] \in S
             /\ SubSeq(s, 1, m + 1) = Append(SubSeq(s, 1, m), s[m + 1])
  <2> DEFINE x == SubSeq(s, 1, m + 1)
             y == SubSeq(s, 1, m)
  <2>1. Len(s) \in Nat /\ s[m + 1] \in S
    BY <1>2
  <2>2. x \in Seq(S) /\ Len(x) = m + 1 /\ \A i \in 1 .. m + 1 : x[i] = s[i]
    BY <1>2, <2>1
  <2>3. y \in Seq(S) /\ Len(y) = m /\ \A i \in 1 .. m : y[i] = s[i]
    BY <1>2, <2>1
  <2> HIDE DEF x, y
  <2> DEFINE z == Append(y, s[m + 1])
  <2>4. z \in Seq(S) /\ Len(z) = m + 1 /\ z[m + 1] = s[m + 1] /\ \A i \in 1 .. m : z[i] = s[i]
    BY <2>1, <2>3
  <2> HIDE DEF z
  <2>5. \A i \in 1 .. Len(x) : x[i] = z[i]
    BY <2>2, <2>4
  <2>6. x = z
    BY <2>2, <2>4, <2>5, SeqEqual
  <2> QED BY <2>1, <2>3, <2>6 DEF x, y, z
<1> QED BY <1>1, <1>2

(* A line for a key that has no value yet, above all sections                *)
LEMMA SetLine ==
  ASSUME NEW s \in ReadStates, s.delim = "none", s.rest = <<>>,
         NEW line \in TomlLines, line.key \in Keys, line.count = 0, line.head = "none",
         s.top[line.key] = Absent
  PROVE  ReadLine(s, line) = Topped(s, [s.top EXCEPT ![line.key] = Value(line.raw)])
<1> DEFINE t == ReadLine(s, line)
           top == [s.top EXCEPT ![line.key] = Value(line.raw)]
           b == Topped(s, top)
<1>1. line.key # NoKey
  BY TomlAssumption
<1>2. /\ ~Closes(s, line) /\ ~Opens(s, line) /\ Target(s, line) = line.key /\ Sets(s, line)
      /\ NewValue(s, line) = Value(line.raw) /\ NewRest(s, line) = <<>>
  BY <1>1 DEF Closes, Opens, Single, Target, Sets, NewValue, NewRest, Behind
<1>3. t \in ReadStates
  BY ReadLineType
<1>4. /\ t.delim = IF Closes(s, line) THEN "none" ELSE IF Opens(s, line) THEN line.delim ELSE s.delim
      /\ t.key = IF Opens(s, line) THEN line.key ELSE s.key
      /\ t.text = IF Opens(s, line) THEN <<line>>
                  ELSE IF s.delim # "none" /\ ~Closes(s, line) THEN Append(s.text, line) ELSE s.text
      /\ t.rest = NewRest(s, line)
      /\ t.top = IF Sets(s, line) THEN [s.top EXCEPT ![Target(s, line)] = NewValue(s, line)] ELSE s.top
      /\ t.bad <=> \/ s.bad
                   \/ Closes(s, line) /\ line.count > 1
                   \/ Opens(s, line) /\ line.key = NoKey
                   \/ Sets(s, line) /\ s.top[Target(s, line)] # Absent
  BY ReadLineParts
<1> HIDE DEF t
<1>5. t.delim = "none" /\ t.key = s.key /\ t.text = s.text /\ t.rest = <<>> /\ t.top = top /\ (t.bad <=> s.bad)
  BY <1>2, <1>4
<1>6. top \in [Keys -> Values]
  BY <1>3, <1>5, ReadStateTypes
<1> HIDE DEF top
<1>7. /\ b \in ReadStates /\ b.top = top /\ b.delim = s.delim /\ b.key = s.key /\ b.text = s.text
      /\ b.rest = s.rest /\ (b.bad <=> s.bad)
  BY <1>6, ToppedIs
<1> HIDE DEF b
<1>8. t = b
  BY <1>3, <1>5, <1>7, SameState
<1> QED BY <1>8 DEF t, b, top

(* A blank line says nothing above the sections.                             *)
LEMMA BlankLine ==
  ASSUME NEW s \in ReadStates, s.delim = "none"
  PROVE  Blank \in TomlLines /\ ReadLine(s, Blank) = s
<1>1. Blank \in TomlLines /\ Blank.key = NoKey /\ Blank.head = "none" /\ Blank.count # 1
  BY DEF Blank, Header, Line, TomlLines
<1>2. ReadLine(s, Blank) = s
  BY <1>1, ReadLineIs, Zenon
<1> QED BY <1>1, <1>2

(* Nor does the one that the editor puts before what it adds.                *)
LEMMA SpacedRead ==
  ASSUME NEW lines \in Seq(TomlLines), NEW s, s = ReadToml(lines), s.delim = "none"
  PROVE  Spaced(lines) \in Seq(TomlLines) /\ ReadToml(Spaced(lines)) = s /\ s \in ReadStates
<1>1. s \in ReadStates
  <2>1. <<>> \in Seq(TomlLines)
    BY EmptySeq
  <2> QED BY <2>1, ReadStartType, ReadConcat DEF ReadToml
<1>2. Blank \in TomlLines /\ ReadLine(s, Blank) = s
  BY <1>1, BlankLine
<1>3. Append(lines, Blank) \in Seq(TomlLines) /\ ReadToml(Append(lines, Blank)) = s
  BY <1>2, ReadStartType, ReadAppend DEF ReadToml
<1> QED BY <1>1, <1>3 DEF Spaced

(* The keys in the order they are written in: each of them once              *)
Listing(todo, n, keys) ==
    /\ keys \in [1 .. n -> todo]
    /\ \A i, j \in 1 .. n : keys[i] = keys[j] => i = j
    /\ \A k \in todo : \E i \in 1 .. n : keys[i] = k

(* SetToSeq lists the keys in that way.                                      *)
LEMMA KeysListed ==
  ASSUME NEW todo, IsFiniteSet(todo)
  PROVE  Cardinality(todo) \in Nat /\ Listing(todo, Cardinality(todo), SetToSeq(todo))
<1> DEFINE n == Cardinality(todo)
<1>1. n \in Nat /\ ExistsBijection(1 .. n, todo)
  BY FS_CardinalityType
<1>2. PICK g \in Bijection(1 .. n, todo) : TRUE
  BY <1>1 DEF ExistsBijection
<1>3. g \in [1 .. n -> todo] /\ \A i, j \in 1 .. n : g[i] = g[j] => i = j
  BY <1>2 DEF Bijection, Injection, IsInjective
<1> DEFINE keys == SetToSeq(todo)
<1>4. keys \in [1 .. n -> todo] /\ \A i, j \in 1 .. n : keys[i] = keys[j] => i = j
  <2>1. \E f \in [1 .. n -> todo] : IsInjective(f)
    BY <1>3 DEF IsInjective
  <2>2. keys \in [1 .. n -> todo] /\ IsInjective(keys)
    BY <2>1 DEF SetToSeq
  <2> HIDE DEF keys
  <2> QED BY <2>2 DEF IsInjective
<1>5. \A k \in todo : \E i \in 1 .. n : keys[i] = k
  <2>1. keys \in Injection(1 .. n, todo)
    BY <1>4 DEF Injection, IsInjective
  <2>2. IsFiniteSet(1 .. n) /\ Cardinality(1 .. n) = n
    BY <1>1, FS_Interval
  <2>3. keys \in Surjection(1 .. n, todo)
    BY <2>1, <2>2, FS_Injection
  <2> HIDE DEF keys
  <2> QED BY <2>3 DEF Surjection
<1> QED BY <1>1, <1>4, <1>5 DEF Listing

(* The values once the keys ks of u are given theirs                         *)
Given(u, k) == [Absent EXCEPT !.kind = "line", !.chars = u[k], !.note = <<>>]

Added(u, ks, top) == [k \in Keys |-> IF k \in ks THEN Given(u, k) ELSE top[k]]

(* A new line is one of its key, with the value it is to have.               *)
LEMMA GivenType ==
  ASSUME NEW u, IsUpdate(u), NEW k \in DOMAIN u
  PROVE  LET line == Assign(k, TomlValue(u[k]))
         IN  /\ line \in TomlLines /\ line.key = k /\ line.count = 0 /\ line.head = "none"
             /\ Value(line.raw) = Given(u, k) /\ Given(u, k) \in Values
<1>1. k \in Keys /\ u[k] \in Seq(Chars) /\ <<>> \in Seq(Chars)
  BY EmptySeq DEF IsUpdate
<1>2. TomlValue(u[k]) \in Seq(Chars) /\ TomlValue(u[k]) \o <<>> = TomlValue(u[k])
  BY <1>1, Written, ConcatEmptySeq
<1>3. Value(TomlValue(u[k]) \o <<>>) = Given(u, k)
  BY <1>1, ValueReadsBack DEF Given
<1>4. Given(u, k) \in Values
  BY <1>2, <1>3, Zenon DEF Values
<1> DEFINE line == Assign(k, TomlValue(u[k]) \o <<>>)
<1>5. line \in TomlLines /\ line.key = k /\ line.raw = TomlValue(u[k]) \o <<>> /\ line.count = 0 /\ line.head = "none"
  BY <1>1, AssignType
<1> QED BY <1>2, <1>3, <1>4, <1>5

(* Values with some added are values.                                        *)
LEMMA AddedType ==
  ASSUME NEW u, IsUpdate(u), NEW ks \in SUBSET (DOMAIN u), NEW top \in [Keys -> Values]
  PROVE  Added(u, ks, top) \in [Keys -> Values]
<1>1. \A k \in ks : Given(u, k) \in Values
  BY GivenType
<1> QED BY <1>1 DEF Added

(* Of values given twice, the later ones count.                              *)
LEMMA ToppedTwice ==
  ASSUME NEW s \in ReadStates, NEW top \in [Keys -> Values], NEW other \in [Keys -> Values]
  PROVE  Topped(Topped(s, top), other) = Topped(s, other)
<1> DEFINE t == Topped(s, top)
           a == Topped(t, other)
           b == Topped(s, other)
<1>1. /\ t \in ReadStates /\ t.delim = s.delim /\ t.key = s.key /\ t.text = s.text /\ t.rest = s.rest
      /\ (t.bad <=> s.bad)
  BY ToppedIs
<1> HIDE DEF t
<1>2. /\ a \in ReadStates /\ a.top = other /\ a.delim = t.delim /\ a.key = t.key /\ a.text = t.text
      /\ a.rest = t.rest /\ (a.bad <=> t.bad)
  BY <1>1, ToppedIs
<1>3. /\ b \in ReadStates /\ b.top = other /\ b.delim = s.delim /\ b.key = s.key /\ b.text = s.text
      /\ b.rest = s.rest /\ (b.bad <=> s.bad)
  BY ToppedIs
<1> HIDE DEF a, b
<1>4. a = b
  BY <1>1, <1>2, <1>3, SameState
<1> QED BY <1>4 DEF a, b, t

NoneOf(ks, top) == \A k \in ks : top[k] = Absent

(* The new lines give each of the keys its value.                            *)
LEMMA NewLinesRead ==
  ASSUME NEW u, IsUpdate(u), NEW todo \in SUBSET (DOMAIN u), NEW n \in Nat, NEW keys, Listing(todo, n, keys),
         NEW s \in ReadStates, s.delim = "none", s.rest = <<>>, NoneOf(todo, s.top)
  PROVE  NewLines(u, keys) \in Seq(TomlLines) /\ ReadFrom(s, NewLines(u, keys)) = Topped(s, Added(u, todo, s.top))
<1> DEFINE new == NewLines(u, keys)
           Done(m) == {keys[i] : i \in 1 .. m}
           top == s.top
           N == {m \in Nat : m <= n => ReadFrom(s, SubSeq(new, 1, m)) = Topped(s, Added(u, Done(m), top))}
<1>0. top \in [Keys -> Values] /\ todo \subseteq Keys /\ \A k \in todo : top[k] = Absent
  BY ReadStateTypes DEF IsUpdate, NoneOf
<1> USE DEF Listing
<1>1. ASSUME NEW i \in 1 .. n
      PROVE  /\ new[i] \in TomlLines /\ new[i].key = keys[i] /\ new[i].count = 0 /\ new[i].head = "none"
             /\ Value(new[i].raw) = Given(u, keys[i])
  <2>1. new[i] = Assign(keys[i], TomlValue(u[keys[i]])) /\ keys[i] \in DOMAIN u
    BY DEF NewLines
  <2> HIDE DEF new
  <2> QED BY <2>1, GivenType
<1>2. new \in Seq(TomlLines) /\ Len(new) = n
  <2>1. new \in [1 .. n -> TomlLines]
    BY <1>1 DEF NewLines
  <2> HIDE DEF new
  <2> QED BY <2>1
<1> HIDE DEF new
<1>3. 0 \in N
  <2>1. Done(0) = {}
    OBVIOUS
  <2>2. Added(u, {}, top) = top
    BY <1>0 DEF Added
  <2>3. Topped(s, top) = s /\ SubSeq(new, 1, 0) = <<>> /\ ReadFrom(s, <<>>) = s
    BY <1>2, ToppedSame, PrefixFacts, LineFolds
  <2> QED BY <2>1, <2>2, <2>3
<1>4. ASSUME NEW m \in Nat, m \in N PROVE m + 1 \in N
  <2> SUFFICES ASSUME m + 1 <= n
               PROVE  ReadFrom(s, SubSeq(new, 1, m + 1)) = Topped(s, Added(u, Done(m + 1), top))
    OBVIOUS
  <2> DEFINE x == SubSeq(new, 1, m)
             line == new[m + 1]
             k == keys[m + 1]
             old == Added(u, Done(m), top)
             t == Topped(s, old)
  <2>1. x \in Seq(TomlLines) /\ line \in TomlLines /\ SubSeq(new, 1, m + 1) = Append(x, line)
    BY <1>2, PrefixFacts
  <2>2. m + 1 \in 1 .. n /\ 1 .. m \subseteq 1 .. n
    OBVIOUS
  <2>3. k \in todo /\ k \in Keys /\ line.key = k /\ line.count = 0 /\ line.head = "none" /\ Value(line.raw) = Given(u, k)
    BY <1>0, <1>1, <2>2
  <2>4. k \notin Done(m)
    BY <2>2
  <2>5. Done(m) \in SUBSET (DOMAIN u) /\ Done(m + 1) = Done(m) \cup {k} /\ Done(m + 1) \in SUBSET (DOMAIN u)
    <3>1. 1 .. m + 1 = (1 .. m) \cup {m + 1}
      OBVIOUS
    <3> QED BY <2>2, <3>1
  <2>6. ReadFrom(s, x) = t
    BY <1>4
  <2> HIDE DEF x, line, k, Done
  <2>7. old \in [Keys -> Values] /\ Added(u, Done(m + 1), top) \in [Keys -> Values]
    BY <1>0, <2>5, AddedType
  <2>8. old[k] = Absent
    BY <1>0, <2>3, <2>4 DEF Added
  <2>9. [old EXCEPT ![k] = Given(u, k)] = Added(u, Done(m + 1), top)
    BY <2>3, <2>4, <2>5, <2>7 DEF Added
  <2> HIDE DEF old
  <2>10. t \in ReadStates /\ t.top = old /\ t.delim = "none" /\ t.rest = <<>>
    BY <2>7, ToppedIs
  <2>11. ReadFrom(s, Append(x, line)) = ReadLine(t, line)
    BY <2>1, <2>6, ReadAppend
  <2> HIDE DEF t
  <2>12. ReadLine(t, line) = Topped(t, [t.top EXCEPT ![line.key] = Value(line.raw)])
    BY <2>1, <2>3, <2>8, <2>10, SetLine
  <2>13. ReadLine(t, line) = Topped(t, Added(u, Done(m + 1), top))
    BY <2>3, <2>9, <2>10, <2>12
  <2>14. Topped(t, Added(u, Done(m + 1), top)) = Topped(s, Added(u, Done(m + 1), top))
    BY <2>7, ToppedTwice DEF t
  <2> QED BY <2>1, <2>11, <2>13, <2>14
<1>5. n \in N
  <2>1. \A m \in Nat : m \in N
    <3> HIDE DEF N
    <3> QED BY <1>3, <1>4, NatByInduction
  <2> HIDE DEF N
  <2> QED BY <2>1
<1>6. Done(n) = todo
  OBVIOUS
<1>7. SubSeq(new, 1, n) = new
  BY <1>2, PrefixFacts
<1>8. ReadFrom(s, new) = Topped(s, Added(u, todo, top))
  <2>1. ReadFrom(s, SubSeq(new, 1, n)) = Topped(s, Added(u, Done(n), top))
    BY <1>5
  <2> HIDE DEF Done
  <2> QED BY <1>6, <1>7, <2>1
<1> QED BY <1>2, <1>8 DEF new

-----------------------------------------------------------------------------
(* The whole file *)

(* What the values shall be                                                  *)
Wanted(u, top) ==
    [k \in Keys |->
       IF k \in DOMAIN u THEN [Absent EXCEPT !.kind = "line", !.chars = u[k], !.note = top[k].note]
                         ELSE top[k]]

(* Replacing the lines there are and adding the others gives all of it.      *)
LEMMA WantedIs ==
  ASSUME NEW u, IsUpdate(u), NEW top \in [Keys -> Values],
         NEW todo, todo = {k \in DOMAIN u : top[k] = Absent}
  PROVE  /\ Wanted(u, top) \in [Keys -> Values]
         /\ Wanted(u, top) = Added(u, todo, Renewed(u, top))
<1>1. todo \in SUBSET (DOMAIN u) /\ DOMAIN u \subseteq Keys /\ Renewed(u, top) \in [Keys -> Values]
  BY RenewedType DEF IsUpdate
<1>2. Absent.note = <<>>
  BY DEF Absent
<1>3. ASSUME NEW k \in Keys PROVE Wanted(u, top)[k] = Added(u, todo, Renewed(u, top))[k]
  <2>1. CASE k \in todo
    <3>1. k \in DOMAIN u /\ top[k].note = <<>>
      BY <1>2, <2>1
    <3> QED BY <2>1, <3>1 DEF Wanted, Added, Given
  <2>2. CASE k \in DOMAIN u /\ k \notin todo
    <3>1. top[k] # Absent
      BY <2>2
    <3> QED BY <2>2, <3>1 DEF Wanted, Added, Renewed
  <2>3. CASE k \notin DOMAIN u
    <3>1. k \notin todo
      BY <1>1, <2>3
    <3> QED BY <2>3, <3>1 DEF Wanted, Added, Renewed
  <2> QED BY <2>1, <2>2, <2>3
<1>4. Wanted(u, top) = Added(u, todo, Renewed(u, top))
  BY <1>3 DEF Wanted, Added
<1> QED BY <1>1, <1>4, AddedType

(* An edited file that reads so is what ReadsBack asks for.                  *)
LEMMA AsWanted ==
  ASSUME NEW lines, NEW u, NEW edited, NEW r \in ReadStates, r = ReadToml(lines), ~r.bad, r.delim = "none",
         Wanted(u, r.top) \in [Keys -> Values], ReadToml(edited) = Topped(r, Wanted(u, r.top))
  PROVE  ReadsBack(lines, u, edited)
<1> DEFINE t == Topped(r, Wanted(u, r.top))
<1>1. t.top = Wanted(u, r.top) /\ t.delim = r.delim /\ t.rest = r.rest /\ (t.bad <=> r.bad)
  BY ToppedIs
<1> HIDE DEF t
<1>2. ReadToml(edited) = t
  BY DEF t
<1> QED BY <1>1, <1>2 DEF ReadsBack, Valid, Wanted

(* A file that Flat describes is one that EditFollows is about.              *)
LEMMA FlatIs ==
  ASSUME NEW lines \in Seq(TomlLines), NEW u, Flat(lines, u)
  PROVE  LET r == ReadToml(lines)
         IN  /\ lines \in Seq(Editable(u)) /\ Unspoilt(u, r) /\ r.delim = "none"
             /\ (\E k \in DOMAIN u : r.top[k] = Absent) /\ r.rest # <<>> => r.rest[1].head = "section"
<1>1. lines \in [1 .. Len(lines) -> TomlLines] /\ Len(lines) \in Nat /\ DOMAIN lines = 1 .. Len(lines)
  OBVIOUS
<1>2. \A i \in DOMAIN lines : lines[i] \in Editable(u)
  BY <1>1 DEF Flat, Editable
<1>3. lines \in Seq(Editable(u))
  BY <1>1, <1>2
<1> QED BY <1>3 DEF Flat, Valid, Unspoilt

(* The new lines behind all that is there                                    *)
LEMMA AddedBelow ==
  ASSUME NEW u, IsUpdate(u), NEW todo \in SUBSET (DOMAIN u), NEW out \in Seq(TomlLines),
         NEW a, a = ReadToml(out), a.delim = "none", a.rest = <<>>, NoneOf(todo, a.top)
  PROVE  LET new == NewLines(u, SetToSeq(todo))
         IN  /\ new \in Seq(TomlLines) /\ Spaced(out) \in Seq(TomlLines)
             /\ ReadToml(Spaced(out) \o new) = Topped(a, Added(u, todo, a.top))
<1> DEFINE keys == SetToSeq(todo)
           new == NewLines(u, keys)
           n == Cardinality(todo)
           sp == Spaced(out)
<1>1. IsFiniteSet(todo)
  BY FS_Subset DEF IsUpdate
<1>2. n \in Nat /\ Listing(todo, n, keys)
  BY <1>1, KeysListed
<1>3. sp \in Seq(TomlLines) /\ ReadToml(sp) = a /\ a \in ReadStates
  BY SpacedRead
<1> HIDE DEF keys, n, sp
<1>4. new \in Seq(TomlLines) /\ ReadFrom(a, new) = Topped(a, Added(u, todo, a.top))
  BY <1>2, <1>3, NewLinesRead
<1> HIDE DEF new
<1>5. ReadToml(sp \o new) = ReadFrom(a, new)
  BY <1>3, <1>4, ReadStartType, ReadConcat DEF ReadToml
<1> QED BY <1>3, <1>4, <1>5 DEF new, keys, sp

(* What is behind the new lines reads the same whatever they set.            *)
Passes(p, post, a) == \A top \in [Keys -> Values] : ReadFrom(Topped(p, top), post) = Topped(a, top)

(* The new lines between what is above the first section and the rest        *)
LEMMA AddedAbove ==
  ASSUME NEW u, IsUpdate(u), NEW todo \in SUBSET (DOMAIN u),
         NEW pre \in Seq(TomlLines), NEW post \in Seq(TomlLines), NEW a \in ReadStates,
         NEW p, p = ReadToml(pre), p.delim = "none", p.rest = <<>>, p.top = a.top,
         NoneOf(todo, a.top),
         Passes(p, post, a)
  PROVE  ReadToml(Spaced(pre) \o NewLines(u, SetToSeq(todo)) \o <<Blank>> \o post)
            = Topped(a, Added(u, todo, a.top))
<1> DEFINE new == NewLines(u, SetToSeq(todo))
           sp == Spaced(pre)
           top == Added(u, todo, a.top)
           t == Topped(p, top)
           x == sp \o new
<1>1. new \in Seq(TomlLines) /\ sp \in Seq(TomlLines) /\ ReadToml(x) = t
  BY AddedBelow
<1>2. p \in ReadStates
  BY SpacedRead
<1>3. top \in [Keys -> Values]
  BY AddedType, ReadStateTypes
<1>4. ReadFrom(t, post) = Topped(a, top)
  BY <1>3 DEF Passes
<1> HIDE DEF new, sp, top
<1>5. t \in ReadStates /\ t.delim = "none"
  BY <1>2, <1>3, ToppedIs
<1> HIDE DEF t
<1>6. x \in Seq(TomlLines)
  BY <1>1, ConcatProperties
<1> HIDE DEF x
<1>7. Blank \in TomlLines /\ ReadLine(t, Blank) = t
  BY <1>5, BlankLine
<1>8. x \o <<Blank>> = Append(x, Blank) /\ x \o <<Blank>> \in Seq(TomlLines)
  BY <1>6, <1>7
<1>9. ReadToml(x \o <<Blank>>) = t
  <2>1. ReadToml(Append(x, Blank)) = ReadLine(ReadToml(x), Blank)
    BY <1>6, <1>7, ReadStartType, ReadAppend DEF ReadToml
  <2> QED BY <1>1, <1>7, <1>8, <2>1
<1> DEFINE y == x \o <<Blank>>
<1> HIDE DEF y
<1>10. y \in Seq(TomlLines) /\ ReadToml(y) = t
  BY <1>8, <1>9 DEF y
<1>11. ReadToml(y \o post) = ReadFrom(t, post)
  BY <1>10, ReadStartType, ReadConcat DEF ReadToml
<1> QED BY <1>4, <1>11 DEF y, x, sp, new, top

(* _update_toml_file: for any keys and values and a file of any length that  *)
(* Flat describes, the edited file is TOML, the keys have their new values   *)
(* and comments, and nothing else has changed.                               *)
THEOREM EditorReadsBack ==
  ASSUME NEW lines \in Seq(TomlLines), NEW u, IsUpdate(u), Flat(lines, u)
  PROVE  ReadsBack(lines, u, UpdateToml(lines, u))
<1> DEFINE r == ReadToml(lines)
           e == EditLines(u, lines)
           a == ReadToml(e.out)
           todo == e.todo
           want == Wanted(u, r.top)
           edited == UpdateToml(lines, u)
<1>1. /\ lines \in Seq(Editable(u)) /\ Unspoilt(u, r) /\ r.delim = "none"
      /\ (\E k \in DOMAIN u : r.top[k] = Absent) /\ r.rest # <<>> => r.rest[1].head = "section"
  BY FlatIs
<1>2. /\ r \in ReadStates /\ e \in EditStates(u) /\ a \in ReadStates
      /\ Followed(u, r, e, a) /\ CutHere(u, r, e, a)
  BY <1>1, EditFollows
<1> HIDE DEF r, e, a
<1>3. /\ ~r.bad /\ r.top \in [Keys -> Values] /\ e.out \in Seq(TomlLines) /\ e.insert \in Nat
      /\ todo \in SUBSET (DOMAIN u) /\ todo = {k \in DOMAIN u : r.top[k] = Absent}
      /\ a = Topped(r, Renewed(u, r.top))
      /\ e.insert = 0 => r.rest = <<>> \/ r.rest[1].head # "section"
      /\ e.insert # 0 => r.rest # <<>>
  BY <1>1, <1>2, ReadStateTypes, EditStateTypes DEF Unspoilt, Followed
<1>4. want \in [Keys -> Values] /\ want = Added(u, todo, Renewed(u, r.top)) /\ Renewed(u, r.top) \in [Keys -> Values]
  BY <1>3, WantedIs, RenewedType
<1>5. a.top = Renewed(u, r.top) /\ a.delim = "none" /\ a.rest = r.rest
  BY <1>1, <1>2, <1>3, <1>4, ToppedIs
<1>6. Topped(a, want) = Topped(r, want)
  BY <1>2, <1>3, <1>4, ToppedTwice
<1>7. NoneOf(todo, a.top)
  <2>1. todo \subseteq Keys
    BY <1>3 DEF IsUpdate
  <2> QED BY <1>3, <1>5, <2>1 DEF Renewed, NoneOf
<1> HIDE DEF want, edited
<1>8. ReadToml(edited) = Topped(r, want)
  <2>1. CASE DOMAIN u = {}
    <3>1. edited = lines
      BY <2>1 DEF edited, UpdateToml
    <3>2. want = r.top
      BY <1>3, <2>1 DEF want, Wanted
    <3> QED BY <1>2, <3>1, <3>2, ToppedSame DEF r
  <2>2. CASE DOMAIN u # {} /\ todo = {}
    <3>1. edited = e.out
      BY <2>2 DEF edited, UpdateToml, e
    <3>2. want = Renewed(u, r.top)
      BY <1>4, <2>2 DEF Added
    <3> QED BY <1>3, <3>1, <3>2 DEF a
  <2>3. CASE todo # {} /\ e.insert = 0
    <3>1. edited = Spaced(e.out) \o NewLines(u, SetToSeq(todo))
      BY <1>3, <2>3 DEF edited, UpdateToml, e
    <3>2. r.rest = <<>>
      BY <1>1, <1>3, <2>3
    <3>3. ReadToml(Spaced(e.out) \o NewLines(u, SetToSeq(todo))) = Topped(a, Added(u, todo, a.top))
      BY <1>3, <1>5, <1>7, <3>2, AddedBelow DEF a
    <3> QED BY <1>4, <1>5, <1>6, <3>1, <3>3
  <2>4. CASE todo # {} /\ e.insert # 0
    <3> DEFINE pre == SubSeq(e.out, 1, e.insert - 1)
               post == SubSeq(e.out, e.insert, Len(e.out))
               p == ReadToml(pre)
    <3>1. edited = Spaced(pre) \o NewLines(u, SetToSeq(todo)) \o <<Blank>> \o post
      BY <1>3, <2>4 DEF edited, UpdateToml, e
    <3>2. r.rest # <<>> /\ r.rest[1].head = "section"
      BY <1>1, <1>3, <2>4
    <3>3. /\ e.insert <= Len(e.out) /\ p \in ReadStates /\ p.delim = "none" /\ p.rest = <<>> /\ p.top = a.top
          /\ Passes(p, post, a)
      BY <1>2, <2>4, <3>2 DEF CutHere, Passes
    <3>4. pre \in Seq(TomlLines) /\ post \in Seq(TomlLines)
      BY <1>3, <2>4, <3>3
    <3> HIDE DEF p, pre, post
    <3>5. p = ReadToml(pre)
      BY DEF p
    <3>6. ReadToml(Spaced(pre) \o NewLines(u, SetToSeq(todo)) \o <<Blank>> \o post) = Topped(a, Added(u, todo, a.top))
      <4>1. /\ todo \in SUBSET (DOMAIN u) /\ NoneOf(todo, a.top) /\ a \in ReadStates
            /\ p = ReadToml(pre) /\ p.delim = "none" /\ p.rest = <<>> /\ p.top = a.top /\ Passes(p, post, a)
        BY <1>2, <1>3, <1>7, <3>3, <3>5
      <4> HIDE DEF todo
      <4> QED BY <3>4, <4>1, AddedAbove
    <3> QED BY <1>4, <1>5, <1>6, <3>1, <3>6
  <2> QED BY <2>1, <2>2, <2>3, <2>4
<1> QED BY <1>1, <1>2, <1>3, <1>4, <1>8, AsWanted DEF want, edited, r

==============================================================================
