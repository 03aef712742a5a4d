-------------------------- MODULE SseStream_proofs --------------------------
(***************************************************************************)
(* Theorems about SseStream for any clients and any number of log lines.   *)
(***************************************************************************)
EXTENDS SseStream, TLAPS

(* Every log line swaps the event once. *)
JobInv == event = logs

LastSent(s) == IF sent[s] = <<>> THEN 0 ELSE Last(sent[s])

(* The lines up to n were sent, or logged while others were being sent. *)
Accounted(s, n) == \A i \in 1 .. n : i \in ToSet(sent[s]) \/ i \in late[s]

Bounded(s) == cursor[s] <= logs /\ slice[s] <= logs /\ on[s] <= event

Ascending(s) == \A i \in 1 .. Len(sent[s]) - 1 : sent[s][i] < sent[s][i + 1]

(* Nothing beyond the cursor was sent, except from the slice in hand. *)
Position(s) ==
    /\ pc[s] \notin {"sending", "gone"} => LastSent(s) <= cursor[s]
    /\ pc[s] = "sending" => sent[s] # <<>> /\ cursor[s] < LastSent(s) /\ LastSent(s) <= slice[s]

(* What the stream owes, at each of its yields. *)
Debt(s) ==
    /\ pc[s] = "sending" => Accounted(s, LastSent(s)) /\ slice[s] + 1 .. logs \subseteq late[s]
    /\ pc[s] = "phase" => Accounted(s, logs)
    /\ pc[s] = "end" => ended /\ Accounted(s, logs)
    /\ pc[s] \in {"closed", "snapshot", "parked", "keepalive"} => Accounted(s, cursor[s])
    /\ pc[s] = "parked" => Accounted(s, on[s])

StreamInv(s) == Bounded(s) /\ Ascending(s) /\ Position(s) /\ Debt(s)

SseInv == TypeOK /\ JobInv /\ \A s \in Streams : StreamInv(s)

-----------------------------------------------------------------------------

LEMMA InitInv == Init => SseInv
<1> SUFFICES ASSUME Init PROVE SseInv
  OBVIOUS
<1>1. TypeOK /\ JobInv
  <2>1. 0 \in 0 .. MaxLogs
    BY StreamAssumption
  <2>2. sent \in [Streams -> Seq(Lines)] /\ late \in [Streams -> SUBSET Lines]
    BY DEF Init
  <2>3. ended \in BOOLEAN /\ over \in BOOLEAN
    BY Zenon DEF Init
  <2>4. pc \in [Streams -> Control]
    BY DEF Init, Control
  <2>5. /\ cursor \in [Streams -> 0 .. MaxLogs] /\ slice \in [Streams -> 0 .. MaxLogs]
        /\ on \in [Streams -> 0 .. MaxLogs]
    BY <2>1, Zenon DEF Init
  <2> QED BY <2>1, <2>2, <2>3, <2>4, <2>5 DEF Init, TypeOK, JobInv
<1>2. ASSUME NEW s \in Streams PROVE StreamInv(s)
  <2>1. /\ pc[s] = "closed" /\ cursor[s] = 0 /\ slice[s] = 0 /\ on[s] = 0 /\ sent[s] = <<>>
        /\ logs = 0 /\ event = 0
    BY DEF Init
  <2> QED
    BY <2>1 DEF StreamInv, Bounded, Ascending, Position, Debt, LastSent, Accounted
<1> QED BY <1>1, <1>2 DEF SseInv

(* Sending one more line. *)
LEMMA AppendFacts ==
    ASSUME NEW q \in Seq(Lines), NEW x \in Lines
    PROVE  /\ Append(q, x) \in Seq(Lines)
           /\ Append(q, x) # <<>>
           /\ Last(Append(q, x)) = x
           /\ Len(Append(q, x)) = Len(q) + 1
           /\ \A i \in 1 .. Len(q) : Append(q, x)[i] = q[i]
           /\ Append(q, x)[Len(q) + 1] = x
           /\ \A y : y \in ToSet(Append(q, x)) <=> y \in ToSet(q) \/ y = x
<1>1. /\ Append(q, x) \in Seq(Lines) /\ Append(q, x) # <<>>
      /\ Len(Append(q, x)) = Len(q) + 1
      /\ \A i \in 1 .. Len(q) : Append(q, x)[i] = q[i]
      /\ Append(q, x)[Len(q) + 1] = x
  OBVIOUS
<1>2. Last(Append(q, x)) = x
  BY <1>1 DEF Last
<1>3. DOMAIN q = 1 .. Len(q) /\ DOMAIN Append(q, x) = 1 .. Len(q) + 1 /\ Len(q) \in Nat
  BY <1>1
<1>4. ASSUME NEW y PROVE y \in ToSet(Append(q, x)) <=> y \in ToSet(q) \/ y = x
  <2>1. y \in ToSet(Append(q, x)) <=> \E i \in 1 .. Len(q) + 1 : Append(q, x)[i] = y
    BY <1>3 DEF ToSet
  <2>2. y \in ToSet(q) <=> \E i \in 1 .. Len(q) : q[i] = y
    BY <1>3 DEF ToSet
  <2> QED BY <1>1, <1>3, <2>1, <2>2
<1> QED BY <1>1, <1>2, <1>4

(* An ascending stream stays so if the next line is beyond the last one. *)
LEMMA StillAscending ==
    ASSUME NEW q \in Seq(Lines), NEW x \in Lines, q = <<>> \/ Last(q) < x,
           \A i \in 1 .. Len(q) - 1 : q[i] < q[i + 1]
    PROVE  \A i \in 1 .. Len(Append(q, x)) - 1 : Append(q, x)[i] < Append(q, x)[i + 1]
<1> SUFFICES ASSUME NEW i \in 1 .. Len(q) PROVE Append(q, x)[i] < Append(q, x)[i + 1]
  BY AppendFacts
<1>1. CASE i = Len(q)
  BY <1>1, AppendFacts DEF Last
<1>2. CASE i # Len(q)
  <2>1. i \in 1 .. Len(q) - 1 /\ i + 1 \in 1 .. Len(q)
    BY <1>2
  <2> QED BY <2>1, AppendFacts
<1> QED BY <1>1, <1>2

-----------------------------------------------------------------------------
(* What a step of the job, and a step of one stream, do to the streams.     *)

(* A new line is late for a stream that is sending, and beyond what any      *)
(* other one has accounted for.                                              *)
LEMMA JobStep ==
    ASSUME SseInv, OnLog \/ Settle \/ FinallySet, TypeOK', NEW s \in Streams
    PROVE  JobInv' /\ StreamInv(s)'
<1> USE DEF SseInv, JobInv
<1>1. /\ logs \in Nat /\ logs' \in Nat /\ cursor[s] \in Nat /\ slice[s] \in Nat /\ on[s] \in Nat
      /\ pc[s] \in Control
  BY StreamAssumption DEF TypeOK
<1>2. UNCHANGED <<pc, cursor, slice, on, sent>>
  BY DEF OnLog, Settle, FinallySet
<1>3. JobInv' /\ logs <= logs' /\ late[s] \subseteq late'[s] /\ (ended => ended' /\ logs' = logs)
  BY <1>1 DEF OnLog, Settle, FinallySet
<1>4. \A i \in logs + 1 .. logs' : Sending(s) => i \in late'[s]
  BY <1>1 DEF OnLog, Settle, FinallySet
<1>5. StreamInv(s)
  OBVIOUS
<1>6. Bounded(s)' /\ Ascending(s)' /\ Position(s)'
  BY <1>1, <1>2, <1>3, <1>5 DEF StreamInv, Bounded, Ascending, Position, LastSent
<1>7. \A n \in Nat : Accounted(s, n) => Accounted(s, n)'
  BY <1>2, <1>3 DEF Accounted
<1>8. Debt(s)'
  <2>1. CASE pc[s] = "sending"
    <3>1. Accounted(s, LastSent(s))' /\ slice'[s] + 1 .. logs' \subseteq late'[s]
      <4>1. slice[s] + 1 .. logs \subseteq late[s] /\ Accounted(s, LastSent(s))
        BY <1>5, <2>1 DEF StreamInv, Debt
      <4>2. Accounted(s, LastSent(s))'
        BY <4>1, <1>2, <1>3 DEF Accounted, LastSent
      <4>3. \A i \in slice[s] + 1 .. logs' : i \in slice[s] + 1 .. logs \/ i \in logs + 1 .. logs'
        BY <1>1
      <4> QED BY <4>1, <4>2, <4>3, <1>2, <1>3, <1>4, <2>1 DEF Sending
    <3> QED BY <3>1, <1>2, <2>1 DEF Debt
  <2>2. CASE pc[s] = "phase"
    <3>1. \A i \in 1 .. logs' : i \in 1 .. logs \/ i \in logs + 1 .. logs'
      BY <1>1
    <3>2. Accounted(s, logs)'
      <4>1. Accounted(s, logs)
        BY <1>5, <2>2 DEF StreamInv, Debt
      <4> QED BY <4>1, <3>1, <1>2, <1>3, <1>4, <2>2 DEF Accounted, Sending
    <3> QED BY <3>2, <1>2, <2>2 DEF Debt
  <2>3. CASE pc[s] \notin {"sending", "phase"}
    BY <2>3, <1>1, <1>2, <1>3, <1>5 DEF StreamInv, Debt, Accounted
  <2> QED BY <2>1, <2>2, <2>3
<1> QED BY <1>3, <1>6, <1>8 DEF StreamInv

(* The job, and what one stream keeps. *)
View(t) == <<logs, ended, event, pc[t], cursor[t], slice[t], on[t], sent[t], late[t]>>

LEMMA OtherStream ==
    ASSUME NEW t \in Streams, StreamInv(t), UNCHANGED View(t)
    PROVE  StreamInv(t)'
BY DEF View, StreamInv, Bounded, Ascending, Position, Debt, LastSent, Accounted

StepOf(s) == Open(s) \/ Serve(s) \/ Keepalive(s) \/ Disconnect(s)

(* A stream touches nothing of the others, and of the job nothing at all. *)
LEMMA StepFrame ==
    ASSUME SseInv, NEW s \in Streams, StepOf(s)
    PROVE  UNCHANGED <<jobVars, late>> /\ \A t \in Streams \ {s} : UNCHANGED View(t)
<1> USE DEF SseInv, TypeOK
<1>1. UNCHANGED <<jobVars, late>>
  BY DEF StepOf, Serve, Open, Look, SendNext, SendPhase, AfterPhase, Keepalive, Disconnect
<1>2. ASSUME NEW t \in Streams \ {s}
      PROVE  UNCHANGED <<pc[t], cursor[t], slice[t], on[t], sent[t]>>
  <2> USE <1>2 DEF Goto, Yield, EndOrPark
  <2>1. CASE Open(s)
    BY <2>1 DEF Open
  <2>2. CASE Look(s)
    <3>1. CASE Fresh(s)
      BY <2>2, <3>1 DEF Look
    <3>2. CASE ~Fresh(s)
      BY <2>2, <3>2 DEF Look
    <3> QED BY <3>1, <3>2
  <2>3. CASE SendNext(s)
    BY <2>3 DEF SendNext
  <2>4. CASE SendPhase(s)
    BY <2>4 DEF SendPhase
  <2>5. CASE AfterPhase(s)
    BY <2>5 DEF AfterPhase
  <2>6. CASE Keepalive(s)
    BY <2>6 DEF Keepalive
  <2>7. CASE Disconnect(s)
    BY <2>7 DEF Disconnect
  <2> QED BY <2>1, <2>2, <2>3, <2>4, <2>5, <2>6, <2>7 DEF StepOf, Serve
<1> QED BY <1>1, <1>2 DEF jobVars, View

(* Every action keeps the types. *)
LEMMA TypeKept == ASSUME SseInv, [Next]_sseVars PROVE TypeOK'
<1> USE StreamAssumption
<1> USE DEF TypeOK
<1>0. TypeOK /\ JobInv /\ \A s \in Streams : StreamInv(s)
  BY DEF SseInv
<1>1. CASE OnLog
  <2>1. logs' \in 0 .. MaxLogs /\ event' \in 0 .. MaxLogs
    BY <1>0, <1>1 DEF OnLog, JobInv
  <2>2. late' \in [Streams -> SUBSET Lines]
    BY <1>0, <1>1, <2>1 DEF OnLog, Lines
  <2> QED BY <1>0, <1>1, <2>1, <2>2 DEF OnLog
<1>2. CASE Settle
  BY <1>0, <1>2 DEF Settle
<1>3. CASE FinallySet
  BY <1>0, <1>3 DEF FinallySet
<1>4. ASSUME NEW s \in Streams, StepOf(s) PROVE TypeOK'
  <2> USE <1>0
  <2>0. UNCHANGED <<jobVars, late>>
    BY <1>4, StepFrame DEF SseInv
  <2>1. pc' \in [Streams -> Control]
    BY <1>4 DEF StepOf, Serve, Open, Look, SendNext, SendPhase, AfterPhase, Keepalive,
       Disconnect, EndOrPark, Goto, Control
  <2>2. cursor' \in [Streams -> 0 .. MaxLogs] /\ slice' \in [Streams -> 0 .. MaxLogs]
    BY <1>4 DEF StepOf, Serve, Open, Look, SendNext, SendPhase, AfterPhase, Keepalive,
       Disconnect, CursorAfter
  <2>3. on' \in [Streams -> 0 .. MaxLogs]
    BY <1>4 DEF StepOf, Serve, Open, Look, SendNext, SendPhase, AfterPhase, Keepalive,
       Disconnect, EndOrPark
  <2>4. sent' \in [Streams -> Seq(Lines)]
    <3>1. CASE Look(s)
      <4>1. Fresh(s) => cursor[s] + 1 \in Lines
        BY DEF Fresh, Lines
      <4>2. CASE Fresh(s)
        <5>1. sent' = [sent EXCEPT ![s] = Append(sent[s], cursor[s] + 1)]
          BY <3>1, <4>2 DEF Look, Yield
        <5>2. Append(sent[s], cursor[s] + 1) \in Seq(Lines)
          BY <4>1, <4>2, AppendFacts
        <5> QED BY <5>1, <5>2
      <4>3. CASE ~Fresh(s)
        BY <3>1, <4>3 DEF Look
      <4> QED BY <4>2, <4>3
    <3>2. CASE SendNext(s)
      <4>1. Last(sent[s]) + 1 \in Lines
        <5>1. pc[s] = "sending" /\ Last(sent[s]) < slice[s]
          BY <3>2 DEF SendNext
        <5>2. sent[s] # <<>> /\ sent[s] \in Seq(Lines)
          BY <5>1 DEF StreamInv, Position
        <5>3. Last(sent[s]) \in Lines
          BY <5>2 DEF Last
        <5> QED BY <5>1, <5>3 DEF Lines
      <4> QED BY <3>2, <4>1, AppendFacts DEF SendNext, Yield
    <3>3. CASE ~Look(s) /\ ~SendNext(s)
      BY <1>4, <3>3 DEF StepOf, Serve, Open, SendPhase, AfterPhase, Keepalive, Disconnect
    <3> QED BY <3>1, <3>2, <3>3
  <2> QED BY <2>0, <2>1, <2>2, <2>3, <2>4 DEF jobVars
<1>5. CASE UNCHANGED sseVars
  BY <1>0, <1>5 DEF sseVars
<1> QED BY <1>1, <1>2, <1>3, <1>4, <1>5 DEF Next, StepOf

(* The generator's own steps. *)
LEMMA OwnStep ==
    ASSUME SseInv, TypeOK', NEW s \in Streams, StepOf(s)
    PROVE  StreamInv(s)'
<1>0. /\ logs \in Nat /\ cursor[s] \in Nat /\ slice[s] \in Nat /\ on[s] \in Nat /\ MaxLogs \in Nat
      /\ pc[s] \in Control /\ sent[s] \in Seq(Lines) /\ event = logs /\ logs <= MaxLogs
      /\ cursor[s] <= logs /\ slice[s] <= logs /\ on[s] <= logs
  BY StreamAssumption DEF SseInv, TypeOK, JobInv, StreamInv, Bounded
<1>1. StreamInv(s)
  BY DEF SseInv
<1>2. /\ logs' = logs /\ ended' = ended /\ event' = event /\ late' = late
      /\ \A n : (sent' = sent => (Accounted(s, n)' <=> Accounted(s, n)))
  BY StepFrame DEF jobVars, Accounted
<1>3. /\ s \in DOMAIN pc /\ s \in DOMAIN cursor /\ s \in DOMAIN slice /\ s \in DOMAIN on
      /\ s \in DOMAIN sent
  BY DEF SseInv, TypeOK
<1>4. sent[s] # <<>> => Last(sent[s]) \in 1 .. MaxLogs
  BY <1>0 DEF Last, Lines
(* Nothing more to send: a wait for the next line, or the end. *)
<1>5. ASSUME EndOrPark(s), Accounted(s, logs), UNCHANGED <<cursor, slice, sent>>,
             LastSent(s) <= cursor[s]
      PROVE  StreamInv(s)'
  <2>1. \/ ended /\ pc'[s] = "end" /\ on' = on
        \/ ~ended /\ pc'[s] = "parked" /\ on'[s] = event
    BY <1>3, <1>5 DEF EndOrPark, Goto
  <2>2. Bounded(s)' /\ Ascending(s)' /\ Position(s)'
    BY <1>0, <1>1, <1>2, <1>5, <2>1 DEF StreamInv, Bounded, Ascending, Position, LastSent
  <2>3. \A n \in 0 .. logs : Accounted(s, n)'
    BY <1>0, <1>2, <1>5 DEF Accounted
  <2>4. Debt(s)'
    BY <1>0, <1>2, <1>5, <2>1, <2>3 DEF Debt
  <2> QED BY <2>2, <2>4 DEF StreamInv
(* One more line of the slice. *)
<1>6. ASSUME NEW i \in Lines, Yield(s, i), pc'[s] = "sending", cursor' = cursor, on' = on,
             i = LastSent(s) + 1 \/ (LastSent(s) <= cursor[s] /\ i = cursor[s] + 1),
             cursor[s] < i, i <= slice'[s], slice'[s] <= logs, slice'[s] \in Nat,
             Accounted(s, i - 1), slice'[s] + 1 .. logs \subseteq late[s]
      PROVE  StreamInv(s)'
  <2>1. sent'[s] = Append(sent[s], i)
    BY <1>3, <1>6 DEF Yield
  <2>2. LastSent(s)' = i /\ sent'[s] # <<>>
    BY <1>0, <2>1, AppendFacts DEF LastSent
  <2>3. Ascending(s)'
    <3>1. sent[s] = <<>> \/ Last(sent[s]) < i
      BY <1>0, <1>4, <1>6 DEF LastSent, Lines
    <3> QED BY <1>0, <1>1, <2>1, <3>1, StillAscending DEF StreamInv, Ascending
  <2>4. Accounted(s, i)'
    <3> SUFFICES ASSUME NEW k \in 1 .. i PROVE k \in ToSet(sent'[s]) \/ k \in late'[s]
      BY DEF Accounted
    <3>1. k = i \/ k \in 1 .. i - 1
      BY <1>6 DEF Lines
    <3> QED BY <1>0, <1>2, <1>6, <2>1, <3>1, AppendFacts DEF Accounted
  <2>5. Bounded(s)' /\ Position(s)'
    BY <1>0, <1>2, <1>6, <2>2 DEF Bounded, Position
  <2>6. Debt(s)'
    BY <1>2, <1>6, <2>2, <2>4 DEF Debt
  <2> QED BY <2>3, <2>5, <2>6 DEF StreamInv
<1>7. CASE Open(s)
  <2>1. pc[s] = "closed" /\ pc'[s] = "snapshot" /\ UNCHANGED <<cursor, slice, on, sent>>
    BY <1>3, <1>7 DEF Open, Goto
  <2> QED BY <1>1, <1>2, <2>1 DEF StreamInv, Bounded, Ascending, Position, Debt, LastSent, Accounted
<1>8. CASE Look(s)
  <2>1. pc[s] \in {"snapshot", "keepalive", "parked"} /\ cursor' = cursor
    BY <1>8 DEF Look
  <2>2. LastSent(s) <= cursor[s] /\ Accounted(s, cursor[s])
    BY <1>1, <2>1 DEF StreamInv, Position, Debt
  <2>3. CASE Fresh(s)
    <3>1. Yield(s, cursor[s] + 1) /\ pc'[s] = "sending" /\ on' = on /\ slice'[s] = logs
      BY <1>3, <1>8, <2>3 DEF Look, Goto
    <3>2. cursor[s] + 1 \in Lines /\ cursor[s] + 1 <= logs /\ cursor[s] + 1 - 1 = cursor[s]
      BY <1>0, <2>3 DEF Fresh, Lines
    <3>3. logs + 1 .. logs = {}
      BY <1>0
    <3> DEFINE i == cursor[s] + 1
    <3>4. i \in Lines /\ Yield(s, i) /\ i = cursor[s] + 1 /\ cursor[s] < i /\ i <= slice'[s]
          /\ Accounted(s, i - 1) /\ slice'[s] + 1 .. logs \subseteq late[s]
      BY <1>0, <2>2, <3>1, <3>2, <3>3
    <3> HIDE DEF i
    <3> QED BY <1>0, <1>6, <2>1, <2>2, <3>1, <3>4
  <2>4. CASE ~Fresh(s)
    <3>1. EndOrPark(s) /\ UNCHANGED <<cursor, slice, sent>>
      BY <1>8, <2>4 DEF Look
    <3>2. cursor[s] = logs
      BY <1>0, <2>4 DEF Fresh
    <3> QED BY <1>5, <2>2, <3>1, <3>2
  <2> QED BY <2>3, <2>4
<1>9. CASE SendNext(s)
  <2>1. /\ pc[s] = "sending" /\ pc' = pc /\ Last(sent[s]) < slice[s]
        /\ Yield(s, Last(sent[s]) + 1) /\ UNCHANGED <<cursor, slice, on>>
    BY <1>9 DEF SendNext
  <2>2. /\ LastSent(s) = Last(sent[s]) /\ cursor[s] < LastSent(s) /\ LastSent(s) \in 1 .. MaxLogs
        /\ Accounted(s, LastSent(s)) /\ slice[s] + 1 .. logs \subseteq late[s]
    BY <1>1, <1>4, <2>1 DEF StreamInv, Position, Debt, LastSent
  <2> DEFINE i == LastSent(s) + 1
  <2>3. i \in Lines /\ Yield(s, i) /\ i = LastSent(s) + 1 /\ cursor[s] < i /\ i <= slice'[s]
        /\ i - 1 = LastSent(s)
    BY <1>0, <2>1, <2>2 DEF Lines
  <2> HIDE DEF i
  <2> QED BY <1>0, <1>6, <2>1, <2>2, <2>3
<1>10. CASE SendPhase(s)
  <2>1. /\ pc[s] = "sending" /\ pc'[s] = "phase" /\ Last(sent[s]) = slice[s] /\ cursor'[s] = logs
        /\ UNCHANGED <<slice, on, sent>>
    BY <1>3, <1>10 DEF SendPhase, Goto, CursorAfter
  <2>2. /\ LastSent(s) = slice[s] /\ Accounted(s, slice[s]) /\ slice[s] + 1 .. logs \subseteq late[s]
    BY <1>1, <2>1 DEF StreamInv, Position, Debt, LastSent
  <2>3. Accounted(s, logs)
    <3>1. \A k \in 1 .. logs : k \in 1 .. slice[s] \/ k \in slice[s] + 1 .. logs
      BY <1>0
    <3> QED BY <2>2, <3>1 DEF Accounted
  <2>4. LastSent(s)' = LastSent(s)
    BY <2>1 DEF LastSent
  <2>5. Bounded(s)' /\ Ascending(s)' /\ Position(s)'
    BY <1>0, <1>1, <1>2, <2>1, <2>2, <2>4 DEF StreamInv, Bounded, Ascending, Position
  <2>6. Debt(s)'
    BY <1>2, <2>1, <2>3 DEF Debt, Accounted
  <2> QED BY <2>5, <2>6 DEF StreamInv
<1>11. CASE AfterPhase(s)
  <2>1. pc[s] = "phase" /\ EndOrPark(s) /\ UNCHANGED <<cursor, slice, sent>>
    BY <1>11 DEF AfterPhase
  <2> QED BY <1>1, <1>5, <2>1 DEF StreamInv, Position, Debt
<1>12. CASE Keepalive(s)
  <2>1. pc[s] = "parked" /\ pc'[s] = "keepalive" /\ UNCHANGED <<cursor, slice, on, sent>>
    BY <1>3, <1>12 DEF Keepalive, Goto
  <2> QED BY <1>1, <1>2, <2>1 DEF StreamInv, Bounded, Ascending, Position, Debt, LastSent, Accounted
<1>13. CASE Disconnect(s)
  <2>1. pc'[s] = "gone" /\ UNCHANGED <<cursor, slice, on, sent>>
    BY <1>3, <1>13 DEF Disconnect, Goto
  <2> QED BY <1>1, <1>2, <2>1 DEF StreamInv, Bounded, Ascending, Position, Debt
<1> QED BY <1>7, <1>8, <1>9, <1>10, <1>11, <1>12, <1>13 DEF StepOf, Serve

LEMMA StepInv == SseInv /\ [Next]_sseVars => SseInv'
<1> SUFFICES ASSUME SseInv, [Next]_sseVars PROVE SseInv'
  OBVIOUS
<1>0. TypeOK'
  BY TypeKept
<1>1. CASE OnLog \/ Settle \/ FinallySet
  <2>1. JobInv'
    BY <1>1 DEF SseInv, TypeOK, JobInv, OnLog, Settle, FinallySet
  <2> QED BY <1>0, <1>1, <2>1, JobStep DEF SseInv
<1>2. ASSUME NEW s \in Streams, StepOf(s) PROVE SseInv'
  <2>1. JobInv'
    BY <1>2, StepFrame DEF SseInv, JobInv, jobVars
  <2>2. ASSUME NEW t \in Streams \ {s} PROVE StreamInv(t)'
    BY <1>2, StepFrame, OtherStream DEF SseInv
  <2>3. StreamInv(s)'
    BY <1>0, <1>2, OwnStep
  <2> QED BY <1>0, <2>1, <2>2, <2>3 DEF SseInv
<1>3. CASE UNCHANGED sseVars
  <2>1. ASSUME NEW t \in Streams PROVE StreamInv(t)'
    BY <1>3, OtherStream DEF SseInv, sseVars, View
  <2> QED BY <1>0, <1>3, <2>1 DEF SseInv, JobInv, sseVars
<1> QED BY <1>1, <1>2, <1>3 DEF Next, StepOf

(* The inductive invariant: what every stream has sent and owes. *)
THEOREM StreamsHold == Spec => []SseInv
BY InitInv, StepInv, PTL DEF Spec

(* Every variable keeps its type. *)
THEOREM StreamTypes == Spec => []TypeOK
<1>1. SseInv => TypeOK
  BY DEF SseInv
<1> QED BY <1>1, StreamsHold, PTL

(* Lines reach every client in the order of the log and none twice, for any  *)
(* number of clients and lines.                                              *)
THEOREM LinesInOrder == Spec => []SentInOrder
<1>1. SseInv => SentInOrder
  BY DEF SseInv, StreamInv, Ascending, SentInOrder
<1> QED BY <1>1, StreamsHold, PTL

(* The only lines a stream can lose are those logged while it was sending.   *)
THEOREM OnlyLateLost == Spec => []LateLinesOnly
<1>1. SseInv => LateLinesOnly
  <2> SUFFICES ASSUME SseInv, NEW s \in Streams, pc[s] = "end" \/ (pc[s] = "parked" /\ ~Woken(s))
               PROVE  Missing(s) \subseteq late[s]
    BY DEF LateLinesOnly
  <2>1. logs \in Nat /\ on[s] \in Nat /\ event = logs /\ Debt(s)
    BY StreamAssumption DEF SseInv, TypeOK, JobInv, StreamInv
  <2>2. CASE pc[s] = "end"
    BY <2>1, <2>2 DEF Debt, Accounted, Missing
  <2>3. CASE pc[s] = "parked" /\ ~Woken(s)
    BY <2>1, <2>3 DEF Debt, Woken, Accounted, Missing
  <2> QED BY <2>2, <2>3
<1> QED BY <1>1, StreamsHold, PTL

=============================================================================
