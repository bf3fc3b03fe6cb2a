------------------------- MODULE BatchWorkerProofs -------------------------
(***************************************************************************)
(* Proofs about BatchWorker for every set of objects, batch size, channel  *)
(* capacity and number of records: its types, that what is pending is      *)
(* newer than what is written, that a stopped worker has submitted its     *)
(* buffer, and that it implements the last-write-wins store.               *)
(***************************************************************************)
EXTENDS BatchWorker, SequenceTheorems, FiniteSetTheorems,
        WellFoundedInduction, TLAPS

(* The shared parts of the select's cases.                                 *)
USE DEF Select, Take

(* The least-number principle, from the well-foundedness of < on Nat.      *)
NatLess == {p \in Nat \X Nat : p[1] < p[2]}

(* A set of numbers that is not empty has a least element.                 *)
LEMMA LeastElement ==
  ASSUME NEW T, T \subseteq Nat, T # {}
  PROVE  \E x \in T : \A y \in T : x <= y
<1>1. IsWellFoundedOn(NatLess, Nat)
  BY NatLessThanWellFounded DEF OpToRel, NatLess
<1>2. PICK x \in T : \A y \in T : ~ (<<y, x>> \in NatLess)
  BY <1>1, WFMin
<1>3. \A y \in T : x \in Nat /\ y \in Nat /\ ~ (y < x)
  BY <1>2 DEF NatLess
<1> QED  BY <1>3

(* A position with a property has a last such position.                    *)
LEMMA LastElement ==
  ASSUME NEW n \in Nat, NEW T, T \subseteq 1..n, T # {}
  PROVE  \E x \in T : \A y \in T : y <= x
<1> DEFINE D == {n - i : i \in T}
<1>1. D \subseteq Nat /\ D # {}
  <2>1. \A i \in T : i \in 1..n /\ n - i \in Nat
    OBVIOUS
  <2> QED  BY <2>1
<1>2. PICK d \in D : \A e \in D : d <= e
  BY <1>1, LeastElement
<1>3. PICK x \in T : d = n - x
  OBVIOUS
<1>4. \A y \in T : n - y \in D /\ n - x <= n - y /\ y \in Nat /\ x \in Nat
  <2> TAKE y \in T
  <2>1. x \in Nat /\ y \in Nat /\ n - y \in D
    OBVIOUS
  <2> QED  BY <1>2, <1>3, <2>1
<1> QED  BY <1>4

(* The map seen holds, for every object of the buffer, its last record.    *)
LEMMA LastIndexIsLast ==
  ASSUME TypeOK, NEW u \in Keys
  PROVE  /\ LastIndex(u) \in 1..Len(buffer)
         /\ buffer[LastIndex(u)].uid = u
         /\ \A k \in 1..Len(buffer) : buffer[k].uid = u => k <= LastIndex(u)
<1> DEFINE T == {i \in 1..Len(buffer) : buffer[i].uid = u}
<1>1. Len(buffer) \in Nat
  BY LenProperties DEF TypeOK
<1>2. T # {}
  BY DEF Keys
<1>3. \E x \in T : \A y \in T : y <= x
  BY <1>1, <1>2, LastElement
<1>4. \E i \in 1..Len(buffer) : /\ buffer[i].uid = u
                                /\ \A k \in 1..Len(buffer) : buffer[k].uid = u => k <= i
  BY <1>3
<1> QED  BY <1>4 DEF LastIndex

-----------------------------------------------------------------------------
(* The inductive invariant: records are numbered in the order of the line, *)
(* no number exceeds the count of records sent, and every row is older     *)
(* than what is pending for its object.                                    *)
InOrder ==
  /\ \A i \in 1..Len(buffer) : buffer[i].n <= sent
  /\ \A i \in 1..Len(recordChan) : recordChan[i].n <= sent
  /\ \A u \in UIDs : refreshed[u] # NoRow => refreshed[u] <= sent
  /\ \A i, k \in 1..Len(recordChan) : i < k => recordChan[i].n < recordChan[k].n
  /\ \A i \in 1..Len(buffer), k \in 1..Len(recordChan) : buffer[i].n < recordChan[k].n

(* flush is called only when there is something to flush.                  *)
FlushNotEmpty == Flushing => buffer # <<>>

BInv == TypeOK /\ InOrder /\ PendingIsNewer /\ StopSubmitsBuffer /\ FlushNotEmpty

(* The elements of the two sequences.                                      *)
LEMMA Elements ==
  ASSUME TypeOK
  PROVE  /\ Len(buffer) \in Nat /\ Len(recordChan) \in Nat
         /\ \A i \in 1..Len(buffer) :
               buffer[i] \in Record /\ buffer[i].uid \in UIDs /\ buffer[i].n \in Nat
         /\ \A i \in 1..Len(recordChan) :
               recordChan[i] \in Record /\ recordChan[i].uid \in UIDs
                 /\ recordChan[i].n \in Nat
<1>1. buffer \in Seq(Record) /\ recordChan \in Seq(Record)
  BY DEF TypeOK
<1>2. \A r \in Record : r.uid \in UIDs /\ r.n \in Nat
  BY DEF Record
<1> QED  BY <1>1, <1>2, LenProperties, ElementOfSeq

(* The worker starts with nothing received or written.                     *)
LEMMA InitBInv == Init => BInv
<1> SUFFICES ASSUME Init PROVE BInv
  OBVIOUS
<1> USE BatchAssumption DEF Init
<1>1. recordChan \in Seq(Record) /\ buffer \in Seq(Record)
      /\ Len(recordChan) = 0 /\ Len(buffer) = 0
  BY EmptySeq
<1>2. TypeOK
  <2>1. sent \in 0..MaxSends
    OBVIOUS
  <2>2. refreshed \in [UIDs -> Nat \cup {NoRow}]
    OBVIOUS
  <2>3. Len(recordChan) <= ChanCap /\ Len(buffer) <= MaxBatch /\ Len(buffer) < MaxBatch
    BY <1>1
  <2>4. stop \in BOOLEAN
        /\ pc \in {"select", "flush", "lastflush", "stopped"}
    OBVIOUS
  <2> QED  BY <1>1, <2>1, <2>2, <2>3, <2>4 DEF TypeOK
<1> QED  BY <1>1, <1>2 DEF BInv, InOrder, PendingIsNewer, StopSubmitsBuffer,
                            FlushNotEmpty, Flushing

(* A job's send: its record is the newest.                                 *)
LEMMA SendKeeps ==
  ASSUME BInv, NEW u \in UIDs, NEW b \in BOOLEAN, Send(u, b)
  PROVE  BInv'
<1> USE BatchAssumption DEF BInv, Send
<1> DEFINE r == [uid |-> u, n |-> sent + 1, uuid |-> b]
<1>1. r \in Record /\ r.n = sent + 1 /\ r.uid = u /\ sent \in Nat
  BY DEF Record, TypeOK
<1>2. recordChan' = Append(recordChan, r)
  OBVIOUS
<1> HIDE DEF r
<1>3. /\ recordChan' \in Seq(Record)
      /\ Len(recordChan') = Len(recordChan) + 1
      /\ \A i \in 1..Len(recordChan) : recordChan'[i] = recordChan[i]
      /\ recordChan'[Len(recordChan) + 1] = r
  BY <1>1, <1>2, AppendProperties DEF TypeOK
<1>4. TypeOK'
  BY <1>1, <1>3, Elements DEF TypeOK
<1>5. InOrder'
  BY <1>1, <1>3, Elements DEF InOrder, TypeOK
<1>6. PendingIsNewer'
  BY <1>1, <1>3, Elements DEF PendingIsNewer, InOrder, TypeOK
<1> QED  BY <1>4, <1>5, <1>6 DEF StopSubmitsBuffer, FlushNotEmpty, Flushing

(* A record moves from the channel to the buffer.                          *)
LEMMA ReceiveKeeps == ASSUME BInv, Receive PROVE BInv'
<1> USE BatchAssumption DEF BInv
<1>1. /\ Head(recordChan) = recordChan[1]
      /\ Head(recordChan) \in Record
      /\ recordChan' \in Seq(Record)
      /\ Len(recordChan') = Len(recordChan) - 1
      /\ Len(recordChan) >= 1
      /\ \A i \in 1..Len(recordChan') : recordChan'[i] = recordChan[i + 1]
  BY HeadTailProperties, EmptySeq DEF Receive, TypeOK
<1>2. /\ buffer' \in Seq(Record)
      /\ Len(buffer') = Len(buffer) + 1
      /\ \A i \in 1..Len(buffer) : buffer'[i] = buffer[i]
      /\ buffer'[Len(buffer) + 1] = recordChan[1]
  BY <1>1, AppendProperties DEF Receive, TypeOK
<1>3. /\ pc = "select"
      /\ pc' = IF Len(buffer) + 1 >= MaxBatch THEN "flush" ELSE "select"
      /\ UNCHANGED <<stop, refreshed, sent>>
  BY DEF Receive
<1>4. TypeOK'
  BY <1>1, <1>2, <1>3, Elements DEF TypeOK
<1>a. \A i \in 1..Len(buffer') :
         \/ i \in 1..Len(buffer) /\ buffer'[i] = buffer[i]
         \/ buffer'[i] = recordChan[1]
  BY <1>2, Elements
<1>b. /\ 1 \in 1..Len(recordChan)
      /\ \A k \in 1..Len(recordChan') :
            k + 1 \in 1..Len(recordChan) /\ 1 < k + 1 /\ recordChan'[k] = recordChan[k + 1]
  BY <1>1, Elements
<1>5. InOrder'
  <2>1. /\ \A i \in 1..Len(buffer') : buffer'[i].n <= sent
        /\ \A i \in 1..Len(recordChan') : recordChan'[i].n <= sent
    BY <1>a, <1>b DEF InOrder
  <2>2. \A i, k \in 1..Len(recordChan') : i < k => recordChan'[i].n < recordChan'[k].n
    <3> TAKE i, k \in 1..Len(recordChan')
    <3>1. i < k => i + 1 < k + 1
      OBVIOUS
    <3> QED  BY <1>b, <3>1 DEF InOrder
  <2>3. \A i \in 1..Len(buffer'), k \in 1..Len(recordChan') :
           buffer'[i].n < recordChan'[k].n
    BY <1>a, <1>b DEF InOrder
  <2> QED  BY <1>3, <2>1, <2>2, <2>3 DEF InOrder
<1>6. PendingIsNewer'
  BY <1>a, <1>b, <1>3 DEF PendingIsNewer
<1>7. StopSubmitsBuffer' /\ FlushNotEmpty'
  <2>1. buffer' # <<>>
    BY <1>2, Elements, EmptySeq
  <2> QED  BY <1>3, <2>1 DEF StopSubmitsBuffer, FlushNotEmpty
<1> QED  BY <1>4, <1>5, <1>6, <1>7

(* The signal, the ticker and the stop case move no record.                *)
LEMMA ControlKeeps == ASSUME BInv, SignalStop \/ Tick \/ Stop PROVE BInv'
<1> USE BatchAssumption DEF BInv, SignalStop, Tick, Stop
<1>1. UNCHANGED <<recordChan, buffer, refreshed, sent>>
  OBVIOUS
<1>2. TypeOK'
  <2>1. /\ pc' \in {"select", "flush", "lastflush", "stopped"}
        /\ pc' = "select" => pc = "select"
        /\ stop' \in BOOLEAN
    BY DEF TypeOK
  <2> QED  BY <1>1, <2>1 DEF TypeOK
<1>3. InOrder' /\ PendingIsNewer'
  BY <1>1 DEF InOrder, PendingIsNewer
<1>4. StopSubmitsBuffer' /\ FlushNotEmpty'
  BY DEF StopSubmitsBuffer, FlushNotEmpty, Flushing
<1> QED  BY <1>2, <1>3, <1>4

(* What the statement leaves in the table.                                 *)
LEMMA UpsertRows ==
  ASSUME TypeOK, Upsert
  PROVE  /\ refreshed' \in [UIDs -> Nat \cup {NoRow}]
         /\ \A u \in UIDs : refreshed'[u] =
               IF u \in Keys THEN buffer[LastIndex(u)].n ELSE refreshed[u]
<1>1. \A v \in UIDs : v \in Keys => buffer[LastIndex(v)].n \in Nat
  BY LastIndexIsLast, Elements
<1> QED  BY <1>1 DEF Upsert, TypeOK

(* The statement is executed, or fails, and the buffer is reset.           *)
LEMMA ExecKeeps == ASSUME BInv, Exec PROVE BInv'
<1> USE BatchAssumption DEF BInv
<1>1. /\ buffer' = <<>> /\ Len(buffer') = 0 /\ buffer' \in Seq(Record)
      /\ pc' = IF pc = "flush" THEN "select" ELSE "stopped"
      /\ UNCHANGED <<recordChan, stop, sent>>
  BY EmptySeq DEF Exec, ExecOK, ExecError, FlushReturns
<1>2. UNCHANGED refreshed \/ Upsert
  BY DEF Exec, ExecOK, ExecError
<1>4. refreshed' \in [UIDs -> Nat \cup {NoRow}]
  BY <1>2, UpsertRows DEF TypeOK
<1>5. TypeOK'
  BY <1>1, <1>4 DEF TypeOK
<1>6. /\ \A u \in UIDs : refreshed'[u] # NoRow => refreshed'[u] <= sent
      /\ \A u \in UIDs, k \in 1..Len(recordChan) :
            recordChan[k].uid = u /\ refreshed'[u] # NoRow => refreshed'[u] < recordChan[k].n
  <2>1. CASE UNCHANGED refreshed
    BY <2>1 DEF InOrder, PendingIsNewer
  <2>2. CASE Upsert
    BY <2>2, UpsertRows, LastIndexIsLast DEF InOrder, PendingIsNewer
  <2> QED  BY <1>2, <2>1, <2>2
<1>7. InOrder' /\ PendingIsNewer' /\ StopSubmitsBuffer' /\ FlushNotEmpty'
  BY <1>1, <1>6 DEF InOrder, PendingIsNewer, StopSubmitsBuffer, FlushNotEmpty, Flushing
<1> QED  BY <1>5, <1>7

(* A label is a UUID or it is not.                                         *)
LEMMA ConversionIsBoolean ==
  \A label \in CompositionLabels : hasCompositionId(label) \in BOOLEAN
BY DEF hasCompositionId

(* Every step of the worker keeps the invariant.                           *)
LEMMA NextKeepsBInv == BInv /\ [Next]_vars => BInv'
<1> SUFFICES ASSUME BInv, [Next]_vars PROVE BInv'
  OBVIOUS
<1>1. CASE \E u \in UIDs, label \in CompositionLabels :
               Send(u, hasCompositionId(label))
  BY <1>1, SendKeeps, ConversionIsBoolean
<1>2. CASE Receive
  BY <1>2, ReceiveKeeps
<1>3. CASE SignalStop \/ Tick \/ Stop
  BY <1>3, ControlKeeps
<1>4. CASE ExecOK \/ ExecError
  BY <1>4, ExecKeeps DEF Exec
<1>5. CASE Finished \/ UNCHANGED vars
  BY <1>5 DEF Finished, vars, BInv, TypeOK, InOrder, PendingIsNewer, StopSubmitsBuffer,
              FlushNotEmpty, Flushing
<1> QED  BY <1>1, <1>2, <1>3, <1>4, <1>5 DEF Next

(* The inductive invariant of Worker.Run: records travel in the order of   *)
(* their sends and what is pending is newer than the table.                *)
THEOREM BatchInvariant == Spec => []BInv
BY InitBInv, NextKeepsBInv, PTL DEF Spec

(* The batch writer's types: no flush exceeds MaxBatch records.            *)
THEOREM BatchTypes == Spec => []TypeOK
<1>1. BInv => TypeOK
  BY DEF BInv
<1> QED  BY <1>1, BatchInvariant, PTL

(* What is still to be written of an object is newer than its row.         *)
THEOREM PendingStaysNewer == Spec => []PendingIsNewer
<1>1. BInv => PendingIsNewer
  BY DEF BInv
<1> QED  BY <1>1, BatchInvariant, PTL

(* A worker that has returned has submitted all it had received.           *)
THEOREM StopLosesNoBuffer == Spec => []StopSubmitsBuffer
<1>1. BInv => StopSubmitsBuffer
  BY DEF BInv
<1> QED  BY <1>1, BatchInvariant, PTL

(* Deduplication makes every batch with well-formed composition_ids one    *)
(* statement that Postgres can execute.                                    *)
THEOREM DeduplicationSuffices == Spec => []HealthyBatchAccepted
<1>1. BInv => HealthyBatchAccepted
  <2> SUFFICES ASSUME TypeOK, \A i \in 1..Len(buffer) : buffer[i].uuid
               PROVE  Acceptable(records)
    BY DEF BInv, HealthyBatchAccepted
  <2>1. \A r \in records : \E u \in Keys : r = buffer[LastIndex(u)] /\ r.uid = u /\ r.uuid
    BY LastIndexIsLast DEF records
  <2> QED  BY <2>1 DEF Acceptable
<1> QED  BY <1>1, BatchInvariant, PTL

-----------------------------------------------------------------------------
(* The refinement.  A record that moves from the channel into the buffer   *)
(* leaves the line as it is.                                               *)
LEMMA MoveKeepsLine ==
  ASSUME NEW S, NEW s \in Seq(S), NEW t \in Seq(S), t # <<>>
  PROVE  Append(s, Head(t)) \o Tail(t) = s \o t
<1>1. /\ Head(t) \in S /\ Tail(t) \in Seq(S) /\ Len(Tail(t)) = Len(t) - 1
      /\ \A i \in 1..Len(Tail(t)) : Tail(t)[i] = t[i + 1]
      /\ Head(t) = t[1] /\ Len(t) \in Nat \ {0}
  BY HeadTailProperties, EmptySeq
<1> DEFINE a == Append(s, Head(t))
<1>2. /\ a \in Seq(S) /\ Len(a) = Len(s) + 1 /\ a[Len(s) + 1] = t[1]
      /\ \A i \in 1..Len(s) : a[i] = s[i]
  BY <1>1, AppendProperties
<1> HIDE DEF a
<1> DEFINE r == Tail(t)
<1>c. r \in Seq(S) /\ Len(r) = Len(t) - 1 /\ \A i \in 1..Len(r) : r[i] = t[i + 1]
  BY <1>1
<1> HIDE DEF r
<1>d. /\ a \o r \in Seq(S) /\ Len(a \o r) = Len(a) + Len(r)
      /\ \A i \in 1..Len(a) + Len(r) :
            (a \o r)[i] = IF i <= Len(a) THEN a[i] ELSE r[i - Len(a)]
  BY <1>2, <1>c, ConcatProperties
<1>e. s \o t \in Seq(S) /\ Len(s \o t) = Len(s) + Len(t) /\ Len(s) \in Nat
  BY ConcatProperties, LenProperties
<1>3. /\ a \o r \in Seq(S) /\ Len(a \o r) = Len(s) + Len(t)
      /\ s \o t \in Seq(S) /\ Len(s \o t) = Len(s) + Len(t)
      /\ Len(s) \in Nat /\ Len(a) + Len(r) = Len(s) + Len(t)
  BY <1>1, <1>2, <1>c, <1>d, <1>e
<1>4. \A i \in 1..Len(s) + Len(t) : (a \o r)[i] = (s \o t)[i]
  <2> TAKE i \in 1..Len(s) + Len(t)
  <2>1. (s \o t)[i] = IF i <= Len(s) THEN s[i] ELSE t[i - Len(s)]
    BY ConcatProperties
  <2>2. (a \o r)[i] = IF i <= Len(s) + 1 THEN a[i] ELSE r[i - (Len(s) + 1)]
    BY <1>2, <1>3, <1>d
  <2>3. CASE i <= Len(s)
    BY <1>2, <1>3, <2>1, <2>2, <2>3
  <2>4. CASE i = Len(s) + 1
    BY <1>2, <1>3, <2>1, <2>2, <2>4
  <2>5. CASE i > Len(s) + 1
    <3> DEFINE k == i - (Len(s) + 1)
    <3>1. /\ k \in 1..Len(r) /\ k + 1 = i - Len(s)
          /\ ~(i <= Len(s)) /\ ~(i <= Len(s) + 1)
      BY <1>1, <1>3, <1>c, <2>5
    <3>2. r[k] = t[k + 1]
      BY <1>1, <1>c, <3>1
    <3> QED  BY <2>1, <2>2, <3>1, <3>2
  <2> QED  BY <1>3, <2>3, <2>4, <2>5
<1> QED  BY <1>3, <1>4, SeqEqual DEF a, r

(* The front and the rest of the line are the buffer and the channel.      *)
LEMMA LineSplits ==
  ASSUME NEW S, NEW s \in Seq(S), NEW t \in Seq(S)
  PROVE  /\ SubSeq(s \o t, 1, Len(s)) = s
         /\ SubSeq(s \o t, Len(s) + 1, Len(s \o t)) = t
<1>1. /\ s \o t \in Seq(S) /\ Len(s \o t) = Len(s) + Len(t)
      /\ \A i \in 1..Len(s) + Len(t) :
            (s \o t)[i] = IF i <= Len(s) THEN s[i] ELSE t[i - Len(s)]
      /\ Len(s) \in Nat /\ Len(t) \in Nat
  BY ConcatProperties, LenProperties
<1>2. SubSeq(s \o t, 1, Len(s)) = s
  <2>1. \A i \in 1..Len(s) : (s \o t)[i] \in S
    BY <1>1, ElementOfSeq
  <2> DEFINE x == SubSeq(s \o t, 1, Len(s))
  <2>2. x \in Seq(S) /\ Len(x) = Len(s) /\ \A i \in 1..Len(s) : x[i] = (s \o t)[i]
    BY <1>1, <2>1, SubSeqProperties
  <2> QED  BY <1>1, <2>2, SeqEqual
<1>3. SubSeq(s \o t, Len(s) + 1, Len(s \o t)) = t
  <2>1. \A i \in Len(s) + 1..Len(s) + Len(t) : (s \o t)[i] \in S
    BY <1>1, ElementOfSeq
  <2> DEFINE x == SubSeq(s \o t, Len(s) + 1, Len(s) + Len(t))
  <2>2. /\ x \in Seq(S) /\ Len(x) = Len(t)
        /\ \A i \in 1..Len(t) : x[i] = (s \o t)[Len(s) + i]
    BY <1>1, <2>1, SubSeqProperties
  <2>3. \A i \in 1..Len(t) : x[i] = t[i]
    BY <1>1, <2>2
  <2> QED  BY <1>1, <2>2, <2>3, SeqEqual
<1> QED  BY <1>2, <1>3

(* A record sent goes to the end of the line.                              *)
LEMMA AppendExtendsLine ==
  ASSUME NEW S, NEW s \in Seq(S), NEW t \in Seq(S), NEW e \in S
  PROVE  LET l == s \o Append(t, e)
         IN  l \in Seq(S) /\ l # <<>> /\ s \o t = SubSeq(l, 1, Len(l) - 1)
<1> DEFINE a == Append(t, e)
           l == s \o a
           m == s \o t
<1>1. /\ a \in Seq(S) /\ Len(a) = Len(t) + 1 /\ \A i \in 1..Len(t) : a[i] = t[i]
      /\ Len(s) \in Nat /\ Len(t) \in Nat
  BY AppendProperties, LenProperties
<1> HIDE DEF a
<1>2. /\ l \in Seq(S) /\ Len(l) = Len(s) + Len(a)
      /\ \A i \in 1..Len(s) + Len(a) : l[i] = IF i <= Len(s) THEN s[i] ELSE a[i - Len(s)]
  BY <1>1, ConcatProperties
<1>3. /\ m \in Seq(S) /\ Len(m) = Len(s) + Len(t)
      /\ \A i \in 1..Len(s) + Len(t) : m[i] = IF i <= Len(s) THEN s[i] ELSE t[i - Len(s)]
  BY ConcatProperties
<1> HIDE DEF l, m
<1>4. Len(l) = Len(m) + 1 /\ Len(m) \in Nat /\ \A i \in 1..Len(m) : l[i] = m[i]
  <2>1. Len(l) = Len(m) + 1 /\ Len(m) \in Nat
    BY <1>1, <1>2, <1>3
  <2>2. ASSUME NEW i \in 1..Len(m) PROVE l[i] = m[i]
    <3>1. i \in 1..Len(s) + Len(a) /\ i \in 1..Len(s) + Len(t)
      BY <1>1, <1>3
    <3>2. CASE i <= Len(s)
      BY <1>2, <1>3, <3>1, <3>2
    <3>3. CASE ~(i <= Len(s))
      <4>1. i - Len(s) \in 1..Len(t)
        BY <1>1, <3>1, <3>3
      <4> QED  BY <1>1, <1>2, <1>3, <3>1, <3>3, <4>1
    <3> QED  BY <3>2, <3>3
  <2> QED  BY <2>1, <2>2
<1>5. l # <<>>
  BY <1>4
<1> DEFINE x == SubSeq(l, 1, Len(l) - 1)
<1>6. \A i \in 1..Len(m) : l[i] \in S
  BY <1>3, <1>4, ElementOfSeq
<1>7. Len(l) - 1 = Len(m)
  BY <1>4
<1>8. x \in Seq(S) /\ Len(x) = Len(m) /\ \A i \in 1..Len(m) : x[i] = l[i]
  BY <1>4, <1>6, <1>7, SubSeqProperties
<1>9. x = m
  BY <1>3, <1>4, <1>8, SeqEqual
<1> QED  BY <1>2, <1>5, <1>9 DEF l, m, a

(* The last position, as the worker and as the store say it.               *)
LEMMA SameLast ==
  ASSUME TypeOK, NEW u \in Keys
  PROVE  Store!LastOf(buffer, u) = LastIndex(u)
<1> DEFINE P(i) == buffer[i].uid = u /\ \A k \in 1..Len(buffer) : buffer[k].uid = u => k <= i
           Q(i) == buffer[i].uid = u /\ \A k \in i + 1..Len(buffer) : buffer[k].uid # u
<1>1. \A i \in 1..Len(buffer) : P(i) <=> Q(i)
  <2> TAKE i \in 1..Len(buffer)
  <2>1. Len(buffer) \in Nat
    BY Elements
  <2>2. P(i) => Q(i)
    BY <2>1
  <2>3. Q(i) => P(i)
    BY <2>1
  <2> QED  BY <2>2, <2>3
<1>2. (CHOOSE i \in 1..Len(buffer) : P(i)) = (CHOOSE i \in 1..Len(buffer) : Q(i))
  <2> DEFINE i0 == CHOOSE i \in 1..Len(buffer) : Q(i)
             j0 == CHOOSE i \in 1..Len(buffer) : P(i)
  <2>1. j0 \in 1..Len(buffer) /\ P(j0)
    BY LastIndexIsLast DEF LastIndex
  <2>2. i0 \in 1..Len(buffer) /\ Q(i0)
    BY <1>1, <2>1
  <2>3. P(i0)
    BY <1>1, <2>2
  <2>4. i0 <= j0 /\ j0 <= i0
    BY <2>1, <2>2, <2>3
  <2>5. Len(buffer) \in Nat
    BY Elements
  <2> HIDE DEF i0, j0, P, Q
  <2>6. i0 = j0
    BY <2>1, <2>2, <2>4, <2>5
  <2> QED  BY <2>6 DEF i0, j0
<1> QED  BY <1>2 DEF Store!LastOf, LastIndex

(* The table after the statement is the store after the batch.             *)
LEMMA UpsertOverwrites ==
  ASSUME TypeOK, Upsert
  PROVE  refreshed' = Store!Overwritten(buffer)
<1>1. \A u \in UIDs : (\E i \in 1..Len(buffer) : buffer[i].uid = u) <=> u \in Keys
  BY DEF Keys
<1>2. \A u \in UIDs : u \in Keys => Store!LastOf(buffer, u) = LastIndex(u)
  BY SameLast
<1> QED  BY <1>1, <1>2 DEF Upsert, Store!Overwritten

(* Every step of the worker is one of the store, or none.                  *)
LEMMA StepRefines ==
  ASSUME BInv, BInv', [Next]_vars
  PROVE  [Store!Next]_(Store!vars)
<1> DEFINE line == buffer \o recordChan
<1> USE DEF BInv
<1>0. buffer \in Seq(Record) /\ recordChan \in Seq(Record)
      /\ buffer' \in Seq(Record) /\ recordChan' \in Seq(Record)
  BY DEF TypeOK
<1>1. CASE \E u \in UIDs, label \in CompositionLabels :
               Send(u, hasCompositionId(label))
  <2>1. PICK r \in Record : recordChan' = Append(recordChan, r)
    <3>1. PICK u \in UIDs, b \in BOOLEAN : Send(u, b)
      BY <1>1, ConversionIsBoolean
    <3>2. [uid |-> u, n |-> sent + 1, uuid |-> b] \in Record
      BY BatchAssumption DEF Record, TypeOK
    <3> QED  BY <3>1, <3>2 DEF Send
  <2>2. UNCHANGED <<buffer, refreshed>>
    BY <1>1 DEF Send
  <2>3. /\ line' \in Seq(Record) /\ line' # <<>>
        /\ line = SubSeq(line', 1, Len(line') - 1)
    BY <1>0, <2>1, <2>2, AppendExtendsLine
  <2>4. Store!Accept
    BY <2>2, <2>3 DEF Store!Accept
  <2> QED  BY <2>4 DEF Store!Next
<1>2. CASE Receive
  <2>1. line' = line /\ UNCHANGED refreshed
    BY <1>0, <1>2, MoveKeepsLine DEF Receive
  <2> QED  BY <2>1 DEF Store!vars
<1>3. CASE SignalStop \/ Tick \/ Stop \/ Finished \/ UNCHANGED vars
  BY <1>3 DEF SignalStop, Tick, Stop, Finished, vars, Store!vars
<1>4. CASE ExecOK \/ ExecError
  <2>1. buffer' = <<>> /\ UNCHANGED recordChan /\ (UNCHANGED refreshed \/ Upsert)
    BY <1>4 DEF ExecOK, ExecError, FlushReturns
  <2>2. Len(buffer) \in 1..Len(line)
    <3>1. Len(buffer) \in Nat \ {0}
      BY <1>0, <1>4, EmptySeq DEF ExecOK, ExecError, FlushNotEmpty
    <3>2. Len(line) = Len(buffer) + Len(recordChan) /\ Len(recordChan) \in Nat
      BY <1>0, ConcatProperties, LenProperties
    <3> QED  BY <3>1, <3>2
  <2>3. Store!First(Len(buffer)) = buffer /\ line' = Store!Rest(Len(buffer))
    BY <1>0, <2>1, LineSplits, ConcatEmptySeq DEF Store!First, Store!Rest
  <2>4. Store!Commit(Len(buffer)) \/ Store!Lose(Len(buffer))
    BY <2>1, <2>3, UpsertOverwrites DEF Store!Commit, Store!Lose
  <2> QED  BY <2>2, <2>4 DEF Store!Next
<1> QED  BY <1>1, <1>2, <1>3, <1>4 DEF Next

(* The batch writer implements the last-write-wins store, for every batch  *)
(* size and every interleaving of jobs, ticks, stop and database errors.   *)
THEOREM BatchWorkerImplementsStore == Spec => RefinesStore
<1>1. Init => Store!Init
  <2> SUFFICES ASSUME Init PROVE Store!Init
    OBVIOUS
  <2>1. buffer \o recordChan = <<>>
    BY EmptySeq, ConcatEmptySeq DEF Init
  <2> QED  BY <2>1 DEF Init, Store!Init
<1>2. BInv /\ BInv' /\ [Next]_vars => [Store!Next]_(Store!vars)
  BY StepRefines
<1> QED  BY <1>1, <1>2, BatchInvariant, PTL DEF Spec, RefinesStore, Store!Spec
=============================================================================
