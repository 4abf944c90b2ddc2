-------------------------- MODULE RemoteWriteProofs --------------------------
(***************************************************************************)
(* Proofs about RemoteWrite, for any endpoints, kinds, batches, queue and  *)
(* request sizes: its invariants, and that it implements SampleStream.     *)
(***************************************************************************)
EXTENDS RemoteWrite, FiniteSetTheorems, SequenceTheorems, TLAPS

-----------------------------------------------------------------------------
(***************************************************************************)
(* The inductive invariant.  Type correctness alone is not inductive: that *)
(* pending_samples never goes below zero depends on its being the size of  *)
(* the buffer, and that in turn on a batch received never holding a series *)
(* that is already in the buffer, which the order of the stages gives.     *)
(***************************************************************************)

Before(S, T) == \A i \in S, j \in T : i < j

\* The positions handed out so far.
Issued == 1 .. Len(stream)

\* Oldest first, the stages of e are: what its receiver stored, the request in
\* flight (which may be the last one stored), the buffer, the queue.
QueueOrdered(e) ==
  /\ \A k \in DOMAIN queue[e] : queue[e][k] \subseteq Issued
  /\ \A k, l \in DOMAIN queue[e] : k < l => Before(queue[e][k], queue[e][l])

BufferOrdered(e) ==
  /\ pending[e] \subseteq Issued
  /\ \A k \in DOMAIN queue[e] : Before(pending[e], queue[e][k])

FlightOrdered(e) ==
  /\ inflight[e] \subseteq Issued
  /\ Before(inflight[e], pending[e])
  /\ \A k \in DOMAIN queue[e] : Before(inflight[e], queue[e][k])

StoreOrdered(e) ==
  \A k \in DOMAIN received[e] :
    /\ received[e][k] \subseteq Issued
    /\ Before(received[e][k], pending[e])
    /\ \A l \in DOMAIN queue[e] : Before(received[e][k], queue[e][l])
    /\ \/ Before(received[e][k], inflight[e])
       \/ k = Len(received[e]) /\ received[e][k] = inflight[e]
    /\ \A l \in DOMAIN received[e] : k < l => Before(received[e][k], received[e][l])

Ordered(e) ==
  QueueOrdered(e) /\ BufferOrdered(e) /\ FlightOrdered(e) /\ StoreOrdered(e)

\* What holds of the sender of e at the given point of run.
At(e, point) ==
  /\ point = "idle" => Cardinality(pending[e]) < MaxSamplesPerSend[e]
  /\ point = "stopped" => ~open /\ queue[e] = <<>> /\ pending[e] = {}

Sized(e) ==
  /\ Looping(e) => pendingSamples[e] = Cardinality(pending[e])
  /\ Cardinality(inflight[e]) <= MaxSamplesPerSend[e]
  /\ ~InFlush(e) => inflight[e] = {}
  /\ phase[e] = "starting" => pending[e] = {}
  /\ ~InFlush(e) => At(e, phase[e])
  /\ InFlush(e) => At(e, resume[e])

OrderInv == \A e \in Endpoints : Ordered(e)
SizeInv == \A e \in Endpoints : Sized(e)
IInv == TypeOK /\ OrderInv /\ SizeInv

-----------------------------------------------------------------------------
\* Lemmas about the helpers

\* The refusing endpoints are finitely many, so send's count is a number.
LEMMA RefusingCount == Cardinality(Refusing) \in Nat
  BY ConstantsAssumption, FS_Subset, FS_CardinalityType DEF Refusing, ConstantsAssumption

\* Dropping native histograms only removes series.
LEMMA DropShrinks ==
  ASSUME NEW e, NEW batch
  PROVE  DropNativeHistograms(e, batch) \subseteq batch
  BY DEF DropNativeHistograms

\* So does relabelling, and the request never gets longer by it.
LEMMA RelabelShrinks ==
  ASSUME NEW e, NEW batch, IsFiniteSet(batch)
  PROVE  /\ WriteRelabel(e, batch) \subseteq batch
         /\ Cardinality(WriteRelabel(e, batch)) <= Cardinality(batch)
<1>1. WriteRelabel(e, batch) \subseteq batch
  BY DEF WriteRelabel
<1> QED
  BY <1>1, FS_Subset

\* Issued positions are finitely many.
LEMMA IssuedFinite ==
  ASSUME TypeOK, NEW S, S \subseteq Issued
  PROVE  IsFiniteSet(S) /\ Cardinality(S) \in Nat /\ S \subseteq Nat
<1>1. Len(stream) \in Nat
  BY DEF TypeOK
<1>2. IsFiniteSet(Issued)
  BY <1>1, FS_Interval DEF Issued
<1>3. IsFiniteSet(S)
  BY <1>2, FS_Subset
<1>4. Issued \subseteq Nat
  BY <1>1 DEF Issued
<1> QED
  BY <1>3, <1>4, FS_CardinalityType

\* split_batch cuts off as many series as it was asked to, from the front.
LEMMA SplitSizes ==
  ASSUME NEW series, IsFiniteSet(series), NEW cut \in Nat,
         NEW chunk \in LeadingSeries(series, cut)
  PROVE  /\ chunk \subseteq series /\ IsFiniteSet(chunk)
         /\ Cardinality(chunk) = cut
         /\ Cardinality(series \ chunk) = Cardinality(series) - cut
         /\ Cardinality(series) - cut \in Nat
         /\ Before(chunk, series \ chunk)
<1>1. /\ chunk \subseteq series /\ Cardinality(chunk) = cut
      /\ series \cap chunk = chunk /\ Before(chunk, series \ chunk)
  BY DEF LeadingSeries, Before
<1>2. IsFiniteSet(chunk)
  BY <1>1, FS_Subset
<1>3. /\ IsFiniteSet(series \ chunk)
      /\ Cardinality(series \ chunk) = Cardinality(series) - cut
  <2>1. /\ IsFiniteSet(series \ chunk)
        /\ Cardinality(series \ chunk) = Cardinality(series) - Cardinality(series \cap chunk)
    BY FS_Difference
  <2> QED
    BY <1>1, <2>1
<1>4. Cardinality(series \ chunk) \in Nat
  BY <1>3, FS_CardinalityType
<1> QED
  BY <1>1, <1>2, <1>3, <1>4

\* Appending a batch that lies after a buffer adds its size.
LEMMA UnionSizes ==
  ASSUME NEW S, IsFiniteSet(S), NEW T, IsFiniteSet(T), Before(S, T), S \subseteq Nat
  PROVE  Cardinality(S \cup T) = Cardinality(S) + Cardinality(T)
<1>1. ASSUME NEW i \in S, i \in T PROVE FALSE
  <2>1. i < i /\ i \in Nat
    BY <1>1 DEF Before
  <2> QED
    BY <2>1
<1>2. S \cap T = {}
  BY <1>1
<1>3. Cardinality(S \cup T) = Cardinality(S) + Cardinality(T) - Cardinality(S \cap T)
  BY FS_Union
<1>4. Cardinality(S) \in Nat /\ Cardinality(T) \in Nat
  BY FS_CardinalityType
<1> QED
  <2>1. Cardinality(S \cap T) = 0
    BY <1>2, FS_EmptySet
  <2> QED
    BY <2>1, <1>3, <1>4

-----------------------------------------------------------------------------
\* Initially

LEMMA InitIInv == Init => IInv
<1> SUFFICES ASSUME Init PROVE IInv
  OBVIOUS
<1> USE ConstantsAssumption DEF ConstantsAssumption
<1>1. TypeOK
  BY DEF Init, TypeOK, Phase
<1>2. ASSUME NEW e \in Endpoints PROVE Ordered(e) /\ Sized(e)
  <2>1. /\ queue[e] = <<>> /\ received[e] = <<>>
        /\ pending[e] = {} /\ inflight[e] = {}
        /\ phase[e] = "starting" /\ pendingSamples[e] = 0
    BY DEF Init
  <2>2. DOMAIN queue[e] = {} /\ DOMAIN received[e] = {}
    BY <2>1
  <2>3. Ordered(e)
    BY <2>1, <2>2 DEF Ordered, QueueOrdered, BufferOrdered, FlightOrdered,
                      StoreOrdered, Before
  <2>4. MaxSamplesPerSend[e] \in Nat \ {0}
    OBVIOUS
  <2>5. Sized(e)
    BY <2>1, <2>4, FS_EmptySet DEF Sized, At, Looping, InFlush
  <2> QED
    BY <2>3, <2>5
<1> QED
  BY <1>1, <1>2 DEF IInv, OrderInv, SizeInv

-----------------------------------------------------------------------------
\* Every step keeps the types

LEMMA FlushTypes ==
  ASSUME TypeOK, NEW e \in Endpoints, NEW chunk \in SUBSET Nat,
         NEW returnTo \in {"idle", "splitting", "stopped"},
         Flush(e, chunk, returnTo)
  PROVE  /\ inflight' \in [Endpoints -> SUBSET Nat]
         /\ phase' \in [Endpoints -> Phase]
         /\ resume' \in [Endpoints -> {"idle", "splitting", "stopped"}]
<1>1. WriteRelabel(e, chunk) \in SUBSET Nat
  BY DEF WriteRelabel
<1> QED
  BY <1>1 DEF Flush, TypeOK, Phase

\* Every step of handles, senders and receivers preserves the types.
LEMMA StepTypeOK == IInv /\ [Next]_vars => TypeOK'
<1> SUFFICES ASSUME IInv, [Next]_vars PROVE TypeOK'
  OBVIOUS
<1>0. TypeOK /\ OrderInv /\ SizeInv
  BY DEF IInv
<1> USE <1>0, ConstantsAssumption DEF ConstantsAssumption
<1>1. ASSUME NEW batch \in Batches, Send(batch)
      PROVE  TypeOK'
  <2> DEFINE new == (Len(stream) + 1) .. (Len(stream) + Len(batch))
  <2>1. batch \in Seq(Kinds) /\ Len(batch) \in Nat /\ stream \in Seq(Kinds)
        /\ Len(stream) \in Nat
    BY DEF TypeOK
  <2>2. stream' \in Seq(Kinds)
    BY <1>1, <2>1, ConcatProperties DEF Send
  <2>3. new \in SUBSET Nat
    BY <2>1
  <2>4. ASSUME NEW e \in Endpoints
        PROVE  queue[e] \in Seq(SUBSET Nat) /\ Append(queue[e], new) \in Seq(SUBSET Nat)
    BY <2>3, AppendProperties DEF TypeOK
  <2>5. queue' = [e \in Endpoints |->
                    IF e \in Refusing THEN queue[e] ELSE Append(queue[e], new)]
    BY <1>1 DEF Send
  <2>6. queue' \in [Endpoints -> Seq(SUBSET Nat)]
    <3> HIDE DEF new
    <3> QED
      BY <2>4, <2>5
  <2>7. dropped' \in Nat
    BY <1>1, <2>1, RefusingCount DEF Send, TypeOK
  <2> QED
    BY <1>1, <2>2, <2>6, <2>7 DEF Send, TypeOK, senderVars
<1>2. CASE DropHandle
  BY <1>2 DEF DropHandle, TypeOK, senderVars
<1>3. ASSUME NEW e \in Endpoints, Start(e)
      PROVE  TypeOK'
  <2>1. Queued(e) \in SUBSET Nat
    BY DEF Queued, TypeOK
  <2>2. <<>> \in Seq(SUBSET Nat)
    OBVIOUS
  <2>3. queue' \in [Endpoints -> Seq(SUBSET Nat)]
    <3>1. queue' = queue \/ queue' = [queue EXCEPT ![e] = <<>>]
      BY <1>3 DEF Start
    <3> QED
      BY <2>2, <3>1 DEF TypeOK
  <2>4. abandoned' \in [Endpoints -> SUBSET Nat]
    <3>1. abandoned[e] \cup Queued(e) \in SUBSET Nat
      BY <2>1 DEF TypeOK
    <3>2. \/ abandoned' = abandoned
          \/ abandoned' = [abandoned EXCEPT ![e] = abandoned[e] \cup Queued(e)]
      BY <1>3 DEF Start
    <3> QED
      BY <3>1, <3>2 DEF TypeOK
  <2>5. phase' \in [Endpoints -> Phase]
    BY <1>3 DEF Start, TypeOK, Phase
  <2>6. UNCHANGED <<stream, open, resume, pending, pendingSamples, inflight,
                    received, dropped>>
    BY <1>3 DEF Start
  <2> QED
    BY <2>3, <2>4, <2>5, <2>6 DEF TypeOK
<1>4. ASSUME NEW e \in Endpoints, Receive(e)
      PROVE  TypeOK'
  <2> DEFINE batch == DropNativeHistograms(e, Head(queue[e]))
  <2>1. Head(queue[e]) \in SUBSET Nat /\ Tail(queue[e]) \in Seq(SUBSET Nat)
    BY <1>4, HeadTailProperties DEF Receive, TypeOK
  <2>2. Head(queue[e]) \subseteq Issued
    BY <1>4 DEF Receive, TypeOK, OrderInv, Ordered, QueueOrdered
  <2>3. batch \in SUBSET Nat /\ Cardinality(batch) \in Nat
    BY <2>1, <2>2, DropShrinks, IssuedFinite
  <2>4. pendingSamples' \in [Endpoints -> Nat]
    BY <1>4, <2>3 DEF Receive, TypeOK
  <2> QED
    BY <1>4, <2>1, <2>3, <2>4 DEF Receive, TypeOK, Phase
<1>5. ASSUME NEW e \in Endpoints, SplitBatch(e)
      PROVE  TypeOK'
  <2> DEFINE have == Cardinality(pending[e])
             cut == IF have < MaxSamplesPerSend[e] THEN have ELSE MaxSamplesPerSend[e]
  <2>1. PICK chunk \in LeadingSeries(pending[e], cut) :
          /\ pending' = [pending EXCEPT ![e] = @ \ chunk]
          /\ pendingSamples' = [pendingSamples EXCEPT ![e] = @ - Cardinality(chunk)]
          /\ Flush(e, chunk, "splitting")
    BY <1>5 DEF SplitBatch
  <2>2. pending[e] \subseteq Issued
    BY DEF OrderInv, Ordered, BufferOrdered
  <2>3. IsFiniteSet(pending[e]) /\ have \in Nat
    BY <2>2, IssuedFinite
  <2>4. cut \in Nat
    BY <2>3
  <2>5. Cardinality(chunk) = cut /\ have - cut \in Nat /\ chunk \subseteq pending[e]
    <3> HIDE DEF cut
    <3>1. chunk \in LeadingSeries(pending[e], cut)
      OBVIOUS
    <3>2. IsFiniteSet(pending[e]) /\ cut \in Nat
      BY <2>3, <2>4
    <3> QED
      BY ONLY <3>1, <3>2, SplitSizes
  <2>6. pendingSamples[e] = have
    BY <1>5 DEF SplitBatch, SizeInv, Sized, Looping
  <2>7. chunk \in SUBSET Nat
    BY <2>5 DEF TypeOK
  <2>8. pendingSamples' \in [Endpoints -> Nat] /\ pending' \in [Endpoints -> SUBSET Nat]
    BY <2>1, <2>5, <2>6 DEF TypeOK
  <2> QED
    BY <1>5, <2>1, <2>7, <2>8, FlushTypes DEF SplitBatch, TypeOK
<1>6. ASSUME NEW e \in Endpoints, SplitDone(e)
      PROVE  TypeOK'
  BY <1>6 DEF SplitDone, TypeOK, Phase
<1>7. ASSUME NEW e \in Endpoints, DeadlineTick(e)
      PROVE  TypeOK'
  <2>1. pending[e] \in SUBSET Nat
    BY DEF TypeOK
  <2> QED
    BY <1>7, <2>1, FlushTypes DEF DeadlineTick, TypeOK
<1>8. ASSUME NEW e \in Endpoints, QueueClosed(e)
      PROVE  TypeOK'
  <2>1. pending[e] \in SUBSET Nat
    BY DEF TypeOK
  <2>2. CASE pending[e] = {}
    BY <1>8, <2>2 DEF QueueClosed, TypeOK, Phase
  <2>3. CASE pending[e] # {}
    BY <1>8, <2>1, <2>3, FlushTypes DEF QueueClosed, TypeOK
  <2> QED
    BY <2>2, <2>3
<1>9. ASSUME NEW e \in Endpoints, Encode(e)
      PROVE  TypeOK'
  BY <1>9 DEF Encode, TypeOK, Phase
<1>10. ASSUME NEW e \in Endpoints, CompressFails(e)
       PROVE  TypeOK'
  BY <1>10 DEF CompressFails, FlushReturns, TypeOK, Phase
<1>11. ASSUME NEW e \in Endpoints, BackoffElapsed(e)
       PROVE  TypeOK'
  BY <1>11 DEF BackoffElapsed, TypeOK, Phase
<1>12. ASSUME NEW e \in Endpoints, Store(e)
       PROVE  received' \in [Endpoints -> Seq(SUBSET Nat)]
  BY <1>12, AppendProperties DEF Store, TypeOK
<1>13. ASSUME NEW e \in Endpoints, SendSucceeds(e)
       PROVE  TypeOK'
  <2>1. received' \in [Endpoints -> Seq(SUBSET Nat)]
    BY <1>12, <1>13 DEF SendSucceeds
  <2> QED
    BY <1>13, <2>1 DEF SendSucceeds, FlushReturns, TypeOK, Phase
<1>14. ASSUME NEW e \in Endpoints, SendRejected(e)
       PROVE  TypeOK'
  BY <1>14 DEF SendRejected, FlushReturns, TypeOK, Phase
<1>15. ASSUME NEW e \in Endpoints, SendFails(e)
       PROVE  TypeOK'
  <2>1. received' \in [Endpoints -> Seq(SUBSET Nat)]
    BY <1>12, <1>15 DEF SendFails, TypeOK
  <2> QED
    BY <1>15, <2>1 DEF SendFails, TypeOK, Phase
<1>16. CASE UNCHANGED vars
  BY <1>16 DEF vars, TypeOK
<1> QED
  BY <1>1, <1>2, <1>3, <1>4, <1>5, <1>6, <1>7, <1>8, <1>9, <1>10, <1>11, <1>13,
     <1>14, <1>15, <1>16 DEF Next, Sender, Answer, Terminated

-----------------------------------------------------------------------------
\* Every step keeps the order of the stages

\* A step that leaves the stages of an endpoint alone.
LEMMA OrderFrame ==
  ASSUME NEW f \in Endpoints, Ordered(f),
         UNCHANGED <<stream, queue[f], pending[f], inflight[f], received[f]>>
  PROVE  Ordered(f)'
  BY DEF Ordered, QueueOrdered, BufferOrdered, FlightOrdered, StoreOrdered, Issued, Before

\* flush takes what it sends from the front of the buffer.
LEMMA FlushOrder ==
  ASSUME TypeOK, NEW e \in Endpoints, Ordered(e), inflight[e] = {},
         NEW chunk \in SUBSET pending[e], Before(chunk, pending[e] \ chunk),
         NEW returnTo, Flush(e, chunk, returnTo),
         pending'[e] = pending[e] \ chunk,
         UNCHANGED <<stream, queue, received>>
  PROVE  Ordered(e)'
<1>1. inflight'[e] \subseteq chunk
  BY DEF Flush, TypeOK, WriteRelabel
<1>2. pending'[e] \subseteq pending[e] /\ inflight'[e] \subseteq pending[e]
      /\ Before(inflight'[e], pending'[e])
  BY <1>1 DEF Before
<1>3. Issued' = Issued
  BY DEF Issued
<1>4. QueueOrdered(e)' /\ BufferOrdered(e)' /\ FlightOrdered(e)'
  BY <1>2, <1>3 DEF Ordered, QueueOrdered, BufferOrdered, FlightOrdered, Before
<1>5. ASSUME NEW k \in DOMAIN received[e]
      PROVE  /\ received[e][k] \subseteq Issued
             /\ Before(received[e][k], pending'[e])
             /\ Before(received[e][k], inflight'[e])
             /\ \A l \in DOMAIN queue[e] : Before(received[e][k], queue[e][l])
             /\ \A l \in DOMAIN received[e] :
                  k < l => Before(received[e][k], received[e][l])
  BY <1>2 DEF Ordered, StoreOrdered, Before
<1>6. StoreOrdered(e)'
  BY <1>3, <1>5 DEF StoreOrdered, Before
<1> QED
  BY <1>4, <1>6 DEF Ordered

\* Nothing in flight any more.
LEMMA ReturnOrder ==
  ASSUME TypeOK, NEW e \in Endpoints, Ordered(e), FlushReturns(e),
         UNCHANGED <<stream, queue, pending, received>>
  PROVE  Ordered(e)'
<1>1. inflight'[e] = {} /\ Issued' = Issued
  BY DEF FlushReturns, TypeOK, Issued
<1> QED
  BY <1>1 DEF Ordered, QueueOrdered, BufferOrdered, FlightOrdered, StoreOrdered, Before

\* The receiver appends the request unless it holds it.
LEMMA StoreOrder ==
  ASSUME TypeOK, NEW e \in Endpoints, Ordered(e), Store(e),
         UNCHANGED <<stream, queue, pending>>,
         inflight'[e] = inflight[e] \/ inflight'[e] = {}
  PROVE  Ordered(e)'
<1>0. Issued' = Issued
  BY DEF Issued
<1>1. QueueOrdered(e)' /\ BufferOrdered(e)' /\ FlightOrdered(e)'
  BY <1>0 DEF Ordered, QueueOrdered, BufferOrdered, FlightOrdered, Before
<1>2. CASE Stored(e)
  <2>1. received' = received
    BY <1>2 DEF Store
  <2>2. StoreOrdered(e)'
    BY <1>0, <2>1 DEF Ordered, StoreOrdered, Before
  <2> QED
    BY <1>1, <2>2 DEF Ordered
<1>3. CASE ~Stored(e)
  <2>1. received'[e] = Append(received[e], inflight[e])
    BY <1>3 DEF Store, TypeOK
  <2>2. received[e] \in Seq(SUBSET Nat) /\ inflight[e] \in SUBSET Nat
    BY DEF TypeOK
  <2>3. /\ Len(received[e]) \in Nat
        /\ DOMAIN received[e] = 1 .. Len(received[e])
        /\ DOMAIN received'[e] = 1 .. (Len(received[e]) + 1)
        /\ Len(received'[e]) = Len(received[e]) + 1
        /\ received'[e][Len(received[e]) + 1] = inflight[e]
        /\ \A k \in 1 .. Len(received[e]) : received'[e][k] = received[e][k]
    BY <2>1, <2>2, AppendProperties
  <2>4. \A k \in 1 .. Len(received[e]) : Before(received[e][k], inflight[e])
    BY <1>3, <2>3 DEF Ordered, StoreOrdered, Stored
  <2>5. ASSUME NEW k \in DOMAIN received'[e]
        PROVE  /\ received'[e][k] \subseteq Issued
               /\ Before(received'[e][k], pending[e])
               /\ \A l \in DOMAIN queue[e] : Before(received'[e][k], queue[e][l])
    <3>1. CASE k = Len(received[e]) + 1
      BY <2>3, <3>1 DEF Ordered, FlightOrdered
    <3>2. CASE k \in 1 .. Len(received[e])
      BY <2>3, <3>2 DEF Ordered, StoreOrdered
    <3> QED
      BY <2>3, <3>1, <3>2
  <2>6. ASSUME NEW k \in DOMAIN received'[e]
        PROVE  \/ Before(received'[e][k], inflight'[e])
               \/ k = Len(received'[e]) /\ received'[e][k] = inflight'[e]
    <3>1. CASE inflight'[e] = {}
      BY <3>1 DEF Before
    <3>2. CASE inflight'[e] = inflight[e]
      BY <2>3, <2>4, <3>2
    <3> QED
      BY <3>1, <3>2
  <2>7. ASSUME NEW k \in DOMAIN received'[e], NEW l \in DOMAIN received'[e], k < l
        PROVE  Before(received'[e][k], received'[e][l])
    <3>1. k \in 1 .. Len(received[e])
      BY <2>3, <2>7
    <3>2. CASE l = Len(received[e]) + 1
      BY <2>3, <2>4, <3>1, <3>2
    <3>3. CASE l \in 1 .. Len(received[e])
      BY <2>3, <2>7, <3>1, <3>3 DEF Ordered, StoreOrdered
    <3> QED
      BY <2>3, <3>2, <3>3
  <2>8. StoreOrdered(e)'
    BY <1>0, <2>5, <2>6, <2>7 DEF StoreOrdered, Before
  <2> QED
    BY <1>1, <2>8 DEF Ordered
<1> QED
  BY <1>2, <1>3

\* send appends positions after every issued one.
LEMMA SendOrder ==
  ASSUME TypeOK, NEW batch \in Batches, Send(batch), NEW f \in Endpoints, Ordered(f)
  PROVE  Ordered(f)'
<1> DEFINE new == (Len(stream) + 1) .. (Len(stream) + Len(batch))
<1>1. /\ Len(stream) \in Nat /\ Len(batch) \in Nat
      /\ Len(stream') = Len(stream) + Len(batch)
  <2>1. batch \in Seq(Kinds) /\ stream \in Seq(Kinds)
    BY ConstantsAssumption DEF TypeOK, ConstantsAssumption
  <2> QED
    BY <2>1, ConcatProperties DEF Send
<1>2. /\ Issued \subseteq Issued' /\ new \subseteq Issued' /\ Before(Issued, new)
      /\ new \in SUBSET Nat
  BY <1>1 DEF Issued, Before
<1>3. /\ pending'[f] = pending[f] /\ inflight'[f] = inflight[f]
      /\ received'[f] = received[f]
  BY DEF Send, senderVars
<1>4. queue'[f] = queue[f] \/ queue'[f] = Append(queue[f], new)
  BY DEF Send
<1> HIDE DEF new
<1>5. CASE queue'[f] = queue[f]
  BY <1>2, <1>3, <1>5
     DEF Ordered, QueueOrdered, BufferOrdered, FlightOrdered, StoreOrdered
<1>6. CASE queue'[f] = Append(queue[f], new)
  <2>1. queue[f] \in Seq(SUBSET Nat)
    BY DEF TypeOK
  <2>2. /\ Len(queue[f]) \in Nat
        /\ DOMAIN queue[f] = 1 .. Len(queue[f])
        /\ DOMAIN queue'[f] = 1 .. (Len(queue[f]) + 1)
        /\ queue'[f][Len(queue[f]) + 1] = new
        /\ \A k \in 1 .. Len(queue[f]) : queue'[f][k] = queue[f][k]
    BY <1>2, <1>6, <2>1, AppendProperties
  <2>3. ASSUME NEW S, S \subseteq Issued, \A k \in DOMAIN queue[f] : Before(S, queue[f][k])
        PROVE  \A k \in DOMAIN queue'[f] : Before(S, queue'[f][k])
    <3>1. Before(S, new)
      BY <1>2, <2>3 DEF Before
    <3> QED
      BY <2>2, <2>3, <3>1
  <2>4. ASSUME NEW k \in DOMAIN queue'[f]
        PROVE  queue'[f][k] \subseteq Issued'
    <3>1. CASE k = Len(queue[f]) + 1
      BY <1>2, <2>2, <3>1
    <3>2. CASE k \in 1 .. Len(queue[f])
      <4>1. queue[f][k] \subseteq Issued
        BY <2>2, <3>2 DEF Ordered, QueueOrdered
      <4> QED
        BY <1>2, <2>2, <3>2, <4>1
    <3> QED
      BY <2>2, <3>1, <3>2
  <2>5. ASSUME NEW k \in DOMAIN queue'[f], NEW l \in DOMAIN queue'[f], k < l
        PROVE  Before(queue'[f][k], queue'[f][l])
    <3>1. k \in 1 .. Len(queue[f]) /\ queue'[f][k] = queue[f][k]
      BY <2>2, <2>5
    <3>2. queue[f][k] \subseteq Issued
      BY <2>2, <3>1 DEF Ordered, QueueOrdered
    <3>3. CASE l = Len(queue[f]) + 1
      BY <1>2, <2>2, <3>1, <3>2, <3>3 DEF Before
    <3>4. CASE l \in 1 .. Len(queue[f])
      BY <2>2, <2>5, <3>1, <3>4 DEF Ordered, QueueOrdered
    <3> QED
      BY <2>2, <3>3, <3>4
  <2>6. QueueOrdered(f)'
    BY <2>4, <2>5 DEF QueueOrdered, Before
  <2>7. BufferOrdered(f)'
    BY <1>2, <1>3, <2>3 DEF Ordered, BufferOrdered, Before
  <2>8. FlightOrdered(f)'
    BY <1>2, <1>3, <2>3 DEF Ordered, FlightOrdered, Before
  <2>9. ASSUME NEW k \in DOMAIN received[f]
        PROVE  \A l \in DOMAIN queue'[f] : Before(received[f][k], queue'[f][l])
    BY <2>3 DEF Ordered, StoreOrdered
  <2>10. StoreOrdered(f)'
    BY <1>2, <1>3, <2>9 DEF Ordered, StoreOrdered, Before
  <2> QED
    BY <2>6, <2>7, <2>8, <2>10 DEF Ordered
<1> QED
  BY <1>4, <1>5, <1>6

\* The buffer grows by (part of) the oldest batch of the queue.
LEMMA ReceiveOrder ==
  ASSUME TypeOK, NEW e \in Endpoints, Receive(e), Ordered(e), inflight[e] = {}
  PROVE  Ordered(e)'
<1> DEFINE batch == DropNativeHistograms(e, Head(queue[e]))
<1>1. queue[e] \in Seq(SUBSET Nat) /\ queue[e] # <<>>
  BY DEF Receive, TypeOK
<1>2. /\ Len(queue[e]) \in Nat
      /\ DOMAIN queue[e] = 1 .. Len(queue[e])
      /\ 1 \in DOMAIN queue[e] /\ Head(queue[e]) = queue[e][1]
      /\ queue'[e] = Tail(queue[e])
      /\ DOMAIN queue'[e] = 1 .. (Len(queue[e]) - 1)
      /\ \A k \in DOMAIN queue'[e] : queue'[e][k] = queue[e][k + 1]
  BY <1>1, HeadTailProperties DEF Receive, TypeOK
<1>3. \A k \in DOMAIN queue'[e] : k + 1 \in DOMAIN queue[e] /\ 1 < k + 1
  BY <1>2
<1>4. batch \subseteq queue[e][1]
  BY <1>2, DropShrinks
<1>5. /\ pending'[e] = pending[e] \cup batch
      /\ inflight'[e] = {} /\ received'[e] = received[e] /\ Issued' = Issued
  BY DEF Receive, TypeOK, Issued
<1> HIDE DEF batch
<1>6. QueueOrdered(e)'
  <2>1. \A k \in DOMAIN queue'[e] : queue'[e][k] \subseteq Issued
    BY <1>2, <1>3 DEF Ordered, QueueOrdered
  <2>2. ASSUME NEW k \in DOMAIN queue'[e], NEW l \in DOMAIN queue'[e], k < l
        PROVE  Before(queue'[e][k], queue'[e][l])
    <3>1. k + 1 < l + 1
      BY <1>2, <2>2
    <3> QED
      BY <1>2, <1>3, <3>1 DEF Ordered, QueueOrdered
  <2> QED
    BY <1>5, <2>1, <2>2 DEF QueueOrdered, Before
<1>7. ASSUME NEW k \in DOMAIN queue'[e]
      PROVE  Before(pending'[e], queue'[e][k])
  BY <1>2, <1>3, <1>4, <1>5 DEF Ordered, QueueOrdered, BufferOrdered, Before
<1>8. pending'[e] \subseteq Issued
  BY <1>2, <1>4, <1>5 DEF Ordered, QueueOrdered, BufferOrdered
<1>9. ASSUME NEW k \in DOMAIN received[e]
      PROVE  /\ Before(received[e][k], pending'[e])
             /\ \A l \in DOMAIN queue'[e] : Before(received[e][k], queue'[e][l])
  <2>1. Before(received[e][k], queue[e][1]) /\ Before(received[e][k], pending[e])
    BY <1>2 DEF Ordered, StoreOrdered
  <2>2. Before(received[e][k], pending'[e])
    BY <1>4, <1>5, <2>1 DEF Before
  <2>3. \A l \in DOMAIN queue'[e] : Before(received[e][k], queue[e][l + 1])
    BY <1>3 DEF Ordered, StoreOrdered
  <2> QED
    BY <1>2, <2>2, <2>3
<1>10. BufferOrdered(e)' /\ FlightOrdered(e)'
  BY <1>5, <1>7, <1>8 DEF BufferOrdered, FlightOrdered, Before
<1>11. StoreOrdered(e)'
  BY <1>5, <1>9 DEF Ordered, StoreOrdered, Before
<1> QED
  BY <1>6, <1>10, <1>11 DEF Ordered

\* Every step preserves the order of the series in an endpoint's stages.
LEMMA StepOrder == IInv /\ [Next]_vars => OrderInv'
<1> SUFFICES ASSUME IInv, [Next]_vars, NEW f \in Endpoints
             PROVE  Ordered(f)'
  BY DEF OrderInv
<1>0. TypeOK /\ \A e \in Endpoints : Ordered(e) /\ Sized(e)
  BY DEF IInv, OrderInv, SizeInv
<1> USE <1>0
<1>1. ASSUME NEW batch \in Batches, Send(batch)
      PROVE  Ordered(f)'
  BY <1>1, SendOrder
<1>2. CASE DropHandle
  BY <1>2, OrderFrame DEF DropHandle, senderVars
<1>3. ASSUME NEW e \in Endpoints, Start(e)
      PROVE  Ordered(f)'
  <2>1. CASE UNCHANGED queue
    BY <1>3, <2>1, OrderFrame DEF Start
  <2>2. CASE queue' = [queue EXCEPT ![e] = <<>>]
    <3>1. CASE f = e
      <4>1. queue'[e] = <<>> /\ DOMAIN queue'[e] = {}
        BY <2>2 DEF TypeOK
      <4>2. UNCHANGED <<stream, pending, inflight, received>>
        BY <1>3 DEF Start
      <4> QED
        BY <3>1, <4>1, <4>2 DEF Ordered, QueueOrdered, BufferOrdered, FlightOrdered,
                                StoreOrdered, Issued, Before
    <3>2. CASE f # e
      BY <1>3, <2>2, <3>2, OrderFrame DEF Start, TypeOK
    <3> QED
      BY <3>1, <3>2
  <2> QED
    BY <1>3, <2>1, <2>2 DEF Start
<1>4. ASSUME NEW e \in Endpoints, Receive(e)
      PROVE  Ordered(f)'
  <2>1. CASE f = e
    BY <1>4, <2>1, ReceiveOrder DEF Receive, Sized, InFlush
  <2>2. CASE f # e
    BY <1>4, <2>2, OrderFrame DEF Receive, TypeOK
  <2> QED
    BY <2>1, <2>2
<1>5. ASSUME NEW e \in Endpoints, NEW chunk \in SUBSET pending[e],
             Before(chunk, pending[e] \ chunk),
             NEW returnTo, Flush(e, chunk, returnTo),
             pending' = [pending EXCEPT ![e] = @ \ chunk],
             UNCHANGED <<stream, queue, received>>, ~InFlush(e)
      PROVE  Ordered(f)'
  <2>1. CASE f = e
    BY <1>5, <2>1, FlushOrder DEF Sized, TypeOK
  <2>2. CASE f # e
    BY <1>5, <2>2, OrderFrame DEF Flush, TypeOK
  <2> QED
    BY <2>1, <2>2
<1>6. ASSUME NEW e \in Endpoints, SplitBatch(e)
      PROVE  Ordered(f)'
  <2> DEFINE have == Cardinality(pending[e])
             cut == IF have < MaxSamplesPerSend[e] THEN have ELSE MaxSamplesPerSend[e]
  <2>1. PICK chunk \in LeadingSeries(pending[e], cut) :
          /\ pending' = [pending EXCEPT ![e] = @ \ chunk]
          /\ Flush(e, chunk, "splitting")
    BY <1>6 DEF SplitBatch
  <2>2. chunk \in SUBSET pending[e] /\ Before(chunk, pending[e] \ chunk)
    BY DEF LeadingSeries, Before
  <2>3. UNCHANGED <<stream, queue, received>> /\ ~InFlush(e)
    BY <1>6 DEF SplitBatch, InFlush
  <2> QED
    BY <1>5, <2>1, <2>2, <2>3
<1>7. ASSUME NEW e \in Endpoints, SplitDone(e)
      PROVE  Ordered(f)'
  BY <1>7, OrderFrame DEF SplitDone
<1>8. ASSUME NEW e \in Endpoints, NEW returnTo, Flush(e, pending[e], returnTo),
             pending' = [pending EXCEPT ![e] = {}],
             UNCHANGED <<stream, queue, received>>, ~InFlush(e)
      PROVE  Ordered(f)'
  <2>1. pending' = [pending EXCEPT ![e] = @ \ pending[e]]
    BY <1>8
  <2>2. Before(pending[e], pending[e] \ pending[e])
    BY DEF Before
  <2> QED
    BY <1>5, <1>8, <2>1, <2>2
<1>9. ASSUME NEW e \in Endpoints, DeadlineTick(e)
      PROVE  Ordered(f)'
  BY <1>8, <1>9 DEF DeadlineTick, InFlush
<1>10. ASSUME NEW e \in Endpoints, QueueClosed(e)
       PROVE  Ordered(f)'
  <2>1. CASE pending[e] # {}
    BY <1>8, <1>10, <2>1 DEF QueueClosed, InFlush
  <2>2. CASE pending[e] = {}
    <3>1. pending' = pending
      BY <1>10, <2>2 DEF QueueClosed, TypeOK
    <3> QED
      BY <1>10, <2>2, <3>1, OrderFrame DEF QueueClosed
  <2> QED
    BY <2>1, <2>2
<1>11. ASSUME NEW e \in Endpoints, Encode(e) \/ BackoffElapsed(e)
       PROVE  Ordered(f)'
  BY <1>11, OrderFrame DEF Encode, BackoffElapsed
<1>12. ASSUME NEW e \in Endpoints, FlushReturns(e),
              UNCHANGED <<stream, queue, pending, received>>
       PROVE  Ordered(f)'
  <2>1. CASE f = e
    BY <1>12, <2>1, ReturnOrder
  <2>2. CASE f # e
    BY <1>12, <2>2, OrderFrame DEF FlushReturns, TypeOK
  <2> QED
    BY <2>1, <2>2
<1>13. ASSUME NEW e \in Endpoints, CompressFails(e) \/ SendRejected(e)
       PROVE  Ordered(f)'
  BY <1>12, <1>13 DEF CompressFails, SendRejected
<1>14. ASSUME NEW e \in Endpoints, Store(e), UNCHANGED <<stream, queue, pending>>,
              FlushReturns(e) \/ UNCHANGED inflight
       PROVE  Ordered(f)'
  <2>1. CASE f = e
    <3>1. inflight'[e] = inflight[e] \/ inflight'[e] = {}
      BY <1>14 DEF FlushReturns, TypeOK
    <3> QED
      BY <1>14, <2>1, <3>1, StoreOrder
  <2>2. CASE f # e
    BY <1>14, <2>2, OrderFrame DEF Store, FlushReturns, TypeOK
  <2> QED
    BY <2>1, <2>2
<1>15. ASSUME NEW e \in Endpoints, SendSucceeds(e)
       PROVE  Ordered(f)'
  BY <1>14, <1>15 DEF SendSucceeds
<1>16. ASSUME NEW e \in Endpoints, SendFails(e)
       PROVE  Ordered(f)'
  <2>1. CASE Store(e)
    BY <1>14, <1>16, <2>1 DEF SendFails
  <2>2. CASE UNCHANGED received
    BY <1>16, <2>2, OrderFrame DEF SendFails
  <2> QED
    BY <1>16, <2>1, <2>2 DEF SendFails
<1>17. CASE UNCHANGED vars
  BY <1>17, OrderFrame DEF vars
<1> QED
  BY <1>1, <1>2, <1>3, <1>4, <1>6, <1>7, <1>9, <1>10, <1>11, <1>13, <1>15, <1>16,
     <1>17 DEF Next, Sender, Answer, Terminated

-----------------------------------------------------------------------------
\* Every step keeps the sizes

\* The stages of every endpoint are finite, being issued positions.
LEMMA StagesFinite ==
  ASSUME TypeOK, NEW e \in Endpoints, Ordered(e)
  PROVE  /\ IsFiniteSet(pending[e]) /\ Cardinality(pending[e]) \in Nat
         /\ pending[e] \subseteq Nat
         /\ IsFiniteSet(inflight[e]) /\ Cardinality(inflight[e]) \in Nat
         /\ \A k \in DOMAIN queue[e] : IsFiniteSet(queue[e][k])
  BY IssuedFinite DEF Ordered, QueueOrdered, BufferOrdered, FlightOrdered

\* A step that leaves the sender of f alone, and its queue once closed.
LEMMA SizeFrame ==
  ASSUME NEW f \in Endpoints, Sized(f),
         UNCHANGED <<phase[f], resume[f], pending[f], pendingSamples[f], inflight[f]>>,
         ~open => ~open' /\ queue'[f] = queue[f]
  PROVE  Sized(f)'
  BY DEF Sized, At, Looping, InFlush

\* flush keeps within a request, whether it returns at once or goes on.
LEMMA FlushSizes ==
  ASSUME TypeOK, NEW e \in Endpoints, NEW chunk, IsFiniteSet(chunk),
         NEW returnTo \in {"idle", "splitting", "stopped"},
         Cardinality(chunk) <= MaxSamplesPerSend[e],
         Flush(e, chunk, returnTo),
         returnTo # "stopped" => pendingSamples'[e] = Cardinality(pending'[e]),
         At(e, returnTo)'
  PROVE  Sized(e)'
<1> DEFINE batch == WriteRelabel(e, chunk)
<1>1. /\ inflight'[e] = batch
      /\ phase'[e] = (IF batch = {} THEN returnTo ELSE "encoding")
      /\ resume'[e] = returnTo
  BY DEF Flush, TypeOK
<1>2. Cardinality(batch) <= MaxSamplesPerSend[e]
  <2>1. batch \subseteq chunk
    BY DEF WriteRelabel
  <2>2. IsFiniteSet(batch)
    BY <2>1, FS_Subset
  <2>3. /\ Cardinality(batch) \in Nat /\ Cardinality(chunk) \in Nat
        /\ MaxSamplesPerSend[e] \in Nat
    BY <2>2, FS_CardinalityType, ConstantsAssumption DEF ConstantsAssumption
  <2> QED
    BY <2>3, RelabelShrinks
<1> HIDE DEF batch
<1>3. CASE batch = {}
  BY <1>1, <1>2, <1>3 DEF Sized, At, Looping, InFlush
<1>4. CASE batch # {}
  BY <1>1, <1>2, <1>4 DEF Sized, At, Looping, InFlush
<1> QED
  BY <1>3, <1>4

\* When flush returns, run goes on where the flush was started.
LEMMA ReturnSizes ==
  ASSUME TypeOK, NEW e \in Endpoints, Sized(e), InFlush(e), FlushReturns(e),
         UNCHANGED <<open, queue, resume, pending, pendingSamples>>
  PROVE  Sized(e)'
<1>1. inflight'[e] = {} /\ phase'[e] = resume[e] /\ Cardinality({}) = 0
      /\ resume[e] \in {"idle", "splitting", "stopped"}
  BY FS_EmptySet DEF FlushReturns, TypeOK
<1>2. MaxSamplesPerSend[e] \in Nat
  BY ConstantsAssumption DEF ConstantsAssumption
<1> QED
  BY <1>1, <1>2 DEF Sized, At, Looping, InFlush

\* A batch received is counted exactly: none of it was in the buffer.
LEMMA ReceiveSizes ==
  ASSUME TypeOK, NEW e \in Endpoints, Receive(e), Ordered(e), Sized(e)
  PROVE  Sized(e)'
<1> DEFINE batch == DropNativeHistograms(e, Head(queue[e]))
<1>1. 1 \in DOMAIN queue[e] /\ Head(queue[e]) = queue[e][1]
  BY DEF Receive, TypeOK
<1>2. batch \subseteq queue[e][1] /\ IsFiniteSet(batch)
  BY <1>1, DropShrinks, StagesFinite, FS_Subset
<1>3. Before(pending[e], batch)
  BY <1>1, <1>2 DEF Ordered, BufferOrdered, Before
<1>4. /\ pending'[e] = pending[e] \cup batch
      /\ pendingSamples'[e] = pendingSamples[e] + Cardinality(batch)
      /\ phase'[e] = "splitting" /\ inflight'[e] = inflight[e]
  BY DEF Receive, TypeOK
<1> HIDE DEF batch
<1>5. Cardinality(pending'[e]) = Cardinality(pending[e]) + Cardinality(batch)
  BY <1>2, <1>3, <1>4, StagesFinite, UnionSizes
<1>6. phase[e] = "idle"
  BY DEF Receive
<1> QED
  BY <1>4, <1>5, <1>6 DEF Sized, At, Looping, InFlush

\* One turn of the split loop.
LEMMA SplitBatchSizes ==
  ASSUME TypeOK, NEW e \in Endpoints, SplitBatch(e), Ordered(e), Sized(e)
  PROVE  Sized(e)'
<1> DEFINE have == Cardinality(pending[e])
           cut == IF have < MaxSamplesPerSend[e] THEN have ELSE MaxSamplesPerSend[e]
<1>1. PICK chunk \in LeadingSeries(pending[e], cut) :
        /\ pending' = [pending EXCEPT ![e] = @ \ chunk]
        /\ pendingSamples' = [pendingSamples EXCEPT ![e] = @ - Cardinality(chunk)]
        /\ Flush(e, chunk, "splitting")
  BY DEF SplitBatch
<1>2. /\ IsFiniteSet(pending[e]) /\ have \in Nat
      /\ MaxSamplesPerSend[e] \in Nat
  BY StagesFinite, ConstantsAssumption DEF ConstantsAssumption
<1>3. cut \in Nat /\ cut <= MaxSamplesPerSend[e]
  BY <1>2
<1> HIDE DEF cut
<1>4. /\ IsFiniteSet(chunk) /\ Cardinality(chunk) = cut
      /\ Cardinality(pending[e] \ chunk) = have - cut
  BY <1>2, <1>3, SplitSizes
<1>5. pendingSamples[e] = have
  BY DEF SplitBatch, Sized, Looping
<1>6. pendingSamples'[e] = Cardinality(pending'[e])
  BY <1>1, <1>4, <1>5 DEF TypeOK
<1>7. At(e, "splitting")'
  BY DEF At
<1>8. Cardinality(chunk) <= MaxSamplesPerSend[e]
  BY <1>3, <1>4
<1> QED
  BY <1>1, <1>4, <1>6, <1>7, <1>8, FlushSizes

\* Every step preserves the counts: pending_samples and the request size.
LEMMA StepSize == IInv /\ [Next]_vars => SizeInv'
<1> SUFFICES ASSUME IInv, [Next]_vars, NEW f \in Endpoints
             PROVE  Sized(f)'
  BY DEF SizeInv
<1>0. TypeOK /\ \A e \in Endpoints : Ordered(e) /\ Sized(e)
  BY DEF IInv, OrderInv, SizeInv
<1> USE <1>0
<1>1. ASSUME NEW batch \in Batches, Send(batch)
      PROVE  Sized(f)'
  BY <1>1, SizeFrame DEF Send, senderVars
<1>2. CASE DropHandle
  BY <1>2, SizeFrame DEF DropHandle, senderVars
<1>3. ASSUME NEW e \in Endpoints, f # e, Sender(e) \/ Answer(e)
      PROVE  Sized(f)'
  <2>1. /\ UNCHANGED <<phase[f], resume[f], pending[f], pendingSamples[f], inflight[f]>>
        /\ UNCHANGED <<open, queue[f]>>
    BY <1>3 DEF Sender, Answer, Start, Receive, SplitBatch, SplitDone, DeadlineTick,
                QueueClosed, Encode, CompressFails, BackoffElapsed, SendSucceeds,
                SendRejected, SendFails, Flush, FlushReturns, TypeOK
  <2> QED
    BY <2>1, SizeFrame
<1>4. CASE Start(f)
  <2>1. /\ phase[f] = "starting" /\ pending[f] = {}
        /\ UNCHANGED <<resume, pending, pendingSamples, inflight>>
        /\ phase'[f] \in {"idle", "panicked"}
    BY <1>4 DEF Start, Sized, TypeOK
  <2>2. MaxSamplesPerSend[f] \in Nat \ {0}
    BY ConstantsAssumption DEF ConstantsAssumption
  <2>3. /\ pendingSamples[f] = 0 /\ Cardinality(pending[f]) = 0
        /\ inflight[f] = {} /\ Cardinality(inflight[f]) = 0
    BY <2>1, FS_EmptySet DEF Sized, Looping, InFlush
  <2>4. /\ pendingSamples'[f] = Cardinality(pending'[f])
        /\ Cardinality(pending'[f]) < MaxSamplesPerSend[f]
        /\ inflight'[f] = {} /\ Cardinality(inflight'[f]) <= MaxSamplesPerSend[f]
    BY <2>1, <2>2, <2>3
  <2> QED
    BY <2>1, <2>4 DEF Sized, At, Looping, InFlush
<1>5. CASE Receive(f)
  BY <1>5, ReceiveSizes
<1>6. CASE SplitBatch(f)
  BY <1>6, SplitBatchSizes
<1>7. CASE SplitDone(f)
  <2>1. /\ phase[f] = "splitting" /\ phase'[f] = "idle"
        /\ pendingSamples[f] < MaxSamplesPerSend[f]
        /\ UNCHANGED <<open, queue, resume, pending, pendingSamples, inflight>>
    BY <1>7 DEF SplitDone, TypeOK
  <2> QED
    BY <2>1 DEF Sized, At, Looping, InFlush
<1>8. ASSUME DeadlineTick(f) \/ QueueClosed(f)
      PROVE  /\ phase[f] = "idle"
             /\ IsFiniteSet(pending[f])
             /\ Cardinality(pending[f]) <= MaxSamplesPerSend[f]
             /\ pending'[f] = {}
  <2>1. phase[f] = "idle" /\ pending'[f] = {}
    BY <1>8 DEF DeadlineTick, QueueClosed, TypeOK
  <2>2. Cardinality(pending[f]) < MaxSamplesPerSend[f]
    BY <2>1 DEF Sized, At, InFlush
  <2>3. /\ IsFiniteSet(pending[f]) /\ Cardinality(pending[f]) \in Nat
        /\ MaxSamplesPerSend[f] \in Nat
    BY StagesFinite, ConstantsAssumption DEF ConstantsAssumption
  <2> QED
    BY <2>1, <2>2, <2>3
<1>9. CASE DeadlineTick(f)
  <2>1. MaxSamplesPerSend[f] \in Nat \ {0}
    BY ConstantsAssumption DEF ConstantsAssumption
  <2>2. pendingSamples'[f] = 0 /\ Flush(f, pending[f], "idle")
    BY <1>9 DEF DeadlineTick, TypeOK
  <2>3. Cardinality(pending'[f]) = 0 /\ At(f, "idle")'
    BY <1>8, <1>9, <2>1, FS_EmptySet DEF At
  <2> QED
    BY <1>8, <1>9, <2>2, <2>3, FlushSizes
<1>10. CASE QueueClosed(f)
  <2>1. ~open' /\ queue'[f] = <<>>
    BY <1>10 DEF QueueClosed
  <2>2. At(f, "stopped")'
    BY <1>8, <1>10, <2>1 DEF At
  <2>3. CASE pending[f] # {}
    BY <1>8, <1>10, <2>2, <2>3, FlushSizes DEF QueueClosed
  <2>4. CASE pending[f] = {}
    <3>1. phase'[f] = "stopped" /\ UNCHANGED inflight
      BY <1>10, <2>4 DEF QueueClosed, TypeOK
    <3> QED
      BY <1>8, <1>10, <2>2, <3>1 DEF Sized, At, Looping, InFlush
  <2> QED
    BY <2>3, <2>4
<1>11. CASE Encode(f) \/ BackoffElapsed(f) \/ SendFails(f)
  <2>1. /\ phase[f] \in {"encoding", "sending", "backoff"}
        /\ phase'[f] \in {"sending", "backoff"}
        /\ UNCHANGED <<open, queue, resume, pending, pendingSamples, inflight>>
    BY <1>11 DEF Encode, BackoffElapsed, SendFails, TypeOK
  <2> QED
    BY <2>1 DEF Sized, At, Looping, InFlush
<1>12. CASE CompressFails(f) \/ SendSucceeds(f) \/ SendRejected(f)
  BY <1>12, ReturnSizes DEF CompressFails, SendSucceeds, SendRejected, InFlush
<1>13. CASE UNCHANGED vars
  BY <1>13, SizeFrame DEF vars
<1>14. ASSUME NEW e \in Endpoints, Sender(e) \/ Answer(e)
       PROVE  Sized(f)'
  BY <1>3, <1>4, <1>5, <1>6, <1>7, <1>9, <1>10, <1>11, <1>12, <1>14 DEF Sender, Answer
<1> QED
  BY <1>1, <1>2, <1>13, <1>14 DEF Next, Terminated

-----------------------------------------------------------------------------
\* The theorems

THEOREM Invariance == Spec => []IInv
<1>1. IInv /\ [Next]_vars => IInv'
  BY StepTypeOK, StepOrder, StepSize DEF IInv
<1> QED
  BY InitIInv, <1>1, PTL DEF Spec

\* The state of the pipeline has its type; in particular pending_samples, an
\* unsigned counter, never goes below zero when a batch is split off.
THEOREM TypeCorrect == Spec => []TypeOK
<1>1. IInv => TypeOK
  BY DEF IInv
<1> QED
  BY <1>1, Invariance, PTL

\* pending_samples is the number of series pending for as long as run loops.
THEOREM CounterExact == Spec => []PendingSamplesExact
<1>1. IInv => PendingSamplesExact
  BY DEF IInv, SizeInv, Sized, PendingSamplesExact
<1> QED
  BY <1>1, Invariance, PTL

\* No request is longer than max_samples_per_send.
THEOREM RequestsBounded == Spec => []RequestBounded
<1>1. IInv => RequestBounded
  BY DEF IInv, SizeInv, Sized, At, InFlush, RequestBounded
<1> QED
  BY <1>1, Invariance, PTL

\* Receivers store requests in stream order, each series in one request only.
THEOREM DeliveryInOrder == Spec => []ReceivedInOrder
<1>1. IInv => ReceivedInOrder
  BY DEF IInv, OrderInv, Ordered, StoreOrdered, Before, ReceivedInOrder
<1> QED
  BY <1>1, Invariance, PTL

\* A sender that ended in order left nothing behind.
THEOREM DrainComplete == Spec => []StoppedIsDrained
<1>1. IInv => StoppedIsDrained
  BY DEF IInv, SizeInv, Sized, At, InFlush, StoppedIsDrained
<1> QED
  BY <1>1, Invariance, PTL

-----------------------------------------------------------------------------
(***************************************************************************)
(* The refinement.  RemoteWrite implements SampleStream: every step of a   *)
(* handle, a sender or an endpoint offers a batch to the stream, delivers  *)
(* or gives up the oldest of what is owed, closes the stream, or is not    *)
(* visible in it.                                                          *)
(***************************************************************************)

\* What the refinement mapping makes of an endpoint.
Got(e) == ReceivedSeries(e)
Lost(e) == Wanted(e, abandoned[e])

\* The endpoint r looks the same in the stream.
Same(r) == Due(r)' = Due(r) /\ Got(r)' = Got(r) /\ Lost(r)' = Lost(r)

-----------------------------------------------------------------------------
\* Steps of the stream

LEMMA Stutters ==
  ASSUME UNCHANGED <<stream, open, dropped>>, \A r \in Endpoints : Same(r)
  PROVE  UNCHANGED Stream!vars
BY DEF Same, Got, Lost, Stream!vars

LEMMA Delivers ==
  ASSUME UNCHANGED <<stream, open, dropped>>,
         NEW e \in Endpoints, NEW run, run # {}, Stream!Oldest(run, Due(e)),
         Due(e)' = Due(e) \ run, Got(e)' = Got(e) \cup run, Lost(e)' = Lost(e),
         \A r \in Endpoints \ {e} : Same(r)
  PROVE  Stream!Next
<1>1. Stream!Deliver(e, run)
  BY DEF Same, Got, Lost, Stream!Deliver
<1>2. run \in SUBSET Due(e)
  BY DEF Stream!Oldest
<1>3. QED
  BY <1>1, <1>2 DEF Stream!Next, Stream!Settle

LEMMA GivesUp ==
  ASSUME UNCHANGED <<stream, open, dropped>>,
         NEW e \in Endpoints, NEW run, run # {}, Stream!Oldest(run, Due(e)),
         Due(e)' = Due(e) \ run, Got(e)' = Got(e), Lost(e)' = Lost(e) \cup run,
         \A r \in Endpoints \ {e} : Same(r)
  PROVE  Stream!Next
<1>1. Stream!GiveUp(e, run)
  BY DEF Same, Got, Lost, Stream!GiveUp
<1>2. run \in SUBSET Due(e)
  BY DEF Stream!Oldest
<1>3. QED
  BY <1>1, <1>2 DEF Stream!Next, Stream!Settle

\* What a step does not touch.
LEMMA SameFrame ==
  ASSUME NEW r \in Endpoints,
         UNCHANGED <<stream, queue[r], pending[r], inflight[r], received[r], abandoned[r]>>
  PROVE  Same(r)
BY DEF Same, Due, Got, Lost, Wanted, Queued, ReceivedSeries, Stored

-----------------------------------------------------------------------------
(***************************************************************************)
(* The invariant of the contents.  The buffer has only series that run lets*)
(* through, a request only those that the endpoint wants; a request being  *)
(* flushed has some, and one that is being encoded was never sent.         *)
(***************************************************************************)
Contents(e) ==
  /\ abandoned[e] \subseteq Issued
  /\ \A i \in pending[e] : e \in SendNative \/ stream[i] \notin NativeKinds
  /\ \A i \in inflight[e] : stream[i] \notin Unwanted[e]
  /\ InFlush(e) => inflight[e] # {}
  /\ phase[e] = "encoding" => ~Stored(e)

ContentsInv == \A e \in Endpoints : Contents(e)

LEMMA ContentsFrame ==
  ASSUME NEW f \in Endpoints, Contents(f),
         UNCHANGED <<stream, pending[f], inflight[f], received[f], abandoned[f], phase[f]>>
  PROVE  Contents(f)'
BY DEF Contents, Issued, InFlush, Stored, Unwanted

\* flush sends what of its chunk the endpoint wants, and that was never stored.
LEMMA FlushContents ==
  ASSUME TypeOK, NEW e \in Endpoints, Ordered(e), Contents(e),
         NEW chunk \in SUBSET pending[e], NEW returnTo, Flush(e, chunk, returnTo),
         UNCHANGED <<stream, received>>
  PROVE  /\ inflight'[e] = Wanted(e, chunk)
         /\ inflight'[e] # {} => phase'[e] = "encoding" /\ ~Stored(e)'
         /\ inflight'[e] = {} => phase'[e] = returnTo
<1>1. inflight'[e] = WriteRelabel(e, chunk)
  BY DEF Flush, TypeOK
<1>2. WriteRelabel(e, chunk) = Wanted(e, chunk)
  BY DEF WriteRelabel, Wanted, Unwanted, Contents
<1>3. phase'[e] = IF WriteRelabel(e, chunk) = {} THEN returnTo ELSE "encoding"
  BY DEF Flush, TypeOK
<1>4. ASSUME NEW k \in DOMAIN received[e], received[e][k] = inflight'[e], inflight'[e] # {}
      PROVE  FALSE
  <2>1. PICK i \in inflight'[e] : TRUE
    BY <1>4
  <2>2. i \in pending[e] /\ i \in received[e][k]
    BY <1>1, <1>4, <2>1 DEF WriteRelabel
  <2>3. i < i
    BY <2>2 DEF Ordered, StoreOrdered, Before
  <2>4. i \in Nat
    BY <2>2 DEF TypeOK
  <2>5. QED
    BY <2>3, <2>4
<1>5. inflight'[e] # {} => ~Stored(e)'
  BY <1>4 DEF Stored
<1>6. QED
  BY <1>1, <1>2, <1>3, <1>5

LEMMA InitContents == Init => ContentsInv
BY DEF Init, ContentsInv, Contents, Issued, InFlush

\* What is appended to the stream leaves what was there.
LEMMA StreamGrows ==
  ASSUME TypeOK, NEW batch \in Batches, stream' = stream \o batch
  PROVE  /\ Len(stream) \in Nat /\ Len(batch) \in Nat
         /\ Len(stream') = Len(stream) + Len(batch)
         /\ \A i \in Issued : i \in Issued' /\ stream'[i] = stream[i]
<1>1. stream \in Seq(Kinds) /\ batch \in Seq(Kinds)
  BY ConstantsAssumption DEF TypeOK, ConstantsAssumption
<1>2. QED
  BY <1>1 DEF Issued

LEMMA SendContents ==
  ASSUME TypeOK, NEW batch \in Batches, Send(batch), NEW f \in Endpoints,
         Ordered(f), Contents(f)
  PROVE  Contents(f)'
<1>1. \A i \in Issued : i \in Issued' /\ stream'[i] = stream[i]
  BY StreamGrows DEF Send
<1>2. UNCHANGED <<pending, inflight, received, abandoned, phase>>
  BY DEF Send, senderVars
<1>3. pending[f] \subseteq Issued /\ inflight[f] \subseteq Issued /\ abandoned[f] \subseteq Issued
  BY DEF Ordered, BufferOrdered, FlightOrdered, Contents
<1>4. QED
  BY <1>1, <1>2, <1>3 DEF Contents, InFlush, Stored, Unwanted

LEMMA ReturnContents ==
  ASSUME TypeOK, NEW e \in Endpoints, Contents(e), FlushReturns(e),
         UNCHANGED <<stream, pending, resume>>, abandoned'[e] \subseteq Issued
  PROVE  Contents(e)'
<1>1. inflight'[e] = {} /\ phase'[e] = resume[e] /\ resume[e] \in {"idle", "splitting", "stopped"}
  BY DEF FlushReturns, TypeOK
<1>2. Issued' = Issued
  BY DEF Issued
<1>3. QED
  BY <1>1, <1>2 DEF Contents, InFlush

LEMMA StepContents == IInv /\ ContentsInv /\ [Next]_vars => ContentsInv'
<1> SUFFICES ASSUME IInv, ContentsInv, [Next]_vars, NEW f \in Endpoints
             PROVE  Contents(f)'
  BY DEF ContentsInv
<1>0. TypeOK /\ \A e \in Endpoints : Ordered(e) /\ Sized(e) /\ Contents(e)
  BY DEF IInv, OrderInv, SizeInv, ContentsInv
<1> USE <1>0
<1>1. ASSUME NEW batch \in Batches, Send(batch) PROVE Contents(f)'
  BY <1>1, SendContents
<1>2. CASE DropHandle \/ UNCHANGED vars
  BY <1>2, ContentsFrame DEF DropHandle, senderVars, vars
<1>3. ASSUME NEW e \in Endpoints, Start(e) PROVE Contents(f)'
  <2>1. CASE f = e
    <3>1. abandoned'[e] \subseteq abandoned[e] \cup Queued(e)
      BY <1>3 DEF Start, TypeOK
    <3>2. Queued(e) \subseteq Issued
      BY DEF Queued, Ordered, QueueOrdered
    <3>3. phase'[e] \in {"idle", "panicked"} /\ UNCHANGED <<stream, pending, inflight>>
      BY <1>3 DEF Start, TypeOK
    <3>4. Issued' = Issued
      BY <3>3 DEF Issued
    <3>5. QED
      BY <2>1, <3>1, <3>2, <3>3, <3>4 DEF Contents, InFlush, Unwanted
  <2>2. CASE f # e
    BY <1>3, <2>2, ContentsFrame DEF Start, TypeOK
  <2>3. QED
    BY <2>1, <2>2
<1>4. ASSUME NEW e \in Endpoints, Receive(e) PROVE Contents(f)'
  <2>1. CASE f = e
    <3>1. pending'[e] = pending[e] \cup DropNativeHistograms(e, Head(queue[e]))
      BY <1>4 DEF Receive, TypeOK
    <3>2. phase'[e] = "splitting" /\ UNCHANGED <<stream, inflight, abandoned>>
      BY <1>4 DEF Receive, TypeOK
    <3>3. Issued' = Issued
      BY <3>2 DEF Issued
    <3>4. QED
      BY <2>1, <3>1, <3>2, <3>3 DEF Contents, InFlush, Unwanted, DropNativeHistograms
  <2>2. CASE f # e
    BY <1>4, <2>2, ContentsFrame DEF Receive, TypeOK
  <2>3. QED
    BY <2>1, <2>2
<1>5. ASSUME NEW e \in Endpoints, NEW chunk \in SUBSET pending[e],
             NEW returnTo \in {"idle", "splitting", "stopped"}, Flush(e, chunk, returnTo),
             pending' = [pending EXCEPT ![e] = @ \ chunk],
             UNCHANGED <<stream, received, abandoned>>
      PROVE  Contents(f)'
  <2>1. CASE f = e
    <3>1. /\ inflight'[e] = Wanted(e, chunk)
          /\ inflight'[e] # {} => phase'[e] = "encoding" /\ ~Stored(e)'
          /\ inflight'[e] = {} => phase'[e] = returnTo
      BY <1>5, FlushContents
    <3>2. pending'[e] \subseteq pending[e]
      BY <1>5 DEF TypeOK
    <3>3. Issued' = Issued
      BY <1>5 DEF Issued
    <3>4. QED
      BY <1>5, <2>1, <3>1, <3>2, <3>3 DEF Contents, InFlush, Unwanted, Wanted
  <2>2. CASE f # e
    BY <1>5, <2>2, ContentsFrame DEF Flush, TypeOK
  <2>3. QED
    BY <2>1, <2>2
<1>6. ASSUME NEW e \in Endpoints, SplitBatch(e) PROVE Contents(f)'
  <2>1. PICK chunk \in SUBSET pending[e] :
          pending' = [pending EXCEPT ![e] = @ \ chunk] /\ Flush(e, chunk, "splitting")
    BY <1>6 DEF SplitBatch, LeadingSeries
  <2>2. QED
    BY <1>5, <1>6, <2>1 DEF SplitBatch
<1>7. ASSUME NEW e \in Endpoints, DeadlineTick(e) PROVE Contents(f)'
  <2>1. pending' = [pending EXCEPT ![e] = @ \ pending[e]]
    BY <1>7 DEF DeadlineTick
  <2>2. QED
    BY <1>5, <1>7, <2>1 DEF DeadlineTick
<1>8. ASSUME NEW e \in Endpoints, QueueClosed(e) PROVE Contents(f)'
  <2>1. pending' = [pending EXCEPT ![e] = @ \ pending[e]]
    BY <1>8 DEF QueueClosed
  <2>2. CASE pending[e] # {}
    BY <1>5, <1>8, <2>1, <2>2 DEF QueueClosed
  <2>3. CASE pending[e] = {}
    <3>1. UNCHANGED <<stream, pending, inflight, received, abandoned>> /\ ~InFlush(e)
      BY <1>8, <2>1, <2>3 DEF QueueClosed, TypeOK, InFlush
    <3>2. phase' = [phase EXCEPT ![e] = "stopped"]
      BY <1>8, <2>3 DEF QueueClosed
    <3>3. Issued' = Issued
      BY <3>1 DEF Issued
    <3>4. CASE f = e
      BY <3>1, <3>2, <3>3, <3>4 DEF Contents, InFlush, Unwanted, TypeOK
    <3>5. CASE f # e
      BY <3>1, <3>2, <3>5, ContentsFrame DEF TypeOK
    <3>6. QED
      BY <3>4, <3>5
  <2>4. QED
    BY <2>2, <2>3
<1>9. ASSUME NEW e \in Endpoints, SplitDone(e) \/ Encode(e) \/ BackoffElapsed(e)
      PROVE  Contents(f)'
  <2>1. UNCHANGED <<stream, pending, inflight, received, abandoned>>
    BY <1>9 DEF SplitDone, Encode, BackoffElapsed
  <2>2. Issued' = Issued
    BY <2>1 DEF Issued
  <2>3. CASE f = e
    <3>1. phase'[e] # "encoding" /\ (InFlush(e)' => InFlush(e))
      BY <1>9 DEF SplitDone, Encode, BackoffElapsed, TypeOK, InFlush
    <3>2. QED
      BY <2>1, <2>2, <2>3, <3>1 DEF Contents, Unwanted
  <2>4. CASE f # e
    BY <1>9, <2>1, <2>4, ContentsFrame DEF SplitDone, Encode, BackoffElapsed, TypeOK
  <2>5. QED
    BY <2>3, <2>4
<1>10. ASSUME NEW e \in Endpoints, CompressFails(e) \/ SendRejected(e) \/ SendSucceeds(e)
       PROVE  Contents(f)'
  <2>1. CASE f = e
    <3>1. abandoned'[e] \subseteq abandoned[e] \cup inflight[e]
      BY <1>10 DEF CompressFails, SendRejected, SendSucceeds, TypeOK
    <3>2. abandoned'[e] \subseteq Issued
      BY <3>1 DEF Ordered, FlightOrdered, Contents
    <3>3. QED
      BY <1>10, <2>1, <3>2, ReturnContents DEF CompressFails, SendRejected, SendSucceeds
  <2>2. CASE f # e
    BY <1>10, <2>2, ContentsFrame
    DEF CompressFails, SendRejected, SendSucceeds, FlushReturns, Store, TypeOK
  <2>3. QED
    BY <2>1, <2>2
<1>11. ASSUME NEW e \in Endpoints, SendFails(e) PROVE Contents(f)'
  <2>1. UNCHANGED <<stream, pending, inflight, abandoned>>
    BY <1>11 DEF SendFails
  <2>2. Issued' = Issued
    BY <2>1 DEF Issued
  <2>3. CASE f = e
    <3>1. phase'[e] = "backoff" /\ InFlush(e)
      BY <1>11 DEF SendFails, TypeOK, InFlush
    <3>2. QED
      BY <2>1, <2>2, <2>3, <3>1 DEF Contents, Unwanted
  <2>4. CASE f # e
    BY <1>11, <2>1, <2>4, ContentsFrame DEF SendFails, Store, TypeOK
  <2>5. QED
    BY <2>3, <2>4
<1>12. QED
  BY <1>1, <1>2, <1>3, <1>4, <1>6, <1>7, <1>8, <1>9, <1>10, <1>11
  DEF Next, Sender, Answer, Terminated

-----------------------------------------------------------------------------
\* Every step maps to a step of the stream or to none

\* The stream counts refusals with a cardinality of its own.
LEMMA SameCardinality == ASSUME NEW S PROVE Stream!Cardinality(S) = Cardinality(S)
BY DEF Stream!Cardinality, Cardinality

\* The batch of a send becomes due to all but the endpoints that refuse it.
LEMMA SendMaps ==
  ASSUME IInv, ContentsInv, NEW batch \in Batches, Send(batch)
  PROVE  Stream!Next
<1>0. TypeOK /\ \A e \in Endpoints : Ordered(e) /\ Sized(e) /\ Contents(e)
  BY DEF IInv, OrderInv, SizeInv, ContentsInv
<1> USE <1>0
<1> DEFINE new == (Len(stream) + 1) .. (Len(stream) + Len(batch))
<1>1. /\ Len(stream) \in Nat /\ Len(batch) \in Nat
      /\ \A i \in Issued : stream'[i] = stream[i]
  BY StreamGrows DEF Send
<1>2. UNCHANGED <<open, pending, inflight, received, abandoned>>
  BY DEF Send, senderVars
<1>3. ASSUME NEW e \in Endpoints PROVE Got(e)' = Got(e) /\ Lost(e)' = Lost(e)
  BY <1>1, <1>2 DEF Got, Lost, ReceivedSeries, Wanted, Unwanted, Contents
<1>4. ASSUME NEW e \in Endpoints
      PROVE  Queued(e) \subseteq Issued /\ pending[e] \subseteq Issued
             /\ inflight[e] \subseteq Issued
  BY DEF Queued, Ordered, QueueOrdered, BufferOrdered, FlightOrdered
<1>5. ASSUME NEW e \in Endpoints
      PROVE  Queued(e)' = IF e \in Refusing THEN Queued(e) ELSE Queued(e) \cup new
  <2>1. queue'[e] = IF e \in Refusing THEN queue[e] ELSE Append(queue[e], new)
    BY DEF Send
  <2>2. queue[e] \in Seq(SUBSET Nat) /\ new \in SUBSET Nat
    BY <1>1 DEF TypeOK
  <2>3. CASE e \in Refusing
    BY <2>1, <2>3 DEF Queued
  <2>4. CASE e \notin Refusing
    <3> HIDE DEF new
    <3>1. /\ DOMAIN queue'[e] = DOMAIN queue[e] \cup {Len(queue[e]) + 1}
          /\ queue'[e][Len(queue[e]) + 1] = new
          /\ \A k \in DOMAIN queue[e] : queue'[e][k] = queue[e][k]
      BY <2>1, <2>2, <2>4, AppendProperties
    <3>2. QED
      BY <2>4, <3>1 DEF Queued
  <2>5. QED
    BY <2>3, <2>4
<1>6. ASSUME NEW e \in Endpoints
      PROVE  Due(e)' = IF e \in Refusing THEN Due(e)
                       ELSE Due(e) \cup {i \in new : stream'[i] \notin Unwanted[e]}
  <2>1. Stored(e)' <=> Stored(e)
    BY <1>2 DEF Stored
  <2>2. Unwanted' = Unwanted
    BY DEF Unwanted
  <2>3. QED
    BY <1>1, <1>2, <1>4, <1>5, <2>1, <2>2 DEF Due, Wanted
<1>7. Refusing \in SUBSET Endpoints
  BY DEF Refusing
<1>8. Stream!Offer(batch, Refusing)
  BY <1>2, <1>3, <1>6, SameCardinality DEF Send, Got, Lost, Stream!Offer, Stream!Positions
<1>9. QED
  BY <1>7, <1>8 DEF Stream!Next

\* What is in flight is the oldest of what is due.
LEMMA FlightIsOldest ==
  ASSUME NEW e \in Endpoints, TypeOK, Ordered(e), Contents(e), ~Stored(e)
  PROVE  /\ Stream!Oldest(inflight[e], Due(e))
         /\ Due(e) \ inflight[e] = Wanted(e, Queued(e) \cup pending[e])
         /\ inflight[e] \cap ReceivedSeries(e) = {}
         /\ Wanted(e, inflight[e]) = inflight[e]
<1>1. Wanted(e, inflight[e]) = inflight[e]
  BY DEF Wanted, Contents
<1>2. Due(e) = Wanted(e, Queued(e) \cup pending[e]) \cup inflight[e]
  BY <1>1 DEF Due, Wanted
<1>3. \A i \in inflight[e], j \in Queued(e) \cup pending[e] : i < j
  BY DEF Queued, Ordered, FlightOrdered, Before
<1>4. \A i \in inflight[e] : i \in Nat
  BY DEF TypeOK
<1>5. \A i \in inflight[e] : i \notin Queued(e) \cup pending[e]
  BY <1>3, <1>4
<1>6. ASSUME NEW k \in DOMAIN received[e], NEW i \in received[e][k], i \in inflight[e]
      PROVE  FALSE
  <2>1. Before(received[e][k], inflight[e])
    BY DEF Ordered, StoreOrdered, Stored
  <2>2. i < i
    BY <1>6, <2>1 DEF Before
  <2>3. QED
    BY <1>4, <1>6, <2>2
<1>7. QED
  BY <1>1, <1>2, <1>3, <1>5, <1>6 DEF Stream!Oldest, Wanted, ReceivedSeries

\* The receiver stores the request in flight, if it does not hold it.
LEMMA StoreGot ==
  ASSUME NEW e \in Endpoints, TypeOK, Store(e), ~Stored(e)
  PROVE  /\ Got(e)' = Got(e) \cup inflight[e]
         /\ inflight'[e] = inflight[e] => Stored(e)'
<1>1. received'[e] = Append(received[e], inflight[e])
  BY DEF Store, TypeOK
<1>2. received[e] \in Seq(SUBSET Nat) /\ inflight[e] \in SUBSET Nat
  BY DEF TypeOK
<1>3. /\ DOMAIN received'[e] = DOMAIN received[e] \cup {Len(received[e]) + 1}
      /\ received'[e][Len(received[e]) + 1] = inflight[e]
      /\ \A k \in DOMAIN received[e] : received'[e][k] = received[e][k]
  BY <1>1, <1>2, AppendProperties
<1>4. QED
  BY <1>3 DEF Got, ReceivedSeries, Stored

\* What is cut from the buffer for a request is still due, but for what the
\* endpoint does not want.
LEMMA FlushMaps ==
  ASSUME IInv, ContentsInv, NEW e \in Endpoints, ~InFlush(e),
         NEW chunk \in SUBSET pending[e], NEW returnTo, Flush(e, chunk, returnTo),
         pending' = [pending EXCEPT ![e] = @ \ chunk],
         UNCHANGED <<stream, queue, received, abandoned>>
  PROVE  \A r \in Endpoints : Same(r)
<1>0. TypeOK /\ \A r \in Endpoints : Ordered(r) /\ Sized(r) /\ Contents(r)
  BY DEF IInv, OrderInv, SizeInv, ContentsInv
<1> USE <1>0
<1>1. inflight'[e] = Wanted(e, chunk) /\ (inflight'[e] # {} => ~Stored(e)')
  BY FlushContents
<1>2. inflight[e] = {} /\ pending'[e] = pending[e] \ chunk
  BY DEF Sized, TypeOK
<1>3. Unwanted' = Unwanted
  BY DEF Unwanted
<1>4. Queued(e)' = Queued(e)
  BY DEF Queued
<1>5. Due(e) = Wanted(e, Queued(e) \cup pending[e])
  BY <1>2 DEF Due
<1>6. Due(e)' = Wanted(e, Queued(e) \cup (pending[e] \ chunk)) \cup Wanted(e, chunk)
  BY <1>1, <1>2, <1>3, <1>4 DEF Due, Wanted
<1>7. Due(e)' = Due(e)
  BY <1>5, <1>6 DEF Wanted
<1>8. Same(e)
  BY <1>3, <1>7 DEF Same, Got, Lost, ReceivedSeries, Wanted
<1>9. \A r \in Endpoints \ {e} : Same(r)
  BY SameFrame DEF Flush, TypeOK
<1>10. QED
  BY <1>8, <1>9

LEMMA StepMaps == IInv /\ ContentsInv /\ [Next]_vars => [Stream!Next]_(Stream!vars)
<1> SUFFICES ASSUME IInv, ContentsInv, [Next]_vars
             PROVE  Stream!Next \/ UNCHANGED Stream!vars
  OBVIOUS
<1>0. TypeOK /\ \A r \in Endpoints : Ordered(r) /\ Sized(r) /\ Contents(r)
  BY DEF IInv, OrderInv, SizeInv, ContentsInv
<1> USE <1>0
<1>1. ASSUME NEW batch \in Batches, Send(batch) PROVE Stream!Next
  BY <1>1, SendMaps
<1>2. CASE DropHandle
  <2>1. \A r \in Endpoints : Same(r)
    BY <1>2, SameFrame DEF DropHandle, senderVars
  <2>2. Stream!Close
    BY <1>2, <2>1 DEF DropHandle, Same, Got, Lost, Stream!Close
  <2>3. QED
    BY <2>2 DEF Stream!Next
<1>3. CASE UNCHANGED vars
  BY <1>3, SameFrame, Stutters DEF vars
<1>4. ASSUME NEW e \in Endpoints, Start(e) PROVE Stream!Next \/ UNCHANGED Stream!vars
  <2>1. pending[e] = {} /\ inflight[e] = {} /\ Due(e) = Wanted(e, Queued(e))
    BY <1>4 DEF Start, Sized, InFlush, Due, Wanted
  <2>2. \A r \in Endpoints \ {e} : Same(r)
    BY <1>4, SameFrame DEF Start, TypeOK
  <2>3. UNCHANGED <<stream, open, dropped, pending, inflight, received>>
    BY <1>4 DEF Start
  <2>4. CASE UNCHANGED <<queue, abandoned>>
    BY <2>2, <2>3, <2>4, SameFrame, Stutters
  <2>5. CASE /\ queue' = [queue EXCEPT ![e] = <<>>]
             /\ abandoned' = [abandoned EXCEPT ![e] = @ \cup Queued(e)]
    <3>1. queue'[e] = <<>> /\ abandoned'[e] = abandoned[e] \cup Queued(e)
      BY <2>5 DEF TypeOK
    <3>2. Queued(e)' = {}
      BY <3>1 DEF Queued
    <3>3. Unwanted' = Unwanted
      BY DEF Unwanted
    <3>4. Due(e)' = {} /\ Got(e)' = Got(e) /\ Lost(e)' = Lost(e) \cup Due(e)
      BY <2>1, <2>3, <3>1, <3>2, <3>3 DEF Due, Got, Lost, ReceivedSeries, Wanted
    <3>5. CASE Due(e) = {}
      BY <2>2, <2>3, <3>4, <3>5, Stutters DEF Same
    <3>6. CASE Due(e) # {}
      BY <2>2, <2>3, <3>4, <3>6, GivesUp DEF Stream!Oldest
    <3>7. QED
      BY <3>5, <3>6
  <2>6. QED
    BY <1>4, <2>4, <2>5 DEF Start
<1>5. ASSUME NEW e \in Endpoints, Receive(e) PROVE UNCHANGED Stream!vars
  <2>1. \A r \in Endpoints \ {e} : Same(r)
    BY <1>5, SameFrame DEF Receive, TypeOK
  <2>2. /\ pending'[e] = pending[e] \cup DropNativeHistograms(e, Head(queue[e]))
        /\ queue'[e] = Tail(queue[e]) /\ queue[e] # <<>> /\ queue[e] \in Seq(SUBSET Nat)
        /\ UNCHANGED <<stream, open, dropped, inflight, received, abandoned>>
    BY <1>5 DEF Receive, TypeOK
  <2>3. Queued(e) = Head(queue[e]) \cup Queued(e)'
    <3>1. /\ Head(queue[e]) = queue[e][1] /\ 1 \in DOMAIN queue[e]
          /\ \A k \in DOMAIN queue'[e] : k + 1 \in DOMAIN queue[e]
                                         /\ queue'[e][k] = queue[e][k + 1]
          /\ \A k \in DOMAIN queue[e] :
               k = 1 \/ (k - 1 \in DOMAIN queue'[e] /\ queue'[e][k - 1] = queue[e][k])
      BY <2>2
    <3>2. QED
      BY <3>1 DEF Queued
  <2>4. Unwanted' = Unwanted /\ (Stored(e)' <=> Stored(e))
    BY <2>2 DEF Unwanted, Stored
  <2>5. Due(e)' = Due(e)
    BY <2>2, <2>3, <2>4 DEF Due, Wanted, DropNativeHistograms, Unwanted
  <2>6. Same(e)
    BY <2>2, <2>4, <2>5 DEF Same, Got, Lost, ReceivedSeries, Wanted
  <2>7. QED
    BY <2>1, <2>2, <2>6, Stutters
<1>6. ASSUME NEW e \in Endpoints, SplitBatch(e) PROVE UNCHANGED Stream!vars
  <2>1. PICK chunk \in SUBSET pending[e] :
          pending' = [pending EXCEPT ![e] = @ \ chunk] /\ Flush(e, chunk, "splitting")
    BY <1>6 DEF SplitBatch, LeadingSeries
  <2>2. QED
    BY <1>6, <2>1, FlushMaps, Stutters DEF SplitBatch, InFlush
<1>7. ASSUME NEW e \in Endpoints, DeadlineTick(e) PROVE UNCHANGED Stream!vars
  <2>1. pending' = [pending EXCEPT ![e] = @ \ pending[e]]
    BY <1>7 DEF DeadlineTick
  <2>2. QED
    BY <1>7, <2>1, FlushMaps, Stutters DEF DeadlineTick, InFlush
<1>8. ASSUME NEW e \in Endpoints, QueueClosed(e) PROVE UNCHANGED Stream!vars
  <2>1. pending' = [pending EXCEPT ![e] = @ \ pending[e]]
    BY <1>8 DEF QueueClosed
  <2>2. CASE pending[e] # {}
    BY <1>8, <2>1, <2>2, FlushMaps, Stutters DEF QueueClosed, InFlush
  <2>3. CASE pending[e] = {}
    <3>1. UNCHANGED <<stream, open, queue, pending, inflight, received, abandoned, dropped>>
      BY <1>8, <2>1, <2>3 DEF QueueClosed, TypeOK
    <3>2. QED
      BY <3>1, SameFrame, Stutters
  <2>4. QED
    BY <2>2, <2>3
<1>9. ASSUME NEW e \in Endpoints, SplitDone(e) \/ Encode(e) \/ BackoffElapsed(e)
      PROVE  UNCHANGED Stream!vars
  BY <1>9, SameFrame, Stutters DEF SplitDone, Encode, BackoffElapsed
\* A request leaves the flight, given up or stored.
<1>10. ASSUME NEW e \in Endpoints, CompressFails(e) \/ SendRejected(e)
       PROVE  Stream!Next \/ UNCHANGED Stream!vars
  <2>1. \A r \in Endpoints \ {e} : Same(r)
    BY <1>10, SameFrame DEF CompressFails, SendRejected, FlushReturns, TypeOK
  <2>2. /\ inflight'[e] = {} /\ UNCHANGED <<stream, open, dropped, queue, pending, received>>
    BY <1>10 DEF CompressFails, SendRejected, FlushReturns, TypeOK
  <2>3. Unwanted' = Unwanted /\ Queued(e)' = Queued(e) /\ Got(e)' = Got(e)
    BY <2>2 DEF Unwanted, Queued, Got, ReceivedSeries
  <2>4. Due(e)' = Wanted(e, Queued(e) \cup pending[e])
    BY <2>2, <2>3 DEF Due, Wanted
  <2>5. CASE Stored(e)
    <3>1. abandoned' = abandoned
      <4>1. SendRejected(e) /\ inflight[e] \subseteq ReceivedSeries(e)
        BY <1>10, <2>5 DEF CompressFails, Contents, Stored, ReceivedSeries
      <4>2. QED
        BY <4>1 DEF SendRejected, TypeOK
    <3>2. Due(e)' = Due(e)
      BY <2>4, <2>5 DEF Due
    <3>3. QED
      BY <2>1, <2>2, <2>3, <3>1, <3>2, Stutters DEF Same, Lost, Wanted
  <2>6. CASE ~Stored(e)
    <3>1. /\ Stream!Oldest(inflight[e], Due(e))
          /\ Due(e)' = Due(e) \ inflight[e]
          /\ inflight[e] \cap ReceivedSeries(e) = {}
          /\ Wanted(e, inflight[e]) = inflight[e]
      BY <2>4, <2>6, FlightIsOldest
    <3>2. abandoned'[e] = abandoned[e] \cup inflight[e]
      BY <1>10, <3>1 DEF CompressFails, SendRejected, TypeOK
    <3>3. Lost(e)' = Lost(e) \cup inflight[e]
      BY <2>2, <2>3, <3>1, <3>2 DEF Lost, Wanted
    <3>4. inflight[e] # {}
      BY <1>10 DEF CompressFails, SendRejected, Contents, InFlush
    <3>5. QED
      BY <2>1, <2>2, <2>3, <3>1, <3>3, <3>4, GivesUp
  <2>7. QED
    BY <2>5, <2>6
<1>11. ASSUME NEW e \in Endpoints, InFlush(e), Store(e),
              UNCHANGED <<stream, open, dropped, queue, pending, abandoned>>,
              \/ inflight' = [inflight EXCEPT ![e] = {}]
              \/ UNCHANGED inflight
       PROVE  Stream!Next \/ UNCHANGED Stream!vars
  <2>1. \A r \in Endpoints \ {e} : Same(r)
    BY <1>11, SameFrame DEF Store, TypeOK
  <2>2. inflight'[e] = {} \/ inflight'[e] = inflight[e]
    BY <1>11 DEF TypeOK
  <2>3. Unwanted' = Unwanted /\ Queued(e)' = Queued(e)
    BY <1>11 DEF Unwanted, Queued
  <2>4. Lost(e)' = Lost(e)
    BY <1>11, <2>3 DEF Lost, Wanted
  <2>5. CASE Stored(e)
    <3>1. received' = received
      BY <1>11, <2>5 DEF Store
    <3>2. inflight'[e] = inflight[e] => Stored(e)'
      BY <2>5, <3>1 DEF Stored
    <3>3. Due(e)' = Due(e)
      BY <1>11, <2>2, <2>3, <2>5, <3>2 DEF Due, Wanted
    <3>4. QED
      BY <1>11, <2>1, <2>4, <3>1, <3>3, Stutters DEF Same, Got, ReceivedSeries
  <2>6. CASE ~Stored(e)
    <3>1. Got(e)' = Got(e) \cup inflight[e] /\ (inflight'[e] = inflight[e] => Stored(e)')
      BY <1>11, <2>6, StoreGot
    <3>2. Due(e)' = Wanted(e, Queued(e) \cup pending[e])
      BY <1>11, <2>2, <2>3, <3>1 DEF Due, Wanted
    <3>3. Stream!Oldest(inflight[e], Due(e)) /\ Due(e)' = Due(e) \ inflight[e]
      BY <2>6, <3>2, FlightIsOldest
    <3>4. inflight[e] # {}
      BY <1>11 DEF Contents
    <3>5. QED
      BY <1>11, <2>1, <2>4, <3>1, <3>3, <3>4, Delivers
  <2>7. QED
    BY <2>5, <2>6
<1>12. ASSUME NEW e \in Endpoints, SendSucceeds(e)
       PROVE  Stream!Next \/ UNCHANGED Stream!vars
  BY <1>11, <1>12 DEF SendSucceeds, FlushReturns, InFlush
<1>13. ASSUME NEW e \in Endpoints, SendFails(e)
       PROVE  Stream!Next \/ UNCHANGED Stream!vars
  <2>1. CASE Store(e)
    BY <1>11, <1>13, <2>1 DEF SendFails, InFlush
  <2>2. CASE UNCHANGED received
    BY <1>13, <2>2, SameFrame, Stutters DEF SendFails
  <2>3. QED
    BY <1>13, <2>1, <2>2 DEF SendFails
<1>14. QED
  BY <1>1, <1>2, <1>3, <1>4, <1>5, <1>6, <1>7, <1>8, <1>9, <1>10, <1>12, <1>13
  DEF Next, Sender, Answer, Terminated

\* What an endpoint is owed leaves the pipeline only by being stored once or
\* given up, oldest first, over any retries, lost answers and refusals.
THEOREM Implementation == Spec => ImplementsStream
<1>1. Init => Stream!Init
  BY DEF Init, Stream!Init, Due, Queued, ReceivedSeries, Wanted
<1>2. Spec => []IInv
  BY Invariance
<1>3. Spec => []ContentsInv
  BY <1>2, InitContents, StepContents, PTL DEF Spec
<1>4. QED
  BY <1>1, <1>2, <1>3, StepMaps, PTL DEF Spec, ImplementsStream, Stream!Spec
=============================================================================
