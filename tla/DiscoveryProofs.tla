--------------------------- MODULE DiscoveryProofs ---------------------------
(***************************************************************************)
(* Theorems about Discovery, for any number of sources and stores, any     *)
(* capacity of the notify channel and any number of changes: types, that   *)
(* no change is slept through between a store and the target set run_job   *)
(* borrows, and that the sets it borrows never go back.                    *)
(***************************************************************************)
EXTENDS Discovery, FiniteSetTheorems, TLAPS

USE DEF sourceVars, consumerVars, vars, Snapshot, Nothing, Update

-----------------------------------------------------------------------------
\* Types

LEMMA CapacityIsNatural == UpdateCapacity \in Nat \ {0}
<1>1. IsFiniteSet(Sources)
  BY DiscoveryAssumption DEF DiscoveryAssumption
<1>2. Cardinality(Sources) \in Nat
  BY <1>1, FS_CardinalityType
<1>3. Sources # {} => Cardinality(Sources) # 0
  BY <1>1, FS_EmptySet
<1>4. QED
  BY <1>2, <1>3 DEF UpdateCapacity

\* What sending and receiving do to a channel with room for n.
LEMMA AppendTypes ==
  ASSUME NEW S, NEW q \in Seq(S), NEW x \in S, NEW n \in Nat, Len(q) < n
  PROVE  Append(q, x) \in Seq(S) /\ Len(Append(q, x)) <= n
OBVIOUS

LEMMA TailTypes ==
  ASSUME NEW S, NEW q \in Seq(S), q # <<>>, NEW n \in Nat, Len(q) <= n
  PROVE  Head(q) \in S /\ Tail(q) \in Seq(S) /\ Len(Tail(q)) <= n
OBVIOUS

\* A snapshot with one store read anew.
LEMMA ReadTypes ==
  ASSUME NEW f \in [Sources -> Snapshot], NEW s \in Sources, NEW k \in Stores, NEW n \in Nat
  PROVE  [f EXCEPT ![s][k] = n] \in [Sources -> Snapshot]
OBVIOUS

LEMMA InitTypes == Init => TypeOK
<1>1. Init => notify \in [Sources -> 0 .. NotifyCapacity]
  BY DiscoveryAssumption DEF Init, DiscoveryAssumption
<1>2. Init => updates \in Seq(Update) /\ Len(updates) <= UpdateCapacity
  BY CapacityIsNatural DEF Init
<1>3. Nothing \in Snapshot
  OBVIOUS
<1>4. [s \in Sources |-> Nothing] \in [Sources -> Snapshot]
  BY <1>3
<1>5. QED
  BY <1>1, <1>2, <1>3, <1>4 DEF Init, TypeOK

LEMMA BuildTypes ==
  ASSUME TypeOK, NEW s \in Sources, NEW from, Build(s, from),
         notify' \in [Sources -> 0 .. NotifyCapacity]
  PROVE  TypeOK'
<1>1. StoresOf[s] \subseteq Stores
  BY DiscoveryAssumption DEF DiscoveryAssumption
<1>2. toRead' \in [Sources -> SUBSET Stores]
  BY <1>1 DEF Build, TypeOK
<1>3. QED
  BY <1>2 DEF Build, Move, TypeOK

LEMMA StepTypes == TypeOK /\ [Next]_vars => TypeOK'
<1> SUFFICES ASSUME TypeOK, [Next]_vars PROVE TypeOK'
  OBVIOUS
<1>a. NotifyCapacity \in Nat \ {0} /\ UpdateCapacity \in Nat \ {0}
  BY DiscoveryAssumption, CapacityIsNatural DEF DiscoveryAssumption
<1>1. ASSUME NEW s \in Sources, NEW k \in Stores, Rewrite(s, k) PROVE TypeOK'
  BY <1>1 DEF Rewrite, TypeOK
<1>2. ASSUME NEW s \in Sources, NEW k \in Stores, WatchEvent(s, k) PROVE TypeOK'
  BY <1>2 DEF WatchEvent, TypeOK
<1>3. ASSUME NEW s \in Sources, NEW k \in Stores, Notify(s, k) PROVE TypeOK'
  <2>1. notify' \in [Sources -> 0 .. NotifyCapacity]
    BY <1>3, <1>a DEF Notify, TypeOK
  <2>2. QED
    BY <1>3, <2>1 DEF Notify, TypeOK
<1>4. ASSUME NEW s \in Sources, Connect(s) PROVE TypeOK'
  BY <1>4 DEF Connect, Move, TypeOK
<1>5. ASSUME NEW s \in Sources, Synced(s) \/ Quiet(s) \/ Refresh(s) PROVE TypeOK'
  BY <1>5, BuildTypes DEF Synced, Quiet, Refresh, TypeOK
<1>6. ASSUME NEW s \in Sources, ReadStore(s) PROVE TypeOK'
  <2>1. PICK k \in toRead[s] : /\ snapshot' = [snapshot EXCEPT ![s][k] = store[k]]
                               /\ toRead' = [toRead EXCEPT ![s] = @ \ {k}]
    BY <1>6 DEF ReadStore
  <2>2. k \in Stores /\ store[k] \in Nat
    BY <2>1 DEF TypeOK
  <2>3. snapshot' \in [Sources -> Snapshot]
    BY <2>1, <2>2, ReadTypes DEF TypeOK
  <2>4. QED
    BY <1>6, <2>1, <2>3 DEF ReadStore, TypeOK
<1>7. ASSUME NEW s \in Sources, SendUpdate(s) PROVE TypeOK'
  <2>1. updates' \in Seq(Update) /\ Len(updates') <= UpdateCapacity
    <3>1. /\ updates \in Seq(Update) /\ Len(updates) <= UpdateCapacity
          /\ [slot |-> s, groups |-> snapshot[s]] \in Update
      BY DEF TypeOK
    <3>2. \/ updates' = updates
          \/ /\ Len(updates) < UpdateCapacity
             /\ updates' = Append(updates, [slot |-> s, groups |-> snapshot[s]])
      BY <1>7 DEF SendUpdate
    <3> HIDE DEF Update
    <3>3. CASE updates' = updates
      BY <3>1, <3>3
    <3>4. CASE Len(updates) < UpdateCapacity
               /\ updates' = Append(updates, [slot |-> s, groups |-> snapshot[s]])
      BY <1>a, <3>1, <3>4, AppendTypes
    <3>5. QED
      BY <3>2, <3>3, <3>4
  <2>2. QED
    BY <1>7, <2>1 DEF SendUpdate, Move, TypeOK
<1>8. ASSUME NEW s \in Sources, Woken(s) \/ Absorb(s) PROVE TypeOK'
  <2>1. notify' \in [Sources -> 0 .. NotifyCapacity]
    <3>1. notify \in [Sources -> 0 .. NotifyCapacity] /\ notify[s] > 0
          /\ notify' = [notify EXCEPT ![s] = @ - 1]
      BY <1>8 DEF Woken, Absorb, TypeOK
    <3>2. notify[s] - 1 \in 0 .. NotifyCapacity
      BY <1>a, <3>1
    <3>3. QED
      BY <3>1, <3>2
  <2>2. QED
    BY <1>8, <2>1 DEF Woken, Absorb, Move, TypeOK
<1>9. CASE Merge
  <2>1. updates \in Seq(Update) /\ updates # <<>> /\ Len(updates) <= UpdateCapacity
    BY <1>9 DEF Merge, TypeOK
  <2>2. Head(updates) \in Update /\ Tail(updates) \in Seq(Update)
        /\ Len(Tail(updates)) <= UpdateCapacity
    BY <1>a, <2>1, TailTypes
  <2>3. QED
    BY <1>9, <2>2 DEF Merge, TypeOK
<1>10. CASE MergerEnds \/ Borrow \/ DropReceiver
  BY <1>10 DEF MergerEnds, Borrow, DropReceiver, TypeOK
<1>11. CASE UNCHANGED vars
  BY <1>11 DEF TypeOK
<1>12. QED
  BY <1>1, <1>2, <1>3, <1>4, <1>5, <1>6, <1>7, <1>8, <1>9, <1>10, <1>11
  DEF Next, SourceStep

\* Every variable keeps its type, and the two channels their bounds.
THEOREM TypeCorrect == Spec => []TypeOK
BY InitTypes, StepTypes, PTL DEF Spec

-----------------------------------------------------------------------------
\* Nothing is slept through

\* A store has been read in its newest version, or something will make the source
\* read it: an event still to be signalled, a permit in the notify channel.
Aware(s, k) == untold[k] \/ notify[s] > 0 \/ snapshot[s][k] = store[k]

\* A source that waits is aware of all its stores, and one that builds of those
\* it has read.
WakeupInv ==
  \A s \in Kube : \A k \in StoresOf[s] :
    pc[s] = "waiting" \/ (pc[s] = "building" /\ k \notin toRead[s]) => Aware(s, k)

LEMMA InitWakeup == Init => WakeupInv
BY DiscoveryAssumption DEF Init, WakeupInv, DiscoveryAssumption

LEMMA StepWakeup == TypeOK /\ WakeupInv /\ [Next]_vars => WakeupInv'
<1> SUFFICES ASSUME TypeOK, WakeupInv, [Next]_vars,
                    NEW s \in Kube, NEW k \in StoresOf[s],
                    pc'[s] = "waiting" \/ (pc'[s] = "building" /\ k \notin toRead'[s])
             PROVE  Aware(s, k)'
  BY DEF WakeupInv
<1>a. /\ s \in Sources /\ k \in Stores
      /\ \A r \in Sources : r # s => k \notin StoresOf[r]
      /\ NotifyCapacity \in Nat \ {0}
  BY DiscoveryAssumption DEF DiscoveryAssumption
<1>b. pc[s] = "waiting" \/ (pc[s] = "building" /\ k \notin toRead[s]) => Aware(s, k)
  BY DEF WakeupInv
<1> USE DEF Aware
<1>1. ASSUME NEW r \in Sources, NEW j \in Stores, Rewrite(r, j) PROVE Aware(s, k)'
  <2>1. j # k
    BY <1>a, <1>1 DEF Rewrite
  <2>2. QED
    BY <1>a, <1>b, <1>1, <2>1 DEF Rewrite, TypeOK
<1>2. ASSUME NEW r \in Sources, NEW j \in Stores, WatchEvent(r, j) PROVE Aware(s, k)'
  BY <1>a, <1>b, <1>2 DEF WatchEvent, TypeOK
<1>3. ASSUME NEW r \in Sources, NEW j \in Stores, Notify(r, j) PROVE Aware(s, k)'
  <2>1. CASE r = s
    <3>1. notify[s] \in Nat /\ notify'[s] = IF notify[s] < NotifyCapacity
                                            THEN notify[s] + 1 ELSE notify[s]
      BY <1>a, <1>3, <2>1 DEF Notify, TypeOK
    <3>2. notify'[s] > 0
      BY <1>a, <3>1
    <3>3. QED
      BY <3>2
  <2>2. CASE r # s
    <3>1. j # k
      BY <1>a, <1>3, <2>2 DEF Notify
    <3>2. QED
      BY <1>a, <1>b, <1>3, <2>2, <3>1 DEF Notify, TypeOK
  <2>3. QED
    BY <2>1, <2>2
<1>4. ASSUME NEW r \in Sources, Connect(r) PROVE Aware(s, k)'
  BY <1>a, <1>b, <1>4 DEF Connect, Move, TypeOK
<1>5. ASSUME NEW r \in Sources, Synced(r) \/ Quiet(r) \/ Refresh(r) PROVE Aware(s, k)'
  <2>1. r # s
    BY <1>a, <1>5 DEF Synced, Quiet, Refresh, Build, Move, TypeOK
  <2>2. QED
    BY <1>a, <1>b, <1>5, <2>1 DEF Synced, Quiet, Refresh, Build, Move, TypeOK
<1>6. ASSUME NEW r \in Sources, ReadStore(r) PROVE Aware(s, k)'
  <2>1. PICK j \in toRead[r] : /\ snapshot' = [snapshot EXCEPT ![r][j] = store[j]]
                               /\ toRead' = [toRead EXCEPT ![r] = @ \ {j}]
                               /\ UNCHANGED <<store, untold, notify, pc>>
    BY <1>6 DEF ReadStore
  <2>2. CASE r = s /\ j = k
    BY <1>a, <2>1, <2>2 DEF TypeOK
  <2>3. CASE ~(r = s /\ j = k)
    <3>1. snapshot'[s][k] = snapshot[s][k]
      BY <1>a, <2>1, <2>3 DEF TypeOK
    <3>2. k \notin toRead'[s] => k \notin toRead[s]
      BY <1>a, <2>1, <2>3 DEF TypeOK
    <3>3. QED
      BY <1>b, <2>1, <3>1, <3>2
  <2>4. QED
    BY <2>2, <2>3
<1>7. ASSUME NEW r \in Sources, SendUpdate(r) PROVE Aware(s, k)'
  BY <1>a, <1>b, <1>7 DEF SendUpdate, Move, TypeOK
<1>8. ASSUME NEW r \in Sources, Woken(r) \/ Absorb(r) PROVE Aware(s, k)'
  <2>1. r # s
    BY <1>a, <1>8 DEF Woken, Absorb, Move, TypeOK
  <2>2. QED
    BY <1>a, <1>b, <1>8, <2>1 DEF Woken, Absorb, Move, TypeOK
<1>9. CASE Merge \/ MergerEnds \/ Borrow \/ DropReceiver
  BY <1>b, <1>9 DEF Merge, MergerEnds, Borrow, DropReceiver
<1>10. CASE UNCHANGED vars
  BY <1>b, <1>10
<1>11. QED
  BY <1>1, <1>2, <1>3, <1>4, <1>5, <1>6, <1>7, <1>8, <1>9, <1>10 DEF Next, SourceStep

\* No change is slept through by a Kubernetes source, although the notify channel
\* drops what it has no room for.
THEOREM WakeupsSuffice == Spec => []NoLostWakeup
<1>1. TypeOK /\ WakeupInv => NoLostWakeup
  <2> SUFFICES ASSUME TypeOK, WakeupInv, NEW s \in Kube, pc[s] = "waiting", notify[s] = 0,
                      NEW k \in StoresOf[s]
               PROVE  untold[k] \/ snapshot[s][k] = store[k]
    BY DEF NoLostWakeup
  <2>1. QED
    BY DEF WakeupInv, Aware
<1>2. Spec => []WakeupInv
  BY TypeCorrect, InitWakeup, StepWakeup, PTL DEF Spec
<1>3. QED
  BY <1>1, <1>2, TypeCorrect, PTL

LEMMA StepPublication == NoLostPublication /\ [Next]_vars => NoLostPublication'
<1> SUFFICES ASSUME NoLostPublication, [Next]_vars PROVE NoLostPublication'
  OBVIOUS
<1>1. CASE Merge
  BY <1>1 DEF Merge, NoLostPublication
<1>2. CASE Borrow
  BY <1>2 DEF Borrow, NoLostPublication
<1>3. CASE UNCHANGED <<slots, unseen, view>>
  BY <1>3 DEF NoLostPublication
<1>4. QED
  BY <1>1, <1>2, <1>3
  DEF Next, Rewrite, WatchEvent, Notify, SourceStep, Connect, Synced, Build, ReadStore,
      SendUpdate, Woken, Absorb, Quiet, Refresh, MergerEnds, DropReceiver

\* What run_job has not borrowed, the watch channel still offers.
THEOREM PublicationsSuffice == Spec => []NoLostPublication
<1>1. Init => NoLostPublication
  BY DEF Init, NoLostPublication
<1>2. QED
  BY <1>1, StepPublication, PTL DEF Spec
-----------------------------------------------------------------------------
\* Nothing goes back

Older(a, b) == \A k \in Stores : a[k] <= b[k]

\* What a source has read precedes what its stores hold, what is on the way to
\* the merger what was read last, in the order of the channel, and the merger's
\* slots what is on the way; run_job's view precedes the slots.
OrderInv ==
  /\ \A s \in Sources : /\ Older(view[s], slots[s])
                        /\ Older(slots[s], snapshot[s])
                        /\ Older(snapshot[s], store)
  /\ \A i \in DOMAIN updates :
       LET s == updates[i].slot
       IN Older(slots[s], updates[i].groups) /\ Older(updates[i].groups, snapshot[s])
  /\ \A i, j \in DOMAIN updates :
       i < j /\ updates[i].slot = updates[j].slot => Older(updates[i].groups, updates[j].groups)

LEMMA OlderIsOrder ==
  /\ \A a \in Snapshot : Older(a, a)
  /\ \A a, b, c \in Snapshot : Older(a, b) /\ Older(b, c) => Older(a, c)
BY DEF Older

LEMMA InitOrder == Init => OrderInv
<1> SUFFICES ASSUME Init PROVE OrderInv
  OBVIOUS
<1>1. DOMAIN updates = {}
  BY DEF Init
<1>2. \A s \in Sources : view[s] = Nothing /\ slots[s] = Nothing /\ snapshot[s] = Nothing
  BY DEF Init
<1>3. Older(Nothing, Nothing)
  BY OlderIsOrder
<1>4. store = Nothing
  BY DEF Init
<1> HIDE DEF Nothing
<1>5. QED
  BY <1>1, <1>2, <1>3, <1>4 DEF OrderInv

LEMMA StepOrder == TypeOK /\ OrderInv /\ [Next]_vars => OrderInv'
<1> SUFFICES ASSUME TypeOK, OrderInv, [Next]_vars PROVE OrderInv'
  OBVIOUS
<1>a. /\ store \in Snapshot /\ snapshot \in [Sources -> Snapshot]
      /\ slots \in [Sources -> Snapshot] /\ view \in [Sources -> Snapshot]
  BY DEF TypeOK
<1>b. updates \in Seq(Update)
  BY DEF TypeOK
<1>c. \A i \in DOMAIN updates : updates[i].slot \in Sources /\ updates[i].groups \in Snapshot
  <2> HIDE DEF Snapshot
  <2> SUFFICES ASSUME NEW i \in DOMAIN updates
               PROVE  updates[i].slot \in Sources /\ updates[i].groups \in Snapshot
    OBVIOUS
  <2>1. updates[i] \in Update
    <3> HIDE DEF Update
    <3>1. QED
      BY <1>b
  <2>2. QED
    BY <2>1
<1>d. \A i, j \in DOMAIN updates :
        i < j /\ updates[i].slot = updates[j].slot => Older(updates[i].groups, updates[j].groups)
  BY DEF OrderInv
<1> HIDE DEF Snapshot
\* A store changes.
<1>1. ASSUME UNCHANGED <<snapshot, updates, slots, view>>, store' \in Snapshot,
             Older(store, store')
      PROVE  OrderInv'
  <2>1. \A s \in Sources : Older(snapshot[s], store')
    BY <1>a, <1>1, OlderIsOrder DEF OrderInv
  <2>2. QED
    BY <1>1, <2>1 DEF OrderInv
<1>2. CASE \E s \in Sources, k \in Stores : Rewrite(s, k) \/ WatchEvent(s, k)
  <2>1. PICK s \in Sources, k \in Stores : Rewrite(s, k) \/ WatchEvent(s, k)
    BY <1>2
  <2>2. store' = store \/ store' = [store EXCEPT ![k] = @ + 1]
    BY <2>1 DEF Rewrite, WatchEvent
  <2>3. store' \in Snapshot /\ Older(store, store')
    <3>1. CASE store' = store
      BY <1>a, <3>1, OlderIsOrder
    <3>2. CASE store' = [store EXCEPT ![k] = @ + 1]
      <4>1. \A m \in Stores : store[m] \in Nat
        BY <1>a DEF Snapshot
      <4>2. store' = [m \in Stores |-> IF m = k THEN store[m] + 1 ELSE store[m]]
        BY <1>a, <3>2 DEF Snapshot
      <4>3. \A m \in Stores : store'[m] = IF m = k THEN store[m] + 1 ELSE store[m]
        BY <4>2
      <4>4. \A m \in Stores : store[m] <= store'[m]
        BY <4>1, <4>3
      <4>5. store' \in Snapshot
        BY <4>1, <4>2 DEF Snapshot
      <4>6. QED
        BY <4>4, <4>5 DEF Older
    <3>3. QED
      BY <2>2, <3>1, <3>2
  <2>4. QED
    BY <1>1, <2>1, <2>3 DEF Rewrite, WatchEvent
\* A source reads a store.
<1>3. ASSUME NEW s \in Sources, ReadStore(s) PROVE OrderInv'
  <2>1. PICK k \in toRead[s] : snapshot' = [snapshot EXCEPT ![s][k] = store[k]]
    BY <1>3 DEF ReadStore
  <2>2. k \in Stores
    BY <2>1 DEF TypeOK
  <2>3. UNCHANGED <<store, updates, slots, view>>
    BY <1>3 DEF ReadStore
  <2>4. snapshot' \in [Sources -> Snapshot] /\ \A r \in Sources \ {s} : snapshot'[r] = snapshot[r]
    BY <1>a, <2>1, <2>2 DEF Snapshot
  <2>5. Older(snapshot[s], store)
    BY DEF OrderInv
  <2>6. Older(snapshot[s], snapshot'[s]) /\ Older(snapshot'[s], store)
    BY <1>a, <2>1, <2>2, <2>5 DEF Older, Snapshot
  <2>7. \A r \in Sources : Older(snapshot[r], snapshot'[r]) /\ Older(snapshot'[r], store)
    BY <1>a, <2>4, <2>6, OlderIsOrder DEF OrderInv
  <2>8. \A r \in Sources : Older(slots[r], snapshot'[r])
    BY <1>a, <2>4, <2>7, OlderIsOrder DEF OrderInv
  <2>9. \A i \in DOMAIN updates : Older(updates[i].groups, snapshot'[updates[i].slot])
    BY <1>a, <1>c, <2>4, <2>7, OlderIsOrder DEF OrderInv
  <2>10. QED
    BY <2>3, <2>7, <2>8, <2>9 DEF OrderInv
\* A snapshot is sent.
<1>4. ASSUME NEW s \in Sources, SendUpdate(s), merging PROVE OrderInv'
  <2> DEFINE new == [slot |-> s, groups |-> snapshot[s]]
  <2>1. updates' = Append(updates, new) /\ UNCHANGED <<store, snapshot, slots, view>>
    BY <1>4 DEF SendUpdate
  <2>2. \A i \in DOMAIN updates' :
          \/ i \in DOMAIN updates /\ updates'[i] = updates[i]
          \/ i = Len(updates) + 1 /\ updates'[i] = new
    BY <1>b, <2>1
  <2>3. Older(slots[s], snapshot[s]) /\ Older(snapshot[s], snapshot[s])
    BY <1>a, OlderIsOrder DEF OrderInv
  <2>4. \A i \in DOMAIN updates' : Older(slots[updates'[i].slot], updates'[i].groups)
                                   /\ Older(updates'[i].groups, snapshot[updates'[i].slot])
    BY <2>2, <2>3 DEF OrderInv
  <2>5. \A i \in DOMAIN updates : i < Len(updates) + 1 /\ i \in Nat
    BY <1>b
  <2>6. ASSUME NEW i \in DOMAIN updates', NEW j \in DOMAIN updates', i < j,
               updates'[i].slot = updates'[j].slot
        PROVE  Older(updates'[i].groups, updates'[j].groups)
    <3>1. CASE j \in DOMAIN updates
      <4>1. i \in DOMAIN updates /\ updates'[i] = updates[i] /\ updates'[j] = updates[j]
        BY <1>b, <2>1, <2>6, <3>1
      <4>2. updates[i].slot = updates[j].slot /\ j \in DOMAIN updates
        BY <2>6, <3>1, <4>1
      <4>3. Older(updates[i].groups, updates[j].groups)
        BY <1>d, <2>6, <4>1, <4>2
      <4>4. QED
        BY <4>1, <4>3
    <3>2. CASE j \notin DOMAIN updates
      <4>1. updates'[j] = new /\ i \in DOMAIN updates /\ updates'[i] = updates[i]
        BY <1>b, <2>1, <2>6, <3>2
      <4>2. updates[i].slot = s
        BY <2>6, <4>1
      <4>3. QED
        BY <4>1, <4>2 DEF OrderInv
    <3>3. QED
      BY <3>1, <3>2
  <2>7. QED
    BY <2>1, <2>4, <2>6 DEF OrderInv
\* The merger takes one.
<1>5. CASE Merge
  <2> DEFINE u == updates[1]
  <2>1. updates # <<>> /\ updates' = Tail(updates) /\ 1 \in DOMAIN updates
    BY <1>5, <1>b DEF Merge
  <2>2. slots' = [slots EXCEPT ![u.slot] = u.groups] /\ UNCHANGED <<store, snapshot, view>>
    <3> HIDE DEF Update
    <3>1. Head(updates) = updates[1]
      BY <1>b, <2>1
    <3>2. QED
      BY <1>5, <3>1 DEF Merge
  <2>3. u.slot \in Sources /\ u.groups \in Snapshot
    BY <1>c, <2>1
  <2>4. slots' \in [Sources -> Snapshot] /\ slots'[u.slot] = u.groups
        /\ \A r \in Sources : r # u.slot => slots'[r] = slots[r]
    BY <1>a, <2>2, <2>3
  <2>5. Older(slots[u.slot], u.groups) /\ Older(u.groups, snapshot[u.slot])
    BY <2>1 DEF OrderInv
  <2>6. \A r \in Sources : Older(slots[r], slots'[r]) /\ Older(slots'[r], snapshot[r])
    BY <1>a, <2>4, <2>5, OlderIsOrder DEF OrderInv
  <2>7. \A r \in Sources : Older(view[r], slots'[r])
    BY <1>a, <2>4, <2>6, OlderIsOrder DEF OrderInv
  <2>8. \A i \in DOMAIN updates' : /\ i \in Nat /\ i + 1 \in DOMAIN updates /\ 1 < i + 1
                                   /\ updates'[i] = updates[i + 1]
    BY <1>b, <2>1
  <2>9. \A i \in DOMAIN updates' :
          updates'[i].slot = u.slot => Older(u.groups, updates'[i].groups)
    BY <2>1, <2>8 DEF OrderInv
  <2>10. \A i \in DOMAIN updates' : updates'[i].slot \in Sources
    BY <1>c, <2>8
  <2>11. \A i \in DOMAIN updates' : Older(slots'[updates'[i].slot], updates'[i].groups)
    <3> TAKE i \in DOMAIN updates'
    <3>1. CASE updates'[i].slot = u.slot
      BY <2>4, <2>9, <3>1
    <3>2. CASE updates'[i].slot # u.slot
      BY <2>4, <2>8, <2>10, <3>2 DEF OrderInv
    <3>3. QED
      BY <3>1, <3>2
  <2>12. \A i \in DOMAIN updates' : Older(updates'[i].groups, snapshot[updates'[i].slot])
    BY <2>8 DEF OrderInv
  <2>13. ASSUME NEW i \in DOMAIN updates', NEW j \in DOMAIN updates', i < j,
                updates'[i].slot = updates'[j].slot
         PROVE  Older(updates'[i].groups, updates'[j].groups)
    <3>1. i + 1 < j + 1
      BY <2>8, <2>13
    <3>2. QED
      BY <2>8, <2>13, <3>1 DEF OrderInv
  <2>14. QED
    BY <2>2, <2>6, <2>7, <2>11, <2>12, <2>13 DEF OrderInv
<1>6. CASE Borrow
  <2>1. \A s \in Sources : Older(slots[s], slots[s])
    BY <1>a, OlderIsOrder
  <2>2. view' = slots /\ UNCHANGED <<store, snapshot, updates, slots>>
    BY <1>6 DEF Borrow
  <2>3. QED
    BY <2>1, <2>2 DEF OrderInv
<1>7. CASE UNCHANGED <<store, snapshot, updates, slots, view>>
  BY <1>7 DEF OrderInv
<1>8. QED
  BY <1>2, <1>3, <1>4, <1>5, <1>6, <1>7
  DEF Next, Notify, SourceStep, Connect, Synced, Build, SendUpdate, Woken, Absorb, Quiet,
      Refresh, MergerEnds, DropReceiver

\* A target set that run_job acted on is never replaced by an older one.
THEOREM ViewsNeverGoBack == Spec => ViewsAdvance
<1>1. TypeOK /\ OrderInv /\ [Next]_vars =>
        [\A s \in Sources, k \in Stores : view'[s][k] >= view[s][k]]_vars
  <2> SUFFICES ASSUME TypeOK, OrderInv, Next, NEW s \in Sources, NEW k \in Stores
               PROVE  view'[s][k] >= view[s][k]
    OBVIOUS
  <2>1. view[s][k] \in Nat /\ slots[s][k] \in Nat
    BY DEF TypeOK
  <2>2. CASE Borrow
    BY <2>1, <2>2 DEF Borrow, OrderInv, Older
  <2>3. CASE UNCHANGED view
    BY <2>1, <2>3
  <2>4. QED
    BY <2>2, <2>3
    DEF Next, Rewrite, WatchEvent, Notify, SourceStep, Connect, Synced, Build, ReadStore,
        SendUpdate, Woken, Absorb, Quiet, Refresh, Merge, MergerEnds, DropReceiver
<1>2. Spec => []OrderInv
  BY TypeCorrect, InitOrder, StepOrder, PTL DEF Spec
<1>3. QED
  BY <1>1, <1>2, TypeCorrect, PTL DEF Spec, ViewsAdvance
=============================================================================
