------------------------------- MODULE Discovery -------------------------------
(***************************************************************************)
(* Target discovery of one job: the sources (file_sd, one task per         *)
(* kubernetes_sd entry), the bounded channel their snapshots go through,   *)
(* the merger task with a slot per source, and the watch channel from which*)
(* run_job borrows.                                                        *)
(*                                                                         *)
(* What a source reads, a file or the reflector store of one resource kind,*)
(* is reduced to the number of changes it has seen: 0 is a store that was  *)
(* not listed yet, and a snapshot says which version of each store it was  *)
(* built from.                                                             *)
(***************************************************************************)
EXTENDS Naturals, Sequences, FiniteSets

CONSTANTS
  Sources,         \* the dynamic sources, one slot each
  Kube,            \* those that are kubernetes_sd entries
  Stores,          \* files and reflector stores
  StoresOf,        \* [Sources -> SUBSET Stores]
  NotifyCapacity,  \* 64 in the code
  MaxVersion       \* [Stores -> Nat] bound: changes of a store

DiscoveryAssumption ==
  /\ IsFiniteSet(Sources)
  /\ Kube \subseteq Sources
  /\ StoresOf \in [Sources -> SUBSET Stores]
  /\ \A s, r \in Sources : s # r => StoresOf[s] \cap StoresOf[r] = {}
  /\ NotifyCapacity \in Nat \ {0}
  /\ MaxVersion \in [Stores -> Nat]

ASSUME DiscoveryAssumption

VARIABLES
  store,     \* [k] the version of what the source can read
  untold,    \* [k] the watcher has an event it has not signalled yet
  notify,    \* [s] permits in the notify channel
  pc,        \* [s] where the source's task stands
  toRead,    \* [s] stores the running build has not read
  snapshot,  \* [s] what it read: the version of each store
  updates,   \* the channel to the merger
  slots,     \* [s] the merger's slots; the watch channel holds their union
  merging,   \* the merger task runs
  receiver,  \* run_job holds the receiving side of the watch channel
  unseen,    \* the watch channel holds a value not borrowed yet
  view       \* what run_job borrowed last

sourceVars == <<pc, toRead, snapshot>>
consumerVars == <<receiver, unseen, view>>
vars == <<store, untold, notify, sourceVars, updates, slots, merging, consumerVars>>

Snapshot == [Stores -> Nat]
Nothing == [k \in Stores |-> 0]
Update == [slot : Sources, groups : Snapshot]

\* update_tx's capacity
UpdateCapacity ==
  2 * (IF Sources = {} THEN 1 ELSE Cardinality(Sources))

-----------------------------------------------------------------------------
Init ==
  /\ store = Nothing
  /\ untold = [k \in Stores |-> FALSE]
  /\ notify = [s \in Sources |-> 0]
  /\ pc = [s \in Sources |-> IF s \in Kube THEN "connecting" ELSE "waiting"]
  /\ toRead = [s \in Sources |-> {}]
  /\ snapshot = [s \in Sources |-> Nothing]
  /\ updates = <<>>
  /\ slots = [s \in Sources |-> Nothing]
  /\ merging = TRUE
  /\ receiver = TRUE
  /\ unseen = FALSE
  /\ view = slots

Move(s, from, to) ==
  /\ pc[s] = from
  /\ pc' = [pc EXCEPT ![s] = to]

\* A file of a file_sd source is rewritten.
Rewrite(s, k) ==
  /\ s \notin Kube /\ k \in StoresOf[s]
  /\ store[k] < MaxVersion[k]
  /\ store' = [store EXCEPT ![k] = @ + 1]
  /\ UNCHANGED <<untold, notify, sourceVars, updates, slots, merging, consumerVars>>

\* A watch event reaches the reflector: it changes what targets are built from
\* (the initial list is the first to), or, as a heartbeat does, nothing of it.
WatchEvent(s, k) ==
  /\ s \in Kube /\ k \in StoresOf[s]
  /\ pc[s] \notin {"connecting", "ended"}
  /\ ~untold[k]
  /\ \/ /\ store[k] < MaxVersion[k]
        /\ store' = [store EXCEPT ![k] = @ + 1]
     \/ /\ store[k] > 0
        /\ UNCHANGED store
  /\ untold' = [untold EXCEPT ![k] = TRUE]
  /\ UNCHANGED <<notify, sourceVars, updates, slots, merging, consumerVars>>

\* Mutant: the notify channel has no bound.
NotifyAlways(s, k) ==
  /\ k \in StoresOf[s] /\ s \in Kube
  /\ untold[k] /\ notify[s] <= NotifyCapacity
  /\ untold' = [untold EXCEPT ![k] = FALSE]
  /\ notify' = [notify EXCEPT ![s] = @ + 1]
  /\ UNCHANGED <<store, sourceVars, updates, slots, merging, consumerVars>>

\* watch_resource: try_send, whose failure on a full channel is ignored.
Notify(s, k) ==
  /\ k \in StoresOf[s] /\ s \in Kube
  /\ untold[k]
  /\ untold' = [untold EXCEPT ![k] = FALSE]
  /\ notify' = [notify EXCEPT ![s] = IF @ < NotifyCapacity THEN @ + 1 ELSE @]
  /\ UNCHANGED <<store, sourceVars, updates, slots, merging, consumerVars>>

-----------------------------------------------------------------------------
\* sd_k8s::run and the file_sd task

\* Client and namespaces are resolved, or the entry is disabled.
Connect(s) ==
  /\ Move(s, "connecting", "syncing") \/ Move(s, "connecting", "ended")
  /\ UNCHANGED <<store, untold, notify, toRead, snapshot, updates, slots, merging,
                 consumerVars>>

\* build starts: the first time once every store is ready.
Build(s, from) ==
  /\ Move(s, from, "building")
  /\ toRead' = [toRead EXCEPT ![s] = StoresOf[s]]
  /\ UNCHANGED <<store, untold, snapshot, updates, slots, merging, consumerVars>>

Synced(s) ==
  /\ \A k \in StoresOf[s] : store[k] > 0
  /\ Build(s, "syncing")
  /\ UNCHANGED notify

\* The stores are read one after the other, while the watchers go on.
ReadStore(s) ==
  /\ pc[s] = "building"
  /\ \E k \in toRead[s] :
       /\ snapshot' = [snapshot EXCEPT ![s][k] = store[k]]
       /\ toRead' = [toRead EXCEPT ![s] = @ \ {k}]
  /\ UNCHANGED <<store, untold, notify, pc, updates, slots, merging, consumerVars>>

\* Mutant: the notifications are drained after the build, not before.
SendUpdateAndDrain(s) ==
  /\ toRead[s] = {}
  /\ merging /\ Len(updates) < UpdateCapacity
  /\ updates' = Append(updates, [slot |-> s, groups |-> snapshot[s]])
  /\ Move(s, "building", "waiting")
  /\ notify' = [notify EXCEPT ![s] = 0]
  /\ UNCHANGED <<store, untold, toRead, snapshot, slots, merging, consumerVars>>

\* Mutant: try_send, the snapshot is lost on a full channel.
TrySendUpdate(s) ==
  /\ toRead[s] = {}
  /\ Move(s, "building", "waiting")
  /\ updates' = IF Len(updates) < UpdateCapacity
                THEN Append(updates, [slot |-> s, groups |-> snapshot[s]])
                ELSE updates
  /\ UNCHANGED <<store, untold, notify, toRead, snapshot, slots, merging, consumerVars>>

\* update.send: waits for room, fails once the merger is gone.
SendUpdate(s) ==
  /\ toRead[s] = {}
  /\ IF merging
     THEN /\ Len(updates) < UpdateCapacity
          /\ updates' = Append(updates, [slot |-> s, groups |-> snapshot[s]])
          /\ Move(s, "building", "waiting")
     ELSE /\ Move(s, "building", "ended")
          /\ UNCHANGED updates
  /\ UNCHANGED <<store, untold, notify, toRead, snapshot, slots, merging, consumerVars>>

\* notify_rx.recv
Woken(s) ==
  /\ s \in Kube
  /\ notify[s] > 0
  /\ Move(s, "waiting", "absorbing")
  /\ notify' = [notify EXCEPT ![s] = @ - 1]
  /\ UNCHANGED <<store, untold, toRead, snapshot, updates, slots, merging, consumerVars>>

\* One more notification within DEBOUNCE of the last.
Absorb(s) ==
  /\ pc[s] = "absorbing"
  /\ notify[s] > 0
  /\ notify' = [notify EXCEPT ![s] = @ - 1]
  /\ UNCHANGED <<store, untold, sourceVars, updates, slots, merging, consumerVars>>

\* None for DEBOUNCE: the timeout polls the channel first.
Quiet(s) ==
  /\ notify[s] = 0
  /\ Build(s, "absorbing")
  /\ UNCHANGED notify

\* The ticker of the file_sd task.
Refresh(s) ==
  /\ s \notin Kube
  /\ Build(s, "waiting")
  /\ UNCHANGED notify

SourceStep(s) ==
  \/ Connect(s)
  \/ Synced(s)
  \/ ReadStore(s)
  \/ SendUpdate(s)
  \/ Woken(s)
  \/ Absorb(s)
  \/ Quiet(s)
  \/ Refresh(s)

-----------------------------------------------------------------------------
\* The merger task, and run_job's end of the watch channel

\* Mutant: an update that changes nothing withdraws the one before it.
MergeForgets ==
  /\ merging
  /\ updates # <<>>
  /\ slots' = [slots EXCEPT ![Head(updates).slot] = Head(updates).groups]
  /\ unseen' = (slots' # slots)
  /\ updates' = Tail(updates)
  /\ UNCHANGED <<store, untold, notify, sourceVars, merging, receiver, view>>

\* Mutant: the newest update is merged first.
MergeNewestFirst ==
  /\ merging
  /\ updates # <<>>
  /\ LET update == updates[Len(updates)]
     IN  slots' = [slots EXCEPT ![update.slot] = update.groups]
  /\ unseen' = (unseen \/ slots' # slots)
  /\ updates' = SubSeq(updates, 1, Len(updates) - 1)
  /\ UNCHANGED <<store, untold, notify, sourceVars, merging, receiver, view>>

Merge ==
  /\ merging
  /\ updates # <<>>
  /\ LET update == Head(updates)
     IN  slots' = [slots EXCEPT ![update.slot] = update.groups]
  /\ unseen' = (unseen \/ slots' # slots)
  /\ updates' = Tail(updates)
  /\ UNCHANGED <<store, untold, notify, sourceVars, merging, receiver, view>>

\* recv returns None once the last source has dropped its sender.
MergerEnds ==
  /\ merging
  /\ updates = <<>>
  /\ \A s \in Sources : pc[s] = "ended"
  /\ merging' = FALSE
  /\ UNCHANGED <<store, untold, notify, sourceVars, updates, slots, consumerVars>>

\* borrow_and_update
Borrow ==
  /\ receiver
  /\ unseen
  /\ view' = slots
  /\ unseen' = FALSE
  /\ UNCHANGED <<store, untold, notify, sourceVars, updates, slots, merging, receiver>>

\* run_job returns: shutdown, or a reload.
DropReceiver ==
  /\ receiver
  /\ receiver' = FALSE
  /\ UNCHANGED <<store, untold, notify, sourceVars, updates, slots, merging, unseen, view>>

Next ==
  \/ \E s \in Sources, k \in Stores :
       Rewrite(s, k) \/ WatchEvent(s, k) \/ Notify(s, k)
  \/ \E s \in Sources : SourceStep(s)
  \/ Merge
  \/ MergerEnds
  \/ Borrow
  \/ DropReceiver

Spec == Init /\ [][Next]_vars

\* Every task that can go on does, timers fire, and run_job comes back to its
\* select! as long as it holds the receiver.  A bounded tokio channel serves
\* its waiting senders in turn, so none is kept out by a busier one.
Fairness ==
  /\ \A s \in Sources : WF_vars(SourceStep(s)) /\ SF_vars(SendUpdate(s))
  /\ \A s \in Sources, k \in Stores : WF_vars(Notify(s, k))
  /\ WF_vars(Merge) /\ WF_vars(MergerEnds) /\ WF_vars(Borrow)

FairSpec == Spec /\ Fairness
-----------------------------------------------------------------------------
\* Properties

TypeOK ==
  /\ store \in Snapshot
  /\ untold \in [Stores -> BOOLEAN]
  /\ notify \in [Sources -> 0 .. NotifyCapacity]
  /\ pc \in [Sources -> {"connecting", "syncing", "building", "waiting",
                         "absorbing", "ended"}]
  /\ toRead \in [Sources -> SUBSET Stores]
  /\ snapshot \in [Sources -> Snapshot]
  /\ updates \in Seq(Update) /\ Len(updates) <= UpdateCapacity
  /\ slots \in [Sources -> Snapshot]
  /\ merging \in BOOLEAN /\ receiver \in BOOLEAN /\ unseen \in BOOLEAN
  /\ view \in [Sources -> Snapshot]

\* No change is slept through: a Kubernetes source that waits with nothing to
\* wake it has built from the newest version of all its stores, although
\* notifications are dropped when the channel is full, a debounce swallows
\* them all, and stores change while others are being read.
NoLostWakeup ==
  \A s \in Kube : pc[s] = "waiting" /\ notify[s] = 0 =>
    \A k \in StoresOf[s] : untold[k] \/ snapshot[s][k] = store[k]

\* Nothing published is slept through either: what run_job has not borrowed,
\* the channel still offers.
NoLostPublication == view # slots => unseen

\* The snapshots of a source reach run_job in the order they were built: a
\* target set it acted on is never replaced by an older one of that source.
ViewsAdvance ==
  [][\A s \in Sources, k \in Stores : view'[s][k] >= view[s][k]]_vars

\* When the watches fall silent, run_job ends up with what the stores hold,
\* whichever of the queues were full on the way.
Converges ==
  <>[](\A k \in Stores : ~untold[k]) =>
    <>[](receiver => \A s \in Sources : pc[s] \notin {"syncing", "ended"} =>
                       \A k \in StoresOf[s] : view[s][k] = store[k])

\* A source "rebuilds target groups (debounced) whenever a watched object
\* changes" (the head of sd_k8s.rs): a rebuild follows every change of a
\* synced store.
RebuildsOnChange ==
  \A s \in Kube : \A k \in StoresOf[s] :
    (pc[s] = "waiting" /\ snapshot[s][k] < store[k]) ~> snapshot[s][k] = store[k]

\* "merger is gone; shutting down" (the break in sd_k8s::run): when run_job
\* lets go of discovery, its sources end.
SourcesEndWithJob == ~receiver ~> \A s \in Sources : pc[s] = "ended"
=============================================================================
