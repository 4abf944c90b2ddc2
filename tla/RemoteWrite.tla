----------------------------- MODULE RemoteWrite -----------------------------
(***************************************************************************)
(* The remote-write pipeline: a cloneable handle that fans a batch out to  *)
(* one bounded queue per endpoint, and one sender task per endpoint that   *)
(* batches, flushes, retries and finally drains.                           *)
(*                                                                         *)
(* A series handed to `send` is the position it takes in `stream`; its     *)
(* data is reduced to a kind.  The vectors of the code hold series in the  *)
(* order of their arrival, which is the order of the positions, so a vector*)
(* is modelled by the set of positions it holds.  Each sender touches only *)
(* its own queue, and the handle's `try_send`s to two endpoints commute, so*)
(* one call of send is one step.                                           *)
(***************************************************************************)
EXTENDS Naturals, Sequences, FiniteSets

CONSTANTS
  Endpoints,          \* remote_write entries of the configuration
  Kinds,              \* kinds of series
  NativeKinds,        \* the kinds that are native histograms
  Batches,            \* batches a scrape loop may hand to send
  SendNative,         \* endpoints with send_native_histograms
  RelabelDrops,       \* [Endpoints -> SUBSET Kinds] write_relabel_configs drops
  ZeroDeadline,       \* endpoints whose batch_send_deadline is zero
  Capacity,           \* [Endpoints -> Nat] queue_config.capacity
  MaxSamplesPerSend,  \* [Endpoints -> Nat] queue_config.max_samples_per_send
  NominalBatch,       \* 100 in the code
  MinSlots,           \* 16 in the code
  MaxSeries           \* bound: series handed to send

\* What QueueConfig::validate and the callers guarantee.
ConstantsAssumption ==
  /\ NativeKinds \subseteq Kinds
  /\ Batches \subseteq Seq(Kinds)
  /\ SendNative \subseteq Endpoints
  /\ ZeroDeadline \subseteq Endpoints
  /\ RelabelDrops \in [Endpoints -> SUBSET Kinds]
  /\ Capacity \in [Endpoints -> Nat \ {0}]
  /\ MaxSamplesPerSend \in [Endpoints -> Nat \ {0}]
  /\ NominalBatch \in Nat \ {0}
  /\ MinSlots \in Nat \ {0}
  /\ MaxSeries \in Nat
  /\ IsFiniteSet(Endpoints)

ASSUME ConstantsAssumption

VARIABLES
  stream,          \* the kinds of the series handed to send, in order
  open,            \* some clone of the handle still exists
  queue,           \* [e] the mpsc channel: a sequence of batches
  phase,           \* [e] where the sender task stands
  resume,          \* [e] where it continues when the running flush returns
  pending,         \* [e] series taken from the queue and not yet flushed
  pendingSamples,  \* [e] the counter the code keeps beside pending
  inflight,        \* [e] the series of the request being flushed
  received,        \* [e] requests as the receiver stored them, retries merged
  abandoned,       \* [e] accepted series the sender gave up
  dropped          \* RemoteWriteHandle::dropped

senderVars == <<phase, resume, pending, pendingSamples, inflight>>
vars == <<stream, open, queue, phase, resume, pending, pendingSamples,
          inflight, received, abandoned, dropped>>

Phase == {"starting", "idle", "splitting", "encoding", "sending", "backoff",
          "stopped", "panicked"}

-----------------------------------------------------------------------------
\* Helpers

QueueSlots(e) ==
  LET slots == Capacity[e] \div NominalBatch
  IN  IF slots > MinSlots THEN slots ELSE MinSlots

\* drop_native_histograms, which run applies unless send_native_histograms.
DropNativeHistograms(e, batch) ==
  {i \in batch : e \in SendNative \/ stream[i] \notin NativeKinds}

\* relabel::process over a batch, keeping the series it does not drop.
WriteRelabel(e, batch) == {i \in batch : stream[i] \notin RelabelDrops[e]}

\* Mutant: split_batch keeps the oldest series back.
TrailingSeries(series, cut) ==
  {chunk \in SUBSET series :
     /\ Cardinality(chunk) = cut
     /\ \A i \in chunk, j \in series \ chunk : i > j}

\* split_batch: the ways to cut the first `cut` series off (there is one).
LeadingSeries(series, cut) ==
  {chunk \in SUBSET series :
     /\ Cardinality(chunk) = cut
     /\ \A i \in chunk, j \in series \ chunk : i < j}

Queued(e) == UNION {queue[e][k] : k \in DOMAIN queue[e]}
ReceivedSeries(e) == UNION {received[e][k] : k \in DOMAIN received[e]}

\* The receiver already holds the request being flushed.
Stored(e) == \E k \in DOMAIN received[e] : received[e][k] = inflight[e]

-----------------------------------------------------------------------------
Init ==
  /\ stream = <<>>
  /\ open = TRUE
  /\ queue = [e \in Endpoints |-> <<>>]
  /\ phase = [e \in Endpoints |-> "starting"]
  /\ resume = [e \in Endpoints |-> "idle"]
  /\ pending = [e \in Endpoints |-> {}]
  /\ pendingSamples = [e \in Endpoints |-> 0]
  /\ inflight = [e \in Endpoints |-> {}]
  /\ received = [e \in Endpoints |-> <<>>]
  /\ abandoned = [e \in Endpoints |-> {}]
  /\ dropped = 0

\* Endpoints whose try_send fails: Full, or Closed after a panic.
Refusing ==
  {e \in Endpoints : phase[e] = "panicked" \/ Len(queue[e]) >= QueueSlots(e)}

\* Mutant: a refused batch counts as one.
SendCountsBatches(batch) ==
  /\ open
  /\ batch # <<>> /\ Endpoints # {}
  /\ Len(stream) + Len(batch) <= MaxSeries
  /\ queue' = [e \in Endpoints |->
                 IF e \in Refusing THEN queue[e]
                 ELSE Append(queue[e],
                             (Len(stream) + 1) .. (Len(stream) + Len(batch)))]
  /\ stream' = stream \o batch
  /\ dropped' = dropped + Cardinality(Refusing)
  /\ UNCHANGED <<open, senderVars, received, abandoned>>

\* RemoteWriteHandle::send
Send(batch) ==
  /\ open
  /\ batch # <<>> /\ Endpoints # {}
  /\ Len(stream) + Len(batch) <= MaxSeries
  /\ LET positions == (Len(stream) + 1) .. (Len(stream) + Len(batch))
     IN  queue' = [e \in Endpoints |->
                     IF e \in Refusing THEN queue[e]
                     ELSE Append(queue[e], positions)]
  /\ stream' = stream \o batch
  /\ dropped' = dropped + Cardinality(Refusing) * Len(batch)
  /\ UNCHANGED <<open, senderVars, received, abandoned>>

\* main drops the last clone once every scrape loop has ended.
DropHandle ==
  /\ open
  /\ open' = FALSE
  /\ UNCHANGED <<stream, queue, senderVars, received, abandoned, dropped>>

-----------------------------------------------------------------------------
\* Endpoint::run

\* The task's first poll.  tokio::time::interval panics on a zero period,
\* which drops the receiver and with it what was queued meanwhile.
Start(e) ==
  /\ phase[e] = "starting"
  /\ \/ /\ e \notin ZeroDeadline
        /\ phase' = [phase EXCEPT ![e] = "idle"]
        /\ UNCHANGED <<queue, abandoned>>
     \/ /\ e \in ZeroDeadline
        /\ phase' = [phase EXCEPT ![e] = "panicked"]
        /\ queue' = [queue EXCEPT ![e] = <<>>]
        /\ abandoned' = [abandoned EXCEPT ![e] = @ \cup Queued(e)]
  /\ UNCHANGED <<stream, open, resume, pending, pendingSamples, inflight,
                 received, dropped>>

\* flush up to its first await: relabel, and return at once if nothing is left.
Flush(e, chunk, returnTo) ==
  LET batch == WriteRelabel(e, chunk)
  IN  /\ inflight' = [inflight EXCEPT ![e] = batch]
      /\ phase' = [phase EXCEPT ![e] = IF batch = {} THEN returnTo ELSE "encoding"]
      /\ resume' = [resume EXCEPT ![e] = returnTo]

\* select! took a batch from the queue.
Receive(e) ==
  /\ phase[e] = "idle"
  /\ queue[e] # <<>>
  /\ LET batch == DropNativeHistograms(e, Head(queue[e]))
     IN  /\ pending' = [pending EXCEPT ![e] = @ \cup batch]
         /\ pendingSamples' = [pendingSamples EXCEPT ![e] = @ + Cardinality(batch)]
  /\ queue' = [queue EXCEPT ![e] = Tail(@)]
  /\ phase' = [phase EXCEPT ![e] = "splitting"]
  /\ UNCHANGED <<stream, open, resume, inflight, received, abandoned, dropped>>

\* Mutant: the loop runs until the buffer is empty, a full request at a time.
SplitEverything(e) ==
  /\ phase[e] = "splitting"
  /\ pending[e] # {}
  /\ LET have == Cardinality(pending[e])
         cut == IF have < MaxSamplesPerSend[e] THEN have ELSE MaxSamplesPerSend[e]
     IN  \E chunk \in LeadingSeries(pending[e], cut) :
           /\ pending' = [pending EXCEPT ![e] = @ \ chunk]
           /\ pendingSamples' = [pendingSamples EXCEPT ![e] = @ - MaxSamplesPerSend[e]]
           /\ Flush(e, chunk, "splitting")
  /\ UNCHANGED <<stream, open, queue, received, abandoned, dropped>>

\* One turn of `while pending_samples >= self.max_samples_per_send`.
SplitBatch(e) ==
  /\ phase[e] = "splitting"
  /\ pendingSamples[e] >= MaxSamplesPerSend[e]
  /\ LET have == Cardinality(pending[e])
         cut == IF have < MaxSamplesPerSend[e] THEN have ELSE MaxSamplesPerSend[e]
     IN  \E chunk \in LeadingSeries(pending[e], cut) :
           /\ pending' = [pending EXCEPT ![e] = @ \ chunk]
           /\ pendingSamples' = [pendingSamples EXCEPT ![e] = @ - Cardinality(chunk)]
           /\ Flush(e, chunk, "splitting")
  /\ UNCHANGED <<stream, open, queue, received, abandoned, dropped>>

\* Mutant: `if`, not `while`.
SplitOnce(e) ==
  /\ phase[e] = "splitting"
  /\ phase' = [phase EXCEPT ![e] = "idle"]
  /\ UNCHANGED <<stream, open, queue, resume, pending, pendingSamples, inflight,
                 received, abandoned, dropped>>

SplitDone(e) ==
  /\ phase[e] = "splitting"
  /\ pendingSamples[e] < MaxSamplesPerSend[e]
  /\ phase' = [phase EXCEPT ![e] = "idle"]
  /\ UNCHANGED <<stream, open, queue, resume, pending, pendingSamples, inflight,
                 received, abandoned, dropped>>

\* Mutant: the counter is not reset with the buffer.
DeadlineKeepsCount(e) ==
  /\ phase[e] = "idle"
  /\ pending[e] # {}
  /\ pending' = [pending EXCEPT ![e] = {}]
  /\ Flush(e, pending[e], "idle")
  /\ UNCHANGED <<stream, open, queue, pendingSamples, received, abandoned, dropped>>

\* select! saw the deadline first; with nothing pending it does nothing.
DeadlineTick(e) ==
  /\ phase[e] = "idle"
  /\ pending[e] # {}
  /\ pending' = [pending EXCEPT ![e] = {}]
  /\ pendingSamples' = [pendingSamples EXCEPT ![e] = 0]
  /\ Flush(e, pending[e], "idle")
  /\ UNCHANGED <<stream, open, queue, received, abandoned, dropped>>

\* Mutant: a closed queue ends the sender even if batches are left in it.
QueueClosedEarly(e) ==
  /\ phase[e] = "idle"
  /\ ~open
  /\ pending' = [pending EXCEPT ![e] = {}]
  /\ IF pending[e] = {}
     THEN /\ phase' = [phase EXCEPT ![e] = "stopped"]
          /\ UNCHANGED <<resume, inflight>>
     ELSE Flush(e, pending[e], "stopped")
  /\ UNCHANGED <<stream, open, queue, pendingSamples, received, abandoned, dropped>>

\* Mutant: the end of the queue does not end the loop.
QueueClosedIgnored(e) ==
  /\ phase[e] = "idle"
  /\ ~open
  /\ queue[e] = <<>>
  /\ UNCHANGED vars

\* recv returned None: the queue is closed and empty.  Flush the rest, stop.
QueueClosed(e) ==
  /\ phase[e] = "idle"
  /\ ~open
  /\ queue[e] = <<>>
  /\ pending' = [pending EXCEPT ![e] = {}]
  /\ IF pending[e] = {}
     THEN /\ phase' = [phase EXCEPT ![e] = "stopped"]
          /\ UNCHANGED <<resume, inflight>>
     ELSE Flush(e, pending[e], "stopped")
  /\ UNCHANGED <<stream, open, queue, pendingSamples, received, abandoned, dropped>>

-----------------------------------------------------------------------------
\* Endpoint::flush after the relabelling, and Endpoint::send_once

\* flush returns to where run called it; nothing is in flight any more.
FlushReturns(e) ==
  /\ inflight' = [inflight EXCEPT ![e] = {}]
  /\ phase' = [phase EXCEPT ![e] = resume[e]]

Encode(e) ==
  /\ phase[e] = "encoding"
  /\ phase' = [phase EXCEPT ![e] = "sending"]
  /\ UNCHANGED <<stream, open, queue, resume, pending, pendingSamples, inflight,
                 received, abandoned, dropped>>

\* Snappy refused the payload: the batch is dropped, counted nowhere.
CompressFails(e) ==
  /\ phase[e] = "encoding"
  /\ abandoned' = [abandoned EXCEPT ![e] = @ \cup inflight[e]]
  /\ FlushReturns(e)
  /\ UNCHANGED <<stream, open, queue, resume, pending, pendingSamples, received,
                 dropped>>

\* The receiver keeps a request; a repetition of one it holds changes nothing.
Store(e) ==
  received' = IF Stored(e) THEN received
              ELSE [received EXCEPT ![e] = Append(@, inflight[e])]

\* A 2xx answer.
SendSucceeds(e) ==
  /\ phase[e] = "sending"
  /\ Store(e)
  /\ FlushReturns(e)
  /\ UNCHANGED <<stream, open, queue, resume, pending, pendingSamples, abandoned,
                 dropped>>

\* A 4xx other than 429: the batch is dropped.
SendRejected(e) ==
  /\ phase[e] = "sending"
  /\ abandoned' = [abandoned EXCEPT ![e] = @ \cup (inflight[e] \ ReceivedSeries(e))]
  /\ FlushReturns(e)
  /\ UNCHANGED <<stream, open, queue, resume, pending, pendingSamples, received,
                 dropped>>

\* A transport error, a 5xx or a 429: the receiver may or may not have stored
\* the request, and the sender waits to try again.
SendFails(e) ==
  /\ phase[e] = "sending"
  /\ phase' = [phase EXCEPT ![e] = "backoff"]
  /\ Store(e) \/ UNCHANGED received
  /\ UNCHANGED <<stream, open, queue, resume, pending, pendingSamples, inflight,
                 abandoned, dropped>>

\* Mutant: the request is not sent again.
BackoffForgets(e) ==
  /\ phase[e] = "backoff"
  /\ FlushReturns(e)
  /\ UNCHANGED <<stream, open, queue, resume, pending, pendingSamples, received,
                 abandoned, dropped>>

BackoffElapsed(e) ==
  /\ phase[e] = "backoff"
  /\ phase' = [phase EXCEPT ![e] = "sending"]
  /\ UNCHANGED <<stream, open, queue, resume, pending, pendingSamples, inflight,
                 received, abandoned, dropped>>

\* Everything the sender task of e does on its own.
Sender(e) ==
  \/ Start(e)
  \/ Receive(e)
  \/ SplitBatch(e)
  \/ SplitDone(e)
  \/ DeadlineTick(e)
  \/ QueueClosed(e)
  \/ Encode(e)
  \/ CompressFails(e)
  \/ BackoffElapsed(e)

\* The answer of the endpoint to a request.
Answer(e) == SendSucceeds(e) \/ SendRejected(e) \/ SendFails(e)

\* The pipeline is over: no handle is left and every sender has ended.
Terminated ==
  /\ ~open
  /\ \A e \in Endpoints : phase[e] \in {"stopped", "panicked"}
  /\ UNCHANGED vars

Next ==
  \/ \E batch \in Batches : Send(batch)
  \/ DropHandle
  \/ \E e \in Endpoints : Sender(e) \/ Answer(e)
  \/ Terminated

Spec == Init /\ [][Next]_vars

\* tokio polls a woken sender; a request is answered or times out
\* (remote_timeout); an endpoint that is retried for ever settles a request
\* at some point.
Fairness ==
  \A e \in Endpoints :
    /\ WF_vars(Sender(e))
    /\ WF_vars(Answer(e))
    /\ SF_vars(SendSucceeds(e) \/ SendRejected(e))

FairSpec == Spec /\ Fairness
-----------------------------------------------------------------------------
\* Properties

TypeOK ==
  /\ stream \in Seq(Kinds)
  /\ open \in BOOLEAN
  /\ queue \in [Endpoints -> Seq(SUBSET Nat)]
  /\ phase \in [Endpoints -> Phase]
  /\ resume \in [Endpoints -> {"idle", "splitting", "stopped"}]
  /\ pending \in [Endpoints -> SUBSET Nat]
  /\ pendingSamples \in [Endpoints -> Nat]
  /\ inflight \in [Endpoints -> SUBSET Nat]
  /\ received \in [Endpoints -> Seq(SUBSET Nat)]
  /\ abandoned \in [Endpoints -> SUBSET Nat]
  /\ dropped \in Nat

\* The sender is inside flush, past the relabelling.
InFlush(e) == phase[e] \in {"encoding", "sending", "backoff"}

\* The sender will be back at the top of run's loop.
Looping(e) ==
  \/ phase[e] \in {"starting", "idle", "splitting"}
  \/ InFlush(e) /\ resume[e] # "stopped"

\* The counter run keeps beside its buffer never drifts from the buffer: not
\* over a partial split, a deadline flush or a chunk relabelled away.  (A drift
\* upwards would spin the split loop, one downwards would hold batches back.)
PendingSamplesExact ==
  \A e \in Endpoints : Looping(e) => pendingSamples[e] = Cardinality(pending[e])

\* No request exceeds max_samples_per_send, although the deadline and the
\* final flush send whatever is pending: back at select!, less than one full
\* request is pending.
RequestBounded ==
  \A e \in Endpoints :
    /\ Cardinality(inflight[e]) <= MaxSamplesPerSend[e]
    /\ phase[e] = "idle" => Cardinality(pending[e]) < MaxSamplesPerSend[e]

\* An endpoint never stores an older series after a newer one, and never one
\* series in two different requests, whatever was retried after it had been
\* stored and whichever of size, deadline and drain cut the requests.
ReceivedInOrder ==
  \A e \in Endpoints : \A k, l \in DOMAIN received[e] :
    k < l => \A i \in received[e][k], j \in received[e][l] : i < j

\* A sender that ended in order left nothing behind, and ended only because
\* no handle can queue any more.
StoppedIsDrained ==
  \A e \in Endpoints :
    phase[e] = "stopped" =>
      ~open /\ queue[e] = <<>> /\ pending[e] = {} /\ inflight[e] = {}

\* The pipeline implements the stream: what an endpoint owes, and wants, leaves
\* the queue, the buffer and the request in flight only by being stored once or
\* given up, oldest first; a refusal takes a whole batch and is counted.
Unwanted ==
  [e \in Endpoints |->
     RelabelDrops[e] \cup (IF e \in SendNative THEN {} ELSE NativeKinds)]
Wanted(e, series) == {i \in series : stream[i] \notin Unwanted[e]}
Due(e) ==
  Wanted(e, Queued(e) \cup pending[e] \cup (IF Stored(e) THEN {} ELSE inflight[e]))

Stream ==
  INSTANCE SampleStream WITH
    due  <- [e \in Endpoints |-> Due(e)],
    got  <- [e \in Endpoints |-> ReceivedSeries(e)],
    lost <- [e \in Endpoints |-> Wanted(e, abandoned[e])]

ImplementsStream == Stream!Spec
SettlesStream == Stream!FairSpec

\* Once the last handle is gone every sender flushes what it holds and ends
\* (the comment on spawn), provided its endpoint does not fail for ever.
DrainCompletes ==
  ~open ~> \A e \in Endpoints : phase[e] \in {"stopped", "panicked"}
=============================================================================
