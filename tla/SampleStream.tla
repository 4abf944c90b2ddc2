---------------------------- MODULE SampleStream ----------------------------
(***************************************************************************)
(* What remote-write promises to the scrape loops, with no queue, batching *)
(* or retry in it.  Every series handed to `send` gets the next number of  *)
(* a stream.  An endpoint either refuses a batch as a whole or owes it: the*)
(* owed series the endpoint wants (its policy on native histograms and     *)
(* write relabelling) are settled from the oldest on, each run of them     *)
(* either delivered once or given up once, and never out of order.         *)
(***************************************************************************)
EXTENDS Naturals, Sequences, FiniteSets

CONSTANTS
  Endpoints,   \* the configured remote-write endpoints
  Kinds,       \* what tells one series from another here
  Batches,     \* the batches the scrape loops may hand to send
  Unwanted,    \* [Endpoints -> SUBSET Kinds]: kinds an endpoint never sends
  MaxSeries    \* bound on the length of the stream

VARIABLES
  stream,      \* the kinds of the series handed to send, in order
  open,        \* a handle to send with still exists
  due,         \* [Endpoints -> set of stream positions still owed]
  got,         \* [Endpoints -> set of stream positions delivered]
  lost,        \* [Endpoints -> set of stream positions given up]
  dropped      \* series refused so far, over all endpoints

vars == <<stream, open, due, got, lost, dropped>>

\* The stream positions a batch of n series would take.
Positions(n) == (Len(stream) + 1) .. (Len(stream) + n)

\* S is a run of the oldest members of T.
Oldest(S, T) == S \subseteq T /\ \A i \in S, j \in T \ S : i < j

Init ==
  /\ stream = <<>>
  /\ open = TRUE
  /\ due = [e \in Endpoints |-> {}]
  /\ got = [e \in Endpoints |-> {}]
  /\ lost = [e \in Endpoints |-> {}]
  /\ dropped = 0

\* The batch joins the stream; the endpoints in refusing do not owe it.
Offer(batch, refusing) ==
  /\ open
  /\ Len(stream) + Len(batch) <= MaxSeries
  /\ stream' = stream \o batch
  /\ due' = [e \in Endpoints |->
               IF e \in refusing
               THEN due[e]
               ELSE due[e] \cup
                    {i \in Positions(Len(batch)) : stream'[i] \notin Unwanted[e]}]
  /\ dropped' = dropped + Cardinality(refusing) * Len(batch)
  /\ UNCHANGED <<open, got, lost>>

Deliver(e, run) ==
  /\ run # {}
  /\ Oldest(run, due[e])
  /\ due' = [due EXCEPT ![e] = @ \ run]
  /\ got' = [got EXCEPT ![e] = @ \cup run]
  /\ UNCHANGED <<stream, open, lost, dropped>>

GiveUp(e, run) ==
  /\ run # {}
  /\ Oldest(run, due[e])
  /\ due' = [due EXCEPT ![e] = @ \ run]
  /\ lost' = [lost EXCEPT ![e] = @ \cup run]
  /\ UNCHANGED <<stream, open, got, dropped>>

Close ==
  /\ open
  /\ open' = FALSE
  /\ UNCHANGED <<stream, due, got, lost, dropped>>

Settle(e) == \E run \in SUBSET due[e] : Deliver(e, run) \/ GiveUp(e, run)

Next ==
  \/ \E batch \in Batches, refusing \in SUBSET Endpoints : Offer(batch, refusing)
  \/ \E e \in Endpoints : Settle(e)
  \/ Close

Spec == Init /\ [][Next]_vars

\* An endpoint that owes something keeps settling it.
FairSpec == Spec /\ \A e \in Endpoints : WF_vars(Settle(e))
=============================================================================
