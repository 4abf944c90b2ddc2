------------------------------ MODULE Lifecycle ------------------------------
(***************************************************************************)
(* The process: main's loop over configurations, the signals and lifecycle *)
(* requests that end one turn of it, and the web task that hands requests  *)
(* over and waits for the answer with a time limit of its own.             *)
(*                                                                         *)
(* The pipeline of a turn is reduced to being started, stopped (ScrapePool *)
(* shows that the jobs end) and drained (RemoteWrite shows that the senders*)
(* end unless their endpoint fails for ever).                              *)
(***************************************************************************)
EXTENDS Naturals, Sequences, FiniteSets

CONSTANTS
  Configs,            \* what the configuration file may hold
  Loads,              \* those load_config accepts
  Spawns,             \* those remote_write::spawn accepts as well
  Requests,           \* HTTP requests to the lifecycle API
  Quits,              \* those for /-/quit; the others are for /-/reload
  LifecycleCapacity   \* 4 in the code

LifecycleAssumption ==
  /\ Spawns \subseteq Loads /\ Loads \subseteq Configs
  /\ Quits \subseteq Requests
  /\ LifecycleCapacity \in Nat \ {0}

ASSUME LifecycleAssumption

VARIABLES
  file,      \* the configuration file, rewritten at any time
  config,    \* the configuration main works with
  main,      \* where main stands
  reason,    \* StopReason of the running turn, once it has one
  ready,     \* WebState::ready
  term,      \* a SIGTERM not yet received: signals coalesce
  hup,       \* a SIGHUP not yet received
  int,       \* a SIGINT: not yet received, or lost (history)
  queue,     \* the lifecycle channel
  request    \* [r] the connection of request r

mainVars == <<config, main, reason, ready>>
signals == <<term, hup, int>>
vars == <<file, mainVars, signals, queue, request>>

\* The process is gone, and its connections with it.
Ended == main \in {"exited", "failed", "killed"}

\* The connection still waits for an answer; the channel's end is there.
Open(r) == request[r] \in {"sending", "waiting"}

-----------------------------------------------------------------------------
Init ==
  /\ file \in Configs
  /\ config = file
  /\ main = "loading"
  /\ reason = "none"
  /\ ready = FALSE
  /\ term = FALSE
  /\ hup = FALSE
  /\ int = "none"
  /\ queue = <<>>
  /\ request = [r \in Requests |-> "new"]

Edit(c) ==
  /\ file' = c
  /\ UNCHANGED <<mainVars, signals, queue, request>>

SendTerm ==
  /\ term' = TRUE
  /\ UNCHANGED <<file, mainVars, hup, int, queue, request>>

SendHup ==
  /\ hup' = TRUE
  /\ UNCHANGED <<file, mainVars, term, int, queue, request>>

\* SIGTERM and SIGHUP have receivers for the life of the process; ctrl_c() is
\* made anew in every round of wait_for_stop and hears what is sent after its
\* first poll. Before the first of them a SIGINT has its default effect.
SendInt ==
  /\ UNCHANGED <<file, config, reason, ready, term, hup, queue, request>>
  /\ \/ /\ main = "running"
        /\ int' = "pending"
        /\ UNCHANGED main
     \/ /\ main \in {"loading", "spawning"} /\ ~ready
        /\ main' = "killed"
        /\ UNCHANGED int
     \/ /\ \/ main \in {"returned", "stopping", "draining"}
           \/ main = "spawning" /\ ready
        /\ int' = "lost"
        /\ UNCHANGED main

\* lifecycle_request, in a task of its own.
Post(r) ==
  /\ ~Ended
  /\ request[r] = "new"
  /\ request' = [request EXCEPT ![r] = "sending"]
  /\ UNCHANGED <<file, mainVars, signals, queue>>

\* Mutant: the channel is unbounded.
EnqueueUnbounded(r) ==
  /\ ~Ended
  /\ request[r] = "sending"
  /\ queue' = Append(queue, r)
  /\ request' = [request EXCEPT ![r] = "waiting"]
  /\ UNCHANGED <<file, mainVars, signals>>

Enqueue(r) ==
  /\ ~Ended
  /\ request[r] = "sending"
  /\ Len(queue) < LifecycleCapacity
  /\ queue' = Append(queue, r)
  /\ request' = [request EXCEPT ![r] = "waiting"]
  /\ UNCHANGED <<file, mainVars, signals>>

\* serve gives a connection five seconds; what it has queued stays queued.
TimeOut(r) ==
  /\ ~Ended
  /\ Open(r)
  /\ request' = [request EXCEPT ![r] = "timed out"]
  /\ UNCHANGED <<file, mainVars, signals, queue>>

\* respond.send, which a connection that timed out does not hear.
Answer(r, outcome) ==
  request' = [request EXCEPT ![r] = IF Open(r) THEN outcome ELSE @]

-----------------------------------------------------------------------------
\* run

Load ==
  /\ main = "loading"
  /\ config' = file
  /\ main' = IF file \in Loads THEN "spawning" ELSE "failed"
  /\ UNCHANGED <<file, reason, ready, signals, queue, request>>

\* Mutant: each turn installs its signal handlers anew.
SpawnRearms ==
  /\ main = "spawning"
  /\ IF config \in Spawns
     THEN main' = "running" /\ ready' = TRUE
     ELSE main' = "failed" /\ UNCHANGED ready
  /\ reason' = "none"
  /\ term' = FALSE /\ hup' = FALSE
  /\ UNCHANGED <<file, config, int, queue, request>>

\* remote_write::spawn resolves the endpoints' credentials and certificates;
\* then the jobs and the self-monitor are spawned.
Spawn ==
  /\ main = "spawning"
  /\ IF config \in Spawns
     THEN main' = "running" /\ ready' = TRUE
     ELSE main' = "failed" /\ UNCHANGED ready
  /\ reason' = "none"
  /\ UNCHANGED <<file, config, signals, queue, request>>

\* wait_for_stop returns.
Stop(why) ==
  /\ main' = "returned"
  /\ reason' = why
  /\ UNCHANGED ready

\* Another branch of select! is taken: the ctrl_c() of this round is dropped.
Relisten == int' = IF int = "pending" THEN "lost" ELSE int

ReceiveInt ==
  /\ main = "running"
  /\ int = "pending"
  /\ int' = "none"
  /\ Stop("shutdown")
  /\ UNCHANGED <<file, config, term, hup, queue, request>>

ReceiveTerm ==
  /\ main = "running"
  /\ term
  /\ term' = FALSE
  /\ Relisten
  /\ Stop("shutdown")
  /\ UNCHANGED <<file, config, hup, queue, request>>

\* Load the file; a broken one keeps the current configuration running.
TryReload ==
  \/ /\ file \in Loads
     /\ config' = file
     /\ Stop("reload")
  \/ /\ file \notin Loads
     /\ UNCHANGED mainVars

ReceiveHup ==
  /\ main = "running"
  /\ hup
  /\ hup' = FALSE
  /\ Relisten
  /\ TryReload
  /\ UNCHANGED <<file, term, queue, request>>

QuitFor(r) ==
  /\ r \in Quits
  /\ Stop("shutdown")
  /\ Answer(r, "ok")
  /\ UNCHANGED config

\* Mutant: a reload whose connection has given up is passed over.
ReloadForOpen(r) ==
  /\ r \notin Quits
  /\ IF Open(r)
     THEN TryReload /\ Answer(r, IF file \in Loads THEN "ok" ELSE "error")
     ELSE UNCHANGED <<mainVars, request>>

\* Whether anybody still waits for the answer makes no difference.
ReloadFor(r) ==
  /\ r \notin Quits
  /\ TryReload
  /\ Answer(r, IF file \in Loads THEN "ok" ELSE "error")

\* Mutant: the request is answered before it is taken from the channel.
ReceiveRequestPeeks ==
  /\ main = "running"
  /\ queue # <<>>
  /\ Relisten
  /\ QuitFor(Head(queue))
  /\ UNCHANGED <<file, term, hup, queue>>

ReceiveRequest ==
  /\ main = "running"
  /\ queue # <<>>
  /\ queue' = Tail(queue)
  /\ Relisten
  /\ QuitFor(Head(queue)) \/ ReloadFor(Head(queue))
  /\ UNCHANGED <<file, term, hup>>

\* A shutdown withdraws readiness, a reload does not; whoever asked for either
\* may have read the answer by then.  Then the shutdown signal is sent.
Withdraw ==
  /\ main = "returned"
  /\ main' = "stopping"
  /\ ready' = (reason = "reload" /\ ready)
  /\ UNCHANGED <<file, config, reason, signals, queue, request>>

\* Every job and the self-monitor have ended; the last handle is dropped.
JoinScrapes ==
  /\ main = "stopping"
  /\ main' = "draining"
  /\ UNCHANGED <<file, config, reason, ready, signals, queue, request>>

\* The senders have flushed and ended.
JoinSenders ==
  /\ main = "draining"
  /\ main' = IF reason = "shutdown" THEN "exited" ELSE "spawning"
  /\ UNCHANGED <<file, config, reason, ready, signals, queue, request>>

Main ==
  \/ Load
  \/ Spawn
  \/ ReceiveInt
  \/ ReceiveTerm
  \/ ReceiveHup
  \/ ReceiveRequest
  \/ Withdraw
  \/ JoinScrapes
  \/ JoinSenders

Next ==
  \/ \E c \in Configs : Edit(c)
  \/ SendTerm
  \/ SendHup
  \/ SendInt
  \/ \E r \in Requests : Post(r) \/ Enqueue(r) \/ TimeOut(r)
  \/ Main

Spec == Init /\ [][Next]_vars

\* main is polled, the pipeline ends when stopped (see the header), and select!
\* does not pass a branch that is ready time and again over for ever.
Fairness ==
  /\ WF_vars(Main)
  /\ SF_vars(ReceiveInt) /\ SF_vars(ReceiveTerm) /\ SF_vars(ReceiveHup)
  /\ SF_vars(ReceiveRequest)

FairSpec == Spec /\ Fairness
-----------------------------------------------------------------------------
\* Properties

TypeOK ==
  /\ file \in Configs /\ config \in Configs
  /\ main \in {"loading", "spawning", "running", "returned", "stopping", "draining",
               "exited", "failed", "killed"}
  /\ reason \in {"none", "reload", "shutdown"}
  /\ ready \in BOOLEAN /\ term \in BOOLEAN /\ hup \in BOOLEAN
  /\ int \in {"none", "pending", "lost"}
  /\ queue \in Seq(Requests) /\ Len(queue) <= LifecycleCapacity
  /\ request \in [Requests -> {"new", "sending", "waiting", "ok", "error", "timed out"}]

\* "a failed reload keeps the current config running and returns 500" (the
\* README): a process that was scraping does not end by failing, and a reload
\* that was answered 200 is not followed by a failure.
FailedReloadKeepsRunning ==
  [][main' = "failed" => ~ready /\ \A r \in Requests \ Quits : request[r] # "ok"]_vars

\* A quit that was answered is the last thing the process does: no reload
\* queued before, behind or beside it starts another pipeline, and /-/ready turns
\* to 503 before anything is stopped.
NothingAfterQuit ==
  (\E r \in Quits : request[r] = "ok") =>
    /\ main \in {"returned", "stopping", "draining", "exited"}
    /\ reason = "shutdown" /\ (ready => main = "returned")

\* A request still in the channel is one nobody has answered: an answer never
\* overtakes the work, and no request is carried out twice.
QueuedOnce ==
  \A k, l \in DOMAIN queue :
    /\ request[queue[k]] \in {"waiting", "timed out"}
    /\ queue[k] = queue[l] => k = l

\* A SIGINT ends the process ("SIGINT received; stopping scrapes and flushing"), whatever
\* the process is doing when it comes.
IntEnds == int # "none" ~> Ended

Queued(r) == \E k \in DOMAIN queue : queue[k] = r

\* A SIGTERM ends the process, also when it comes in the middle of a reload; so
\* does a quit in the channel, also if its connection gave up long ago.
EndTakesEffect == (term \/ \E r \in Quits : Queued(r)) ~> Ended

\* A SIGHUP is never lost, nor a reload in the channel, whoever still waits for its
\* answer: one sent while the last reload drains is acted on afterwards, with the
\* file of that time.
ReloadTakesEffect ==
  \A c \in Spawns :
    (file = c /\ (hup \/ \E r \in Requests \ Quits : Queued(r))) ~>
      (config = c \/ file # c \/ Ended \/ reason = "shutdown")
=============================================================================
