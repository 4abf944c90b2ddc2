-------------------------------- MODULE Agent --------------------------------
(***************************************************************************)
(* The process as a whole: main's turns (Lifecycle) around the tasks that  *)
(* each turn spawns and joins.  Scrape loops and the self-monitor hand     *)
(* batches to the sender, which stores them at an endpoint that may fail   *)
(* for a time or for ever; when a turn ends, main waits for the loops,     *)
(* closes the queue and waits for the sender to flush what it holds.       *)
(*                                                                         *)
(* Of ScrapePool there remain the loops of the configured targets, of      *)
(* RemoteWrite the number of batches a sender holds.                       *)
(***************************************************************************)
EXTENDS Lifecycle

CONSTANTS
  Targets,         \* scrape targets
  TargetsOf,       \* [Configs -> SUBSET Targets]
  Self,            \* the self-monitor, which scrapes the agent itself
  OutboxCapacity   \* batches that a sender holds

AgentAssumption ==
  /\ TargetsOf \in [Configs -> SUBSET Targets]
  /\ Self \notin Targets
  /\ OutboxCapacity \in Nat \ {0}

ASSUME AgentAssumption

VARIABLES
  loop,      \* [l] the task of a target or of the self-monitor
  sender,    \* the sender of the turn: its queue is open, closed or gone
  outbox,    \* batches of this turn that are not stored yet
  left,      \* batches that earlier turns left behind, not stored yet
  endpoint   \* whether the endpoint stores what it is sent

pipeline == <<loop, sender, outbox, left, endpoint>>
agentVars == <<vars, pipeline>>

Loops == Targets \cup {Self}
AllLeft == \A l \in Loops : loop[l] = "none"

-----------------------------------------------------------------------------
AgentInit ==
  /\ Init
  /\ loop = [l \in Loops |-> "none"]
  /\ sender = "none"
  /\ outbox = 0
  /\ left = 0
  /\ endpoint = "up"

\* The endpoint fails, or answers again; it matters while there is a sender.
Toggle ==
  /\ sender # "none"
  /\ endpoint' = IF endpoint = "up" THEN "failing" ELSE "up"
  /\ UNCHANGED <<vars, loop, sender, outbox, left>>

\* RemoteWriteHandle::send: a batch for a full queue is dropped.
Send == outbox' = IF outbox < OutboxCapacity THEN outbox + 1 ELSE outbox

\* A tick of a scrape loop, also when the shutdown has been signalled: select!
\* takes either.
BeginScrape(t) ==
  /\ loop[t] = "idle"
  /\ loop' = [loop EXCEPT ![t] = "scraping"]
  /\ UNCHANGED <<vars, sender, outbox, left, endpoint>>

EndScrape(t) ==
  /\ loop[t] = "scraping"
  /\ loop' = [loop EXCEPT ![t] = "idle"]
  /\ Send
  /\ UNCHANGED <<vars, sender, left, endpoint>>

\* A tick of the self-monitor, which awaits nothing else.
SelfReport ==
  /\ loop[Self] = "idle"
  /\ Send
  /\ UNCHANGED <<vars, loop, sender, left, endpoint>>

\* Mutant: the self-monitor does not listen to the shutdown.
LeaveLoopOfTarget(l) ==
  /\ loop[l] = "idle" /\ l # Self
  /\ main = "stopping"
  /\ loop' = [loop EXCEPT ![l] = "none"]
  /\ UNCHANGED <<vars, sender, outbox, left, endpoint>>

\* shutdown_tx has been sent by a main that is stopping.
LeaveLoop(l) ==
  /\ loop[l] = "idle"
  /\ main = "stopping"
  /\ loop' = [loop EXCEPT ![l] = "none"]
  /\ UNCHANGED <<vars, sender, outbox, left, endpoint>>

\* Endpoint::send gets through; while the endpoint fails it retries.
Deliver ==
  /\ endpoint = "up"
  /\ \/ outbox > 0 /\ outbox' = outbox - 1 /\ UNCHANGED left
     \/ left > 0 /\ left' = left - 1 /\ UNCHANGED outbox
  /\ UNCHANGED <<vars, loop, sender, endpoint>>

\* Endpoint::run returns once its queue is closed and flushed.
SenderEnds ==
  /\ sender = "closed"
  /\ outbox = 0
  /\ sender' = "none"
  /\ UNCHANGED <<vars, loop, outbox, left, endpoint>>

-----------------------------------------------------------------------------
\* main's steps that touch the pipeline

\* remote_write::spawn, scrape::spawn_jobs and the self-monitor.
SpawnPipeline ==
  /\ Spawn
  /\ IF config \in Spawns
     THEN /\ loop' = [l \in Loops |->
                        IF l \in TargetsOf[config] \cup {Self} THEN "idle" ELSE "none"]
          /\ sender' = "open"
          /\ left' = left + outbox
          /\ outbox' = 0
     ELSE UNCHANGED <<loop, sender, left, outbox>>
  /\ UNCHANGED endpoint

\* The tasks of jobs and self-monitor are awaited; the last handle is dropped.
JoinLoops ==
  /\ JoinScrapes
  /\ AllLeft
  /\ sender' = "closed"
  /\ UNCHANGED <<loop, outbox, left, endpoint>>

\* Mutant: the senders are left to themselves.
DrainDetached ==
  /\ JoinSenders
  /\ sender' = "none"
  /\ UNCHANGED <<loop, outbox, left, endpoint>>

\* The sender's task is awaited.
Drain ==
  /\ JoinSenders
  /\ sender = "none"
  /\ UNCHANGED pipeline

\* The steps of Lifecycle that leave the pipeline alone.
Lead ==
  /\ \/ \E c \in Configs : Edit(c)
     \/ SendTerm \/ SendHup \/ SendInt
     \/ \E r \in Requests : Post(r) \/ Enqueue(r) \/ TimeOut(r)
     \/ Load \/ ReceiveInt \/ ReceiveTerm \/ ReceiveHup \/ ReceiveRequest \/ Withdraw
  /\ UNCHANGED pipeline

MainStep ==
  \/ SpawnPipeline
  \/ JoinLoops
  \/ Drain
  \/ /\ Load \/ ReceiveInt \/ ReceiveTerm \/ ReceiveHup \/ ReceiveRequest \/ Withdraw
     /\ UNCHANGED pipeline

AgentNext ==
  \/ Lead
  \/ SpawnPipeline
  \/ JoinLoops
  \/ Drain
  \/ Toggle
  \/ \E t \in Targets : BeginScrape(t) \/ EndScrape(t)
  \/ SelfReport
  \/ \E l \in Loops : LeaveLoop(l)
  \/ Deliver
  \/ SenderEnds

AgentSpec == AgentInit /\ [][AgentNext]_agentVars

\* A scrape has a timeout; select! passes over for ever neither the shutdown in
\* favour of ticks nor the receivers of main (of a SIGINT nothing is asked); a
\* sender goes on while its endpoint answers, which nothing makes it do.
AgentFairness ==
  /\ WF_agentVars(MainStep)
  /\ SF_agentVars(ReceiveRequest /\ UNCHANGED pipeline)
  /\ SF_agentVars(ReceiveTerm /\ UNCHANGED pipeline)
  /\ SF_agentVars(ReceiveHup /\ UNCHANGED pipeline)
  /\ \A t \in Targets : WF_agentVars(EndScrape(t))
  /\ \A t \in Targets : SF_agentVars(LeaveLoop(t))
  /\ WF_agentVars(LeaveLoop(Self))
  /\ WF_agentVars(Deliver \/ SenderEnds)

\* The liveness properties are about an endpoint that answers in the end: while
\* it fails a sender retries for ever, and whoever waits for it waits.
RecoveringSpec == AgentSpec /\ AgentFairness /\ <>[](endpoint = "up")
-----------------------------------------------------------------------------
\* Properties

AgentTypeOK ==
  /\ TypeOK
  /\ loop \in [Loops -> {"none", "idle", "scraping"}]
  /\ sender \in {"none", "open", "closed"}
  /\ outbox \in 0 .. OutboxCapacity /\ left \in Nat
  /\ endpoint \in {"up", "failing"}

\* No request is lost or carried out twice, and a quit that was answered is final,
\* while tasks are joined and queues drained.
RequestsHonoured == NothingAfterQuit /\ QueuedOnce

\* A task that produces has a queue to send to, which is not closed under it: no
\* batch is lost to a handle dropped too early.
ProducersHaveQueue ==
  ~AllLeft => sender = "open" /\ main \in {"running", "returned", "stopping"}

\* While main waits, exactly the targets of the configuration it works with are
\* scraped, after any number of reloads, also of files that do not load.
ScrapesAsConfigured ==
  main = "running" => {l \in Loops : loop[l] # "none"} = TargetsOf[config] \cup {Self}

\* All that a turn has accepted is stored before the next turn scrapes and before
\* the process exits: samples of one series never reach the endpoint from two
\* senders at once, the older behind the newer.
TurnsApart ==
  /\ left = 0
  /\ main = "exited" => outbox = 0

\* The pipeline of a turn ends from the scraping side to the sending side, and
\* wholly before the next one starts.
TurnsInOrder == ProducersHaveQueue /\ TurnsApart /\ ScrapesAsConfigured

\* If the endpoint answers in the end, so does every reload and shutdown: a ready
\* process scrapes again.
ReadyScrapes ==
  main \in {"returned", "stopping", "draining", "spawning"} ~> main = "running" \/ Ended

\* A SIGTERM or a quit ends the process and a SIGHUP or a reload takes effect, also
\* those sent while a reload waits for loops in the middle of a scrape or for a
\* failing endpoint, and requests in the channel whose connection gave up.
CommandsTakeEffect == EndTakesEffect /\ ReloadTakesEffect
=============================================================================
