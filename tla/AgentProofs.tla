----------------------------- MODULE AgentProofs -----------------------------
(***************************************************************************)
(* Theorems about Lifecycle: types, the finality of a quit, the channel of *)
(* lifecycle requests, and that a reload that fails keeps the process      *)
(* running wherever every configuration that loads can be spawned.  And    *)
(* about Agent: the pipeline of a turn begins after the one before has     *)
(* ended, scrapes what is configured and ends from the loops to the sender.*)
(***************************************************************************)
EXTENDS Agent, TLAPS

USE DEF vars, mainVars, signals, pipeline, agentVars

-----------------------------------------------------------------------------
\* Types

LEMMA InitTypes == Init => TypeOK
<1>1. Init => queue \in Seq(Requests) /\ Len(queue) <= LifecycleCapacity
  BY LifecycleAssumption DEF Init, LifecycleAssumption
<1>2. QED
  BY <1>1 DEF Init, TypeOK

\* What receiving a request does to the channel and the answers.
LEMMA AnswerTypes ==
  ASSUME TypeOK, NEW r \in Requests, NEW outcome \in {"ok", "error"}, Answer(r, outcome)
  PROVE  request' \in [Requests -> {"new", "sending", "waiting", "ok", "error", "timed out"}]
BY DEF TypeOK, Answer

\* The outcomes of a reload, taken over or not.
LEMMA ReloadTypes ==
  ASSUME TypeOK, TryReload
  PROVE  /\ config' \in Configs /\ main' \in {main, "returned"}
         /\ reason' \in {reason, "reload"} /\ ready' \in BOOLEAN
BY DEF TypeOK, TryReload, Stop

LEMMA StepTypes == TypeOK /\ [Next]_vars => TypeOK'
<1> SUFFICES ASSUME TypeOK, [Next]_vars PROVE TypeOK'
  OBVIOUS
<1>1. CASE \E c \in Configs : Edit(c)
  BY <1>1 DEF Edit, TypeOK
<1>2. CASE SendTerm \/ SendHup
  BY <1>2 DEF SendTerm, SendHup, TypeOK
<1>3. CASE SendInt
  BY <1>3 DEF SendInt, TypeOK
<1>4. CASE \E r \in Requests : Post(r)
  BY <1>4 DEF Post, TypeOK
<1>5. CASE \E r \in Requests : Enqueue(r)
  <2>1. PICK r \in Requests : Enqueue(r)
    BY <1>5
  <2>2. queue' \in Seq(Requests) /\ Len(queue') <= LifecycleCapacity
    <3>1. queue \in Seq(Requests) /\ queue' = Append(queue, r) /\ Len(queue) < LifecycleCapacity
      BY <2>1 DEF Enqueue, TypeOK
    <3>2. LifecycleCapacity \in Nat
      BY LifecycleAssumption DEF LifecycleAssumption
    <3>3. QED
      BY <3>1, <3>2
  <2>3. request' \in [Requests -> {"new", "sending", "waiting", "ok", "error", "timed out"}]
    BY <2>1 DEF Enqueue, TypeOK
  <2>4. QED
    BY <2>1, <2>2, <2>3 DEF Enqueue, TypeOK
<1>6. CASE \E r \in Requests : TimeOut(r)
  BY <1>6 DEF TimeOut, TypeOK
<1>7. CASE Load
  BY <1>7 DEF Load, TypeOK
<1>8. CASE Spawn
  BY <1>8 DEF Spawn, TypeOK
<1>9. CASE ReceiveInt
  BY <1>9 DEF ReceiveInt, Stop, TypeOK
<1>10. CASE ReceiveTerm
  BY <1>10 DEF ReceiveTerm, Stop, Relisten, TypeOK
<1>11. CASE ReceiveHup
  <2>1. UNCHANGED <<file, term, queue, request>> /\ hup' = FALSE
        /\ int' \in {"none", "pending", "lost"}
    BY <1>11 DEF ReceiveHup, Relisten, TypeOK
  <2>2. QED
    BY <1>11, <2>1, ReloadTypes DEF ReceiveHup, TypeOK
<1>12. CASE ReceiveRequest
  <2> DEFINE r == Head(queue)
  <2>1. r \in Requests /\ queue' \in Seq(Requests) /\ Len(queue') <= LifecycleCapacity
    <3>1. queue \in Seq(Requests) /\ queue # <<>> /\ queue' = Tail(queue)
          /\ Len(queue) <= LifecycleCapacity
      BY <1>12 DEF ReceiveRequest, TypeOK
    <3>2. LifecycleCapacity \in Nat
      BY LifecycleAssumption DEF LifecycleAssumption
    <3>3. QED
      BY <3>1, <3>2
  <2>2. UNCHANGED <<file, term, hup>> /\ int' \in {"none", "pending", "lost"}
    BY <1>12 DEF ReceiveRequest, Relisten, TypeOK
  <2>3. CASE QuitFor(r)
    BY <2>1, <2>2, <2>3, AnswerTypes DEF QuitFor, Stop, TypeOK
  <2>4. CASE ReloadFor(r)
    <3>1. request' \in [Requests -> {"new", "sending", "waiting", "ok", "error", "timed out"}]
      BY <2>1, <2>4, AnswerTypes DEF ReloadFor
    <3>2. QED
      BY <2>1, <2>2, <2>4, <3>1, ReloadTypes DEF ReloadFor, TypeOK
  <2>5. QED
    BY <1>12, <2>3, <2>4 DEF ReceiveRequest
<1>13. CASE JoinScrapes \/ Withdraw
  BY <1>13 DEF JoinScrapes, Withdraw, TypeOK
<1>14. CASE JoinSenders
  BY <1>14 DEF JoinSenders, TypeOK
<1>15. CASE UNCHANGED vars
  BY <1>15 DEF TypeOK
<1>16. QED
  BY <1>1, <1>2, <1>3, <1>4, <1>5, <1>6, <1>7, <1>8, <1>9, <1>10, <1>11, <1>12,
     <1>13, <1>14, <1>15 DEF Next, Main

\* Every variable keeps its type and the channel its bound.
THEOREM TypeCorrect == Spec => []TypeOK
BY InitTypes, StepTypes, PTL DEF Spec

-----------------------------------------------------------------------------
\* The requests

\* The channel holds a request once, and none that was answered: the one that is
\* received was its head and is nowhere else in it.
LEMMA StepQueuedOnce == TypeOK /\ QueuedOnce /\ [Next]_vars => QueuedOnce'
<1> SUFFICES ASSUME TypeOK, QueuedOnce, [Next]_vars PROVE QueuedOnce'
  OBVIOUS
<1> DEFINE Held == {"waiting", "timed out"}
<1>a. queue \in Seq(Requests)
  BY DEF TypeOK
<1>b. request \in [Requests -> {"new", "sending", "waiting", "ok", "error", "timed out"}]
  BY DEF TypeOK
<1>c. \A k \in DOMAIN queue : queue[k] \in Requests /\ request[queue[k]] \in Held
  <2> TAKE k \in DOMAIN queue
  <2>1. queue[k] \in Requests
    BY <1>a
  <2>2. request[queue[k]] \in Held
    BY DEF QueuedOnce
  <2>3. QED
    BY <2>1, <2>2
<1>d. \A k, l \in DOMAIN queue : queue[k] = queue[l] => k = l
  BY DEF QueuedOnce
<1>1. CASE UNCHANGED <<queue, request>>
  BY <1>1 DEF QueuedOnce
<1>2. ASSUME NEW r \in Requests, Post(r) PROVE QueuedOnce'
  <2>1. request[r] = "new" /\ queue' = queue /\ request' = [request EXCEPT ![r] = "sending"]
    BY <1>2 DEF Post
  <2>2. \A x \in Requests : request[x] \in Held => request'[x] = request[x]
    BY <1>b, <2>1
  <2>3. QED
    BY <1>c, <1>d, <2>1, <2>2 DEF QueuedOnce
<1>3. ASSUME NEW r \in Requests, Enqueue(r) PROVE QueuedOnce'
  <2>1. /\ request[r] = "sending" /\ queue' = Append(queue, r)
        /\ request' = [request EXCEPT ![r] = "waiting"]
    BY <1>3 DEF Enqueue
  <2>2. \A x \in Requests : request[x] \in Held => request'[x] = request[x] /\ x # r
    BY <1>b, <2>1
  <2>3. request'[r] \in Held
    BY <1>b, <2>1
  <2>4. \A k \in DOMAIN queue' :
          \/ k \in DOMAIN queue /\ queue'[k] = queue[k]
          \/ k = Len(queue) + 1 /\ queue'[k] = r
    BY <1>a, <2>1
  <2>5. \A k \in DOMAIN queue' : request'[queue'[k]] \in Held
    BY <1>c, <2>2, <2>3, <2>4
  <2>6. \A k, l \in DOMAIN queue' : queue'[k] = queue'[l] => k = l
    BY <1>c, <1>d, <2>2, <2>4
  <2>7. QED
    BY <2>5, <2>6 DEF QueuedOnce
<1>4. ASSUME NEW r \in Requests, TimeOut(r) PROVE QueuedOnce'
  <2>1. queue' = queue /\ request' = [request EXCEPT ![r] = "timed out"]
    BY <1>4 DEF TimeOut
  <2>2. \A x \in Requests : request[x] \in Held => request'[x] \in Held
    BY <1>b, <2>1
  <2>3. QED
    BY <1>c, <1>d, <2>1, <2>2 DEF QueuedOnce
<1>5. CASE ReceiveRequest
  <2> DEFINE r == Head(queue)
  <2>1. queue # <<>> /\ queue' = Tail(queue)
    BY <1>5 DEF ReceiveRequest
  <2>2. PICK outcome : request' = [request EXCEPT ![r] = outcome]
    BY <1>5 DEF ReceiveRequest, QuitFor, ReloadFor, Answer
  <2>3. \A k \in DOMAIN queue' : k \in Nat /\ k + 1 \in DOMAIN queue /\ queue'[k] = queue[k + 1]
    BY <1>a, <2>1
  <2>4. 1 \in DOMAIN queue /\ queue[1] = r
    BY <1>a, <2>1
  <2>5. \A k \in DOMAIN queue' : k + 1 # 1
    BY <1>a, <2>1
  <2>6. \A k \in DOMAIN queue' : queue'[k] # r
    BY <1>d, <2>3, <2>4, <2>5
  <2>7. \A x \in Requests : x # r => request'[x] = request[x]
    BY <1>b, <2>2
  <2>8. \A k \in DOMAIN queue' : request'[queue'[k]] \in Held
    <3> TAKE k \in DOMAIN queue'
    <3>1. k + 1 \in DOMAIN queue /\ queue'[k] = queue[k + 1] /\ queue'[k] # r
      BY <2>3, <2>6
    <3>2. request[queue[k + 1]] \in Held /\ queue[k + 1] \in Requests
      BY <1>c, <3>1
    <3>3. QED
      BY <2>7, <3>1, <3>2
  <2>9. \A k, l \in DOMAIN queue' : queue'[k] = queue'[l] => k + 1 = l + 1
    BY <1>d, <2>3
  <2>10. \A k, l \in DOMAIN queue' : queue'[k] = queue'[l] => k = l
    BY <2>3, <2>9
  <2>11. QED
    BY <2>8, <2>10 DEF QueuedOnce
<1>6. QED
  <2>1. CASE Next
    BY <1>1, <1>2, <1>3, <1>4, <1>5, <2>1
    DEF Next, Main, Edit, SendTerm, SendHup, SendInt, Load, Spawn, ReceiveInt, ReceiveTerm,
        ReceiveHup, Withdraw, JoinScrapes, JoinSenders
  <2>2. QED
    BY <1>1, <2>1

\* Nothing leads back from an answered quit.
LEMMA StepNothingAfterQuit ==
  TypeOK /\ NothingAfterQuit /\ [Next]_vars => NothingAfterQuit'
<1> SUFFICES ASSUME TypeOK, NothingAfterQuit, [Next]_vars,
                    NEW q \in Quits, request'[q] = "ok"
             PROVE  /\ main' \in {"returned", "stopping", "draining", "exited"}
                    /\ reason' = "shutdown" /\ (ready' => main' = "returned")
  BY DEF NothingAfterQuit
<1>1. q \in Requests
  BY LifecycleAssumption DEF LifecycleAssumption
<1>2. CASE request[q] = "ok"
  <2>1. /\ main \in {"returned", "stopping", "draining", "exited"}
        /\ reason = "shutdown" /\ (ready => main = "returned")
    BY <1>2 DEF NothingAfterQuit
  <2>2. QED
    <3>1. ~(Load \/ Spawn \/ ReceiveInt \/ ReceiveTerm \/ ReceiveHup \/ ReceiveRequest)
      BY <2>1 DEF Load, Spawn, ReceiveInt, ReceiveTerm, ReceiveHup, ReceiveRequest
    <3>2. CASE Withdraw
      <4>1. main' = "stopping" /\ reason' = "shutdown" /\ ~ready'
        BY <2>1, <3>2 DEF Withdraw
      <4>2. QED
        BY <4>1
    <3>3. CASE SendInt
      <4>1. main' = main /\ reason' = reason /\ ready' = ready
        BY <2>1, <3>3 DEF SendInt
      <4>2. QED
        BY <2>1, <4>1
    <3>4. CASE JoinScrapes \/ JoinSenders
      <4>1. ~ready /\ ready' = ready /\ reason' = reason
        BY <2>1, <3>4 DEF JoinScrapes, JoinSenders
      <4>2. main' \in {"draining", "exited"}
        BY <2>1, <3>4 DEF JoinScrapes, JoinSenders
      <4>3. QED
        BY <2>1, <4>1, <4>2
    <3>5. CASE UNCHANGED mainVars
      BY <2>1, <3>5
    <3>6. QED
      BY <3>1, <3>2, <3>3, <3>4, <3>5
      DEF Next, Main, Edit, SendTerm, SendHup, Post, Enqueue, TimeOut
<1>3. CASE request[q] # "ok"
  <2>1. request \in [Requests -> {"new", "sending", "waiting", "ok", "error", "timed out"}]
    BY DEF TypeOK
  <2>2. ReceiveRequest
    <3>1. \A r \in Requests, o \in {"sending", "waiting", "timed out"} :
            request' # [request EXCEPT ![r] = o]
      BY <1>1, <1>3, <2>1
    <3>2. request' # request
      BY <1>3
    <3>3. QED
      BY <3>1, <3>2
      DEF Next, Main, Edit, SendTerm, SendHup, SendInt, Post, Enqueue, TimeOut, Load, Spawn,
          ReceiveInt, ReceiveTerm, ReceiveHup, Withdraw, JoinScrapes, JoinSenders
  <2>3. q = Head(queue)
    BY <1>1, <1>3, <2>1, <2>2 DEF ReceiveRequest, QuitFor, ReloadFor, Answer
  <2>4. Stop("shutdown")
    BY <2>2, <2>3 DEF ReceiveRequest, QuitFor, ReloadFor
  <2>5. QED
    BY <2>4 DEF Stop
<1>4. QED
  BY <1>2, <1>3

LEMMA InitRequests == Init => NothingAfterQuit /\ QueuedOnce
<1>1. \A q \in Quits : q \in Requests
  BY LifecycleAssumption DEF LifecycleAssumption
<1>2. QED
  BY <1>1 DEF Init, NothingAfterQuit, QueuedOnce

\* A quit that was answered is the last thing the process does.
THEOREM QuitIsFinal == Spec => []NothingAfterQuit
BY TypeCorrect, InitRequests, StepNothingAfterQuit, PTL DEF Spec

\* What is in the channel has not been answered and is there once.
THEOREM ChannelIsExact == Spec => []QueuedOnce
BY TypeCorrect, InitRequests, StepQueuedOnce, PTL DEF Spec

-----------------------------------------------------------------------------
\* Reloads

\* The stretches of run that work with a configuration.
Working == {"spawning", "running", "returned", "stopping", "draining"}

\* Every configuration that is worked with was loaded; before the first one is,
\* nothing is ready and nothing was answered, and if all that load can be spawned
\* the process fails only there.
LoadedInv ==
  /\ main \in Working => config \in Loads
  /\ main = "loading" \/ (main = "failed" /\ Spawns = Loads) =>
       ~ready /\ \A r \in Requests : request[r] # "ok"

LEMMA InitLoaded == Init => LoadedInv
BY DEF Init, LoadedInv, Working

LEMMA StepLoaded == TypeOK /\ LoadedInv /\ [Next]_vars => LoadedInv'
<1> SUFFICES ASSUME TypeOK, LoadedInv, [Next]_vars PROVE LoadedInv'
  OBVIOUS
<1> USE DEF LoadedInv, Working
<1>1. CASE \E c \in Configs : Edit(c)
  BY <1>1 DEF Edit
<1>2. CASE SendTerm \/ SendHup \/ SendInt
  BY <1>2 DEF SendTerm, SendHup, SendInt
<1>3. CASE \E r \in Requests : Post(r) \/ Enqueue(r) \/ TimeOut(r)
  <2>1. PICK r \in Requests, o \in {"sending", "waiting", "timed out"} :
          request' = [request EXCEPT ![r] = o]
    BY <1>3 DEF Post, Enqueue, TimeOut
  <2>2. \A x \in Requests : request'[x] = "ok" => request[x] = "ok"
    BY <2>1 DEF TypeOK
  <2>3. UNCHANGED mainVars
    BY <1>3 DEF Post, Enqueue, TimeOut
  <2>4. QED
    BY <2>2, <2>3
<1>4. CASE Load \/ Spawn
  BY <1>4 DEF Load, Spawn
<1>5. CASE ReceiveInt \/ ReceiveTerm
  BY <1>5 DEF ReceiveInt, ReceiveTerm, Stop
<1>6. CASE ReceiveHup \/ ReceiveRequest
  BY <1>6 DEF ReceiveHup, ReceiveRequest, QuitFor, ReloadFor, TryReload, Stop
<1>7. CASE Withdraw \/ JoinScrapes \/ JoinSenders
  BY <1>7 DEF Withdraw, JoinScrapes, JoinSenders
<1>8. CASE UNCHANGED vars
  BY <1>8
<1>9. QED
  BY <1>1, <1>2, <1>3, <1>4, <1>5, <1>6, <1>7, <1>8 DEF Next, Main

\* "a failed reload keeps the current config running": it holds if whatever
\* load_config accepts can be spawned, and without that the run LifecycleReload
\* finds it violated.
THEOREM ReloadKeepsRunning ==
  ASSUME Spawns = Loads
  PROVE  Spec => FailedReloadKeepsRunning
<1>1. TypeOK /\ LoadedInv /\ [Next]_vars =>
        [main' = "failed" => ~ready /\ \A r \in Requests \ Quits : request[r] # "ok"]_vars
  <2> SUFFICES ASSUME TypeOK, LoadedInv, Next, main' = "failed"
               PROVE  ~ready /\ \A r \in Requests : request[r] # "ok"
    OBVIOUS
  <2>1. CASE main = "failed"
    BY <2>1 DEF LoadedInv
  <2>2. CASE main # "failed"
    <3>1. Load \/ Spawn
      BY <2>2 DEF Next, Main, Edit, SendTerm, SendHup, SendInt, Post, Enqueue, TimeOut,
        ReceiveInt, ReceiveTerm, ReceiveHup, ReceiveRequest, QuitFor, ReloadFor, TryReload,
        Stop, Withdraw, JoinScrapes, JoinSenders
    <3>2. ~Spawn
      BY <2>2 DEF Spawn, LoadedInv, Working
    <3>3. QED
      BY <3>1, <3>2 DEF Load, LoadedInv
  <2>3. QED
    BY <2>1, <2>2
<1>2. Spec => []LoadedInv
  BY TypeCorrect, InitLoaded, StepLoaded, PTL DEF Spec
<1>3. QED
  BY TypeCorrect, <1>1, <1>2, PTL DEF Spec, FailedReloadKeepsRunning

-----------------------------------------------------------------------------
\* The process with its pipeline takes main's steps, since Agent is written with them.

LEMMA LeadIsTurn == Lead => Next
BY DEF Lead, Next, Main

LEMMA StepIsTurn == [AgentNext]_agentVars => [Next]_vars
<1> SUFFICES ASSUME [AgentNext]_agentVars PROVE [Next]_vars
  OBVIOUS
<1>1. CASE Lead
  BY <1>1, LeadIsTurn
<1>2. CASE SpawnPipeline \/ JoinLoops \/ Drain
  BY <1>2 DEF SpawnPipeline, JoinLoops, Drain, Next, Main
<1>3. CASE Toggle \/ SelfReport \/ Deliver \/ SenderEnds
  BY <1>3 DEF Toggle, SelfReport, Deliver, SenderEnds
<1>4. CASE \E t \in Targets : BeginScrape(t) \/ EndScrape(t)
  BY <1>4 DEF BeginScrape, EndScrape
<1>5. CASE \E l \in Loops : LeaveLoop(l)
  BY <1>5 DEF LeaveLoop
<1>6. CASE UNCHANGED agentVars
  BY <1>6
<1>7. QED
  BY <1>1, <1>2, <1>3, <1>4, <1>5, <1>6 DEF AgentNext

LEMMA TurnsOfLifecycle == AgentSpec => Spec
<1>1. AgentInit => Init
  BY DEF AgentInit
<1>2. QED
  BY <1>1, StepIsTurn, PTL DEF AgentSpec, Spec

\* A request is carried out once and a quit is final, while tasks are joined and
\* queues drained.
THEOREM RequestsAreHonoured == AgentSpec => []RequestsHonoured
<1>1. NothingAfterQuit /\ QueuedOnce => RequestsHonoured
  BY DEF RequestsHonoured
<1>2. QED
  BY <1>1, TurnsOfLifecycle, QuitIsFinal, ChannelIsExact, PTL

-----------------------------------------------------------------------------
\* The pipeline

PipelineTypes ==
  /\ loop \in [Loops -> {"none", "idle", "scraping"}]
  /\ sender \in {"none", "open", "closed"}
  /\ outbox \in 0 .. OutboxCapacity
  /\ endpoint \in {"up", "failing"}

\* The sender has an open queue as long as main may have loops and a closed one
\* as long as main waits for it; without a sender nothing is left to be stored.
SenderInv ==
  /\ main \in {"running", "returned", "stopping"} <=> sender = "open"
  /\ sender = "closed" => main = "draining"
  /\ sender = "none" => outbox = 0
  /\ left = 0

\* Only an open queue has producers.
LoopsInv == ~AllLeft => sender = "open"

PipelineInv == PipelineTypes /\ SenderInv /\ LoopsInv /\ ScrapesAsConfigured

LEMMA InitPipeline == AgentInit => PipelineInv
BY AgentAssumption
DEF AgentInit, Init, PipelineInv, PipelineTypes, SenderInv, LoopsInv, AllLeft,
    ScrapesAsConfigured, AgentAssumption

\* A step of the turns that leaves the pipeline alone does not begin or end it.
LEMMA LeadKeepsStretch ==
  ASSUME Lead
  PROVE  /\ main \in {"running", "returned", "stopping"}
              <=> main' \in {"running", "returned", "stopping"}
         /\ main = "draining" => main' = "draining"
         /\ main' = "running" => main = "running" /\ config' = config
         /\ UNCHANGED pipeline
<1>1. UNCHANGED pipeline
  BY DEF Lead
<1>2. CASE SendInt \/ Load \/ ReceiveInt \/ ReceiveTerm \/ Withdraw
  BY <1>1, <1>2 DEF SendInt, Load, ReceiveInt, ReceiveTerm, Withdraw, Stop
<1>3. CASE ReceiveHup \/ ReceiveRequest
  BY <1>1, <1>3 DEF ReceiveHup, ReceiveRequest, QuitFor, ReloadFor, TryReload, Stop
<1>4. CASE UNCHANGED <<main, config>>
  BY <1>1, <1>4
<1>5. QED
  BY <1>2, <1>3, <1>4 DEF Lead, Edit, SendTerm, SendHup, Post, Enqueue, TimeOut

\* A batch that is handed over stays within the capacity.
LEMMA SendTypes ==
  ASSUME outbox \in 0 .. OutboxCapacity, Send
  PROVE  outbox' \in 0 .. OutboxCapacity
BY AgentAssumption DEF Send, AgentAssumption

LEMMA StepPipeline == PipelineInv /\ [AgentNext]_agentVars => PipelineInv'
<1> SUFFICES ASSUME PipelineInv, [AgentNext]_agentVars PROVE PipelineInv'
  OBVIOUS
<1> USE DEF PipelineInv
<1>1. CASE Lead
  BY <1>1, LeadKeepsStretch DEF PipelineTypes, SenderInv, LoopsInv, AllLeft, ScrapesAsConfigured
<1>2. CASE SpawnPipeline
  <2>1. main = "spawning" /\ main' \in {"running", "failed"} /\ UNCHANGED endpoint
    BY <1>2 DEF SpawnPipeline, Spawn
  <2>2. sender = "none" /\ outbox = 0 /\ left = 0
    BY <2>1 DEF SenderInv, PipelineTypes
  <2>3. CASE config \in Spawns
    <3>1. main' = "running" /\ sender' = "open" /\ outbox' = 0 /\ left' = 0
      BY <1>2, <2>2, <2>3 DEF SpawnPipeline, Spawn
    <3>2. loop' \in [Loops -> {"none", "idle", "scraping"}]
      BY <1>2, <2>3 DEF SpawnPipeline
    <3>3. TargetsOf[config] \subseteq Targets /\ config' = config
      BY <1>2, <2>3, AgentAssumption, LifecycleAssumption
      DEF SpawnPipeline, Spawn, AgentAssumption, LifecycleAssumption
    <3>4. {l \in Loops : loop'[l] # "none"} = TargetsOf[config] \cup {Self}
      BY <1>2, <2>3, <3>3 DEF SpawnPipeline, Loops
    <3>5. QED
      BY <2>1, <3>1, <3>2, <3>3, <3>4, AgentAssumption
      DEF PipelineTypes, SenderInv, LoopsInv, ScrapesAsConfigured, AgentAssumption
  <2>4. CASE config \notin Spawns
    <3>1. main' = "failed" /\ UNCHANGED <<loop, sender, left, outbox>>
      BY <1>2, <2>4 DEF SpawnPipeline, Spawn
    <3>2. QED
      BY <2>1, <2>2, <3>1 DEF PipelineTypes, SenderInv, LoopsInv, AllLeft, ScrapesAsConfigured
  <2>5. QED
    BY <2>3, <2>4
<1>3. CASE JoinLoops
  BY <1>3 DEF JoinLoops, JoinScrapes, PipelineTypes, SenderInv, LoopsInv, AllLeft, ScrapesAsConfigured
<1>4. CASE Drain
  BY <1>4 DEF Drain, JoinSenders, PipelineTypes, SenderInv, LoopsInv, AllLeft, ScrapesAsConfigured
<1>5. CASE Toggle
  BY <1>5 DEF Toggle, PipelineTypes, SenderInv, LoopsInv, AllLeft, ScrapesAsConfigured
<1>6. CASE \E t \in Targets : BeginScrape(t)
  <2>1. PICK t \in Targets : BeginScrape(t)
    BY <1>6
  <2>2. sender = "open"
    BY <2>1 DEF BeginScrape, LoopsInv, AllLeft, Loops
  <2>3. QED
    BY <2>1, <2>2 DEF BeginScrape, PipelineTypes, SenderInv, LoopsInv, ScrapesAsConfigured
<1>7. CASE \E t \in Targets : EndScrape(t)
  <2>1. PICK t \in Targets : EndScrape(t)
    BY <1>7
  <2>2. sender = "open"
    BY <2>1 DEF EndScrape, LoopsInv, AllLeft, Loops
  <2>3. outbox' \in 0 .. OutboxCapacity
    BY <2>1, SendTypes DEF EndScrape, PipelineTypes
  <2>4. QED
    BY <2>1, <2>2, <2>3 DEF EndScrape, PipelineTypes, SenderInv, LoopsInv, ScrapesAsConfigured
<1>8. CASE SelfReport
  <2>1. sender = "open"
    BY <1>8 DEF SelfReport, LoopsInv, AllLeft, Loops
  <2>2. outbox' \in 0 .. OutboxCapacity
    BY <1>8, SendTypes DEF SelfReport, PipelineTypes
  <2>3. QED
    BY <1>8, <2>1, <2>2 DEF SelfReport, PipelineTypes, SenderInv, LoopsInv, ScrapesAsConfigured
<1>9. CASE \E l \in Loops : LeaveLoop(l)
  BY <1>9 DEF LeaveLoop, PipelineTypes, SenderInv, LoopsInv, ScrapesAsConfigured
<1>10. CASE Deliver
  <2>1. outbox \in 0 .. OutboxCapacity /\ left = 0 /\ OutboxCapacity \in Nat
    BY AgentAssumption DEF PipelineTypes, SenderInv, AgentAssumption
  <2>2. outbox > 0 /\ outbox' = outbox - 1 /\ UNCHANGED <<vars, loop, sender, left, endpoint>>
    BY <1>10, <2>1 DEF Deliver
  <2>3. outbox' \in 0 .. OutboxCapacity /\ outbox # 0
    BY <2>1, <2>2
  <2>4. QED
    BY <2>2, <2>3 DEF PipelineTypes, SenderInv, LoopsInv, AllLeft, ScrapesAsConfigured
<1>11. CASE SenderEnds
  BY <1>11 DEF SenderEnds, PipelineTypes, SenderInv, LoopsInv, AllLeft, ScrapesAsConfigured
<1>12. CASE UNCHANGED agentVars
  BY <1>12 DEF PipelineTypes, SenderInv, LoopsInv, AllLeft, ScrapesAsConfigured
<1>13. QED
  BY <1>1, <1>2, <1>3, <1>4, <1>5, <1>6, <1>7, <1>8, <1>9, <1>10, <1>11, <1>12
  DEF AgentNext

LEMMA PipelineCorrect == AgentSpec => []PipelineInv
BY InitPipeline, StepPipeline, PTL DEF AgentSpec

\* Every variable keeps its type: the channel and the sender their bounds.
THEOREM AgentTypeCorrect == AgentSpec => []AgentTypeOK
<1>1. TypeOK /\ PipelineInv => AgentTypeOK
  BY DEF PipelineInv, PipelineTypes, SenderInv, AgentTypeOK
<1>2. QED
  BY <1>1, TurnsOfLifecycle, TypeCorrect, PipelineCorrect, PTL

\* The pipeline of a turn scrapes the targets configured, and ends from the loops to
\* the sender, with all that was accepted stored, before the next one begins and
\* before the process exits.
THEOREM TurnsAreInOrder == AgentSpec => []TurnsInOrder
<1>1. PipelineInv => TurnsInOrder
  BY DEF PipelineInv, PipelineTypes, SenderInv, LoopsInv, TurnsInOrder, ProducersHaveQueue,
         TurnsApart
<1>2. QED
  BY <1>1, PipelineCorrect, PTL
=============================================================================
