--------------------------- MODULE ScrapePoolProofs ---------------------------
(***************************************************************************)
(* Proofs about ScrapePool, for any targets, addresses and number of       *)
(* changes.                                                                *)
(***************************************************************************)
EXTENDS ScrapePool, SequenceTheorems, TLAPS

\* The map knows its loops, and a loop that is neither in the map nor awaited
\* is over: the loop awaited is the only one of its target that may still run.
Accounted ==
  /\ \A t \in Targets : running[t] # 0 => loops[running[t]].target = t
  /\ \A i \in DOMAIN loops :
       Over(i) \/ running[loops[i].target] = i \/ awaiting = i
  /\ awaiting # 0 => pc = "removing" /\ running[loops[awaiting].target] = 0

\* Where run_job stands and what it still has to do.
Progress ==
  /\ \A t \in gone : running[t] # 0
  /\ pc = "connecting" => loops = <<>>
  /\ pc = "done" => \A i \in DOMAIN loops : Over(i)

\* Why a loop ended decides what it left behind.
Endings ==
  \A i \in DOMAIN loops :
    /\ loops[i].removed <=> running[loops[i].target] # i
    /\ loops[i].phase = "ended" =>
         shutdown \/ loops[i].markers = TrackStaleness
    /\ loops[i].phase \in {"spawned", "offset", "panicked"} => ~loops[i].wrote

IInv == TypeOK /\ Accounted /\ Progress /\ Endings

-----------------------------------------------------------------------------
\* Nothing is spawned or awaited before the job connects.
LEMMA InitInductive == Init => IInv
<1> SUFFICES ASSUME Init
             PROVE  IInv
  OBVIOUS
<1>1. DOMAIN loops = {} /\ loops \in Seq(Loop)
  BY DEF Init
<1>2. TypeOK
  BY <1>1, PoolAssumption DEF Init, TypeOK, PoolAssumption
<1>3. Accounted /\ Progress /\ Endings
  BY <1>1 DEF Init, Accounted, Progress, Endings
<1>4. QED  BY <1>2, <1>3 DEF IInv

\* Every numbered loop is a loop of some target.
LEMMA LoopType ==
  ASSUME loops \in Seq(Loop), NEW i \in DOMAIN loops
  PROVE  loops[i] \in Loop /\ loops[i].target \in Targets /\ i \in Nat \ {0}
<1>1. loops[i] \in Loop /\ i \in Nat \ {0}
  OBVIOUS
<1>2. QED  BY <1>1 DEF Loop

\* A step of the environment, which touches neither the job nor its loops.
LEMMA EnvironmentInductive ==
  ASSUME IInv, UNCHANGED <<jobVars, loops>>, groups' \in SUBSET Addresses,
         unseen' \in BOOLEAN, closed' \in BOOLEAN, changes' \in Nat,
         shutdown' \in BOOLEAN, zeroInterval' \in BOOLEAN, shutdown => shutdown'
  PROVE  IInv'
BY DEF IInv, TypeOK, Accounted, Progress, Endings, jobVars, Over

\* A step of loop i that keeps its target and its removal signal, and ends it
\* only on a shutdown or with its markers.
LEMMA LoopInductive ==
  ASSUME IInv, NEW i \in DOMAIN loops, ~Over(i), NEW loop \in Loop,
         loops' = [loops EXCEPT ![i] = loop],
         UNCHANGED <<inputVars, shutdown, jobVars>>,
         loop.target = loops[i].target, loop.removed = loops[i].removed,
         loop.phase = "ended" => shutdown \/ loop.markers = TrackStaleness,
         loop.phase \in {"spawned", "offset", "panicked"} => ~loop.wrote
  PROVE  IInv'
<1> USE DEF IInv, TypeOK, jobVars, inputVars
<1>1. /\ loops \in Seq(Loop)
      /\ loops' \in Seq(Loop)
      /\ DOMAIN loops' = DOMAIN loops
      /\ loops'[i] = loop
      /\ \A j \in DOMAIN loops \ {i} : loops'[j] = loops[j]
  OBVIOUS
<1>2. \A j \in DOMAIN loops : loops'[j].target = loops[j].target
                              /\ loops'[j].removed = loops[j].removed
  BY <1>1
<1>3. \A j \in DOMAIN loops : Over(j) => loops'[j] = loops[j]
  BY <1>1
<1>4. TypeOK'
  BY <1>1
<1>5. Accounted'
  BY <1>1, <1>2, <1>3 DEF Accounted, Over
<1>6. Progress'
  BY <1>1, <1>3 DEF Progress, Over
<1>7. Endings'
  BY <1>1, <1>2 DEF Endings
<1>8. QED  BY <1>4, <1>5, <1>6, <1>7

-----------------------------------------------------------------------------
\* Every step of a loop preserves the invariant.
LEMMA LoopStepInductive ==
  ASSUME IInv, NEW i \in DOMAIN loops, LoopStep(i)
  PROVE  IInv'
<1> USE DEF Loop
<1>1. /\ loops \in Seq(Loop) /\ loops[i] \in Loop
      /\ shutdown \in BOOLEAN
      /\ TrackStaleness \in BOOLEAN
  BY PoolAssumption, LoopType DEF IInv, TypeOK, PoolAssumption
<1>2. loops[i].phase \in {"spawned", "offset"} => ~loops[i].wrote
  BY DEF IInv, Endings
<1>3. ASSUME NEW from \in {"spawned", "offset", "waiting", "scraping"},
             NEW to \in {"spawned", "offset", "waiting", "scraping", "ended", "panicked"},
             Move(i, from, to),
             to = "ended" => shutdown,
             to \in {"spawned", "offset", "panicked"} => from = "spawned"
      PROVE  IInv'
  <2> DEFINE loop == [loops[i] EXCEPT !.phase = to]
  <2>1. loop \in Loop /\ loop.target = loops[i].target
        /\ loop.removed = loops[i].removed /\ loop.wrote = loops[i].wrote
        /\ loop.phase = to
    BY <1>1
  <2>2. loops' = [loops EXCEPT ![i] = loop] /\ loops[i].phase = from
        /\ UNCHANGED <<inputVars, shutdown, jobVars>>
    BY <1>3 DEF Move
  <2>3. ~Over(i)
    BY <2>2 DEF Over
  <2> HIDE DEF loop
  <2>4. QED  BY <1>2, <1>3, <2>1, <2>2, <2>3, LoopInductive
<1>4. CASE Spread(i)
  <2>1. CASE zeroInterval
    BY <1>3, <1>4, <2>1 DEF Spread
  <2>2. CASE ~zeroInterval
    BY <1>3, <1>4, <2>2 DEF Spread
  <2>3. QED  BY <2>1, <2>2
<1>5. CASE OffsetOver(i)
  BY <1>3, <1>5 DEF OffsetOver
<1>6. CASE Tick(i)
  BY <1>3, <1>6 DEF Tick
<1>7. CASE ScrapeReturns(i)
  <2>1. PICK good \in BOOLEAN :
          loops' = [loops EXCEPT ![i].phase = "waiting", ![i].wrote = @ \/ good]
    BY <1>7 DEF ScrapeReturns
  <2> DEFINE loop == [loops[i] EXCEPT !.phase = "waiting", !.wrote = @ \/ good]
  <2>2. loop.target = loops[i].target
        /\ loop.removed = loops[i].removed /\ loop.phase = "waiting"
    BY <1>1
  <2>3. loop \in Loop
    BY <1>1
  <2>4. loops' = [loops EXCEPT ![i] = loop] /\ ~Over(i)
        /\ UNCHANGED <<inputVars, shutdown, jobVars>>
    BY <1>1, <1>7, <2>1 DEF ScrapeReturns, Over
  <2> HIDE DEF loop
  <2>5. QED  BY <2>2, <2>3, <2>4, LoopInductive
<1>8. CASE LeaveOnShutdown(i)
  BY <1>3, <1>8 DEF LeaveOnShutdown
<1>9. CASE LeaveOnRemoval(i)
  <2> DEFINE loop == [loops[i] EXCEPT !.phase = "ended", !.markers = TrackStaleness]
  <2>1. loop \in Loop /\ loop.target = loops[i].target
        /\ loop.removed = loops[i].removed /\ loop.phase = "ended"
        /\ loop.markers = TrackStaleness
    BY <1>1
  <2>2. loops' = [loops EXCEPT ![i] = loop] /\ ~Over(i)
        /\ UNCHANGED <<inputVars, shutdown, jobVars>>
    BY <1>1, <1>9 DEF LeaveOnRemoval, Over
  <2> HIDE DEF loop
  <2>3. QED  BY <2>1, <2>2, LoopInductive
<1>10. QED
  BY <1>4, <1>5, <1>6, <1>7, <1>8, <1>9 DEF LoopStep, Leave

\* Taking a target out of the map signals its loop and leaves it accounted for.
LEMMA RemoveTargetInductive ==
  ASSUME IInv, RemoveTarget
  PROVE  IInv'
<1> USE DEF IInv, TypeOK
<1>1. PICK t \in gone :
        /\ gone' = gone \ {t}
        /\ awaiting' = running[t]
        /\ running' = [running EXCEPT ![t] = 0]
        /\ loops' = [loops EXCEPT ![running[t]].removed = TRUE]
  BY DEF RemoveTarget
<1>2. /\ awaiting = 0 /\ pc = "removing" /\ pc' = pc
      /\ UNCHANGED <<inputVars, shutdown, desired>>
  BY DEF RemoveTarget
<1> DEFINE i == running[t]
           loop == [loops[i] EXCEPT !.removed = TRUE]
<1>3. t \in Targets /\ i \in DOMAIN loops /\ i # 0 /\ loops[i].target = t
  BY DEF Progress, Accounted
<1>4. loop \in Loop /\ loop.target = t /\ loop.phase = loops[i].phase
      /\ loop.markers = loops[i].markers /\ loop.wrote = loops[i].wrote
      /\ loop.removed
  <2>1. loops[i] \in Loop
    BY <1>3
  <2>2. QED  BY <1>3, <2>1 DEF Loop
<1>5. /\ loops' \in Seq(Loop) /\ DOMAIN loops' = DOMAIN loops
      /\ loops'[i] = loop
      /\ \A j \in DOMAIN loops \ {i} : loops'[j] = loops[j]
  <2>1. loops' = [loops EXCEPT ![i] = loop]
    BY <1>1, <1>3
  <2> HIDE DEF loop
  <2>2. QED  BY <1>3, <1>4, <2>1
<1> HIDE DEF i, loop
<1>6. /\ running' \in [Targets -> {0} \cup DOMAIN loops']
      /\ running'[t] = 0
      /\ \A u \in Targets \ {t} : running'[u] = running[u]
      /\ awaiting' = i
      /\ running[t] = i
  BY <1>1, <1>3, <1>5 DEF i
<1>7. \A u \in Targets : running[u] = i => u = t
  BY <1>3 DEF Accounted
<1>8. \A j \in DOMAIN loops : Over(j)' <=> Over(j)
  BY <1>3, <1>4, <1>5 DEF Over
<1>9. \A j \in DOMAIN loops : loops'[j].target = loops[j].target
  BY <1>3, <1>4, <1>5
<1>10. TypeOK'
  BY <1>1, <1>2, <1>3, <1>5, <1>6 DEF inputVars
<1>11. Accounted'
  <2>1. \A u \in Targets : running'[u] # 0 => loops'[running'[u]].target = u
    BY <1>6, <1>9 DEF Accounted
  <2>2. \A j \in DOMAIN loops' :
          Over(j)' \/ running'[loops'[j].target] = j \/ awaiting' = j
    <3> SUFFICES ASSUME NEW j \in DOMAIN loops, ~Over(j), j # i
                 PROVE  running'[loops[j].target] = j
      BY <1>5, <1>6, <1>8, <1>9
    <3>1. running[loops[j].target] = j /\ loops[j].target \in Targets
      BY <1>2, LoopType DEF Accounted
    <3>2. QED  BY <1>6, <3>1
  <2>3. pc' = "removing" /\ running'[loops'[awaiting'].target] = 0
    BY <1>2, <1>3, <1>6, <1>9
  <2>4. QED  BY <2>1, <2>2, <2>3 DEF Accounted
<1>12. Progress'
  BY <1>1, <1>2, <1>6, <1>7 DEF Progress
<1>13. Endings'
  <2> SUFFICES ASSUME NEW j \in DOMAIN loops
               PROVE  /\ loops'[j].removed <=> running'[loops'[j].target] # j
                      /\ loops'[j].phase = "ended" =>
                           shutdown' \/ loops'[j].markers = TrackStaleness
                      /\ loops'[j].phase \in {"spawned", "offset", "panicked"} =>
                           ~loops'[j].wrote
    BY <1>5 DEF Endings
  <2>1. CASE j = i
    BY <1>2, <1>3, <1>4, <1>5, <1>6, <2>1 DEF Endings
  <2>2. CASE j # i
    <3>1. loops[j].target \in Targets /\ loops'[j] = loops[j]
      BY <1>5, <2>2, LoopType
    <3>2. loops[j].target = t => running[t] # j /\ j # 0
      BY <1>6, <2>2
    <3>3. QED  BY <1>2, <1>6, <3>1, <3>2 DEF Endings
  <2>3. QED  BY <2>1, <2>2
<1>14. QED  BY <1>10, <1>11, <1>12, <1>13

\* A loop spawned gets a new number, enters the map, and had no live
\* predecessor: none is awaited and the map had none.
LEMMA StartTargetInductive ==
  ASSUME IInv, StartTarget
  PROVE  IInv'
<1> USE DEF IInv, TypeOK
<1> DEFINE n == Len(loops) + 1
           Fresh(t) == [target |-> t, phase |-> "spawned", removed |-> FALSE,
                        wrote |-> FALSE, markers |-> FALSE]
<1>1. PICK t \in desired :
        /\ running[t] = 0
        /\ loops' = Append(loops, Fresh(t))
        /\ running' = [running EXCEPT ![t] = n]
  BY DEF StartTarget
<1>2. /\ pc = "starting" /\ pc' = pc
      /\ UNCHANGED <<inputVars, shutdown, desired, gone, awaiting>>
  BY DEF StartTarget
<1>3. t \in Targets /\ Fresh(t) \in Loop
  BY DEF Loop
<1>4. /\ loops' \in Seq(Loop) /\ DOMAIN loops' = DOMAIN loops \cup {n}
      /\ loops'[n] = Fresh(t) /\ n \notin DOMAIN loops /\ n # 0
      /\ \A j \in DOMAIN loops : loops'[j] = loops[j]
  <2> HIDE DEF Fresh
  <2>1. QED  BY <1>1, <1>3
<1>5. awaiting = 0
  BY <1>2 DEF Accounted
<1>6. loops'[n].target = t /\ loops'[n].phase = "spawned" /\ ~loops'[n].removed
      /\ ~loops'[n].wrote
  BY <1>4
<1> HIDE DEF n, Fresh
<1>7. /\ running' \in [Targets -> {0} \cup DOMAIN loops']
      /\ running'[t] = n
      /\ \A u \in Targets \ {t} : running'[u] = running[u]
  BY <1>1, <1>3, <1>4
<1>8. \A j \in DOMAIN loops : (Over(j)' <=> Over(j)) /\ loops[j].target \in Targets
  BY <1>4, LoopType DEF Over
<1>9. TypeOK'
  BY <1>2, <1>4, <1>5, <1>7 DEF inputVars
<1>10. Accounted'
  <2>1. \A u \in Targets : running'[u] # 0 => loops'[running'[u]].target = u
    BY <1>4, <1>6, <1>7 DEF Accounted
  <2>2. \A j \in DOMAIN loops' : Over(j)' \/ running'[loops'[j].target] = j
    <3>1. \A j \in DOMAIN loops : Over(j) \/ running[loops[j].target] = j
      BY <1>5 DEF Accounted
    <3>2. \A j \in DOMAIN loops : j # 0
      OBVIOUS
    <3>3. QED  BY <1>1, <1>4, <1>6, <1>7, <1>8, <3>1, <3>2
  <2>3. QED  BY <1>2, <1>5, <2>1, <2>2 DEF Accounted
<1>11. Progress'
  BY <1>2, <1>4, <1>7 DEF Progress
<1>12. Endings'
  <2>1. \A j \in DOMAIN loops : running'[loops[j].target] # j <=>
                                running[loops[j].target] # j
    BY <1>1, <1>4, <1>7, <1>8
  <2>2. QED  BY <1>2, <1>4, <1>6, <1>7, <2>1 DEF Endings
<1>13. QED  BY <1>9, <1>10, <1>11, <1>12

\* Every other step of run_job only moves it along, or looks at discovery.
LEMMA JobInductive ==
  ASSUME IInv, Job
  PROVE  IInv'
<1> USE DEF IInv, TypeOK, Over
<1>1. CASE Connect
  BY <1>1 DEF Connect, Accounted, Progress, Endings, inputVars
<1>2. CASE Update
  <2>1. BuildTargets(groups) \in SUBSET Targets
    BY PoolAssumption DEF PoolAssumption, BuildTargets
  <2>2. QED  BY <1>2, <2>1 DEF Update, Accounted, Progress, Endings
<1>3. CASE JoinRemoved
  BY <1>3 DEF JoinRemoved, Accounted, Progress, Endings, inputVars
<1>4. CASE AllRemoved
  BY <1>4 DEF AllRemoved, Accounted, Progress, Endings, inputVars
<1>5. CASE AllStarted
  BY <1>5 DEF AllStarted, Accounted, Progress, Endings, inputVars
<1>6. CASE Changed
  BY <1>6 DEF Changed, Accounted, Progress, Endings, inputVars
<1>7. CASE DiscoveryClosed
  BY <1>7 DEF DiscoveryClosed, Accounted, Progress, Endings, inputVars
<1>8. CASE StopJob
  BY <1>8 DEF StopJob, Accounted, Progress, Endings, inputVars
<1>9. CASE JoinAll
  <2>1. \A i \in DOMAIN loops : Over(i)
    <3> SUFFICES ASSUME NEW i \in DOMAIN loops, ~Over(i)
                 PROVE  FALSE
      OBVIOUS
    <3>1. awaiting = 0
      BY <1>9 DEF JoinAll, Accounted
    <3>2. running[loops[i].target] = i /\ i # 0 /\ loops[i].target \in Targets
      BY <3>1, LoopType DEF Accounted
    <3>3. QED  BY <1>9, <3>2 DEF JoinAll
  <2>2. QED  BY <1>9, <2>1 DEF JoinAll, Accounted, Progress, Endings, inputVars
<1>10. QED
  BY <1>1, <1>2, <1>3, <1>4, <1>5, <1>6, <1>7, <1>8, <1>9,
     RemoveTargetInductive, StartTargetInductive DEF Job

-----------------------------------------------------------------------------
\* Every step of discovery, of the job and of its loops preserves the invariant.
LEMMA NextInductive == IInv /\ [Next]_vars => IInv'
<1> SUFFICES ASSUME IInv, [Next]_vars
             PROVE  IInv'
  OBVIOUS
<1> USE PoolAssumption DEF PoolAssumption, jobVars, inputVars
<1>1. /\ groups \in SUBSET Addresses /\ unseen \in BOOLEAN /\ closed \in BOOLEAN
      /\ changes \in Nat /\ shutdown \in BOOLEAN /\ zeroInterval \in BOOLEAN
  BY DEF IInv, TypeOK
<1>2. CASE UNCHANGED vars
  BY <1>1, <1>2, EnvironmentInductive DEF vars
<1>3. ASSUME NEW addresses \in SUBSET Addresses, Publish(Static \cup addresses)
      PROVE  IInv'
  BY <1>1, <1>3, EnvironmentInductive DEF Publish
<1>4. CASE CloseDiscovery
  BY <1>1, <1>4, EnvironmentInductive DEF CloseDiscovery
<1>5. CASE Shutdown
  BY <1>1, <1>5, EnvironmentInductive DEF Shutdown
<1>6. CASE Terminated
  BY <1>2, <1>6 DEF Terminated
<1>7. QED
  BY <1>2, <1>3, <1>4, <1>5, <1>6, JobInductive, LoopStepInductive DEF Next

\* The inductive invariant is an invariant.
THEOREM Invariance == Spec => []IInv
BY InitInductive, NextInductive, PTL DEF Spec

\* Every variable has its type in every reachable state.
THEOREM TypeCorrect == Spec => []TypeOK
<1>1. IInv => TypeOK
  BY DEF IInv
<1>2. QED  BY <1>1, Invariance, PTL

\* Two loops never scrape, or end the series of, one target at the same time.
THEOREM SingleWriter == Spec => []OneWriter
<1>1. IInv => OneWriter
  <2> SUFFICES ASSUME IInv, NEW i \in DOMAIN loops, NEW j \in DOMAIN loops,
                      i # j, ~Over(i), ~Over(j)
               PROVE  loops[i].target # loops[j].target
    BY DEF OneWriter
  <2>1. i # 0 /\ j # 0
    BY LoopType DEF IInv, TypeOK
  <2>2. QED  BY <2>1 DEF IInv, Accounted
<1>2. QED  BY <1>1, Invariance, PTL

\* The end of the job's task is the end of all its loops.
THEOREM QuietWhenDone == Spec => []DoneIsQuiet
<1>1. IInv => DoneIsQuiet
  BY DEF IInv, Progress, DoneIsQuiet
<1>2. QED  BY <1>1, Invariance, PTL

\* A change of the target set that has been dealt with ended the series of
\* every target it removed, and disturbed no other.
THEOREM RemovalComplete == Spec => []RemovedAreEnded
<1>1. IInv => RemovedAreEnded
  <2> SUFFICES ASSUME IInv, pc = "selecting", NEW i \in DOMAIN loops
               PROVE  IF running[loops[i].target] = i
                      THEN ~loops[i].removed
                      ELSE TrackStaleness /\ loops[i].wrote =>
                             loops[i].markers \/ shutdown
    BY DEF RemovedAreEnded
  <2>1. CASE running[loops[i].target] = i
    BY <2>1 DEF IInv, Endings
  <2>2. CASE running[loops[i].target] # i
    <3>1. awaiting = 0 /\ i # 0
      BY LoopType DEF IInv, TypeOK, Accounted
    <3>2. Over(i)
      BY <2>2, <3>1 DEF IInv, Accounted
    <3>3. QED  BY <2>2, <3>2 DEF IInv, Endings, Over
  <2>3. QED  BY <2>1, <2>2
<1>2. QED  BY <1>1, Invariance, PTL

\* Only a loop whose target left the set sends markers, and then it is over.
THEOREM MarkersAreLast == Spec => MarkersEndLoops
<1>1. ASSUME IInv, [Next]_vars
      PROVE  [\A i \in DOMAIN loops :
                loops[i].markers' # loops[i].markers =>
                  loops[i].removed /\ running[loops[i].target] # i /\ Over(i)']_vars
  <2> SUFFICES ASSUME Next, NEW i \in DOMAIN loops,
                      loops[i].markers' # loops[i].markers
               PROVE  loops[i].removed /\ running[loops[i].target] # i /\ Over(i)'
    BY <1>1 DEF vars
  <2>1. loops \in Seq(Loop) /\ loops[i] \in Loop
    BY <1>1, LoopType DEF IInv, TypeOK
  <2>2. ASSUME NEW j \in DOMAIN loops, LoopStep(j)
        PROVE  LeaveOnRemoval(i)
    <3>1. CASE j # i
      BY <2>2, <3>1, <2>1 DEF LoopStep, Spread, OffsetOver, Tick, ScrapeReturns,
         Leave, LeaveOnShutdown, LeaveOnRemoval, Move
    <3>2. CASE j = i
      <4>1. ASSUME NEW from, NEW to, Move(i, from, to)
            PROVE  FALSE
        BY <4>1, <2>1 DEF Move, Loop
      <4>2. ASSUME ScrapeReturns(i)
            PROVE  FALSE
        <5>1. PICK written :
                loops' = [loops EXCEPT ![i].phase = "waiting", ![i].wrote = written]
          BY <4>2 DEF ScrapeReturns
        <5>2. QED  BY <2>1, <5>1 DEF Loop
      <4>3. QED
        BY <2>2, <3>2, <4>1, <4>2 DEF LoopStep, Spread, OffsetOver, Tick,
           Leave, LeaveOnShutdown
    <3>3. QED  BY <3>1, <3>2
  <2>3. ~Job
    <3>1. ASSUME RemoveTarget
          PROVE  FALSE
      <4>1. PICK t \in gone : loops' = [loops EXCEPT ![running[t]].removed = TRUE]
        BY <3>1 DEF RemoveTarget
      <4>2. loops'[i].markers = loops[i].markers
        BY <2>1, <4>1 DEF Loop
      <4>3. QED  BY <4>2
    <3>2. ASSUME StartTarget
          PROVE  FALSE
      <4>1. PICK loop : loops' = Append(loops, loop)
        BY <3>2 DEF StartTarget
      <4>2. loops'[i] = loops[i]
        BY <2>1, <4>1
      <4>3. QED  BY <4>2
    <3>3. QED
      BY <3>1, <3>2 DEF Job, Connect, Update, JoinRemoved, AllRemoved, AllStarted,
         Changed, DiscoveryClosed, StopJob, JoinAll
  <2>4. LeaveOnRemoval(i)
    BY <2>2, <2>3 DEF Next, Publish, CloseDiscovery, Shutdown, Terminated, vars
  <2>5. loops[i].removed /\ Over(i)'
    BY <2>1, <2>4 DEF LeaveOnRemoval, Over, Loop
  <2>6. running[loops[i].target] # i
    BY <1>1, <2>5 DEF IInv, Endings
  <2>7. QED  BY <2>5, <2>6
<1>2. QED  BY <1>1, Invariance, PTL DEF Spec, MarkersEndLoops
=============================================================================
