------------------------------ MODULE ScrapePool ------------------------------
(***************************************************************************)
(* One scrape job: the task that follows discovery (run_job) and the scrape*)
(* loops it spawns and stops, one per target.                              *)
(*                                                                         *)
(* Every spawned loop is numbered, so that two loops of one target can be  *)
(* told apart.  A loop's tracker is reduced to whether it has written      *)
(* series and whether it ended them with markers (Staleness has the rest). *)
(***************************************************************************)
EXTENDS Naturals, Sequences, FiniteSets

CONSTANTS
  Addresses,      \* what discovery can publish
  Targets,        \* target identities
  Identity,       \* [Addresses -> Targets or NoTarget]: build_targets
  NoTarget,       \* relabelling drops the address
  Static,         \* the addresses of static_configs
  TrackStaleness, \* --staleness.enable-tracking
  MaxChanges      \* bound: sets discovery publishes after the first

PoolAssumption ==
  /\ IsFiniteSet(Targets)
  /\ Identity \in [Addresses -> Targets \cup {NoTarget}]
  /\ NoTarget \notin Targets
  /\ Static \subseteq Addresses
  /\ TrackStaleness \in BOOLEAN
  /\ MaxChanges \in Nat

ASSUME PoolAssumption

VARIABLES
  groups,     \* the watch channel: the published addresses
  unseen,     \* the channel holds a value run_job has not borrowed
  closed,     \* the sending side of the channel is gone
  changes,    \* sets published so far (bound only)
  shutdown,   \* the shutdown signal
  zeroInterval, \* the job's scrape_interval is zero (never changes)
  pc,         \* where run_job stands
  desired,    \* the targets of the set borrowed last
  gone,       \* the running targets still to be removed
  awaiting,   \* the loop whose handle run_job awaits, 0 for none
  running,    \* [t] the loop in the map, 0 for none
  loops       \* every loop ever spawned, by number

inputVars == <<groups, unseen, closed, changes, zeroInterval>>
jobVars == <<pc, desired, gone, awaiting, running>>
vars == <<inputVars, shutdown, jobVars, loops>>

Loop == [target : Targets,
         phase : {"spawned", "offset", "waiting", "scraping", "ended", "panicked"},
         removed : BOOLEAN,   \* removed_tx was sent
         wrote : BOOLEAN,     \* series of a scrape were handed to remote-write
         markers : BOOLEAN]   \* staleness markers for all of them were

Over(i) == loops[i].phase \in {"ended", "panicked"}

\* Mutant: an address dropped by relabelling is scraped.
BuildAllTargets(addresses) == {Identity[a] : a \in addresses}

\* build_targets, collected into a map by identity.
BuildTargets(addresses) == {Identity[a] : a \in addresses} \ {NoTarget}

-----------------------------------------------------------------------------
\* A job with static targets only drops the sender of the channel at once.
Init ==
  /\ groups = Static
  /\ unseen = FALSE
  /\ closed \in BOOLEAN
  /\ changes = 0
  /\ shutdown = FALSE
  /\ zeroInterval \in BOOLEAN
  /\ pc = "connecting"
  /\ desired = {}
  /\ gone = {}
  /\ awaiting = 0
  /\ running = [t \in Targets |-> 0]
  /\ loops = <<>>

\* The merger publishes a list that differs from the current one, if only in
\* its order.
Publish(addresses) ==
  /\ ~closed
  /\ changes < MaxChanges
  /\ groups' = addresses
  /\ unseen' = TRUE
  /\ changes' = changes + 1
  /\ UNCHANGED <<closed, shutdown, zeroInterval, jobVars, loops>>

\* Every source ended (no Kubernetes client, say), and the merger with them.
CloseDiscovery ==
  /\ ~closed
  /\ closed' = TRUE
  /\ UNCHANGED <<groups, unseen, changes, shutdown, zeroInterval, jobVars, loops>>

\* main stops the pipeline.
Shutdown ==
  /\ ~shutdown
  /\ shutdown' = TRUE
  /\ UNCHANGED <<inputVars, jobVars, loops>>

-----------------------------------------------------------------------------
\* run_job

\* The HTTP client and the credentials are made, or the job is disabled.
Connect ==
  /\ pc = "connecting"
  /\ pc' \in {"updating", "done"}
  /\ UNCHANGED <<inputVars, shutdown, desired, gone, awaiting, running, loops>>

\* borrow_and_update, build_targets, and what is no longer desired.
Update ==
  /\ pc = "updating"
  /\ unseen' = FALSE
  /\ desired' = BuildTargets(groups)
  /\ gone' = {t \in Targets : running[t] # 0} \ BuildTargets(groups)
  /\ pc' = "removing"
  /\ UNCHANGED <<groups, closed, changes, shutdown, zeroInterval, awaiting,
                 running, loops>>

\* Mutant: the loop is signalled and not waited for.
RemoveWithoutJoin ==
  /\ pc = "removing" /\ awaiting = 0
  /\ \E t \in gone :
       /\ gone' = gone \ {t}
       /\ running' = [running EXCEPT ![t] = 0]
       /\ loops' = [loops EXCEPT ![running[t]].removed = TRUE]
  /\ UNCHANGED <<inputVars, shutdown, pc, desired, awaiting>>

\* Take one target out of the map and signal its loop.
RemoveTarget ==
  /\ pc = "removing" /\ awaiting = 0
  /\ \E t \in gone :
       /\ gone' = gone \ {t}
       /\ awaiting' = running[t]
       /\ running' = [running EXCEPT ![t] = 0]
       /\ loops' = [loops EXCEPT ![running[t]].removed = TRUE]
  /\ UNCHANGED <<inputVars, shutdown, pc, desired>>

\* Mutant: the wait for a removed loop gives up.
JoinGivesUp ==
  /\ pc = "removing" /\ awaiting # 0
  /\ awaiting' = 0
  /\ UNCHANGED <<inputVars, shutdown, pc, desired, gone, running, loops>>

\* target.handle.await returns, be it with the error of a panicked loop.
JoinRemoved ==
  /\ pc = "removing" /\ awaiting # 0
  /\ Over(awaiting)
  /\ awaiting' = 0
  /\ UNCHANGED <<inputVars, shutdown, pc, desired, gone, running, loops>>

AllRemoved ==
  /\ pc = "removing" /\ awaiting = 0
  /\ gone = {}
  /\ pc' = "starting"
  /\ UNCHANGED <<inputVars, shutdown, desired, gone, awaiting, running, loops>>

\* Spawn the loop of a desired target that has none in the map.
StartTarget ==
  /\ pc = "starting"
  /\ \E t \in desired :
       /\ running[t] = 0
       /\ loops' = Append(loops, [target |-> t, phase |-> "spawned",
                    removed |-> FALSE, wrote |-> FALSE, markers |-> FALSE])
       /\ running' = [running EXCEPT ![t] = Len(loops) + 1]
  /\ UNCHANGED <<inputVars, shutdown, pc, desired, gone, awaiting>>

\* Mutant: the channel is marked seen after the pass.
AllStartedMarksSeen ==
  /\ pc = "starting"
  /\ \A t \in desired : running[t] # 0
  /\ pc' = "selecting"
  /\ unseen' = FALSE
  /\ UNCHANGED <<groups, closed, changes, shutdown, zeroInterval, desired, gone, awaiting,
                 running, loops>>

AllStarted ==
  /\ pc = "starting"
  /\ \A t \in desired : running[t] # 0
  /\ pc' = "selecting"
  /\ UNCHANGED <<inputVars, shutdown, desired, gone, awaiting, running, loops>>

\* The select! on discovery and shutdown.
Changed ==
  /\ pc = "selecting"
  /\ unseen
  /\ pc' = "updating"
  /\ UNCHANGED <<inputVars, shutdown, desired, gone, awaiting, running, loops>>

\* Mutant: the error of a closed channel passes for a change.
ClosedPassesForChange ==
  /\ pc = "selecting"
  /\ closed /\ ~unseen
  /\ pc' = "updating"
  /\ UNCHANGED <<inputVars, shutdown, desired, gone, awaiting, running, loops>>

DiscoveryClosed ==
  /\ pc = "selecting"
  /\ closed /\ ~unseen
  /\ pc' = "parked"
  /\ UNCHANGED <<inputVars, shutdown, desired, gone, awaiting, running, loops>>

StopJob ==
  /\ pc \in {"selecting", "parked"}
  /\ shutdown
  /\ pc' = "joining"
  /\ UNCHANGED <<inputVars, shutdown, desired, gone, awaiting, running, loops>>

\* Mutant: the job ends at once on shutdown.
JoinNothing ==
  /\ pc = "joining"
  /\ pc' = "done"
  /\ UNCHANGED <<inputVars, shutdown, desired, gone, awaiting, running, loops>>

\* The handles of all loops in the map have been awaited.
JoinAll ==
  /\ pc = "joining"
  /\ \A t \in Targets : running[t] # 0 => Over(running[t])
  /\ pc' = "done"
  /\ UNCHANGED <<inputVars, shutdown, desired, gone, awaiting, running, loops>>

Job ==
  \/ Connect
  \/ Update
  \/ RemoveTarget
  \/ JoinRemoved
  \/ AllRemoved
  \/ StartTarget
  \/ AllStarted
  \/ Changed
  \/ DiscoveryClosed
  \/ StopJob
  \/ JoinAll

-----------------------------------------------------------------------------
\* scrape_loop

Move(i, from, to) ==
  /\ loops[i].phase = from
  /\ loops' = [loops EXCEPT ![i].phase = to]
  /\ UNCHANGED <<inputVars, shutdown, jobVars>>

\* The offset is a hash modulo the interval: a zero interval is a panic.
Spread(i) == Move(i, "spawned", IF zeroInterval THEN "panicked" ELSE "offset")

\* The first sleep does not look at `removed`.
OffsetOver(i) == Move(i, "offset", "waiting")

Tick(i) == Move(i, "waiting", "scraping")

\* The scrape returned, within its timeout; only a good one yields series.
ScrapeReturns(i) ==
  /\ loops[i].phase = "scraping"
  /\ \E good \in BOOLEAN :
       loops' = [loops EXCEPT ![i].phase = "waiting",
                              ![i].wrote = @ \/ good]
  /\ UNCHANGED <<inputVars, shutdown, jobVars>>

\* Mutant: markers on shutdown too.
MarkOnShutdown(i) ==
  /\ shutdown
  /\ loops[i].phase = "waiting"
  /\ loops' = [loops EXCEPT ![i].phase = "ended", ![i].markers = TrackStaleness]
  /\ UNCHANGED <<inputVars, shutdown, jobVars>>

LeaveOnShutdown(i) ==
  /\ shutdown
  /\ Move(i, "offset", "ended") \/ Move(i, "waiting", "ended")

\* The target left the target set: end everything it wrote, if tracked.
LeaveOnRemoval(i) ==
  /\ loops[i].phase = "waiting"
  /\ loops[i].removed
  /\ loops' = [loops EXCEPT ![i].phase = "ended",
                            ![i].markers = TrackStaleness]
  /\ UNCHANGED <<inputVars, shutdown, jobVars>>

Leave(i) == LeaveOnShutdown(i) \/ LeaveOnRemoval(i)

LoopStep(i) ==
  \/ Spread(i)
  \/ OffsetOver(i)
  \/ Tick(i)
  \/ ScrapeReturns(i)
  \/ Leave(i)

\* The job and all its loops have ended.
Terminated ==
  /\ pc = "done" /\ \A i \in DOMAIN loops : Over(i)
  /\ UNCHANGED vars

Next ==
  \/ \E addresses \in SUBSET Addresses : Publish(Static \cup addresses)
  \/ CloseDiscovery
  \/ Shutdown
  \/ Job
  \/ \E i \in DOMAIN loops : LoopStep(i)
  \/ Terminated

Spec == Init /\ [][Next]_vars

\* tokio polls every woken task, timers and fetches end; select! picks among
\* its ready branches at random, so none that stays ready is passed over for
\* ever.  A target has one live loop at most (OneWriter), so fairness to it is
\* fairness to its loop.
Fairness ==
  /\ WF_vars(Job)
  /\ \A t \in Targets :
       /\ WF_vars(\E i \in DOMAIN loops : loops[i].target = t /\ LoopStep(i))
       /\ SF_vars(\E i \in DOMAIN loops : loops[i].target = t /\ Leave(i))

FairSpec == Spec /\ Fairness
-----------------------------------------------------------------------------
\* Properties

TypeOK ==
  /\ groups \in SUBSET Addresses
  /\ unseen \in BOOLEAN
  /\ closed \in BOOLEAN
  /\ changes \in Nat
  /\ shutdown \in BOOLEAN
  /\ zeroInterval \in BOOLEAN
  /\ pc \in {"connecting", "updating", "removing", "starting", "selecting",
             "parked", "joining", "done"}
  /\ desired \in SUBSET Targets
  /\ gone \in SUBSET Targets
  /\ awaiting \in {0} \cup DOMAIN loops
  /\ running \in [Targets -> {0} \cup DOMAIN loops]
  /\ loops \in Seq(Loop)

\* Two loops never write one target's series at the same time, however
\* quickly the target leaves and returns: samples of the new loop would be
\* overtaken by the markers of the old one.
OneWriter ==
  \A i, j \in DOMAIN loops :
    i # j /\ ~Over(i) /\ ~Over(j) => loops[i].target # loops[j].target

\* When the job's task ends no loop of it is left: main then takes every
\* handle to remote-write for gone.
DoneIsQuiet == pc = "done" => \A i \in DOMAIN loops : Over(i)

\* Once a change of the target set is dealt with, a loop whose target left it
\* has ended all it wrote, unless a shutdown came in between; the loops of
\* the targets that stayed were not touched.
RemovedAreEnded ==
  pc = "selecting" =>
    \A i \in DOMAIN loops :
      IF running[loops[i].target] = i
      THEN ~loops[i].removed
      ELSE TrackStaleness /\ loops[i].wrote => loops[i].markers \/ shutdown

\* A loop sends its markers once, as its last act, and only when its target
\* left the set: a shutdown leaves the series to the replacement instance.
MarkersEndLoops ==
  [][\A i \in DOMAIN loops :
       loops[i].markers' # loops[i].markers =>
         loops[i].removed /\ running[loops[i].target] # i /\ Over(i)']_vars

\* A stable target set is eventually the one scraped, one live loop each, also
\* after a burst of changes and with slow loops to remove in between; only an
\* interval of zero, at which every loop panics, keeps the job from it.
Settled ==
  \A t \in Targets :
    t \in BuildTargets(groups) <=> running[t] # 0 /\ ~Over(running[t])
Converges ==
  []<>(Settled \/ zeroInterval \/ shutdown \/ pc = "done")

\* A shutdown ends the job, whatever it was doing.
ShutdownCompletes == shutdown ~> pc = "done"
=============================================================================
