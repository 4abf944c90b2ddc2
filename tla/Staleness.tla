------------------------------ MODULE Staleness ------------------------------
(***************************************************************************)
(* Staleness tracking: what a scrape loop remembers of the series it sent  *)
(* and the stale markers it emits when they are gone.  A tracker keeps only*)
(* the identities of the series last sent and one scrape body, not always  *)
(* the last one, from which it re-derives the labels of those that vanish. *)
(*                                                                         *)
(* A line of an exposition body is its raw text up to the value (the       *)
(* identity the parsers hash; hashes are taken not to collide) and its     *)
(* explicit timestamp, if it has one.  Values play no part.                *)
(***************************************************************************)
EXTENDS Integers, FiniteSets, FiniteSetsExt

CONSTANTS
  Targets,           \* targets with track_staleness
  Raw,               \* raw series texts
  Parsed,            \* [Raw -> labels]: what the parser makes of a text
  Final,             \* [labels -> labels or Dropped]: finalize_series_labels
  Dropped,           \* metric relabelling drops the series
  Clock,             \* readings of the wall clock, which may be stepped
  NoStamp,           \* the line carries no timestamp
  Bodies,            \* bodies a target may expose: sets of [raw, stamp]
  HonorTimestamps,   \* honor_timestamps of the targets
  SampleLimit,       \* sample_limit of the targets, 0 for none
  CompressOutcomes,  \* may compressing a retained body fail?
  NoBody             \* nothing is retained

StalenessAssumption ==
  /\ Bodies \subseteq SUBSET [raw : Raw, stamp : Clock \cup {NoStamp}]
  /\ IsFiniteSet(Targets) /\ IsFiniteSet(Raw)
  /\ DOMAIN Parsed = Raw
  /\ \A raw \in Raw : Parsed[raw] \in DOMAIN Final
  /\ HonorTimestamps \in BOOLEAN
  /\ SampleLimit \in Nat
  /\ CompressOutcomes \subseteq BOOLEAN
  /\ NoBody \notin [body : Bodies, start : Clock]

ASSUME StalenessAssumption

VARIABLES
  phase,            \* [t] the scrape loop of t
  retained,         \* [t] SeriesTracker::retained: body and scrape time
  hashes,           \* [t] SeriesTracker::hashes
  trackedReported,  \* [t] SeriesTracker::tracked_reported
  gauge,            \* METRICS.tracked_series
  reportSeries,     \* [t] the report series are remembered
  sent,             \* [t] the batch of the loop's last step
  unended,          \* [t] history: label sets sent and not ended by a marker
  forfeited         \* [t] history: label sets gone while no body was retained

vars == <<phase, retained, hashes, trackedReported, gauge, reportSeries, sent,
          unended, forfeited>>

Retainable == [body : Bodies, start : Clock] \cup {NoBody}

\* What one step of a loop hands to remote-write, report samples aside.
Batch == [live : SUBSET Raw, markers : SUBSET Raw, reportMarkers : BOOLEAN]
NoBatch == [live |-> {}, markers |-> {}, reportMarkers |-> FALSE]

-----------------------------------------------------------------------------
\* finalize_series_labels of a parsed line
Labels(raw) == Final[Parsed[raw]]
LabelsOf(raws) == {Labels(raw) : raw \in raws}

\* The timestamp the parser gives a line in a scrape started at start.
Timestamp(line, start) ==
  IF line.stamp = NoStamp \/ ~HonorTimestamps THEN start ELSE line.stamp

\* The identities of the series a body yields that carry the scrape's time.
Identities(body, start) ==
  {line.raw : line \in {l \in body : /\ Timestamp(l, start) = start
                                     /\ Labels(l.raw) # Dropped}}

\* rederive_markers: look the vanished identities up in the retained body.
Rederive(t, vanished) ==
  IF retained[t] = NoBody THEN {}
  ELSE vanished \cap Identities(retained[t].body, retained[t].start)

\* Mutant: the difference is remembered, not the size.
UpdateGaugeByDifference(t, size) ==
  /\ trackedReported' = [trackedReported EXCEPT ![t] = size - @]
  /\ gauge' = gauge + size - trackedReported[t]

\* update_gauge
UpdateGauge(t, size) ==
  /\ trackedReported' = [trackedReported EXCEPT ![t] = size]
  /\ gauge' = gauge + size - trackedReported[t]

\* History.  The markers end label sets, the samples open them; what vanishes
\* with no body to look it up in is forfeited.
Record(t, live, vanished, markers) ==
  /\ unended' = [unended EXCEPT ![t] = (@ \ LabelsOf(markers)) \cup LabelsOf(live)]
  /\ forfeited' = [forfeited EXCEPT ![t] =
       (@ \cup (IF retained[t] = NoBody THEN LabelsOf(vanished) ELSE {}))
         \ LabelsOf(live)]

-----------------------------------------------------------------------------
Init ==
  /\ phase = [t \in Targets |-> "stopped"]
  /\ retained = [t \in Targets |-> NoBody]
  /\ hashes = [t \in Targets |-> {}]
  /\ trackedReported = [t \in Targets |-> 0]
  /\ gauge = 0
  /\ reportSeries = [t \in Targets |-> FALSE]
  /\ sent = [t \in Targets |-> NoBatch]
  /\ unended = [t \in Targets |-> {}]
  /\ forfeited = [t \in Targets |-> {}]

\* scrape_loop starts with a default tracker.
Start(t) ==
  /\ phase[t] # "running"
  /\ phase' = [phase EXCEPT ![t] = "running"]
  /\ retained' = [retained EXCEPT ![t] = NoBody]
  /\ hashes' = [hashes EXCEPT ![t] = {}]
  /\ reportSeries' = [reportSeries EXCEPT ![t] = FALSE]
  /\ sent' = [sent EXCEPT ![t] = NoBatch]
  /\ unended' = [unended EXCEPT ![t] = {}]
  /\ forfeited' = [forfeited EXCEPT ![t] = {}]
  /\ UNCHANGED <<trackedReported, gauge>>

\* SeriesTracker::advance and the rest of the loop's turn after a scrape that
\* emitted the identities current; keep is what becomes of the retained body.
Advance(t, current, keep) ==
  LET vanished == hashes[t] \ current
      markers == Rederive(t, vanished)
  IN  /\ retained' = [retained EXCEPT ![t] = keep]
      /\ hashes' = [hashes EXCEPT ![t] = current]
      /\ UpdateGauge(t, Cardinality(current))
      /\ reportSeries' = [reportSeries EXCEPT ![t] = TRUE]
      /\ sent' = [sent EXCEPT ![t] = [live |-> current, markers |-> markers,
                    reportMarkers |-> FALSE]]
      /\ Record(t, current, vanished, markers)
      /\ UNCHANGED phase

\* Mutant: the retained body gets the time of the latest scrape.
KeepRestamped(t, body, start, current, compressed) ==
  IF retained[t] # NoBody /\ hashes[t] = current
  THEN [body |-> retained[t].body, start |-> start]
  ELSE IF compressed THEN [body |-> body, start |-> start] ELSE NoBody

\* Mutant: as many series as before are taken for the same series.
KeepBySize(t, body, start, current, compressed) ==
  IF retained[t] # NoBody /\ Cardinality(hashes[t]) = Cardinality(current)
  THEN retained[t]
  ELSE IF compressed THEN [body |-> body, start |-> start] ELSE NoBody

\* The body is kept again only if the set of series changed, or none is kept.
Keep(t, body, start, current, compressed) ==
  IF retained[t] # NoBody /\ hashes[t] = current THEN retained[t]
  ELSE IF compressed THEN [body |-> body, start |-> start] ELSE NoBody

WithinLimit(body) == SampleLimit = 0 \/ Cardinality(body) <= SampleLimit

Scrape(t) ==
  /\ phase[t] = "running"
  /\ \E body \in Bodies, start \in Clock, compressed \in CompressOutcomes :
       /\ WithinLimit(body)
       /\ LET current == Identities(body, start)
          IN  Advance(t, current, Keep(t, body, start, current, compressed))

\* The fetch, the parse or the sample limit failed: nothing was emitted, and
\* scrape_once returns no body to retain.
ScrapeFails(t) ==
  /\ phase[t] = "running"
  /\ Advance(t, {}, NoBody)

\* removed: drain_all, then the report series, then the loop ends and drops
\* its tracker.
Remove(t) ==
  /\ phase[t] = "running"
  /\ phase' = [phase EXCEPT ![t] = "removed"]
  /\ LET markers == Rederive(t, hashes[t])
     IN  /\ sent' = [sent EXCEPT ![t] = [live |-> {}, markers |-> markers,
                       reportMarkers |-> reportSeries[t]]]
         /\ Record(t, {}, hashes[t], markers)
  /\ retained' = [retained EXCEPT ![t] = NoBody]
  /\ hashes' = [hashes EXCEPT ![t] = {}]
  /\ reportSeries' = [reportSeries EXCEPT ![t] = FALSE]
  /\ UpdateGauge(t, 0)

\* Mutant: no Drop, the gauge keeps what a stopped loop tracked.
StopLeaksGauge(t) ==
  /\ phase[t] = "running"
  /\ phase' = [phase EXCEPT ![t] = "stopped"]
  /\ retained' = [retained EXCEPT ![t] = NoBody]
  /\ hashes' = [hashes EXCEPT ![t] = {}]
  /\ trackedReported' = [trackedReported EXCEPT ![t] = 0]
  /\ reportSeries' = [reportSeries EXCEPT ![t] = FALSE]
  /\ sent' = [sent EXCEPT ![t] = NoBatch]
  /\ UNCHANGED <<gauge, unended, forfeited>>

\* shutdown (of the process or for a reload), or a panic: no markers, but
\* SeriesTracker::drop gives the gauge back.
Stop(t) ==
  /\ phase[t] = "running"
  /\ phase' = [phase EXCEPT ![t] = "stopped"]
  /\ retained' = [retained EXCEPT ![t] = NoBody]
  /\ hashes' = [hashes EXCEPT ![t] = {}]
  /\ reportSeries' = [reportSeries EXCEPT ![t] = FALSE]
  /\ UpdateGauge(t, 0)
  /\ sent' = [sent EXCEPT ![t] = NoBatch]
  /\ UNCHANGED <<unended, forfeited>>

Next == \E t \in Targets : Start(t) \/ Scrape(t) \/ ScrapeFails(t) \/ Remove(t) \/ Stop(t)

Spec == Init /\ [][Next]_vars

-----------------------------------------------------------------------------
\* Properties

TypeOK ==
  /\ phase \in [Targets -> {"running", "removed", "stopped"}]
  /\ retained \in [Targets -> Retainable]
  /\ hashes \in [Targets -> SUBSET Raw]
  /\ trackedReported \in [Targets -> Nat]
  /\ gauge \in Int
  /\ reportSeries \in [Targets -> BOOLEAN]
  /\ sent \in [Targets -> Batch]
  /\ unended \in [Targets -> SUBSET LabelsOf(Raw)]
  /\ forfeited \in [Targets -> SUBSET LabelsOf(Raw)]

\* "The body already retained answers every re-derivation the new one could"
\* (the comment in advance): whatever mixture of plain and explicitly stamped
\* lines the bodies since then had, and wherever the clock was stepped, every
\* tracked series is one the retained body yields at its own scrape time.
RetainedAnswers ==
  \A t \in Targets :
    retained[t] # NoBody =>
      hashes[t] = Identities(retained[t].body, retained[t].start)

\* A label set the loop once sent at scrape time is still tracked, or was ended
\* by a marker (a removal ends them all), or was gone from the scrape right
\* after a body that could not be compressed.
VanishedAreEnded ==
  \A t \in Targets :
    phase[t] # "stopped" => unended[t] \subseteq LabelsOf(hashes[t]) \cup forfeited[t]

\* While every body can be compressed no series is ever forgotten, over any
\* sequence of good and failed scrapes and a removal.
NeverForgotten ==
  \A t \in Targets :
    phase[t] # "stopped" => unended[t] \subseteq LabelsOf(hashes[t])

\* The gauge is what the live trackers track, over removals, reloads and panics
\* (the comment on Drop: it once leaked upward over reloads).
GaugeExact ==
  gauge = MapThenSumSet(LAMBDA t : Cardinality(hashes[t]), Targets)

\* "one spurious staleness marker racing one real sample ... only on a
\* formatting change between two scrapes of the same target"
\* (docs/perf-improvements-3.adoc): the two texts parse to the same labels.
RacesOnlyOnReformatting ==
  \A t \in Targets : \A gone \in sent[t].markers, live \in sent[t].live :
    Labels(gone) = Labels(live) => Parsed[gone] = Parsed[live]
=============================================================================
