--------------------------- MODULE StalenessProofs ---------------------------
(***************************************************************************)
(* Proofs about Staleness, for any targets, bodies, parser, relabelling    *)
(* and readings of the clock.                                              *)
(***************************************************************************)
EXTENDS Staleness, FiniteSetTheorems, TLAPS

USE DEF Batch, NoBatch, Retainable

\* The inductive invariant: every conjunct rests on the ones before it.
IInv == TypeOK /\ RetainedAnswers /\ VanishedAreEnded

-----------------------------------------------------------------------------
\* A body yields raw texts, and re-deriving markers only picks some of those
\* that vanished.
LEMMA IdentitiesType ==
  ASSUME NEW body \in Bodies, NEW start \in Clock
  PROVE  Identities(body, start) \in SUBSET Raw
BY StalenessAssumption DEF Identities, StalenessAssumption

\* Every set of raw texts is finite.
LEMMA RawFinite ==
  ASSUME NEW raws \in SUBSET Raw
  PROVE  IsFiniteSet(raws) /\ Cardinality(raws) \in Nat
BY StalenessAssumption, FS_Subset, FS_CardinalityType DEF StalenessAssumption

\* The markers re-derived for the vanished identities are among them.
LEMMA RederiveSubset ==
  ASSUME NEW t, NEW vanished
  PROVE  Rederive(t, vanished) \subseteq vanished
BY DEF Rederive

\* When a body is retained and everything tracked is among its identities, no
\* vanished identity is missed.
LEMMA RederiveComplete ==
  ASSUME RetainedAnswers, NEW t \in Targets, retained[t] # NoBody,
         NEW vanished \in SUBSET hashes[t]
  PROVE  Rederive(t, vanished) = vanished
BY DEF RetainedAnswers, Rederive

\* Keep keeps a body that yields exactly the current identities, or none.
LEMMA KeepAnswers ==
  ASSUME RetainedAnswers, TypeOK, NEW t \in Targets, NEW body \in Bodies,
         NEW start \in Clock, NEW compressed \in BOOLEAN
  PROVE  LET current == Identities(body, start)
             keep == Keep(t, body, start, current, compressed)
         IN  /\ keep \in Retainable
             /\ keep # NoBody => current = Identities(keep.body, keep.start)
             /\ compressed => keep # NoBody
<1> DEFINE current == Identities(body, start)
           fresh == [body |-> body, start |-> start]
<1>1. fresh \in [body : Bodies, start : Clock] /\ fresh.body = body /\ fresh.start = start
  OBVIOUS
<1>2. fresh # NoBody
  BY <1>1, StalenessAssumption DEF StalenessAssumption
<1>3. retained[t] \in Retainable
  BY DEF TypeOK
<1>4. CASE retained[t] # NoBody /\ hashes[t] = current
  <2>1. Keep(t, body, start, current, compressed) = retained[t]
    BY <1>4 DEF Keep
  <2>2. QED  BY <2>1, <1>3, <1>4 DEF RetainedAnswers
<1>5. CASE ~(retained[t] # NoBody /\ hashes[t] = current) /\ compressed
  <2>1. Keep(t, body, start, current, compressed) = fresh
    BY <1>5 DEF Keep
  <2>2. QED  BY <2>1, <1>1, <1>2
<1>6. CASE ~(retained[t] # NoBody /\ hashes[t] = current) /\ ~compressed
  <2>1. Keep(t, body, start, current, compressed) = NoBody
    BY <1>6 DEF Keep
  <2>2. QED  BY <2>1, <1>6
<1>7. QED  BY <1>4, <1>5, <1>6

-----------------------------------------------------------------------------
\* The history stays well-typed and complete over any step that tracks `live`
\* next and emits what Rederive makes of the identities that vanished.
LEMMA RecordEnds ==
  ASSUME IInv, NEW t \in Targets, phase[t] = "running", NEW live \in SUBSET Raw,
         Record(t, live, hashes[t] \ live, Rederive(t, hashes[t] \ live))
  PROVE  /\ unended' \in [Targets -> SUBSET LabelsOf(Raw)]
         /\ forfeited' \in [Targets -> SUBSET LabelsOf(Raw)]
         /\ unended'[t] \subseteq LabelsOf(live) \cup forfeited'[t]
         /\ \A u \in Targets \ {t} :
              unended'[u] = unended[u] /\ forfeited'[u] = forfeited[u]
<1> DEFINE vanished == hashes[t] \ live
           markers == Rederive(t, vanished)
           gone == IF retained[t] = NoBody THEN LabelsOf(vanished) ELSE {}
<1>1. /\ unended' = [unended EXCEPT ![t] =
                       (unended[t] \ LabelsOf(markers)) \cup LabelsOf(live)]
      /\ forfeited' = [forfeited EXCEPT ![t] =
                         (forfeited[t] \cup gone) \ LabelsOf(live)]
  BY DEF Record
<1>2. /\ hashes[t] \subseteq Raw
      /\ unended \in [Targets -> SUBSET LabelsOf(Raw)]
      /\ forfeited \in [Targets -> SUBSET LabelsOf(Raw)]
  BY DEF IInv, TypeOK
<1>3. LabelsOf(live) \subseteq LabelsOf(Raw) /\ gone \subseteq LabelsOf(Raw)
  BY <1>2 DEF LabelsOf
<1>4. unended[t] \subseteq LabelsOf(hashes[t]) \cup forfeited[t]
  BY DEF IInv, VanishedAreEnded
<1>5. LabelsOf(hashes[t]) \subseteq LabelsOf(live) \cup LabelsOf(vanished)
  BY DEF LabelsOf
<1>6. LabelsOf(vanished) \subseteq LabelsOf(markers) \cup gone
  <2>1. CASE retained[t] = NoBody
    BY <2>1
  <2>2. CASE retained[t] # NoBody
    BY <2>2, RederiveComplete DEF IInv
  <2>3. QED  BY <2>1, <2>2
<1>7. unended'[t] = (unended[t] \ LabelsOf(markers)) \cup LabelsOf(live)
      /\ forfeited'[t] = (forfeited[t] \cup gone) \ LabelsOf(live)
  BY <1>1, <1>2
<1>8. unended'[t] \subseteq LabelsOf(live) \cup forfeited'[t]
  <2> HIDE DEF vanished, markers, gone
  <2> QED  BY <1>4, <1>5, <1>6, <1>7
<1>9. QED
  <2> HIDE DEF vanished, markers, gone
  <2> QED  BY <1>1, <1>2, <1>3, <1>8

\* What a turn of the loop keeps of the retained body is what the next turn
\* needs, whatever the scrape produced.
LEMMA AdvanceInductive ==
  ASSUME IInv, NEW t \in Targets, phase[t] = "running",
         NEW current \in SUBSET Raw, NEW keep \in Retainable,
         keep # NoBody => current = Identities(keep.body, keep.start),
         Advance(t, current, keep)
  PROVE  IInv'
<1> DEFINE vanished == hashes[t] \ current
           markers == Rederive(t, vanished)
<1> USE DEF IInv
<1>1. /\ retained' = [retained EXCEPT ![t] = keep]
      /\ hashes' = [hashes EXCEPT ![t] = current]
      /\ reportSeries' = [reportSeries EXCEPT ![t] = TRUE]
      /\ sent' = [sent EXCEPT ![t] = [live |-> current, markers |-> markers,
                    reportMarkers |-> FALSE]]
      /\ trackedReported' = [trackedReported EXCEPT ![t] = Cardinality(current)]
      /\ gauge' = gauge + Cardinality(current) - trackedReported[t]
      /\ Record(t, current, vanished, markers)
      /\ phase' = phase
  BY DEF Advance, UpdateGauge
<1>2. markers \in SUBSET Raw
  BY RederiveSubset DEF TypeOK
<1>3. Cardinality(current) \in Nat /\ Cardinality(markers) \in Nat
  BY <1>2, RawFinite
<1>4. /\ unended' \in [Targets -> SUBSET LabelsOf(Raw)]
      /\ forfeited' \in [Targets -> SUBSET LabelsOf(Raw)]
      /\ unended'[t] \subseteq LabelsOf(current) \cup forfeited'[t]
      /\ \A u \in Targets \ {t} :
           unended'[u] = unended[u] /\ forfeited'[u] = forfeited[u]
  BY <1>1, RecordEnds
<1>5. TypeOK'
  <2> HIDE DEF markers, vanished
  <2>1. [live |-> current, markers |-> markers, reportMarkers |-> FALSE] \in Batch
    BY <1>2, <1>3
  <2>2. sent' \in [Targets -> Batch]
    BY <1>1, <2>1 DEF TypeOK
  <2>3. trackedReported' \in [Targets -> Nat] /\ gauge' \in Int
    BY <1>1, <1>3 DEF TypeOK
  <2>4. /\ phase' \in [Targets -> {"running", "removed", "stopped"}]
        /\ retained' \in [Targets -> Retainable]
        /\ hashes' \in [Targets -> SUBSET Raw]
        /\ reportSeries' \in [Targets -> BOOLEAN]
    BY <1>1 DEF TypeOK
  <2>5. LabelsOf(Raw)' = LabelsOf(Raw)
    BY DEF LabelsOf
  <2>6. QED  BY <1>4, <2>2, <2>3, <2>4, <2>5 DEF TypeOK
<1>6. RetainedAnswers'
  <2> SUFFICES ASSUME NEW u \in Targets, retained'[u] # NoBody
               PROVE  hashes'[u] = Identities(retained'[u].body, retained'[u].start)
    BY DEF RetainedAnswers
  <2> QED  BY <1>1 DEF TypeOK, RetainedAnswers
<1>7. VanishedAreEnded'
  <2> SUFFICES ASSUME NEW u \in Targets, phase'[u] # "stopped"
               PROVE  unended'[u] \subseteq LabelsOf(hashes'[u]) \cup forfeited'[u]
    BY DEF VanishedAreEnded, LabelsOf
  <2> HIDE DEF markers, vanished
  <2> QED  BY <1>1, <1>4 DEF TypeOK, VanishedAreEnded
<1>8. QED  BY <1>5, <1>6, <1>7

\* Start, Stop and Remove leave an empty tracker; what they do to the history
\* is given.
LEMMA ResetInductive ==
  ASSUME IInv, NEW t \in Targets, NEW p \in {"running", "removed", "stopped"},
         phase' = [phase EXCEPT ![t] = p],
         retained' = [retained EXCEPT ![t] = NoBody],
         hashes' = [hashes EXCEPT ![t] = {}],
         trackedReported' \in [Targets -> Nat], gauge' \in Int,
         reportSeries' \in [Targets -> BOOLEAN], sent' \in [Targets -> Batch],
         unended' \in [Targets -> SUBSET LabelsOf(Raw)],
         forfeited' \in [Targets -> SUBSET LabelsOf(Raw)],
         p # "stopped" => unended'[t] \subseteq forfeited'[t],
         \A u \in Targets \ {t} :
           unended'[u] = unended[u] /\ forfeited'[u] = forfeited[u]
  PROVE  IInv'
<1> USE DEF IInv
<1>1. TypeOK'
  BY DEF TypeOK
<1>2. RetainedAnswers'
  BY DEF RetainedAnswers, TypeOK
<1>3. VanishedAreEnded'
  <2> SUFFICES ASSUME NEW u \in Targets, phase'[u] # "stopped"
               PROVE  unended'[u] \subseteq LabelsOf(hashes'[u]) \cup forfeited'[u]
    BY DEF VanishedAreEnded, LabelsOf
  <2> QED  BY DEF TypeOK, VanishedAreEnded
<1>4. QED  BY <1>1, <1>2, <1>3

-----------------------------------------------------------------------------
\* The invariant holds before any loop has started.
LEMMA InitInductive == Init => IInv
<1>1. NoBatch \in Batch
  OBVIOUS
<1>2. QED
  BY <1>1 DEF Init, IInv, TypeOK, RetainedAnswers, VanishedAreEnded, LabelsOf

\* Every step of every loop preserves the invariant.
LEMMA NextInductive == IInv /\ [Next]_vars => IInv'
<1> SUFFICES ASSUME IInv, [Next]_vars
             PROVE  IInv'
  OBVIOUS
<1>1. CASE UNCHANGED vars
  BY <1>1 DEF vars, IInv, TypeOK, RetainedAnswers, VanishedAreEnded, LabelsOf
<1>2. ASSUME NEW t \in Targets, Start(t)
      PROVE  IInv'
  <2>1. NoBatch \in Batch
    OBVIOUS
  <2>2. QED
    BY <1>2, <2>1, ResetInductive, "running" \in {"running", "removed", "stopped"}
    DEF Start, IInv, TypeOK
<1>3. ASSUME NEW t \in Targets, Scrape(t)
      PROVE  IInv'
  <2>1. PICK body \in Bodies, start \in Clock, compressed \in CompressOutcomes :
          Advance(t, Identities(body, start),
                  Keep(t, body, start, Identities(body, start), compressed))
    BY <1>3 DEF Scrape
  <2>2. compressed \in BOOLEAN
    BY StalenessAssumption DEF StalenessAssumption
  <2>3. phase[t] = "running"
    BY <1>3 DEF Scrape
  <2>4. QED
    BY <2>1, <2>2, <2>3, KeepAnswers, IdentitiesType, AdvanceInductive DEF IInv
<1>4. ASSUME NEW t \in Targets, ScrapeFails(t)
      PROVE  IInv'
  BY <1>4, AdvanceInductive, NoBody \in Retainable DEF ScrapeFails
<1>5. ASSUME NEW t \in Targets, Remove(t)
      PROVE  IInv'
  <2> DEFINE markers == Rederive(t, hashes[t])
  <2>1. markers \in SUBSET Raw
    BY RederiveSubset DEF IInv, TypeOK
  <2>2. Cardinality(markers) \in Nat /\ Cardinality({}) = 0
    BY <2>1, RawFinite, FS_EmptySet
  <2>3. reportSeries[t] \in BOOLEAN
    BY DEF IInv, TypeOK
  <2>4. [live |-> {}, markers |-> markers, reportMarkers |-> reportSeries[t]] \in Batch
    <3> HIDE DEF markers
    <3> QED  BY <2>1, <2>2, <2>3
  <2>5. /\ unended' \in [Targets -> SUBSET LabelsOf(Raw)]
        /\ forfeited' \in [Targets -> SUBSET LabelsOf(Raw)]
        /\ unended'[t] \subseteq LabelsOf({}) \cup forfeited'[t]
        /\ \A u \in Targets \ {t} :
             unended'[u] = unended[u] /\ forfeited'[u] = forfeited[u]
    <3>1. hashes[t] \ {} = hashes[t]
      OBVIOUS
    <3>2. QED  BY <1>5, <3>1, RecordEnds DEF Remove
  <2>6. LabelsOf({}) = {}
    BY DEF LabelsOf
  <2>7. /\ sent' \in [Targets -> Batch]
        /\ trackedReported' \in [Targets -> Nat]
        /\ gauge' \in Int
        /\ reportSeries' \in [Targets -> BOOLEAN]
    <3> HIDE DEF markers
    <3> USE DEF IInv, TypeOK
    <3>1. sent' = [sent EXCEPT ![t] =
                     [live |-> {}, markers |-> markers,
                      reportMarkers |-> reportSeries[t]]]
      BY <1>5 DEF Remove, markers
    <3>2. sent' \in [Targets -> Batch]
      BY <2>4, <3>1
    <3>3. trackedReported' \in [Targets -> Nat] /\ gauge' \in Int
      BY <1>5 DEF Remove, UpdateGauge
    <3>4. reportSeries' \in [Targets -> BOOLEAN]
      BY <1>5 DEF Remove
    <3>5. QED  BY <3>2, <3>3, <3>4
  <2>8. QED
    BY <1>5, <2>5, <2>6, <2>7, ResetInductive,
       "removed" \in {"running", "removed", "stopped"} DEF Remove
<1>6. ASSUME NEW t \in Targets, Stop(t)
      PROVE  IInv'
  <2>1. NoBatch \in Batch
    OBVIOUS
  <2>2. /\ sent' \in [Targets -> Batch]
        /\ trackedReported' \in [Targets -> Nat]
        /\ gauge' \in Int
        /\ reportSeries' \in [Targets -> BOOLEAN]
    BY <1>6, <2>1 DEF Stop, UpdateGauge, IInv, TypeOK
  <2>3. unended' = unended /\ forfeited' = forfeited
    BY <1>6 DEF Stop
  <2>4. QED
    BY <1>6, <2>2, <2>3, ResetInductive,
       "stopped" \in {"running", "removed", "stopped"} DEF Stop, IInv, TypeOK
<1>7. QED  BY <1>1, <1>2, <1>3, <1>4, <1>5, <1>6 DEF Next

\* The inductive invariant is an invariant.
THEOREM Invariance == Spec => []IInv
BY InitInductive, NextInductive, PTL DEF Spec

\* The state of every tracker, the batches and the history have their types.
THEOREM TypeCorrect == Spec => []TypeOK
<1>1. IInv => TypeOK
  BY DEF IInv
<1>2. QED  BY <1>1, Invariance, PTL

\* A retained body, however old, yields exactly the tracked series.
THEOREM RetentionSound == Spec => []RetainedAnswers
<1>1. IInv => RetainedAnswers
  BY DEF IInv
<1>2. QED  BY <1>1, Invariance, PTL

\* Every series sent is tracked, ended by a marker, or gone right after a body
\* that could not be compressed.
THEOREM MarkersComplete == Spec => []VanishedAreEnded
<1>1. IInv => VanishedAreEnded
  BY DEF IInv
<1>2. QED  BY <1>1, Invariance, PTL

-----------------------------------------------------------------------------
(***************************************************************************)
(* When compression never fails.  Retention is then an invariant of its    *)
(* own: a loop that tracks something retains a body, so nothing is ever    *)
(* forfeited and every vanished series got its marker.                     *)
(***************************************************************************)

AlwaysRetained ==
  \A t \in Targets :
    /\ retained[t] = NoBody => hashes[t] = {}
    /\ forfeited[t] = {}

\* A turn of the loop that keeps a body, or tracks nothing, forfeits nothing.
LEMMA AdvanceRetains ==
  ASSUME IInv, AlwaysRetained, NEW t \in Targets, NEW current \in SUBSET Raw,
         NEW keep \in Retainable, keep = NoBody => current = {},
         Advance(t, current, keep)
  PROVE  AlwaysRetained'
<1>1. /\ retained' = [retained EXCEPT ![t] = keep]
      /\ hashes' = [hashes EXCEPT ![t] = current]
      /\ forfeited' = [forfeited EXCEPT ![t] =
           (@ \cup (IF retained[t] = NoBody THEN LabelsOf(hashes[t] \ current)
                    ELSE {})) \ LabelsOf(current)]
  BY DEF Advance, Record
<1>2. (IF retained[t] = NoBody THEN LabelsOf(hashes[t] \ current) ELSE {}) = {}
  BY DEF AlwaysRetained, LabelsOf
<1>3. forfeited'[t] = {}
  BY <1>1, <1>2 DEF IInv, TypeOK, AlwaysRetained
<1>4. QED  BY <1>1, <1>3 DEF IInv, TypeOK, AlwaysRetained

\* No step forfeits a series if every compression succeeds.
LEMMA NextRetains ==
  ASSUME FALSE \notin CompressOutcomes, IInv, AlwaysRetained, [Next]_vars
  PROVE  AlwaysRetained'
<1> USE DEF IInv, TypeOK, AlwaysRetained
<1>1. CASE UNCHANGED vars
  BY <1>1 DEF vars
<1>2. ASSUME NEW t \in Targets, Start(t)
      PROVE  AlwaysRetained'
  BY <1>2 DEF Start
<1>3. ASSUME NEW t \in Targets, Scrape(t)
      PROVE  AlwaysRetained'
  <2>1. PICK body \in Bodies, start \in Clock, compressed \in CompressOutcomes :
          Advance(t, Identities(body, start),
                  Keep(t, body, start, Identities(body, start), compressed))
    BY <1>3 DEF Scrape
  <2>2. compressed = TRUE
    BY StalenessAssumption DEF StalenessAssumption
  <2> HIDE DEF IInv, TypeOK, AlwaysRetained
  <2>3. RetainedAnswers /\ TypeOK
    BY DEF IInv
  <2>4. QED
    BY <2>1, <2>2, <2>3, KeepAnswers, IdentitiesType, AdvanceRetains
<1>4. ASSUME NEW t \in Targets, ScrapeFails(t)
      PROVE  AlwaysRetained'
  <2> HIDE DEF IInv, TypeOK, AlwaysRetained
  <2> QED  BY <1>4, AdvanceRetains, NoBody \in Retainable DEF ScrapeFails
<1>5. ASSUME NEW t \in Targets, Remove(t)
      PROVE  AlwaysRetained'
  <2>1. (IF retained[t] = NoBody THEN LabelsOf(hashes[t]) ELSE {}) = {}
    BY DEF LabelsOf
  <2>2. /\ retained' = [retained EXCEPT ![t] = NoBody]
        /\ hashes' = [hashes EXCEPT ![t] = {}]
        /\ forfeited' = [forfeited EXCEPT ![t] =
             (@ \cup (IF retained[t] = NoBody THEN LabelsOf(hashes[t]) ELSE {}))
               \ LabelsOf({})]
    BY <1>5 DEF Remove, Record
  <2>3. QED  BY <2>1, <2>2
<1>6. ASSUME NEW t \in Targets, Stop(t)
      PROVE  AlwaysRetained'
  BY <1>6 DEF Stop
<1>7. QED  BY <1>1, <1>2, <1>3, <1>4, <1>5, <1>6 DEF Next

\* While every body can be compressed a loop forgets no series it sent: each is
\* still tracked or was ended by a marker.
THEOREM NothingForgotten ==
  ASSUME FALSE \notin CompressOutcomes
  PROVE  Spec => []NeverForgotten
<1>1. Init => AlwaysRetained
  BY DEF Init, AlwaysRetained
<1>2. IInv /\ AlwaysRetained /\ [Next]_vars => AlwaysRetained'
  BY NextRetains
<1>3. IInv /\ AlwaysRetained => NeverForgotten
  BY DEF IInv, VanishedAreEnded, AlwaysRetained, NeverForgotten
<1>4. QED  BY <1>1, <1>2, <1>3, Invariance, PTL DEF Spec
-----------------------------------------------------------------------------
(***************************************************************************)
(* The gauge.  A sum over a set of targets is a fold, a function recursive *)
(* in the set: that it is defined, and that it follows the change of one   *)
(* summand, is proved by induction over the number of targets, for which a *)
(* least counterexample stands (WFMin).                                    *)
(***************************************************************************)

\* A set of natural numbers that has 0 and with every number the next has all.
LEMMA Induction ==
  ASSUME NEW S, 0 \in S, \A n \in Nat : n \in S => n + 1 \in S
  PROVE  Nat \subseteq S
<1> DEFINE T == Nat \ S
<1>1. SUFFICES ASSUME T # {} PROVE FALSE
  OBVIOUS
<1>2. PICK x \in T : \A y \in T : <<y, x>> \notin OpToRel(<, Nat)
  BY <1>1, NatLessThanWellFounded, WFMin
<1>3. x # 0 /\ x - 1 \in Nat /\ x - 1 < x
  OBVIOUS
<1>4. <<x - 1, x>> \in OpToRel(<, Nat)
  BY <1>3 DEF OpToRel
<1>5. x - 1 \in S
  BY <1>2, <1>3, <1>4
<1> QED
  BY <1>3, <1>5

\* The target a sum over `targets` begins with.
First(targets) == CHOOSE t \in targets : TRUE

\* What is left of some targets has one target less.
LEMMA RestIsSmaller ==
  ASSUME NEW targets \in SUBSET Targets, targets # {}
  PROVE  /\ First(targets) \in targets
         /\ targets \ {First(targets)} \in SUBSET Targets
         /\ Cardinality(targets) \in Nat
         /\ Cardinality(targets \ {First(targets)}) = Cardinality(targets) - 1
<1>1. First(targets) \in targets
  BY DEF First
<1>2. IsFiniteSet(targets)
  BY StalenessAssumption, FS_Subset DEF StalenessAssumption
<1> QED
  BY <1>1, <1>2, FS_RemoveElement, FS_CardinalityType

\* To hold for all sets of targets is to hold for none and to go from what is
\* left of some to all of them.
LEMMA TargetsInduction ==
  ASSUME NEW Good \in SUBSET SUBSET Targets, {} \in Good,
         \A targets \in SUBSET Targets :
           targets # {} /\ targets \ {First(targets)} \in Good => targets \in Good
  PROVE  Good = SUBSET Targets
<1> DEFINE Sizes == {n \in Nat : \A targets \in SUBSET Targets :
                                   Cardinality(targets) = n => targets \in Good}
<1>1. \A targets \in SUBSET Targets : IsFiniteSet(targets) /\ Cardinality(targets) \in Nat
  BY StalenessAssumption, FS_Subset, FS_CardinalityType DEF StalenessAssumption
<1>2. 0 \in Sizes
  BY <1>1, FS_EmptySet
<1>3. ASSUME NEW n \in Nat, n \in Sizes
      PROVE  n + 1 \in Sizes
  <2> SUFFICES ASSUME NEW targets \in SUBSET Targets, Cardinality(targets) = n + 1
               PROVE  targets \in Good
    OBVIOUS
  <2>1. targets # {}
    BY FS_EmptySet
  <2>2. targets \ {First(targets)} \in Good
    BY <1>3, <2>1, RestIsSmaller
  <2> QED
    BY <2>1, <2>2
<1> HIDE DEF Sizes
<1>4. Nat \subseteq Sizes
  BY <1>2, <1>3, Induction
<1> QED
  BY <1>1, <1>4 DEF Sizes

\* The sum of the sizes of what the trackers h track, over some targets.
SumStep(h, f) ==
  [targets \in SUBSET Targets |->
     IF targets = {} THEN 0
     ELSE Cardinality(h[First(targets)]) + f[targets \ {First(targets)}]]
SumOver(h) == CHOOSE f : f = SumStep(h, f)

\* What the gauge is to be.
GaugeOf(h) == MapThenSumSet(LAMBDA t : Cardinality(h[t]), Targets)

\* There is such a sum, by induction over the number of targets.
LEMMA SumIsDefined ==
  ASSUME NEW h \in [Targets -> SUBSET Raw]
  PROVE  SumOver(h) = SumStep(h, SumOver(h))
<1> DEFINE UpTo(n) == {targets \in SUBSET Targets : Cardinality(targets) <= n}
           Sums(f, n) == \A targets \in UpTo(n) :
                           f[targets] = IF targets = {} THEN 0
                                        ELSE Cardinality(h[First(targets)]) + f[targets \ {First(targets)}]
           Sizes == {n \in Nat : \E f : Sums(f, n)}
<1>1. \A targets \in SUBSET Targets : IsFiniteSet(targets) /\ Cardinality(targets) \in Nat
  BY StalenessAssumption, FS_Subset, FS_CardinalityType DEF StalenessAssumption
<1>2. 0 \in Sizes
  <2> DEFINE f == [targets \in SUBSET Targets |-> 0]
  <2>1. \A targets \in UpTo(0) : targets = {}
    BY <1>1, FS_EmptySet
  <2>2. Sums(f, 0)
    BY <2>1
  <2> HIDE DEF Sums
  <2> QED
    BY <2>2
<1>3. ASSUME NEW n \in Nat, n \in Sizes
      PROVE  n + 1 \in Sizes
  <2>1. PICK f : Sums(f, n)
    BY <1>3
  <2> DEFINE g == [targets \in SUBSET Targets |->
                     IF targets = {} THEN 0
                     ELSE Cardinality(h[First(targets)]) + f[targets \ {First(targets)}]]
  <2>2. ASSUME NEW targets \in UpTo(n)
        PROVE  g[targets] = f[targets]
    BY <2>1
  <2>3. ASSUME NEW targets \in UpTo(n + 1), targets # {}
        PROVE  targets \ {First(targets)} \in UpTo(n)
    BY <2>3, RestIsSmaller
  <2>4. Sums(g, n + 1)
    BY <2>2, <2>3
  <2> HIDE DEF Sums, g
  <2> QED
    BY <2>4
<1> HIDE DEF Sizes
<1>4. Cardinality(Targets) \in Sizes
  BY <1>1, <1>2, <1>3, Induction
<1>5. PICK f : Sums(f, Cardinality(Targets))
  BY <1>4 DEF Sizes
<1>6. UpTo(Cardinality(Targets)) = SUBSET Targets
  BY <1>1, FS_Subset, StalenessAssumption DEF StalenessAssumption
<1> DEFINE g == [targets \in SUBSET Targets |-> f[targets]]
<1>7. g = SumStep(h, g)
  BY <1>5, <1>6, RestIsSmaller DEF SumStep
<1> QED
  BY <1>7 DEF SumOver

\* The gauge is that sum over all targets.
LEMMA GaugeIsSum ==
  ASSUME NEW h
  PROVE GaugeOf(h) = SumOver(h)[Targets]
BY DEF GaugeOf, MapThenSumSet, MapThenFoldSet, SumOver, SumStep, First

\* When one tracker changes the sum changes by as much.
LEMMA SumFollows ==
  ASSUME NEW h \in [Targets -> SUBSET Raw], NEW t \in Targets, NEW current \in SUBSET Raw
  PROVE  GaugeOf([h EXCEPT ![t] = current])
           = GaugeOf(h) + Cardinality(current) - Cardinality(h[t])
<1> DEFINE k == [h EXCEPT ![t] = current]
           f == SumOver(h)
           g == SumOver(k)
           change == Cardinality(current) - Cardinality(h[t])
           Good == {targets \in SUBSET Targets :
                      /\ f[targets] \in Int
                      /\ g[targets] = f[targets] + (IF t \in targets THEN change ELSE 0)}
<1>1. k \in [Targets -> SUBSET Raw]
  OBVIOUS
<1>2. f = SumStep(h, f) /\ g = SumStep(k, g)
  <2> HIDE DEF k
  <2> QED  BY <1>1, SumIsDefined
<1>3. \A u \in Targets : Cardinality(h[u]) \in Int /\ Cardinality(k[u]) \in Int
  BY <1>1, RawFinite
<1>4. \A u \in Targets :
        Cardinality(k[u]) = Cardinality(h[u]) + (IF u = t THEN change ELSE 0)
  BY <1>3
<1> HIDE DEF f, g, k, change
<1>5. change \in Int
  BY RawFinite DEF change
<1>6. f[{}] = 0 /\ g[{}] = 0
  BY <1>2 DEF SumStep
<1>7. {} \in Good
  BY <1>6
<1>8. ASSUME NEW targets \in SUBSET Targets, targets # {},
             targets \ {First(targets)} \in Good
      PROVE  targets \in Good
  <2> DEFINE u == First(targets)
             rest == targets \ {u}
  <2>1. u \in targets
    BY <1>8, RestIsSmaller
  <2>2. /\ f[targets] = Cardinality(h[u]) + f[rest]
        /\ g[targets] = Cardinality(k[u]) + g[rest]
    BY <1>2, <1>8 DEF SumStep
  <2>3. f[rest] \in Int /\ g[rest] = f[rest] + (IF t \in rest THEN change ELSE 0)
    BY <1>8
  <2> HIDE DEF u
  <2>4. f[targets] \in Int
    BY <1>3, <2>1, <2>2, <2>3
  <2>5. g[targets] = f[targets] + (IF t \in targets THEN change ELSE 0)
    <3>1. CASE u = t
      BY <1>3, <1>4, <1>5, <2>1, <2>2, <2>3, <3>1
    <3>2. CASE u # t
      BY <1>3, <1>4, <1>5, <2>1, <2>2, <2>3, <3>2
    <3> QED  BY <3>1, <3>2
  <2> QED
    BY <2>4, <2>5
<1>9. Good = SUBSET Targets
  <2> HIDE DEF Good
  <2>1. Good \in SUBSET SUBSET Targets
    BY DEF Good
  <2> QED  BY <1>7, <1>8, <2>1, TargetsInduction
<1>10. f[Targets] \in Int /\ g[Targets] = f[Targets] + change
  BY <1>9
<1> QED
  BY <1>3, <1>10, GaugeIsSum DEF f, g, k, change

\* Trackers that track nothing add up to zero.
LEMMA SumOfNothing == GaugeOf([t \in Targets |-> {}]) = 0
<1> DEFINE h == [t \in Targets |-> {}]
           f == SumOver(h)
           Good == {targets \in SUBSET Targets : f[targets] = 0}
<1>1. f = SumStep(h, f)
  BY SumIsDefined
<1>2. Cardinality({}) = 0
  BY FS_EmptySet
<1> HIDE DEF f
<1>3. {} \in Good
  BY <1>1 DEF SumStep
<1>4. ASSUME NEW targets \in SUBSET Targets, targets # {},
             targets \ {First(targets)} \in Good
      PROVE  targets \in Good
  <2> DEFINE t == First(targets)
  <2>1. t \in Targets
    BY <1>4, RestIsSmaller
  <2>2. f[targets] = Cardinality(h[t]) + f[targets \ {t}]
    BY <1>1, <1>4 DEF SumStep
  <2>3. Cardinality(h[t]) = 0 /\ f[targets \ {t}] = 0
    BY <1>2, <1>4, <2>1
  <2> QED
    BY <2>2, <2>3
<1>5. Good = SUBSET Targets
  <2> HIDE DEF Good
  <2>1. Good \in SUBSET SUBSET Targets
    BY DEF Good
  <2> QED  BY <1>3, <1>4, <2>1, TargetsInduction
<1> QED
  BY <1>5, GaugeIsSum DEF f

\* What makes GaugeExact inductive: what is reported for a tracker is what it
\* tracks, and where no loop runs nothing is tracked, so that a loop that starts
\* with a default tracker owes nothing to the gauge.
Accounted ==
  /\ gauge = GaugeOf(hashes)
  /\ \A t \in Targets : trackedReported[t] = Cardinality(hashes[t])
  /\ \A t \in Targets : phase[t] # "running" => hashes[t] = {}

\* A step that goes through update_gauge keeps the books.
LEMMA UpdateAccounts ==
  ASSUME TypeOK, Accounted, NEW t \in Targets, NEW current \in SUBSET Raw,
         NEW p \in {"running", "removed", "stopped"},
         phase' = [phase EXCEPT ![t] = p], p # "running" => current = {},
         hashes' = [hashes EXCEPT ![t] = current],
         UpdateGauge(t, Cardinality(current))
  PROVE  Accounted'
<1>1. hashes \in [Targets -> SUBSET Raw]
  BY DEF TypeOK
<1>2. GaugeOf(hashes)' = GaugeOf(hashes) + Cardinality(current) - Cardinality(hashes[t])
  <2>1. GaugeOf(hashes)' = GaugeOf([hashes EXCEPT ![t] = current])
    BY DEF GaugeOf, MapThenSumSet, MapThenFoldSet
  <2> QED  BY <1>1, <2>1, SumFollows
<1>3. gauge' = GaugeOf(hashes)'
  BY <1>2 DEF Accounted, UpdateGauge
<1>4. \A u \in Targets : trackedReported'[u] = Cardinality(hashes'[u])
  BY DEF Accounted, UpdateGauge, TypeOK
<1>5. \A u \in Targets : phase'[u] # "running" => hashes'[u] = {}
  BY DEF Accounted, TypeOK
<1> QED
  BY <1>3, <1>4, <1>5 DEF Accounted

\* Every step keeps the books, a start and a stop among them.
LEMMA NextAccounts ==
  ASSUME IInv, Accounted, [Next]_vars
  PROVE  Accounted'
<1> USE DEF IInv
<1>1. CASE UNCHANGED vars
  BY <1>1 DEF vars, Accounted, GaugeOf, MapThenSumSet, MapThenFoldSet
<1>2. ASSUME NEW t \in Targets, Start(t)
      PROVE  Accounted'
  <2>1. hashes' = hashes
    BY <1>2 DEF Start, Accounted, TypeOK
  <2>2. gauge' = gauge /\ trackedReported' = trackedReported
        /\ phase' = [phase EXCEPT ![t] = "running"]
    BY <1>2 DEF Start
  <2>3. GaugeOf(hashes)' = GaugeOf(hashes)
    BY <2>1 DEF GaugeOf, MapThenSumSet, MapThenFoldSet
  <2> QED
    BY <2>1, <2>2, <2>3 DEF Accounted, TypeOK
<1>3. ASSUME NEW t \in Targets, NEW current \in SUBSET Raw, NEW keep, phase[t] = "running",
             Advance(t, current, keep)
      PROVE  Accounted'
  <2>1. phase' = [phase EXCEPT ![t] = "running"]
    BY <1>3 DEF Advance, TypeOK
  <2> QED
    BY <1>3, <2>1, UpdateAccounts DEF Advance
<1>4. ASSUME NEW t \in Targets, Scrape(t)
      PROVE  Accounted'
  BY <1>3, <1>4, IdentitiesType DEF Scrape
<1>5. ASSUME NEW t \in Targets, ScrapeFails(t)
      PROVE  Accounted'
  BY <1>3, <1>5 DEF ScrapeFails
<1>6. ASSUME NEW t \in Targets, Remove(t) \/ Stop(t)
      PROVE  Accounted'
  BY <1>6, UpdateAccounts, FS_EmptySet DEF Remove, Stop
<1> QED
  BY <1>1, <1>2, <1>4, <1>5, <1>6 DEF Next

\* The gauge shows what all live trackers track, at any time.
THEOREM GaugeIsExact == Spec => []GaugeExact
<1>1. Init => Accounted
  BY SumOfNothing, FS_EmptySet DEF Init, Accounted
<1>2. IInv /\ Accounted /\ [Next]_vars => Accounted'
  BY NextAccounts
<1>3. Accounted => GaugeExact
  BY DEF Accounted, GaugeExact, GaugeOf
<1>4. QED  BY <1>1, <1>2, <1>3, Invariance, PTL DEF Spec
=============================================================================
