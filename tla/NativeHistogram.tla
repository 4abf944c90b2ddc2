---------------------------- MODULE NativeHistogram ----------------------------
(***************************************************************************)
(* Native histograms of the protobuf exposition (protobuf.rs): what is     *)
(* accepted, and how resolution is given up until the buckets fit.         *)
(*                                                                         *)
(* A side of a histogram is a sequence of spans, each an offset from the   *)
(* bucket after the previous span and a length, and the buckets laid out   *)
(* by them: deltas of a histogram of integers, counts of one of floats.    *)
(* The zero bucket, sum and count go through unchanged and are left out.   *)
(***************************************************************************)
EXTENDS Integers, Sequences, SequencesExt

CONSTANTS
  SchemaMin, SchemaMax,  \* -4 and 8 in the code
  IndexBits,             \* width of the i64 a bucket index is computed in
  IndexLimit,            \* 2^31: i32 indices and offsets are below it
  CountBits,             \* width of the i64 a count is computed in
  Failed                 \* a conversion that fails the scrape

HistogramAssumption ==
  /\ SchemaMin \in Int /\ SchemaMax \in Int /\ SchemaMin <= SchemaMax
  /\ IndexBits \in Nat \ {0} /\ CountBits \in Nat \ {0}
  /\ IndexLimit \in Nat \ {0} /\ 2 * IndexLimit < 2 ^ (IndexBits - 1)

ASSUME HistogramAssumption

IndexRange == -IndexLimit .. IndexLimit - 1
CountLimit == 2 ^ (CountBits - 1)

\* A number kept as i64 in a build without overflow checks.  It wraps once, at
\* the end of a sum, which comes to the same as wrapping at every step.
Wrapped(n) == ((n + CountLimit) % (2 * CountLimit)) - CountLimit
EachWrapped(s) == [i \in DOMAIN s |-> Wrapped(s[i])]

\* The shift of an i64 in such a build uses the low bits of its distance.
ShiftRight(index, shift) == index \div 2 ^ (shift % IndexBits)

Sum(s) == FoldLeft(+, 0, s)

-----------------------------------------------------------------------------
\* The layout of a side

\* The index of the first bucket of a span.
SpanStart(spans, k) ==
  Sum([j \in 1 .. k |-> spans[j].offset + IF j < k THEN spans[j].length ELSE 0])

Covered(spans) == Sum([k \in DOMAIN spans |-> spans[k].length])

\* The index of every bucket, in order.
Indices(spans) ==
  FlattenSeq([k \in DOMAIN spans |->
    [i \in 1 .. spans[k].length |-> SpanStart(spans, k) + i - 1]])

\* Counts of the deltas of a histogram of integers, and back.
Counts(deltas) == [i \in DOMAIN deltas |-> Sum(SubSeq(deltas, 1, i))]
Deltas(counts) ==
  [i \in DOMAIN counts |-> IF i = 1 THEN counts[1] ELSE counts[i] - counts[i - 1]]

ValidSide(side, float) ==
  /\ \A k \in DOMAIN side.spans :
       LET first == SpanStart(side.spans, k)
           length == side.spans[k].length
           last == first + (IF length = 0 THEN 1 ELSE length) - 1
       IN /\ k > 1 => side.spans[k].offset >= 0
          /\ first \in IndexRange /\ last \in IndexRange
  /\ Covered(side.spans) = Len(side.buckets)
  /\ ~float => \A i \in DOMAIN side.buckets : Counts(side.buckets)[i] \in 0 .. CountLimit - 1

-----------------------------------------------------------------------------
\* merge_buckets: the buckets are placed one after the other; `last` is the
\* target of the previous one.

NoBuckets == [spans |-> <<>>, counts |-> <<>>, last |-> <<>>, ok |-> TRUE]

\* Mutant: rounds towards the bucket below.
TargetBelow(index, shift) == ShiftRight(index, shift)

Target(index, shift) == ShiftRight(index - 1, shift) + 1

Extend(spans) == [spans EXCEPT ![Len(spans)].length = @ + 1]
AddToLast(counts, count) == [counts EXCEPT ![Len(counts)] = @ + count]

Place(merged, target, count) ==
  IF merged.last = <<target>>
  THEN [merged EXCEPT !.counts = AddToLast(@, count)]
  ELSE IF merged.last = <<target - 1>>
  THEN [merged EXCEPT !.spans = Extend(@), !.counts = Append(@, count), !.last = <<target>>]
  ELSE LET offset == IF merged.last = <<>> THEN target ELSE target - merged.last[1] - 1
       IN [spans |-> Append(merged.spans, [offset |-> offset, length |-> 1]),
           counts |-> Append(merged.counts, count),
           last |-> <<target>>,
           ok |-> merged.ok /\ offset \in IndexRange]

MergeBuckets(spans, counts, shift) ==
  LET indices == Indices(spans)
  IN IF Len(indices) > Len(counts)
     THEN [NoBuckets EXCEPT !.ok = FALSE]
     ELSE FoldLeft(LAMBDA merged, i : Place(merged, Target(indices[i], shift), counts[i]),
                   NoBuckets, [i \in DOMAIN indices |-> i])

MergeSide(side, float, shift) ==
  MergeBuckets(side.spans,
               IF float THEN side.buckets ELSE EachWrapped(Counts(side.buckets)), shift)

ReduceResolution(histogram, schema) ==
  LET shift == histogram.schema - schema
      negative == MergeSide(histogram.negative, histogram.float, shift)
      positive == MergeSide(histogram.positive, histogram.float, shift)
      Reduced(merged) ==
        [spans |-> merged.spans,
         buckets |-> IF histogram.float THEN merged.counts
                     ELSE EachWrapped(Deltas(EachWrapped(merged.counts)))]
  IN IF negative.ok /\ positive.ok
     THEN [histogram EXCEPT !.schema = schema,
                            !.negative = Reduced(negative), !.positive = Reduced(positive)]
     ELSE Failed

-----------------------------------------------------------------------------
\* native_histogram

BucketLen(histogram) == Len(histogram.negative.buckets) + Len(histogram.positive.buckets)

Accepted(exposed) ==
  /\ exposed.schema >= SchemaMin
  /\ ValidSide(exposed.negative, exposed.float)
  /\ ValidSide(exposed.positive, exposed.float)

Fits(histogram, limit) == limit = 0 \/ BucketLen(histogram) <= limit

\* One schema coarser, until the buckets fit or an error is met.
Coarsen(histogram, schema, limit) ==
  IF histogram = Failed THEN Failed
  ELSE IF Fits(histogram, limit) \/ schema >= histogram.schema THEN histogram
  ELSE ReduceResolution(histogram, schema)

Convert(exposed, limit) ==
  IF ~Accepted(exposed) THEN Failed
  ELSE LET ingested == IF exposed.schema > SchemaMax
                       THEN ReduceResolution(exposed, SchemaMax)
                       ELSE exposed
           coarsest == FoldLeft(LAMBDA h, s : Coarsen(h, s, limit), ingested,
                                [i \in 1 .. SchemaMax - SchemaMin |-> SchemaMax - i])
       IN IF coarsest = Failed THEN Failed
          ELSE IF Fits(coarsest, limit) THEN coarsest ELSE Failed

-----------------------------------------------------------------------------
\* What a reader of the histogram sees: the count of every bucket.  Bucket i of
\* a schema is made of the 2^d buckets up to i * 2^d of a schema d finer.

CountsOf(side, float) == IF float THEN side.buckets ELSE Counts(side.buckets)

CountAt(side, float, index) ==
  Sum([i \in DOMAIN side.buckets |->
         IF Indices(side.spans)[i] = index THEN CountsOf(side, float)[i] ELSE 0])

CountWithin(side, float, low, high) ==
  Sum([i \in DOMAIN side.buckets |->
         IF low < Indices(side.spans)[i] /\ Indices(side.spans)[i] <= high
         THEN CountsOf(side, float)[i] ELSE 0])

Holds(side, float) == float \/ Sum(CountsOf(side, float)) < CountLimit

\* Every bucket of the result holds what the exposed buckets within its bounds
\* do ("Each step down merges pairs of neighbouring buckets"), at a schema no
\* finer than the finest ("finer histograms are reduced to it"), whatever the
\* spans, as long as whole counts of a side add up within 64 bits and the schema
\* is fewer than IndexBits finer than the finest (the shift of merge_buckets is
\* wider than its type beyond); and the result is as well laid out as the
\* exposed one had to be.
SideAgrees(side, exposed, float, finer) ==
  /\ ValidSide(side, float)
  /\ \A index \in IndexRange :
       CountAt(side, float, index)
         = CountWithin(exposed, float, (index - 1) * 2 ^ finer, index * 2 ^ finer)

AgreesWithExposed(exposed, result) ==
  Holds(exposed.negative, exposed.float) /\ Holds(exposed.positive, exposed.float) =>
    /\ result.schema <= SchemaMax
    /\ SideAgrees(result.negative, exposed.negative, exposed.float,
                  exposed.schema - result.schema)
    /\ SideAgrees(result.positive, exposed.positive, exposed.float,
                  exposed.schema - result.schema)

\* The number of buckets an accepted histogram has at a schema.
BucketsAt(exposed, schema) ==
  LET width == 2 ^ (exposed.schema - schema)
      At(side) == Cardinality({(i + width - 1) \div width : i \in ToSet(Indices(side.spans))})
  IN At(exposed.negative) + At(exposed.positive)

\* The resolution that is kept is the finest the limit allows, and a scrape
\* fails for a histogram only when it is malformed or no schema is coarse
\* enough: the two errors of merge_buckets never happen, as the comment on it
\* says ("the output stays in i32").
Affordable(exposed, limit) ==
  {s \in SchemaMin .. SchemaMax :
     s <= exposed.schema /\ (limit = 0 \/ BucketsAt(exposed, s) <= limit)}

FinestWithinLimit(exposed, limit, result) ==
  IF result = Failed
  THEN ~Accepted(exposed) \/ Affordable(exposed, limit) = {}
  ELSE result.schema = Max(Affordable(exposed, limit))
=============================================================================
