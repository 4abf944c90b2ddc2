-------------------------- MODULE ProtobufExposition --------------------------
(***************************************************************************)
(* The parser of the protobuf exposition format (protobuf.rs): metric      *)
(* families become series.  A counter, gauge or untyped metric is one      *)
(* series, a summary several, and a histogram a native histogram series,   *)
(* its classic series, or both, as the job's options say.                  *)
(*                                                                         *)
(* Fields that a message leaves out have their defaults, which is how      *)
(* prost's Option scalars are read throughout.  A float is a record of its *)
(* decimal digits and exponent; counts are numbers.                        *)
(***************************************************************************)
EXTENDS NativeHistogram, TextFormat

CONSTANTS
  LeLabel, QuantileLabel  \* the names le and quantile

KnownTypes == {"counter", "gauge", "summary", "untyped", "histogram", "gauge histogram"}

-----------------------------------------------------------------------------
\* format_float.  A number is d.ddd * 10^exponent, without zeros at the end.

Infinity == [kind |-> "inf", minus |-> FALSE, digits |-> <<>>, exponent |-> 0]

Zeros(n) == [i \in 1 .. n |-> "0"]

Mantissa(digits) == IF Len(digits) = 1 THEN digits ELSE <<digits[1], ".">> \o Tail(digits)

Plain(digits, exponent) ==
  IF exponent < 0 THEN <<"0", ".">> \o Zeros(-exponent - 1) \o digits
  ELSE IF Len(digits) <= exponent + 1 THEN digits \o Zeros(exponent + 1 - Len(digits))
  ELSE SubSeq(digits, 1, exponent + 1) \o <<".">> \o SubSeq(digits, exponent + 2, Len(digits))

Scientific(digits, exponent) ==
  LET size == IF exponent < 0 THEN -exponent ELSE exponent
  IN Mantissa(digits) \o <<"e", IF exponent < 0 THEN "-" ELSE "+">>
       \o (IF size < 10 THEN <<"0">> ELSE <<>>) \o <<ToString(size)>>

FormatFloat(x) ==
  LET sign == IF x.minus THEN <<"-">> ELSE <<>>
      text == sign \o (IF x.exponent \in -4 .. 5 THEN Plain(x.digits, x.exponent)
                       ELSE Scientific(x.digits, x.exponent))
  IN CASE x.kind = "nan" -> <<"NaN">>
       [] x.kind = "inf" -> IF x.minus THEN <<"-", "I">> ELSE <<"+", "I">>
       [] OTHER -> IF \E i \in DOMAIN text : text[i] \in {".", "e"} THEN text
                   ELSE text \o <<".", "0">>

-----------------------------------------------------------------------------
\* The labels of a metric's series

BaseLabels(name, pairs) ==
  LET labels == <<TextLabel(MetricNameLabel, name)>> \o pairs
  IN IF /\ Len(pairs) + 1 <= MaxLabelsPerSeries
        /\ \A i \in DOMAIN pairs : IsValidName(pairs[i].name, FALSE)
        /\ IsInjective([i \in DOMAIN labels |-> labels[i].name])
     THEN labels ELSE Malformed

\* SeriesBuilder::labels: the family name with a suffix, and a derived label.
DerivedLabels(base, suffix, extra) ==
  LET named == [base EXCEPT ![1].value = @ \o suffix]
  IN IF extra = <<>> THEN named
     ELSE IF extra[1].name \in NamesOf(base) THEN Malformed
     ELSE Append(named, extra[1])

\* What a series is derived with: SeriesBuilder::float.
Derived(suffix, extra, value) == [suffix |-> suffix, extra |-> extra, value |-> value]

\* "any float count": a count given as a float wins if it is positive.
Preferred(count) == IF count.float > 0 THEN count.float ELSE count.int

SummarySeries(summary) ==
  <<Derived(<<"_count">>, <<>>, summary.count), Derived(<<"_sum">>, <<>>, summary.sum)>>
    \o [i \in DOMAIN summary.quantiles |->
          Derived(<<>>, <<TextLabel(QuantileLabel, FormatFloat(summary.quantiles[i].quantile))>>,
                  summary.quantiles[i].value)]

\* classic_histogram: the bucket without a bound may be left out by an exporter.
ClassicSeries(h) ==
  LET count == Preferred(h.count)
      Bucket(text, value) == Derived(<<"_bucket">>, <<TextLabel(LeLabel, text)>>, value)
      explicitInf == h.buckets # <<>> /\ Last(h.buckets).bound = Infinity
  IN <<Derived(<<"_count">>, <<>>, count), Derived(<<"_sum">>, <<>>, h.sum)>>
       \o [i \in DOMAIN h.buckets |->
             Bucket(FormatFloat(h.buckets[i].bound), Preferred(h.buckets[i].count))]
       \o (IF explicitInf THEN <<>> ELSE <<Bucket(<<"+", "I">>, count)>>)

-----------------------------------------------------------------------------
\* Histograms

IsNative(h) ==
  \/ h.positive.spans # <<>> \/ h.negative.spans # <<>>
  \/ h.zero_threshold > 0 \/ h.zero_count.int > 0 \/ h.zero_count.float > 0

\* The representation native_histogram reads: any float count makes it floats.
Exposed(h) ==
  LET float == h.count.float > 0 \/ h.zero_count.float > 0
      Read(side) == [spans |-> side.spans, buckets |-> IF float THEN side.counts ELSE side.deltas]
  IN [schema |-> h.schema, float |-> float,
      negative |-> Read(h.negative), positive |-> Read(h.positive)]

\* Mutant: classic series only where they are asked for.
WantsClassicIfAsked(h, options) == options.classic_histograms /\ h.buckets # <<>>

WantsNative(h, options) == options.native_histograms /\ IsNative(h)
WantsClassic(h, options) ==
  ~WantsNative(h, options) \/ (options.classic_histograms /\ h.buckets # <<>>)

-----------------------------------------------------------------------------
\* convert_family and parse

FloatsOf(type, metric, options) ==
  CASE type = "summary" -> SummarySeries(metric.summary)
    [] type \in {"histogram", "gauge histogram"} ->
         IF WantsClassic(metric.histogram, options) THEN ClassicSeries(metric.histogram) ELSE <<>>
    [] OTHER -> <<Derived(<<>>, <<>>, metric.value)>>

\* The native histogram a metric is ingested as, if it is.
NativeOf(type, metric, options) ==
  IF type \in {"histogram", "gauge histogram"} /\ WantsNative(metric.histogram, options)
  THEN <<Convert(Exposed(metric.histogram), options.bucket_limit)>> ELSE <<>>

\* "an exposed timestamp of 0 means none"
StampOf(metric, default, options) ==
  IF options.honor_timestamps /\ metric.timestamp # 0 THEN metric.timestamp ELSE default

ConvertMetric(family, metric, default, options) ==
  LET Series(labels, value, histogram) ==
        [labels |-> labels, value |-> value, histogram |-> histogram,
         timestamp |-> StampOf(metric, default, options)]
      Labelled(base, floats) ==
        [i \in DOMAIN floats |-> DerivedLabels(base, floats[i].suffix, floats[i].extra)]
      Of(base, native, floats, labels) ==
        IF native = <<Failed>> \/ \E i \in DOMAIN labels : labels[i] = Malformed THEN Malformed
        ELSE [i \in DOMAIN native |-> Series(base, 0, native[i])]
               \o [i \in DOMAIN floats |-> Series(labels[i], floats[i].value, <<>>)]
      WithBase(base, floats) ==
        IF base = Malformed THEN Malformed
        ELSE Of(base, NativeOf(family.type, metric, options), floats, Labelled(base, floats))
  IN WithBase(BaseLabels(family.name, metric.labels), FloatsOf(family.type, metric, options))

\* All of a sequence or none.
Gather(out, series) ==
  IF out = Malformed \/ series = Malformed THEN Malformed ELSE out \o series

ConvertFamily(family, default, options) ==
  IF ~IsValidName(family.name, TRUE) \/ family.type \notin KnownTypes THEN Malformed
  ELSE FoldLeft(LAMBDA out, metric :
                  Gather(out, ConvertMetric(family, metric, default, options)),
                <<>>, family.metrics)

\* A body is a sequence of families; one that does not decode is Malformed.
ParseProtobuf(body, default, options) ==
  FoldLeft(LAMBDA out, family :
             IF family = Malformed THEN Malformed
             ELSE Gather(out, ConvertFamily(family, default, options)),
           <<>>, body)

-----------------------------------------------------------------------------
\* What a scrape of well-formed families must give

\* A client library's family: metrics differ in their labels, classic buckets
\* are "ordered by upper bound" (dto::Histogram) and quantiles are distinct.
WellFormed(family) ==
  /\ \A i, j \in DOMAIN family.metrics :
       ToSet(family.metrics[i].labels) = ToSet(family.metrics[j].labels) => i = j
  /\ \A i \in DOMAIN family.metrics :
       LET buckets == family.metrics[i].histogram.buckets
           quantiles == family.metrics[i].summary.quantiles
       IN /\ IsInjective([k \in DOMAIN buckets |-> buckets[k].bound])
          /\ \A k \in DOMAIN buckets : buckets[k].bound = Infinity => k = Len(buckets)
          /\ IsInjective([k \in DOMAIN quantiles |-> quantiles[k].quantile])

\* No two series of a family have one label set, whatever the labels of its
\* metrics, bounds and quantiles, and so no two have the same identity: neither
\* a metric's own le or quantile, nor the text of two bounds, nor the added
\* bucket without a bound makes a series twice.
SeriesDistinct(family, default, options) ==
  LET Distinct(parsed) ==
        parsed # Malformed =>
          /\ \A i, j \in DOMAIN parsed :
               ToSet(parsed[i].labels) = ToSet(parsed[j].labels) => i = j
          /\ \A i \in DOMAIN parsed :
               IsInjective([k \in DOMAIN parsed[i].labels |-> parsed[i].labels[k].name])
  IN WellFormed(family) => Distinct(ConvertFamily(family, default, options))

\* Every histogram is ingested as the README promises: with native buckets and
\* native histograms on as one native series, with its classic series beside it
\* if they are wanted and there are buckets; otherwise as classic series, with
\* its count and one bucket without a bound that holds all observations when
\* the exporter leaves it out.
HistogramIngested(metric, default, options) ==
  LET family == [name |-> <<"m">>, type |-> "histogram", metrics |-> <<metric>>]
      h == metric.histogram
      observed == h.positive.spans # <<>> \/ h.negative.spans # <<>> \/ h.zero_threshold > 0
                    \/ h.zero_count.int + h.zero_count.float > 0
      native == IF observed /\ options.native_histograms THEN 1 ELSE 0
      classic == IF native = 1 /\ ~(options.classic_histograms /\ h.buckets # <<>>)
                 THEN 0 ELSE 1
      implicit == \A k \in DOMAIN h.buckets : h.buckets[k].bound # Infinity
      Forms(parsed, Named(_)) ==
        LET Unbounded ==
              {i \in Named(<<"_bucket">>) : Last(parsed[i].labels).value = <<"+", "I">>}
        IN /\ Cardinality(Named(<<>>)) = native
           /\ \A part \in {<<"_count">>, <<"_sum">>} : Cardinality(Named(part)) = classic
           /\ Cardinality(Named(<<"_bucket">>)) =
                classic * (Len(h.buckets) + IF implicit THEN 1 ELSE 0)
           /\ Cardinality(Unbounded) = classic
           /\ implicit => \A i \in Unbounded, j \in Named(<<"_count">>) :
                            parsed[i].value = parsed[j].value
           /\ \A i \in DOMAIN parsed :
                parsed[i].timestamp = IF options.honor_timestamps /\ metric.timestamp # 0
                                      THEN metric.timestamp ELSE default
      Ingested(parsed) ==
        LET Named(suffix) == {i \in DOMAIN parsed : parsed[i].labels[1].value = <<"m">> \o suffix}
        IN parsed # Malformed => Forms(parsed, Named)
  IN WellFormed(family) => Ingested(ConvertFamily(family, default, options))
=============================================================================
