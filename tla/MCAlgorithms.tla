----------------------------- MODULE MCAlgorithms -----------------------------
(***************************************************************************)
(* The pure parts of the agent over bounded inputs.  `work` is the input   *)
(* of one of them, `of` says which; a step goes on with it: one more rule  *)
(* for a label set, the conversion of a histogram, a change of a pod       *)
(* behind a slice, the next request through the same buffers.              *)
(***************************************************************************)
EXTENDS Relabel, NativeHistogram, KubernetesTargets, WireFormat, ProtobufExposition, Quantities,
        ScrapePipeline, TLC

CONSTANTS
  MaxRules,    \* bound: rules applied to a label set
  MaxPieces,   \* bound: pieces of the text of a quantity
  MaxChanges,  \* bound: settings that differ from the working configuration
  FineSchemas  \* schemas finer than SchemaMax that are exposed

VARIABLE work

-----------------------------------------------------------------------------
\* Relabelling: two labels and a scratch one, tokens of either case, a newline.

MCLowercase(token) == IF token = "X" THEN "x" ELSE token
MCUppercase(token) == IF token = "x" THEN "X" ELSE token
MCNumeral(n) == <<ToString(n)>>
Weight(token) == CASE token = "x" -> 1 [] token = "X" -> 2 [] OTHER -> 3
MCDigest(text) == Sum([i \in DOMAIN text |-> i * Weight(text[i])])

A == <<"a">>
B == <<"b">>
Scratch == <<"t">>

MCPatterns ==
  {DefaultPattern, Pattern(<<>>, "none", <<>>), Pattern(<<"x">>, "none", <<>>),
   Pattern(<<"x">>, "plain", <<>>), Pattern(<<"x">>, "group", <<>>),
   Pattern(<<"a">>, "none", <<>>), Pattern(<<>>, "group", <<"a">>)}
MCTemplates == {<<>>, <<"x">>, <<Capture>>, <<"b", Capture>>, <<NoCapture>>}
MCTargetLabels == {B, Scratch, <<Capture>>, <<"b", Capture>>, <<"0">>}

Rules(actions, targets, patterns, templates) ==
  [action : actions, source_labels : {<<A>>, <<A, B>>}, separator : {<<";">>},
   target_label : targets, regex : patterns, modulus : {2}, replacement : templates]

MCRules ==
  {rule \in Rules({"replace"}, MCTargetLabels, MCPatterns, MCTemplates)
       \cup Rules({"keep", "drop", "labeldrop", "labelkeep"}, {<<>>}, MCPatterns, {<<>>})
       \cup Rules({"keepequal", "dropequal", "hashmod", "lowercase", "uppercase"},
                  {B, Scratch}, {DefaultPattern}, {<<>>})
       \cup Rules({"labelmap"}, {<<>>}, MCPatterns, MCTemplates \ {<<>>}) : Valid(rule)}

\* The rules that are applied one after the other; the others are tried on what
\* they leave.
MCSteps ==
  {rule \in MCRules :
     /\ rule.regex \in {DefaultPattern, Pattern(<<"x">>, "plain", <<>>),
                        Pattern(<<"a">>, "none", <<>>)}
     /\ rule.target_label \in {<<>>, B, Scratch, <<"b", Capture>>}
     /\ rule.replacement \in {<<>>, <<Capture>>, <<"b", Capture>>}}

MCValues == {<<"x">>, <<"X", "nl">>, <<"x", "x">>, <<>>}

RelabelStart ==
  /\ work.of = "nothing"
  /\ \E a \in MCValues, b \in MCValues :
       work' = [of |-> "relabel", left |-> MaxRules, labels |-> <<Label(A, a), Label(B, b)>>]

RelabelStep ==
  /\ work.of = "relabel" /\ work.labels # Dropped /\ work.left > 0
  /\ \E rule \in MCSteps :
       work' = [work EXCEPT !.left = @ - 1, !.labels = Apply(@, rule)]

Labelled == work.of = "relabel" /\ work.labels # Dropped

\* Every rule, tried on every label set the rules before leave, has the same
\* effect on the fast paths as through the regex engine.
FastPaths == Labelled => \A rule \in MCRules : FastPathsAgree(work.labels, rule)

\* No sequence of rules gives a label set two labels of one name.
UniqueNames == Labelled => NamesUnique(work.labels)

\* Of the agents that shard by hashmod, one keeps a series.
Sharding ==
  Labelled => \A modulus \in 1 .. 3 :
                OneShardKeeps(work.labels, <<A, B>>, <<";">>, Scratch, modulus)

-----------------------------------------------------------------------------
\* Histograms: up to two spans at the edges of the index range and within it,
\* and buckets that fit them, but for some of a single span.

MCFirst == [offset : {-IndexLimit, -1, 0, 2}, length : 0 .. 2]
MCSecond == [offset : {-1, 0, 1, IndexLimit - 1}, length : 0 .. 2]
MCSpans == {<<>>} \cup {<<f>> : f \in MCFirst} \cup {<<f, g>> : f \in MCFirst, g \in MCSecond}
MCBuckets == {<<>>, <<0>>, <<1>>, <<2, -1>>, <<0, 1>>, <<1, -2>>, <<1, 1, -1>>, <<0, 2, 0>>,
              <<1, 1, -1, 0>>, <<1, 0, -1, 2>>, <<3, 3, 0, 0>>}
MCSides ==
  {side \in [spans : MCSpans, buckets : MCBuckets] :
     Len(side.spans) # 1 => Len(side.buckets) = Covered(side.spans)}
MCFew ==
  {[spans |-> <<>>, buckets |-> <<>>],
   [spans |-> <<[offset |-> -1, length |-> 3]>>, buckets |-> <<1, 0, 0>>]}

HistogramStart ==
  /\ work.of = "nothing"
  /\ \E positive \in MCSides, negative \in MCFew, float \in BOOLEAN,
        schema \in {SchemaMin - 1, SchemaMin, SchemaMax} \cup FineSchemas, limit \in {0, 1, 3} :
       work' = [of |-> "histogram", limit |-> limit, result |-> <<>>,
                exposed |-> [schema |-> schema, float |-> float,
                             negative |-> negative, positive |-> positive]]

HistogramStep ==
  /\ work.of = "histogram" /\ work.result = <<>>
  /\ work' = [work EXCEPT !.result = Convert(work.exposed, work.limit)]

Converted == work.of = "histogram" /\ work.result # <<>>

\* A converted histogram has in each bucket what was exposed in its bounds.
BucketsAgree ==
  Converted /\ work.result # Failed => AgreesWithExposed(work.exposed, work.result)

\* The schema is the finest under the bucket limit; failing means there is none.
LimitMet == Converted => FinestWithinLimit(work.exposed, work.limit, work.result)

-----------------------------------------------------------------------------
\* Clusters: a slice of up to two ports over two pods whose address, node and
\* ports change.

MCContainers ==
  { <<>>,
    <<[init |-> FALSE, ports |-> <<1>>]>>,
    <<[init |-> FALSE, ports |-> <<1, 2>>], [init |-> TRUE, ports |-> <<>>]>>,
    <<[init |-> FALSE, ports |-> <<3>>], [init |-> TRUE, ports |-> <<2, 3>>]>> }
MCPods(name, nodes) == [name : {name}, ip : {name, Absent}, node : nodes,
                        containers : MCContainers]
MCEndpoint(kind, name, addresses) ==
  [ref |-> [kind |-> kind, name |-> name], addresses |-> addresses, node |-> "n1"]
MCSlices ==
  [service : {"s", Absent}, ports : {<<>>, <<1>>, <<1, 2>>, <<2, 1>>, <<Absent>>, <<Absent, 3>>},
   endpoints : { <<MCEndpoint("Pod", "p", <<"p">>)>>,
                 <<MCEndpoint("Pod", "p", <<"p", "h">>), MCEndpoint("Pod", "q", <<"q">>)>>,
                 <<MCEndpoint("Node", "n1", <<"h">>), MCEndpoint("Pod", "q", <<>>)>> }]
MCNodes == {NoStore, {"n1"}}

ClusterStart ==
  /\ work.of = "nothing"
  /\ \E slice \in MCSlices, nodes \in MCNodes,
        p \in MCPods("p", {"n1", "n2"}), q \in MCPods("q", {"n1"}) :
       work' = [of |-> "cluster", slice |-> slice, nodes |-> nodes,
                pods |-> [name \in {"p", "q"} |-> IF name = "p" THEN p ELSE q]]

\* A pod is deleted.
ClusterStep ==
  /\ work.of = "cluster"
  /\ \E name \in DOMAIN work.pods :
       work' = [work EXCEPT !.pods = [n \in DOMAIN @ \ {name} |-> @[n]]]

\* The endpointslice role reaches every port of the pods behind a slice.
PortsReached ==
  work.of = "cluster" => ReachesDeclaredPorts(work.slice, {"s"}, work.pods, work.nodes)

\* A port the slice lists is not added a second time.
PortsOnce ==
  work.of = "cluster" => NoPortTwice(work.slice, {"s"}, work.pods, work.nodes)

-----------------------------------------------------------------------------
\* Messages: every field with its default and beyond, varints of one, two and
\* (a negative time) ten bytes; requests of up to two series over four strings.

MCNumbers == {0, 1, 127, 128, 16384}
MCSpanSets == {<<>>, <<[offset |-> 0, length |-> 0]>>,
               <<[offset |-> -64, length |-> 2], [offset |-> 64, length |-> 130]>>}
MCWireSides == [spans : MCSpanSets, deltas : {<<>>, <<1, -70, 70>>}, counts : {0, 16}]
MCCounts == [float : {FALSE}, value : MCNumbers] \cup [float : {TRUE}, value : {0}]
MCHistograms ==
  [count : MCCounts, zero_count : [float : {FALSE}, value : {200}],
   sum : {"zero", "other"}, schema : {0, -4}, zero_threshold : {"zero", "other"},
   negative : MCWireSides, positive : {[spans |-> <<>>, deltas |-> <<>>, counts |-> 0]},
   gauge : BOOLEAN]
MCSamples == [value : {"zero", "other"}, timestamp : {0, 1, 300, -1}]
MCLabelSets == {<<>>, <<[name |-> 3, value |-> 0]>>,
                <<[name |-> 8, value |-> 126], [name |-> 1, value |-> 300]>>}
MCSeries ==
  [labels : MCLabelSets, sample : MCSamples, histogram : {Empty}]
    \cup [labels : {<<>>}, sample : [value : {"zero"}, timestamp : {0, 300}],
          histogram : MCHistograms]

LengthStart ==
  /\ work.of = "nothing"
  /\ \E series \in MCSeries : work' = [of |-> "message", series |-> series]

\* The length announced for a message is the length of what is written.
Lengths == work.of = "message" => LengthsMatch(work.series)

MCWireLabels ==
  {[name |-> "x", value |-> Empty], [name |-> "x", value |-> "y"], [name |-> "y", value |-> "x"]}
MCBatches == SeqOf(SeqOf(MCWireLabels, 2), 2)

EncodeStart ==
  /\ work.of = "nothing"
  /\ work' = [of |-> "symbols", batch |-> <<>>, message |-> EncodeV2(<<>>, NewScratch)]

EncodeStep ==
  /\ work.of = "symbols"
  /\ \E batch \in MCBatches :
       work' = [work EXCEPT !.batch = batch,
                            !.message = EncodeV2(batch, [refs |-> work.message.refs,
                                                         packed |-> work.message.packed])]

\* A 2.0 request decodes to its batch, whichever request came before it.
Symbols == work.of = "symbols" => DecodesToBatch(work.message, work.batch)

-----------------------------------------------------------------------------
\* Text expositions: lines as an exporter writes them, with any of the characters
\* that matter in a label value, then with one character changed.

MCFloatOf(token) ==
  CASE token \in {<<"1">>, <<"1", ".">>} -> [kind |-> "finite", milli |-> 1000]
    [] token = <<"1", "1", ".">> -> [kind |-> "finite", milli |-> 11000]
    [] token \in {<<"I">>, <<"1", "e">>} -> [kind |-> "infinite", milli |-> 0]
    [] OTHER -> [kind |-> "invalid", milli |-> 0]
MCIntegerOf(token) ==
  CASE token = <<"1">> -> 1 [] token = <<"1", "1">> -> 11 [] OTHER -> Malformed

MCMetricNameLabel == <<"r">>
MCLeLabel == <<"le">>
MCQuantileLabel == <<"quantile">>
MCDefault == 5
MCTextValues == SeqOf({"m", Quote, Backslash, LineFeed, "}", " "}, 2)
Named(own) == <<TextLabel(MetricNameLabel, <<"m">>)>> \o own
MCOwnLabels ==
  {<<>>} \cup {<<TextLabel(<<"n">>, v)>> : v \in MCTextValues}
         \cup {<<TextLabel(<<"n">>, v), TextLabel(<<"a", "1">>, <<>>)>> : v \in MCTextValues}
MCManyLabels ==
  <<TextLabel(<<"n">>, <<>>), TextLabel(<<"a">>, <<"m">>), TextLabel(<<"m">>, <<>>)>>
MCTails ==
  {[text |-> <<" ", "1">>, stamp |-> NoLine],
   [text |-> <<" ", "+", "I", " ", "#", "m">>, stamp |-> NoLine],
   [text |-> <<" ", "1", " ", "1", ".">>, stamp |-> 1000],
   [text |-> <<" ", "1", "tab", "1", "1", Return>>, stamp |-> 11]}
MCLines ==
  UNION {{[text |-> form \o tail.text, labels |-> Named(own), stamp |-> tail.stamp] :
            form \in WrittenForms(Named(own)), tail \in MCTails} :
         own \in MCOwnLabels \cup {MCManyLabels}}
MCShort == {line \in MCLines : Len(line.text) <= 8}
MCEdited == {line \in MCLines :
               /\ \E i \in 2 .. Len(line.labels) : line.labels[i].value # <<"m">>
               /\ line.labels = Named(MCManyLabels)
                    \/ \E i \in DOMAIN line.labels : line.labels[i].value = <<Backslash, "}">>}
MCChars == {"m", "n", "1", ".", "{", "}", "=", ",", Quote, Backslash, " ", "#", LineFeed}

TextStart ==
  /\ work.of = "nothing"
  /\ \E line \in MCLines, honor \in BOOLEAN :
       work' = [of |-> "text", body |-> line.text, written |-> <<line>>, honor |-> honor]

\* A second line.
TextStep ==
  /\ work.of = "text" /\ Len(work.written) = 1 /\ work.written[1] \in MCShort
  /\ \E line \in MCShort :
       work' = [work EXCEPT !.body = @ \o <<LineFeed>> \o line.text,
                            !.written = Append(@, line)]

\* A character is changed, added or left out.
TextEdit ==
  /\ work.of = "text" /\ Len(work.written) = 1 /\ work.written[1] \in MCEdited
  /\ \E i \in DOMAIN work.body :
       \E piece \in {<<>>} \cup {<<c>> : c \in MCChars}
                    \cup {<<c, work.body[i]>> : c \in MCChars} :
         work' = [work EXCEPT !.body = SubSeq(@, 1, i - 1) \o piece \o SubSeq(@, i + 1, Len(@)),
                              !.written = <<>>]

\* An exposition is accepted only as the series it is a writing of.
OnlyWritings == work.of = "text" => AcceptsOnlyWritings(work.body, MCDefault, work.honor)

\* What an exporter writes is read back.
Readings ==
  work.of = "text" /\ work.written # <<>>
    => ReadsBack(work.body, work.written, MCDefault, work.honor)

-----------------------------------------------------------------------------
\* Protobuf expositions: one or two metrics whose labels may collide with those
\* that are derived, bounds that print with and without an exponent.

MCFloat(digits, exponent) ==
  [kind |-> "number", minus |-> FALSE, digits |-> digits, exponent |-> exponent]
MCBounds == {MCFloat(<<"1">>, -7), MCFloat(<<"1", "2">>, -3), MCFloat(<<"1", "2">>, 1),
             MCFloat(<<"1">>, 7), Infinity}
MCNone == [int |-> 0, float |-> 0]
MCBucketLists ==
  SeqOf({[bound |-> bound, count |-> [int |-> 2, float |-> 0]] : bound \in MCBounds}, 2)
MCNoSide == [spans |-> <<>>, deltas |-> <<>>, counts |-> <<>>]
MCNativeSides ==
  {MCNoSide, [spans |-> <<[offset |-> 0, length |-> 2]>>, deltas |-> <<1, 0>>, counts |-> <<>>]}
MCExposed ==
  [schema : {SchemaMax, SchemaMin - 1}, count : {[int |-> 3, float |-> 0], [int |-> 0, float |-> 3]},
   sum : {7}, zero_threshold : {0, 1}, zero_count : {MCNone}, negative : {MCNoSide},
   positive : MCNativeSides, buckets : MCBucketLists]
MCNoHistogram ==
  CHOOSE h \in MCExposed : h.positive = MCNoSide /\ h.zero_threshold = 0 /\ h.buckets = <<>>
MCNoSummary == [count |-> 0, sum |-> 0, quantiles |-> <<>>]
MCSummaries ==
  {[count |-> 3, sum |-> 7, quantiles |-> [i \in DOMAIN s |-> [quantile |-> s[i].bound, value |-> i]]] :
     s \in MCBucketLists}
MCPairs == {<<>>, <<TextLabel(<<"a">>, <<"m">>)>>, <<TextLabel(LeLabel, <<"1", ".", "0">>)>>,
            <<TextLabel(QuantileLabel, <<>>), TextLabel(<<"a">>, <<"m">>)>>,
            <<TextLabel(<<"a">>, <<>>), TextLabel(<<"a">>, <<"m">>)>>,
            <<TextLabel(MetricNameLabel, <<"m">>)>>}
MCMetric(labels, timestamp, summary, histogram) ==
  [labels |-> labels, timestamp |-> timestamp, value |-> 9, summary |-> summary,
   histogram |-> histogram]
MCOptions == [honor_timestamps : BOOLEAN, native_histograms : BOOLEAN,
              classic_histograms : BOOLEAN, bucket_limit : {0}]

FamilyStart ==
  /\ work.of = "nothing"
  /\ \E options \in MCOptions, timestamp \in {0, 3}, labels \in MCPairs :
     \/ \E histogram \in MCExposed :
          work' = [of |-> "family", options |-> options, type |-> "histogram",
                   metrics |-> <<MCMetric(labels, timestamp, MCNoSummary, histogram)>>]
     \/ \E summary \in MCSummaries, type \in {"summary", "counter", "unknown"} :
          work' = [of |-> "family", options |-> options, type |-> type,
                   metrics |-> <<MCMetric(labels, timestamp, summary, MCNoHistogram)>>]

\* A second metric, like the first but for its labels.
FamilyStep ==
  /\ work.of = "family" /\ Len(work.metrics) = 1
  /\ work.metrics[1].timestamp = 3 /\ work.options.honor_timestamps
  /\ \E labels \in MCPairs :
       work' = [work EXCEPT !.metrics = Append(@, [@[1] EXCEPT !.labels = labels])]

\* The series of a family have different labels.
FamilySeries ==
  work.of = "family" =>
    SeriesDistinct([name |-> <<"m">>, type |-> work.type, metrics |-> work.metrics],
                   MCDefault, work.options)

\* Every histogram is ingested in the forms the options promise.
HistogramForms ==
  work.of = "family" /\ work.type = "histogram" =>
    HistogramIngested(work.metrics[1], MCDefault, work.options)

-----------------------------------------------------------------------------
\* Quantities: every text of up to MaxPieces pieces.

MCDigitValue == "0" :> 0 @@ "2" :> 2
MCDurationUnits ==
  <<[text |-> <<"h">>, length |-> 64], [text |-> <<"m">>, length |-> 16],
    [text |-> <<"s">>, length |-> 4], [text |-> <<"m", "s">>, length |-> 1]>>
MCDurationPieces == {<<"0">>, <<"2">>, <<"h">>, <<"m">>, <<"s">>}
MCSizePieces == {<<"2">>, <<Point>>, <<Point, "2">>, <<"B">>, <<"K", "i", "B">>, <<"M", "B">>, <<" ">>}

QuantityStart ==
  /\ work.of = "nothing"
  /\ \E of \in {"duration", "size"} : work' = [of |-> of, text |-> <<>>, left |-> MaxPieces]

QuantityGrow ==
  /\ work.of \in {"duration", "size"} /\ work.left > 0
  /\ \E piece \in IF work.of = "size" THEN MCSizePieces ELSE MCDurationPieces :
       work' = [work EXCEPT !.text = @ \o piece, !.left = @ - 1]

\* A duration is what its text says, or refused.
Durations == work.of = "duration" => DurationMeansItsText(work.text)

\* A size is what its text says but for the rounding, or refused.
Sizes == work.of = "size" => SizeMeansItsText(work.text)

-----------------------------------------------------------------------------
\* Configurations: a working one, then up to MaxChanges of its settings changed.

MCSecret(text, file) == [text |-> text, file |-> file]
MCSecrets == {Unset} \cup {MCSecret(t, f) : t \in {Unset, "t"}, f \in {Unset, "f"}}
MCAuth == [basic : MCSecrets, authorization : MCSecrets,
           token : {Unset, "t"}, token_file : {Unset, "f"}]
MCNoAuth == [basic |-> Unset, authorization |-> Unset, token |-> Unset, token_file |-> Unset]
MCTls == [ca_file : {Unset, "ca"}, client : BOOLEAN]
MCProtocolLists ==
  {Unset} \cup SeqOf({"PrometheusProto", "PrometheusText0.0.4", "OpenMetricsText1.0.0"}, 2)
MCJob(name) ==
  [name |-> name, scheme |-> "http", interval |-> Unset, protocols |-> Unset,
   native_histograms |-> Unset, classic_histograms |-> Unset, auth |-> MCNoAuth,
   tls |-> [ca_file |-> Unset, client |-> FALSE], roles |-> <<>>, refresh |-> {}]
MCQueue == [capacity |-> 2, max_samples_per_send |-> 2, min_shards |-> 1, max_shards |-> 2,
            batch_send_deadline |-> 5]
MCRemote ==
  [url |-> [scheme |-> "http", host |-> "h"], auth |-> MCNoAuth,
   tls |-> [ca_file |-> Unset, client |-> FALSE], queue |-> MCQueue]
MCConfig ==
  [server |-> {}, remotes |-> <<MCRemote>>, jobs |-> <<MCJob("j"), MCJob("k")>>,
   global |-> [interval |-> 60, protocols |-> Unset, native_histograms |-> FALSE,
               classic_histograms |-> FALSE]]

\* The jobs that one change makes of a job.
JobChanges(job) ==
  {[job EXCEPT !.name = n] : n \in {EmptyText, "k"}}
    \cup {[job EXCEPT !.scheme = "ftp"], [job EXCEPT !.native_histograms = TRUE]}
    \cup {[job EXCEPT !.interval = i] : i \in {0, 15}}
    \cup {[job EXCEPT !.protocols = p] : p \in MCProtocolLists}
    \cup {[job EXCEPT !.auth = a] : a \in MCAuth}
    \cup {[job EXCEPT !.tls = t] : t \in MCTls}
    \cup {[job EXCEPT !.roles = <<r>>] : r \in {"pod", "node"}}
    \cup {[job EXCEPT !.refresh = {r}] : r \in {0, 300}}
QueueChanges(queue) ==
  {[queue EXCEPT ![f] = n] : f \in DOMAIN queue, n \in {0, 1, 3}}
RemoteChanges(remote) ==
  {[remote EXCEPT !.url = u] : u \in [scheme : {"http", "ftp"}, host : {"h", EmptyText}]}
    \cup {[remote EXCEPT !.auth = a] : a \in {b \in MCAuth : ~IsSet(b.token_file)}}
    \cup {[remote EXCEPT !.tls = t] : t \in MCTls}
    \cup {[remote EXCEPT !.queue = q] : q \in QueueChanges(remote.queue)}
GlobalChanges(global) ==
  {[global EXCEPT !.interval = 0], [global EXCEPT !.native_histograms = TRUE]}
    \cup {[global EXCEPT !.protocols = p] : p \in MCProtocolLists}

ConfigStart ==
  /\ work.of = "nothing"
  /\ \E readable \in SUBSET {"f", "ca"} :
       work' = [of |-> "config", config |-> MCConfig, readable |-> readable,
                left |-> MaxChanges]

\* A setting is changed.
ConfigChange ==
  /\ work.of = "config" /\ work.left > 0
  /\ \/ \E job \in JobChanges(work.config.jobs[1]) :
          work' = [work EXCEPT !.left = @ - 1, !.config.jobs[1] = job]
     \/ \E remote \in RemoteChanges(work.config.remotes[1]) :
          work' = [work EXCEPT !.left = @ - 1, !.config.remotes[1] = remote]
     \/ \E global \in GlobalChanges(work.config.global) :
          work' = [work EXCEPT !.left = @ - 1, !.config.global = global]
     \/ work' = [work EXCEPT !.left = @ - 1, !.config.server = {"alerting"}]

\* An accepted configuration runs, but for what no validation rules out.
Runs == work.of = "config" => AcceptedRuns(work.config, work.readable)

\* What is configured to authenticate is what authenticates.
Credentials ==
  work.of = "config" => CredentialsAsConfigured(work.config.jobs[1].auth, work.readable)

\* What a job offers is what the agent can read.
Offers ==
  work.of = "config" /\ Accepts(work.config) =>
    OffersUnderstood(work.config.jobs[1], work.config.global)

-----------------------------------------------------------------------------
\* Scrapes: two discovered groups of one target each, with labels that override
\* those of the job or name a parameter; the chunks of a body; scraped series that
\* set labels of the target, of the agent and those others are moved to.

MCNameOrder ==
  <<MetricName, A, B, Exported(Exported(JobLabel)), Exported(InstanceLabel),
    Exported(JobLabel), InstanceLabel, JobLabel>>
MCBefore(m, n) ==
  \E i, j \in DOMAIN MCNameOrder : i < j /\ MCNameOrder[i] = m /\ MCNameOrder[j] = n

MCGroups ==
  {Retain(labels, LAMBDA label : label.value # <<"none">>) :
     labels \in {<<Label(A, a), Label(ParamPrefix \o A, p), Label(PathLabel, m), Label(JobLabel, j)>> :
                   a \in {<<"x">>, <<"none">>}, p \in {<<"x">>, <<"y">>, <<"none">>},
                   m \in {<<"/", "x">>, <<"x">>, <<"none">>}, j \in {<<"x">>, <<"none">>}}}
MCScrapeJob ==
  [name |-> <<"j">>, scheme |-> <<"http">>, path |-> <<"/", "x">>,
   params |-> <<Label(B, <<"y">>)>>, honor_labels |-> FALSE, relabel_configs |-> <<>>,
   metric_relabel_configs |-> <<>>, external |-> <<Label(B, <<"e">>)>>,
   sample_limit |-> 2, track_staleness |-> TRUE]
MCMapRule ==
  [action |-> "labelmap", source_labels |-> <<A>>, separator |-> <<>>, target_label |-> <<>>,
   regex |-> Pattern(ParamPrefix, "group", <<>>), modulus |-> 2, replacement |-> <<Capture>>]
MCMoveRule ==
  [action |-> "replace", source_labels |-> <<A>>, separator |-> <<>>,
   target_label |-> AddressLabel, regex |-> Pattern(<<>>, "group", <<>>), modulus |-> 2,
   replacement |-> <<Capture>>]

ScrapeTargetsStart ==
  /\ work.of = "nothing"
  /\ \E rules \in {<<>>, <<MCMapRule>>, <<MCMoveRule>>}, params \in {<<>>, MCScrapeJob.params},
        group \in MCGroups :
       work' = [of |-> "targets", groups |-> <<group>>,
                job |-> [MCScrapeJob EXCEPT !.relabel_configs = rules, !.params = params]]

ScrapeTargetsStep ==
  /\ work.of = "targets" /\ Len(work.groups) = 1
  /\ \E group \in MCGroups : work' = [work EXCEPT !.groups = Append(@, group)]

\* The targets of a job that it takes for one are one.
Identities ==
  work.of = "targets" =>
    \A i, j \in DOMAIN work.groups :
      LET t == BuildTarget(<<"h">>, work.groups[i], work.job)
          u == BuildTarget(<<"h">>, work.groups[j], work.job)
      IN t # Dropped /\ u # Dropped => IdentityTellsApart(t, u)

ScrapeBodyStart ==
  /\ work.of = "nothing"
  /\ \E announced \in {Unset, 0, 2, 3, 5}, limit \in 0 .. 4 :
       work' = [of |-> "body", announced |-> announced, limit |-> limit, chunks |-> <<>>]

ScrapeBodyStep ==
  /\ work.of = "body" /\ Len(work.chunks) < 4
  /\ \E chunk \in 1 .. 3 : work' = [work EXCEPT !.chunks = Append(@, chunk)]

\* A body is read whole within the limit and refused beyond it.
Bodies == work.of = "body" => BodyBounded(work.announced, work.chunks, work.limit)

MCRaw ==
  {<<Label(MetricName, name)>> \o Retain(own, LAMBDA label : label.value # <<"none">>) :
     name \in {<<"x">>, <<"up">>},
     own \in {<<Label(A, a), Label(JobLabel, j), Label(Exported(JobLabel), e), Label(B, b)>> :
               a \in {<<"x">>, <<>>, <<"none">>}, j \in {<<"j">>, <<"x">>, <<"none">>},
               e \in {<<"x">>, <<"none">>}, b \in {<<"x">>, <<"none">>}}}
MCTargetSets ==
  {<<Label(JobLabel, <<"j">>)>>,
   <<Label(InstanceLabel, <<"h">>), Label(JobLabel, <<"j">>)>>,
   <<Label(A, <<"x">>), Label(JobLabel, <<"j">>)>>,
   <<Label(Exported(JobLabel), <<"x">>), Label(JobLabel, <<"j">>)>>}

ScrapeBatchStart ==
  /\ work.of = "nothing"
  /\ \E labels \in MCTargetSets, honor \in BOOLEAN, limit \in {0, 1},
        scraped \in {<<>>, Unusable} :
       work' = [of |-> "batch", target |-> [labels |-> labels], scraped |-> scraped,
                job |-> [MCScrapeJob EXCEPT !.honor_labels = honor, !.sample_limit = limit]]

\* One more series is scraped.
ScrapeBatchStep ==
  /\ work.of = "batch" /\ work.scraped # Unusable /\ Len(work.scraped) < 2
  /\ \E raw \in MCRaw : raw \notin Range(work.scraped)
                        /\ work' = [work EXCEPT !.scraped = Append(@, raw)]

\* Series keep their labels and those of their target.
Promises ==
  work.of = "batch" /\ work.scraped # Unusable =>
    \A i \in DOMAIN work.scraped : LabelsAsPromised(work.scraped[i], work.target, work.job)

\* A batch has one sample of each series.
Batches == work.of = "batch" => BatchOfSeries(work.scraped, work.target, work.job)

-----------------------------------------------------------------------------
\* The properties, one for each part of the code, of the parts above.

\* Relabelling: the fast paths decide as the regex engine, no sequence of rules
\* makes a name twice, and agents that shard by hashmod share all targets.
Relabelled == FastPaths /\ UniqueNames /\ Sharding

\* A reduced histogram counts in every bucket what was exposed within its bounds,
\* at the finest schema that has no more buckets than allowed, if its own is fewer
\* than IndexBits finer than the finest.
HistogramsReduced == BucketsAgree /\ LimitMet

\* The endpointslice role reaches every port of the pods behind a slice, and adds
\* none that the slice lists.  (A port two containers declare is added for each.)
PortsCovered == PortsReached /\ PortsOnce

\* Lengths announced are lengths written, and a 2.0 request decodes to its batch,
\* whatever its buffers were used for before.
RequestsEncoded == Lengths /\ Symbols

\* The text parser reads back what an exporter writes, and reads nothing else; a
\* duration or a size is what its text says, or refused.
TextsRead == OnlyWritings /\ Readings /\ Durations /\ Sizes

\* A protobuf family gives each of its metrics in the wanted forms, and no series
\* twice.
FamiliesRead == FamilySeries /\ HistogramForms

\* A configuration that is accepted runs, with the credentials it gives.
ConfigurationsHold == Runs /\ Credentials

\* What a request offers its answer is read as, to the limit on its body.
AnswersRead == Offers /\ Bodies

\* The batch of a scrape has one sample of each series under the labels promised.
BatchesPromised == Promises /\ Batches

-----------------------------------------------------------------------------
Init == work = [of |-> "nothing"]

Next ==
  \/ RelabelStart
  \/ RelabelStep
  \/ HistogramStart
  \/ HistogramStep
  \/ ClusterStart
  \/ ClusterStep
  \/ LengthStart
  \/ EncodeStart
  \/ EncodeStep
  \/ TextStart
  \/ TextStep
  \/ TextEdit
  \/ FamilyStart
  \/ FamilyStep
  \/ QuantityStart
  \/ QuantityGrow
  \/ ConfigStart
  \/ ConfigChange
  \/ ScrapeTargetsStart
  \/ ScrapeTargetsStep
  \/ ScrapeBodyStart
  \/ ScrapeBodyStep
  \/ ScrapeBatchStart
  \/ ScrapeBatchStep

Spec == Init /\ [][Next]_work
=============================================================================
