---------------------------- MODULE ScrapePipeline ----------------------------
(***************************************************************************)
(* The data path of a scrape (scrape.rs): the targets a job makes of the   *)
(* discovered groups, what a request offers and how the answer is read,    *)
(* and the batch of labelled series that one scrape comes to.  Names and   *)
(* values are sequences of tokens, as in Relabel, whose Get and Set are    *)
(* get_label and set_label.                                                *)
(***************************************************************************)
EXTENDS Relabel, Configuration, Folds, FiniteSetsExt, TLC

CONSTANTS
  Before(_, _),     \* the order of label names
  MaxPreallocated,  \* the most that an announced length allocates
  DefaultCapacity,  \* what is allocated when no length is announced
  FirstWeight       \* the weight of the first offer in tenths: 6

PipelineAssumption ==
  /\ MaxPreallocated \in Nat /\ DefaultCapacity \in Nat
  /\ Unset \notin Nat /\ Unusable \notin Nat
  \* The weights of both formats that can be offered and of the catch-all differ.
  /\ FirstWeight \in Nat /\ FirstWeight >= 3

ASSUME PipelineAssumption

AddressLabel == <<"__", "address">>
SchemeLabel == <<"__", "scheme">>
PathLabel == <<"__", "metrics_path">>
ParamPrefix == <<"__", "param_">>
JobLabel == <<"job">>
InstanceLabel == <<"instance">>
MetricName == <<"__", "name">>
Exported(name) == <<"exported_">> \o name

IsMeta(name) == name # <<>> /\ name[1] = "__"
LabelNames(labels) == {labels[i].name : i \in DOMAIN labels}

AddIfAbsent(labels, name, value) ==
  IF name \in LabelNames(labels) THEN labels ELSE Append(labels, Label(name, value))
AddAllIfAbsent(labels, more) ==
  FoldLeft(LAMBDA acc, label : AddIfAbsent(acc, label.name, label.value), labels, more)

\* sort_labels, by name: each label goes before the first one it precedes.
InsertLabel(sorted, label) ==
  LET next == SelectInSeq(sorted, LAMBDA l : Before(label.name, l.name))
  IN IF next = 0 THEN Append(sorted, label) ELSE InsertAt(sorted, next, label)
SortLabels(labels) == FoldLeft(InsertLabel, <<>>, labels)

-----------------------------------------------------------------------------
\* build_targets: `job` has name, scheme, path, params and relabel_configs.

\* The labels before relabelling: those of discovery before those of the job.
SeedLabels(address, group, job) ==
  LET discovered == FoldLeft(LAMBDA acc, label :
                               IF label.name = AddressLabel THEN acc
                               ELSE Set(acc, label.name, label.value),
                             <<Label(AddressLabel, address)>>, group)
  IN AddAllIfAbsent(discovered,
       <<Label(JobLabel, job.name), Label(SchemeLabel, job.scheme), Label(PathLabel, job.path)>>
         \o [i \in DOMAIN job.params |->
               Label(ParamPrefix \o job.params[i].name, job.params[i].value)])

ParamsOf(labels) ==
  LET params == Retain(labels, LAMBDA label : IsPrefix(ParamPrefix, label.name))
  IN [i \in DOMAIN params |->
        Label(SubSeq(params[i].name, Len(ParamPrefix) + 1, Len(params[i].name)),
              params[i].value)]

BuildTarget(address, group, job) ==
  LET Url(scheme, final, path) ==
        scheme \o <<"://">> \o final
          \o (IF path # <<>> /\ path[1] # "/" THEN <<"/">> \o path ELSE path)
      Of(labels, final) ==
        [url |-> Url(Get(labels, SchemeLabel), final, Get(labels, PathLabel)),
         params |-> ParamsOf(labels),
         labels |-> SortLabels(Retain(AddIfAbsent(labels, InstanceLabel, final),
                                      LAMBDA label : ~IsMeta(label.name)))]
      Addressed(labels) ==
        IF labels = Dropped \/ Get(labels, AddressLabel) = <<>> THEN Dropped
        ELSE Of(labels, Get(labels, AddressLabel))
  IN Addressed(Process(SeedLabels(address, group, job), job.relabel_configs))

\* Mutant: the parameters are taken for part of the labels.
IdentityOfLabels(target) ==
  <<target.url>> \o FlattenSeq([i \in DOMAIN target.labels |->
                       <<target.labels[i].name, target.labels[i].value>>])

\* Target::identity: the words that are hashed, each with its length.
Identity(target) ==
  LET words == target.params \o target.labels
  IN <<target.url>> \o FlattenSeq([i \in DOMAIN words |-> <<words[i].name, words[i].value>>])

-----------------------------------------------------------------------------
\* Offers and answers

ContentType(media, params) == [media |-> media, params |-> params]
Parameter(key, value) == [key |-> key, value |-> value]

MediaType(protocol) ==
  CASE protocol = "PrometheusProto" ->
         ContentType("application/vnd.google.protobuf",
                     <<Parameter("proto", "io.prometheus.client.MetricFamily"),
                       Parameter("encoding", "delimited")>>)
    [] protocol = "PrometheusText0.0.4" ->
         ContentType("text/plain", <<Parameter("version", "0.0.4")>>)
    [] protocol = "PrometheusText1.0.0" ->
         ContentType("text/plain", <<Parameter("version", "1.0.0")>>)
    [] protocol = "OpenMetricsText0.0.1" ->
         ContentType("application/openmetrics-text", <<Parameter("version", "0.0.1")>>)
    [] protocol = "OpenMetricsText1.0.0" ->
         ContentType("application/openmetrics-text", <<Parameter("version", "1.0.0")>>)

AnyType == ContentType("*/*", <<>>)

\* accept_header: descending weights, the catch-all below them.
AcceptHeader(protocols) ==
  [i \in 1 .. Len(protocols) + 1 |->
     [type |-> IF i <= Len(protocols) THEN MediaType(protocols[i]) ELSE AnyType,
      weight |-> IF FirstWeight >= i THEN FirstWeight + 1 - i ELSE 0]]

\* The last parameter of a key counts.
ParameterOf(content, key) ==
  LET last == SelectLastInSeq(content.params, LAMBDA p : p.key = key)
  IN IF last = 0 THEN EmptyText ELSE content.params[last].value

\* BodyFormat::from_content_type
BodyFormat(content) ==
  IF ~IsSet(content) \/ content.media # "application/vnd.google.protobuf" THEN "Text"
  ELSE IF \/ ParameterOf(content, "proto") # "io.prometheus.client.MetricFamily"
          \/ ParameterOf(content, "encoding") # "delimited"
    THEN Unusable
  ELSE "Protobuf"

-----------------------------------------------------------------------------
\* read_body: lengths of what is announced, of the chunks and of the buffer.

Capacity(announced, limit) ==
  Min({Or(announced, DefaultCapacity), MaxPreallocated} \cup (IF limit = 0 THEN {} ELSE {limit}))

\* Mutant: a chunk is compared with the limit, not what has arrived.
ExtendByChunk(body, chunk, limit) ==
  IF body = Unusable \/ (limit > 0 /\ chunk > limit) THEN Unusable ELSE body + chunk

ExtendBody(body, chunk, limit) ==
  IF body = Unusable \/ (limit > 0 /\ body + chunk > limit) THEN Unusable ELSE body + chunk

ReadBody(announced, chunks, limit) ==
  IF limit > 0 /\ IsSet(announced) /\ announced > limit THEN Unusable
  ELSE FoldLeft(LAMBDA body, chunk : ExtendBody(body, chunk, limit), 0, chunks)

-----------------------------------------------------------------------------
\* Series

\* Mutant: the scraped value is dropped instead of moved.
MergeLosing(labels, label) == Set(labels, label.name, label.value)

\* A conflict with honor_labels off: the scraped value moves.
MergeConflict(labels, label) ==
  Set(Set(labels, label.name, label.value), Exported(label.name), Get(labels, label.name))

MergeTargetLabels(labels, target, honor) ==
  FoldLeft(LAMBDA acc, label :
             IF label.name \notin LabelNames(acc) THEN Append(acc, label)
             ELSE IF honor THEN acc
             ELSE MergeConflict(acc, label),
           labels, target.labels)

\* finalize_series_labels; `job` has honor_labels, metric_relabel_configs, external.
Finalize(raw, target, job) ==
  LET Complete(labels) ==
        IF labels = Dropped THEN Dropped ELSE SortLabels(AddAllIfAbsent(labels, job.external))
  IN Complete(Process(MergeTargetLabels(raw, target, job.honor_labels),
                      job.metric_relabel_configs))

ReportNames ==
  <<"up", "scrape_duration_seconds", "scrape_samples_scraped",
    "scrape_samples_post_metric_relabeling", "scrape_series_added">>

\* The report series, the same whatever became of the scrape.
Report(target, job) ==
  [i \in DOMAIN ReportNames |->
     SortLabels(<<Label(MetricName, <<ReportNames[i]>>)>>
                  \o AddAllIfAbsent(target.labels, job.external))]

\* scrape_once; `scraped` are the raw label sets of the body, or Unusable.
ScrapeOnce(scraped, target, job) ==
  LET failed == scraped = Unusable
      over == ~failed /\ job.sample_limit > 0 /\ Len(scraped) > job.sample_limit
      Outcome(batch) ==
        [up |-> ~failed /\ ~over, kept |-> Len(batch),
         scraped |-> IF failed THEN 0 ELSE Len(scraped),
         batch |-> batch, report |-> Report(target, job),
         retained |-> ~failed /\ ~over /\ job.track_staleness]
  IN Outcome(IF failed \/ over THEN <<>>
             ELSE Retain([i \in DOMAIN scraped |-> Finalize(scraped[i], target, job)],
                         LAMBDA labels : labels # Dropped))

-----------------------------------------------------------------------------
\* Properties

\* "Targets with equal identity are the same series source": two targets that a
\* job takes for one have the URL, parameters and labels in common.  The words of
\* parameters and labels run together, so that a parameter of the one may stand
\* for a label of the other; otherwise the identity tells them apart.
IdentityTellsApart(t, u) ==
  LET MayStandFor(v, w) == LabelNames(v.params) \cap LabelNames(w.labels) # {}
  IN Identity(t) = Identity(u) => t = u \/ MayStandFor(t, u) \/ MayStandFor(u, t)

\* Every format that is offered is read by its parser when a target answers with
\* it, also with a charset added; offers are distinct and in the order of
\* preference, the catch-all is last of all and no weight is zero (which would
\* refuse a type); and a job that ingests native histograms and names no formats
\* prefers the one that carries them.
OffersUnderstood(job, global) ==
  LET protocols == Protocols(job, global)
      header == AcceptHeader(protocols)
      WithCharset(content) ==
        [content EXCEPT !.params = Append(@, Parameter("charset", "utf-8"))]
      Parser(protocol) == IF protocol = "PrometheusProto" THEN "Protobuf" ELSE "Text"
  IN /\ protocols # <<>> /\ IsInjective([i \in DOMAIN header |-> header[i].type])
     /\ \A i \in DOMAIN protocols :
          /\ IsSupported(protocols[i])
          /\ BodyFormat(MediaType(protocols[i])) = Parser(protocols[i])
          /\ BodyFormat(WithCharset(MediaType(protocols[i]))) = Parser(protocols[i])
     /\ \A i, j \in DOMAIN header : i < j => header[i].weight > header[j].weight
     /\ header[Len(header)].weight > 0 /\ header[Len(header)].type = AnyType
     /\ IsSet(job.protocols) => protocols = job.protocols
     /\ NativeHistograms(job, global) /\ ~IsSet(job.protocols) /\ ~IsSet(global.protocols)
          => protocols[1] = "PrometheusProto"

\* The limit holds for the decoded body however it arrives, announced or not and
\* in whatever chunks, and a body within it is read whole: no more is ever
\* buffered or allocated than the limit.
BodyBounded(announced, chunks, limit) ==
  LET body == ReadBody(announced, chunks, limit)
      whole == FoldLeft(LAMBDA sum, chunk : sum + chunk, 0, chunks)
      within == limit = 0 \/ (whole <= limit /\ (IsSet(announced) => announced <= limit))
  IN /\ body = IF within THEN whole ELSE Unusable
     /\ limit > 0 => Capacity(announced, limit) <= limit
     /\ Capacity(announced, limit) <= MaxPreallocated

\* The labels of a series are what the configuration promises: unique names; with
\* honor_labels what the target exposes, otherwise the labels of the target ("the
\* target label wins") with what it exposes under their names moved and not lost.
\* Not if a label stands where another one of the same series is moved to.
LabelsAsPromised(raw, target, job) ==
  LET names == LabelNames(target.labels)
      moved == {Exported(name) : name \in names \cap LabelNames(raw)}
      Promised(labels) ==
        /\ NamesUnique(labels)
        /\ job.honor_labels =>
             \A name \in LabelNames(raw) \ LabelNames(job.external) :
               Get(labels, name) = Get(raw, name)
        /\ ~job.honor_labels /\ moved \cap (names \cup LabelNames(raw)) = {} =>
             /\ \A name \in names : Get(labels, name) = Get(target.labels, name)
             /\ \A name \in names \cap LabelNames(raw) :
                  Get(labels, Exported(name)) = Get(raw, name)
  IN job.metric_relabel_configs = <<>> => Promised(Finalize(raw, target, job))

\* Names under which two series may come to have one label set.
Contested(target, job) ==
  LET names == LabelNames(target.labels)
  IN LabelNames(job.external) \cup
       (IF job.honor_labels THEN names ELSE {Exported(name) : name \in names})

\* A batch has one sample of each series: scraped series with different labels
\* still differ under the labels of the target and of the agent, and from the
\* report series, which are there whatever became of the scrape; over
\* sample_limit it has the report series only.  Not so where a label is contested,
\* or the name a label is moved to is one of the target's or of the agent's.
BatchOfSeries(scraped, target, job) ==
  LET reported == {<<name>> : name \in Range(ReportNames)}
      uncontested ==
        /\ {Exported(l.name) : l \in Range(target.labels)}
             \cap (LabelNames(target.labels) \cup LabelNames(job.external)) = {}
        /\ \A i \in DOMAIN scraped :
             /\ LabelNames(scraped[i]) \cap Contested(target, job) = {}
             /\ Get(scraped[i], MetricName) \notin reported
             /\ \A label \in Range(scraped[i]) : label.value # <<>>
      Whole(outcome) ==
        /\ Len(outcome.report) = 5 /\ outcome.kept <= outcome.scraped
        /\ ~outcome.up => outcome.batch = <<>> /\ ~outcome.retained
        /\ scraped # Unusable /\ job.metric_relabel_configs = <<>> =>
             (uncontested => IsInjective(outcome.batch \o outcome.report))
  IN Whole(ScrapeOnce(scraped, target, job))
=============================================================================
