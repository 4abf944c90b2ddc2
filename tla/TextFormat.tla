------------------------------ MODULE TextFormat ------------------------------
(***************************************************************************)
(* The parser of the text exposition format (parser.rs): a body becomes    *)
(* one series per sample line, or the whole scrape fails on its first      *)
(* malformed line.  The raw bytes from the metric name to the closing      *)
(* brace are the identity under which Staleness tracks the series.         *)
(*                                                                         *)
(* A text is a sequence of characters, positions count from 1, and a       *)
(* parser that fails returns Malformed.  What f64::from_str and i64::from_str *)
(* make of a token is a parameter.                                         *)
(***************************************************************************)
EXTENDS Integers, Sequences, FiniteSets, SequencesExt, TLC

CONSTANTS
  Letters,              \* [a-zA-Z_]
  Digits,               \* [0-9]
  MetricNameLabel,      \* the text __name__
  MaxLabelsPerSeries,   \* labels of a series, the name included
  LinearLimit,          \* labels up to which duplicates are looked for one by one
  MaxTimestamp,         \* the largest timestamp
  FloatOf(_),           \* [kind |-> "finite", milli |-> 1000 * x] or a kind of its own
  IntegerOf(_),         \* a number, or Malformed
  Malformed,
  NoLine                \* what a blank or comment line yields

Quote == "\""
Backslash == "\\"
LineFeed == "nl"
Return == "cr"
Spaces == {" ", "tab"}

\* Names and values, as sequences of characters.
Strings == Seq(STRING)

\* The character at a position, if the text reaches that far.
Reads(text, at, char) == at <= Len(text) /\ text[at] = char

\* The first position from `at` on that has none of `chars`.
Past(text, at, chars) ==
  LET stops == {i \in at .. Len(text) : text[i] \notin chars}
  IN IF stops = {} THEN Len(text) + 1 ELSE CHOOSE i \in stops : \A j \in stops : i <= j

\* The first position from `at` on that has one of `chars`.
Find(text, at, chars) ==
  LET stops == {i \in at .. Len(text) : text[i] \in chars}
  IN IF stops = {} THEN Len(text) + 1 ELSE CHOOSE i \in stops : \A j \in stops : i <= j

SkipSpaces(text, at) == Past(text, at, Spaces)

NameStarts(colon) == Letters \cup (IF colon THEN {":"} ELSE {})
NameContinues(colon) == NameStarts(colon) \cup Digits

\* is_valid_name, which protobuf.rs and config.rs share.
IsValidName(name, colon) ==
  /\ name # <<>>
  /\ name[1] \in NameStarts(colon)
  /\ \A i \in DOMAIN name : name[i] \in NameContinues(colon)

TextLabel(name, value) == [name |-> name, value |-> value]
NamesOf(labels) == {labels[i].name : i \in DOMAIN labels}

-----------------------------------------------------------------------------
\* Label values

\* The closing quote; the character behind a backslash does not close.
ClosingQuote(text, from) ==
  LET close[i \in Nat] ==
        LET next == Find(text, i, {Quote, Backslash})
        IN IF next > Len(text) THEN Malformed
           ELSE IF text[next] = Quote THEN next
           ELSE IF next + 1 > Len(text) THEN Malformed ELSE close[next + 2]
  IN close[from]

Escapes == Backslash :> Backslash @@ Quote :> Quote @@ "n" :> LineFeed

Decode(raw) ==
  LET decode[i \in Nat] ==
        LET rest == IF Reads(raw, i, Backslash) THEN decode[i + 2] ELSE decode[i + 1]
        IN IF i > Len(raw) THEN <<>>
           ELSE IF ~Reads(raw, i, Backslash)
             THEN IF rest = Malformed THEN Malformed ELSE <<raw[i]>> \o rest
           ELSE IF raw[i + 1] \notin DOMAIN Escapes \/ rest = Malformed THEN Malformed
           ELSE <<Escapes[raw[i + 1]]>> \o rest
  IN decode[1]

\* parse_label_value, of the position of the opening quote.
ParseLabelValue(text, open) ==
  LET close == ClosingQuote(text, open + 1)
      raw == SubSeq(text, open + 1, close - 1)
      value == IF Contains(raw, Backslash) THEN Decode(raw) ELSE raw
  IN IF close = Malformed \/ value = Malformed THEN Malformed
     ELSE [value |-> value, next |-> close + 1]

-----------------------------------------------------------------------------
\* Label sets.  `seen` is the index of the names, empty up to LinearLimit.

CheckLabelName(name, labels, seen) ==
  /\ name \notin (IF seen = {} THEN NamesOf(labels) ELSE seen)
  /\ Len(labels) < MaxLabelsPerSeries

\* Mutant: the index starts empty instead of with the names parsed so far.
RecordUnseeded(name, labels, seen) ==
  IF seen # {} \/ Len(labels) > LinearLimit THEN seen \cup {name} ELSE {}

RecordLabelName(name, labels, seen) ==
  IF seen # {} THEN seen \cup {name}
  ELSE IF Len(labels) > LinearLimit THEN NamesOf(labels) ELSE {}

\* A name, an equals sign and a quoted value, with the spaces that follow it.
ParseLabel(text, at) ==
  LET nameEnd == Past(text, at, NameContinues(FALSE))
      equals == SkipSpaces(text, nameEnd)
      open == SkipSpaces(text, equals + 1)
      Of(name, parsed) ==
        IF name = MetricNameLabel \/ parsed = Malformed THEN Malformed
        ELSE [label |-> TextLabel(name, parsed.value), next |-> SkipSpaces(text, parsed.next)]
  IN IF \/ at > Len(text) \/ text[at] \notin NameStarts(FALSE)
        \/ ~Reads(text, equals, "=") \/ ~Reads(text, open, Quote)
     THEN Malformed
     ELSE Of(SubSeq(text, at, nameEnd - 1), ParseLabelValue(text, open))

\* parse_labels: what follows the opening brace or a comma.
ParseLabels(text, start, named) ==
  LET parse[from \in Nat, labels \in Seq([name : Strings, value : Strings]), seen \in SUBSET Strings] ==
        LET at == SkipSpaces(text, from)
            More(parsed, more) ==
              IF Reads(text, parsed.next, "}") THEN [labels |-> more, next |-> parsed.next + 1]
              ELSE IF Reads(text, parsed.next, ",")
                THEN parse[parsed.next + 1, more,
                           RecordLabelName(parsed.label.name, more, seen)]
              ELSE Malformed
            Checked(parsed) ==
              IF parsed # Malformed /\ CheckLabelName(parsed.label.name, labels, seen)
              THEN More(parsed, Append(labels, parsed.label)) ELSE Malformed
        IN IF Reads(text, at, "}") THEN [labels |-> labels, next |-> at + 1]
           ELSE Checked(ParseLabel(text, at))
  IN parse[start, named, {}]

-----------------------------------------------------------------------------
\* Lines

\* parse_value: from_str may refuse the plus sign of "+Inf".
ParseValue(token) ==
  IF FloatOf(token).kind = "invalid" /\ token[1] = "+" THEN FloatOf(Tail(token))
  ELSE FloatOf(token)

\* parse_timestamp: a token with a point or an exponent is in seconds.
ParseTimestamp(token) ==
  IF \E i \in DOMAIN token : token[i] \in {".", "e", "E"}
  THEN LET seconds == FloatOf(token)
       IN IF seconds.kind # "finite" \/ ~(seconds.milli \in -MaxTimestamp - 1 .. MaxTimestamp)
          THEN Malformed ELSE seconds.milli
  ELSE IntegerOf(token)

\* The value, timestamp and exemplar that follow the series.
ParseSample(text, at, default, honor) ==
  LET valueEnd == Find(text, at, Spaces)
      value == ParseValue(SubSeq(text, at, valueEnd - 1))
      second == SkipSpaces(text, valueEnd)
      stamped == second <= Len(text) /\ text[second] # "#"
      stampEnd == IF stamped THEN Find(text, second, Spaces) ELSE second
      stamp == ParseTimestamp(SubSeq(text, second, stampEnd - 1))
      rest == SkipSpaces(text, stampEnd)
  IN IF \/ at > Len(text) \/ value.kind = "invalid"
        \/ stamped /\ stamp = Malformed
        \/ rest <= Len(text) /\ text[rest] # "#"
     THEN Malformed
     ELSE [value |-> value, timestamp |-> IF stamped /\ honor THEN stamp ELSE default]

\* The name and the label set from `start` on, and where they end.
ParseSeries(text, start) ==
  LET nameEnd == Past(text, start, NameContinues(TRUE))
      named == <<TextLabel(MetricNameLabel, SubSeq(text, start, nameEnd - 1))>>
      brace == SkipSpaces(text, nameEnd)
  IN IF Reads(text, brace, "{") THEN ParseLabels(text, brace + 1, named)
     ELSE [labels |-> named, next |-> nameEnd]

\* parse_line
ParseLine(text, default, honor) ==
  LET start == SkipSpaces(text, 1)
      With(set, sample) ==
        IF sample = Malformed THEN Malformed
        ELSE [labels |-> set.labels, identity |-> SubSeq(text, start, set.next - 1),
              value |-> sample.value, timestamp |-> sample.timestamp]
      Line(set) ==
        IF set = Malformed THEN Malformed
        ELSE With(set, ParseSample(text, SkipSpaces(text, set.next), default, honor))
  IN IF start > Len(text) \/ Reads(text, start, "#") THEN NoLine
     ELSE IF text[start] \notin NameStarts(TRUE) THEN Malformed
     ELSE Line(ParseSeries(text, start))

\* The lines of a body, without a carriage return at their end.
LinesOf(body) ==
  LET ends == {i \in DOMAIN body : body[i] = LineFeed} \cup {Len(body) + 1}
      starts == {1} \cup {i + 1 : i \in ends}
      bounds == SetToSortSeq({p \in starts \X ends :
                                p[1] <= p[2] /\ \A i \in ends : i >= p[2] \/ i < p[1]},
                             LAMBDA p, q : p[1] < q[1])
      Line(s, e) == IF s < e /\ body[e - 1] = Return THEN SubSeq(body, s, e - 2)
                    ELSE SubSeq(body, s, e - 1)
  IN [k \in DOMAIN bounds |-> Line(bounds[k][1], bounds[k][2])]

\* parse: all lines or none.
ParseText(body, default, honor) ==
  LET Add(out, series) ==
        IF out = Malformed \/ series = Malformed THEN Malformed
        ELSE IF series = NoLine THEN out ELSE Append(out, series)
  IN FoldLeft(LAMBDA out, line : Add(out, ParseLine(line, default, honor)), <<>>, LinesOf(body))

-----------------------------------------------------------------------------
\* The format as it is written: the reference for the parser.

WriteValue(value) ==
  LET Written(char) == IF char = LineFeed THEN <<Backslash, "n">>
                       ELSE IF char \in {Quote, Backslash} THEN <<Backslash, char>>
                       ELSE <<char>>
  IN <<Quote>> \o FlattenSeq([i \in DOMAIN value |-> Written(value[i])]) \o <<Quote>>

WriteLabel(label) == label.name \o <<"=">> \o WriteValue(label.value)

\* A series without spaces: a label set may be empty and end with a comma.
WrittenForms(labels) ==
  LET own == Tail(labels)
      body == FlattenSeq([i \in DOMAIN own |->
                (IF i > 1 THEN <<",">> ELSE <<>>) \o WriteLabel(own[i])])
      Braced(inner) == labels[1].value \o <<"{">> \o inner \o <<"}">>
  IN IF own = <<>> THEN {labels[1].value, Braced(<<>>)}
     ELSE {Braced(body), Braced(body \o <<",">>)}

\* A text without the spaces outside its quoted values.
Squeeze(text) ==
  FoldLeft(LAMBDA acc, char :
             IF acc.escaped THEN [out |-> Append(acc.out, char), quoted |-> TRUE, escaped |-> FALSE]
             ELSE IF ~acc.quoted /\ char \in Spaces THEN acc
             ELSE [out |-> Append(acc.out, char),
                   quoted |-> IF char = Quote THEN ~acc.quoted ELSE acc.quoted,
                   escaped |-> acc.quoted /\ char = Backslash],
           [out |-> <<>>, quoted |-> FALSE, escaped |-> FALSE], text).out

\* A body is accepted only with the series it is a writing of: the raw identity
\* is the name and the labels of the series and nothing else, names are valid
\* and distinct on either side of the linear limit, and the identity parsed by
\* itself, as the retained body is for a marker, gives the same labels again.
AcceptsOnlyWritings(body, default, honor) ==
  LET Written(series) ==
        /\ Squeeze(series.identity) \in WrittenForms(series.labels)
        /\ series.labels[1].name = MetricNameLabel /\ IsValidName(series.labels[1].value, TRUE)
        /\ \A j \in 2 .. Len(series.labels) : IsValidName(series.labels[j].name, FALSE)
        /\ IsInjective([j \in DOMAIN series.labels |-> series.labels[j].name])
        /\ Len(series.labels) <= MaxLabelsPerSeries
      Again(series, again) ==
        /\ again # Malformed /\ again.labels = series.labels
        /\ again.identity = series.identity
      All(parsed) ==
        parsed # Malformed =>
          \A i \in DOMAIN parsed :
            /\ Written(parsed[i])
            /\ Again(parsed[i], ParseLine(parsed[i].identity \o <<" ", "1">>, default, honor))
  IN All(ParseText(body, default, honor))

\* What an exporter writes is read back, with any label values: quotes,
\* backslashes, line feeds, braces and spaces in them.
ReadsBack(body, written, default, honor) ==
  LET Is(parsed) ==
        /\ parsed # Malformed /\ Len(parsed) = Len(written)
        /\ \A i \in DOMAIN parsed :
             /\ parsed[i].labels = written[i].labels
             /\ parsed[i].timestamp =
                  IF honor /\ written[i].stamp # NoLine THEN written[i].stamp ELSE default
  IN Is(ParseText(body, default, honor))
=============================================================================
