------------------------------ MODULE WireFormat ------------------------------
(***************************************************************************)
(* The encoders of remote write: the protobuf messages of model.rs, whose  *)
(* lengths are computed apart from the bytes they announce, and the symbol *)
(* table of the 2.0 protocol (remote_write.rs), whose buffers are kept     *)
(* from one request to the next.                                           *)
(*                                                                         *)
(* A message is the sequence of the sizes of the pieces that are written;  *)
(* a float is "zero" or not; a string is its length, or in the symbol      *)
(* table a name.                                                           *)
(***************************************************************************)
EXTENDS Integers, Sequences, FiniteSets, SequencesExt

CONSTANT Empty  \* the empty string

Total(sizes) == FoldLeft(+, 0, sizes)
SumOver(s, Size(_)) == Total([i \in DOMAIN s |-> Size(s[i])])

-----------------------------------------------------------------------------
\* Varints of 64 bits

\* The position of the highest bit of value | 1.
HighestBit(value) ==
  LET bit[v \in 0 .. value] == IF v >= 2 THEN 1 + bit[v \div 2] ELSE 0
  IN bit[value]

LengthOfBit(bit) == (bit * 9 + 73) \div 64

\* varint_len
VarintLen(value) == LengthOfBit(HighestBit(value))

\* put_varint: a byte per seven bits, the last one below 0x80.
PutVarint(value) ==
  LET rest[v \in 0 .. value] == IF v >= 128 THEN <<1>> \o rest[v \div 128] ELSE <<1>>
  IN rest[value]

\* The length of a varint whose highest bit is known is the number of groups of
\* seven bits it takes, for every 64-bit value.
VarintLenExact == \A bit \in 0 .. 63 : LengthOfBit(bit) = bit \div 7 + 1

\* zigzag; int64_bits makes a negative number one of 64 bits.
Zigzag(value) == IF value >= 0 THEN 2 * value ELSE -2 * value - 1
Int64Len(value) == IF value < 0 THEN LengthOfBit(63) ELSE VarintLen(value)
PutInt64(value) == IF value < 0 THEN <<10>> ELSE PutVarint(value)

Double == 8

\* A field that is left out when it has its default value.
Field(present, body) == IF present THEN <<1>> \o body ELSE <<>>

\* A length-delimited field: the announced length is `length`, not the body's.
Delimited(length, body) == <<1>> \o PutVarint(length) \o body

-----------------------------------------------------------------------------
\* Lengths

SampleLen(sample) ==
  (IF sample.value = "zero" THEN 0 ELSE 9)
    + (IF sample.timestamp = 0 THEN 0 ELSE 1 + Int64Len(sample.timestamp))

CountLen(count) == IF count.float THEN 9 ELSE 1 + VarintLen(count.value)

SpanLen(span) ==
  (IF span.offset = 0 THEN 0 ELSE 1 + VarintLen(Zigzag(span.offset)))
    + (IF span.length = 0 THEN 0 ELSE 1 + VarintLen(span.length))

DelimitedLen(length) == 1 + VarintLen(length) + length
PackedLen(payload) == IF payload = 0 THEN 0 ELSE DelimitedLen(payload)

SpansLen(spans) == SumOver(spans, LAMBDA span : DelimitedLen(SpanLen(span)))
DeltasLen(deltas) == SumOver(deltas, LAMBDA delta : VarintLen(Zigzag(delta)))

SideLen(side) ==
  SpansLen(side.spans) + PackedLen(DeltasLen(side.deltas)) + PackedLen(side.counts * Double)

HistogramLen(h, timestamp) ==
  CountLen(h.count) + CountLen(h.zero_count)
    + (IF h.sum = "zero" THEN 0 ELSE 9)
    + (IF h.schema = 0 THEN 0 ELSE 1 + VarintLen(Zigzag(h.schema)))
    + (IF h.zero_threshold = "zero" THEN 0 ELSE 9)
    + SideLen(h.negative) + SideLen(h.positive)
    + (IF h.gauge THEN 2 ELSE 0)
    + (IF timestamp = 0 THEN 0 ELSE 1 + Int64Len(timestamp))

ValueLen(series) ==
  IF series.histogram # Empty
  THEN HistogramLen(series.histogram, series.sample.timestamp)
  ELSE SampleLen(series.sample)

StringLen(length) == IF length = 0 THEN 0 ELSE DelimitedLen(length)
LabelLen(label) == StringLen(label.name) + StringLen(label.value)

SeriesLen(series) ==
  SumOver(series.labels, LAMBDA label : DelimitedLen(LabelLen(label)))
    + DelimitedLen(ValueLen(series))

-----------------------------------------------------------------------------
\* Bytes

PutSample(sample) ==
  Field(sample.value # "zero", <<Double>>)
    \o Field(sample.timestamp # 0, PutInt64(sample.timestamp))

PutCount(count) == Field(TRUE, IF count.float THEN <<Double>> ELSE PutVarint(count.value))

PutSpan(span) ==
  Field(span.offset # 0, PutVarint(Zigzag(span.offset)))
    \o Field(span.length # 0, PutVarint(span.length))

PutEach(s, Put(_)) == FlattenSeq([i \in DOMAIN s |-> Put(s[i])])

PutSide(side) ==
  PutEach(side.spans, LAMBDA span : Delimited(SpanLen(span), PutSpan(span)))
    \o (IF side.deltas = <<>> THEN <<>>
        ELSE Delimited(DeltasLen(side.deltas),
                       PutEach(side.deltas, LAMBDA delta : PutVarint(Zigzag(delta)))))
    \o (IF side.counts = 0 THEN <<>>
        ELSE Delimited(side.counts * Double, <<side.counts * Double>>))

PutHistogram(h, timestamp) ==
  PutCount(h.count)
    \o Field(h.sum # "zero", <<Double>>)
    \o Field(h.schema # 0, PutVarint(Zigzag(h.schema)))
    \o Field(h.zero_threshold # "zero", <<Double>>)
    \o PutCount(h.zero_count)
    \o PutSide(h.negative) \o PutSide(h.positive)
    \o Field(h.gauge, <<1>>)
    \o Field(timestamp # 0, PutInt64(timestamp))

PutValue(series) ==
  LET timestamp == series.sample.timestamp
  IN IF series.histogram # Empty
     THEN Delimited(HistogramLen(series.histogram, timestamp),
                    PutHistogram(series.histogram, timestamp))
     ELSE Delimited(SampleLen(series.sample), PutSample(series.sample))

PutString(length) == IF length = 0 THEN <<>> ELSE Delimited(length, <<length>>)
PutLabel(label) == Delimited(LabelLen(label), PutString(label.name) \o PutString(label.value))

\* The body of a series in a 1.0 request, announced with SeriesLen.
PutSeries(series) == PutEach(series.labels, PutLabel) \o PutValue(series)

\* Every announced length is the number of bytes that follow, at every level: a
\* receiver rejects a request, or misreads all that is behind the message,
\* when wire_len and put_fields disagree about one field.
LengthsMatch(series) ==
  /\ SeriesLen(series) = Total(PutSeries(series))
  /\ DelimitedLen(ValueLen(series)) = Total(PutValue(series))
  /\ \A i \in DOMAIN series.labels :
       DelimitedLen(LabelLen(series.labels[i])) = Total(PutLabel(series.labels[i]))

-----------------------------------------------------------------------------
\* encode_v2_into: label names and values become references into the symbols,
\* counted from 0.  `refs` and `packed` (the size of a series' references) are
\* V2Scratch, which the next request finds as this one left it.

NewScratch == [refs |-> <<>>, packed |-> <<>>]

\* Mutant: the references of the request before stay.
KeepRefs(scratch) == [scratch EXCEPT !.packed = <<>>]

ClearScratch(scratch) == NewScratch

\* intern: symbols[0] is the empty string, every other one is added once.
Intern(table, text) ==
  LET known == SelectInSeq(table.symbols, LAMBDA symbol : symbol = text)
  IN IF known > 0
     THEN [table EXCEPT !.refs = Append(@, known - 1)]
     ELSE [table EXCEPT !.symbols = Append(@, text),
                        !.refs = Append(@, Len(table.symbols))]

\* A string equal to the one at the same place of the series before reuses its
\* reference, if the two series have as many labels.
Refer(table, text, same, distance) ==
  IF same THEN [table EXCEPT !.refs = Append(@, @[Len(@) + 1 - distance])]
  ELSE Intern(table, text)

\* Both series are laid out alike, two references per label, so the reference
\* of the same string of the previous series is `2 * labels` back.
AddLabel(table, series, previous, k) ==
  LET alike == previous # Empty /\ Len(previous) = Len(series)
      distance == 2 * Len(series)
      named == Refer(table, series[k].name,
                     alike /\ previous[k].name = series[k].name, distance)
  IN Refer(named, series[k].value,
           alike /\ previous[k].value = series[k].value, distance)

AddSeries(table, series, previous) ==
  LET added == FoldLeft(LAMBDA t, k : AddLabel(t, series, previous, k),
                        table, [k \in DOMAIN series |-> k])
      own == SubSeq(added.refs, Len(table.refs) + 1, Len(added.refs))
  IN [added EXCEPT !.packed = Append(@, SumOver(own, VarintLen))]

\* The symbols of a request and what it leaves in the scratch buffers.
EncodeV2(batch, scratch) ==
  LET cleared == ClearScratch(scratch)
      table == [symbols |-> <<Empty>>, refs |-> cleared.refs, packed |-> cleared.packed]
  IN FoldLeft(LAMBDA t, i :
                AddSeries(t, batch[i], IF i = 1 THEN Empty ELSE batch[i - 1]),
              table, [i \in DOMAIN batch |-> i])

\* What a receiver reads: the references of a series follow those of the series
\* before it, and every symbol is there once.
OwnRefs(message, batch, i) ==
  LET start == SumOver(SubSeq(batch, 1, i - 1), LAMBDA series : 2 * Len(series))
  IN SubSeq(message.refs, start + 1, start + 2 * Len(batch[i]))

ReadSeries(message, batch, i) ==
  LET Symbol(ref) == message.symbols[ref + 1]
  IN [k \in DOMAIN batch[i] |->
        [name |-> Symbol(OwnRefs(message, batch, i)[2 * k - 1]),
         value |-> Symbol(OwnRefs(message, batch, i)[2 * k])]]

\* A request decodes to its batch, whatever the requests before it left in the
\* buffers: reusing the references of the previous series "cannot change
\* interning order", the symbols are distinct and begin with the empty string,
\* and the references of a series take the bytes announced for them.
DecodesToBatch(message, batch) ==
  /\ message.symbols[1] = Empty
  /\ IsInjective(message.symbols)
  /\ Len(message.packed) = Len(batch)
  /\ \A i \in DOMAIN batch :
       /\ ReadSeries(message, batch, i) = batch[i]
       /\ message.packed[i] = Total(PutEach(OwnRefs(message, batch, i), PutVarint))
=============================================================================
