------------------------------ MODULE Quantities ------------------------------
(***************************************************************************)
(* Durations and sizes as a configuration file writes them (config.rs,     *)
(* PromDuration::parse and PromSize::parse): "1h30m", "1.5MiB512KiB".      *)
(* A text is a sequence of characters; a parser that fails returns Invalid. *)
(***************************************************************************)
EXTENDS Integers, Sequences, FiniteSets, SequencesExt, TLC

CONSTANTS
  DigitValue,      \* [digit character |-> its value]
  DurationUnits,   \* the units, longest first: [text |-> <<"h">>, length |-> ms]
  Ki,              \* 1024: the step from one unit of size to the next
  FractionDigits,  \* digits of a fraction that count: 19
  MaxNumber,       \* u64::MAX
  Blank,           \* white space
  Invalid

QuantityAssumption ==
  /\ \A i, j \in DOMAIN DurationUnits :
       i < j => DurationUnits[i].length > DurationUnits[j].length
  /\ Ki > 1 /\ 10 ^ FractionDigits <= MaxNumber + 1

ASSUME QuantityAssumption

Digit == DOMAIN DigitValue
Point == "."

Number(digits) == FoldLeft(LAMBDA n, d : 10 * n + DigitValue[d], 0, digits)

\* How many of the first characters are in `chars`.
Run(text, chars) ==
  CHOOSE n \in 0 .. Len(text) :
    /\ \A i \in 1 .. n : text[i] \in chars
    /\ n < Len(text) => text[n + 1] \notin chars

From(text, at) == SubSeq(text, at, Len(text))
LeadingDigits(text) == Run(text, Digit)

-----------------------------------------------------------------------------
\* Durations: units in strictly descending order.

UnitsThatStart(rest) ==
  {i \in DOMAIN DurationUnits : IsPrefix(DurationUnits[i].text, rest)}

\* The longest match, "ms" before "m".
UnitMatch(rest) ==
  LET found == UnitsThatStart(rest)
  IN IF found = {} THEN 0
     ELSE CHOOSE i \in found :
            \A j \in found : Len(DurationUnits[j].text) <= Len(DurationUnits[i].text)

\* Groups of a number and a unit, each behind a group of unit `last`.
DurationGroups(text) ==
  LET groups[at \in Nat, last \in Nat, total \in Nat] ==
        LET remaining == From(text, at)
            digits == LeadingDigits(remaining)
            number == Number(SubSeq(remaining, 1, digits))
            unit == UnitMatch(From(remaining, digits + 1))
        IN IF remaining = <<>> THEN IF total > MaxNumber THEN Invalid ELSE total
           ELSE IF digits = 0 \/ number > MaxNumber \/ unit = 0 \/ unit <= last THEN Invalid
           ELSE groups[at + digits + Len(DurationUnits[unit].text), unit,
                       total + number * DurationUnits[unit].length]
  IN groups[1, 0, 0]

\* PromDuration::parse
ParseDuration(text) ==
  IF text = <<>> THEN Invalid
  ELSE IF text = <<"0">> THEN 0
  ELSE DurationGroups(text)

-----------------------------------------------------------------------------
\* Sizes: components in any order, each with a fraction or without.

SizeUnits ==
  LET prefixes == <<"K", "M", "G", "T", "P", "E">>
      Spelled(i) == <<prefixes[i], "B">> :> Ki ^ i @@ <<prefixes[i], "i", "B">> :> Ki ^ i
  IN <<"B">> :> 1 @@ Spelled(1) @@ Spelled(2) @@ Spelled(3) @@ Spelled(4)
       @@ Spelled(5) @@ Spelled(6)

Trim(text) ==
  LET kept == From(text, Run(text, Blank) + 1)
  IN Reverse(From(Reverse(kept), Run(Reverse(kept), Blank) + 1))

Counted(fraction) ==
  SubSeq(fraction, 1, IF Len(fraction) < FractionDigits THEN Len(fraction) ELSE FractionDigits)

\* The bytes of a fraction of a unit, rounded down.
Part(fraction, unit) ==
  (Number(Counted(fraction)) * unit) \div (10 ^ Len(Counted(fraction)))

\* The first component of a text: its digits, its fraction and its unit, and the
\* length of it all.
Component(text) ==
  LET whole == SubSeq(text, 1, LeadingDigits(text))
      pointed == From(text, Len(whole) + 1)
      hasPoint == pointed # <<>> /\ pointed[1] = Point
      fraction == IF hasPoint THEN SubSeq(pointed, 2, LeadingDigits(Tail(pointed)) + 1)
                  ELSE <<>>
      rest == IF hasPoint THEN From(pointed, Len(fraction) + 2) ELSE pointed
      unitEnd == CHOOSE n \in 0 .. Len(rest) :
                   /\ \A i \in 1 .. n : rest[i] \notin Digit \cup {Point}
                   /\ n < Len(rest) => rest[n + 1] \in Digit \cup {Point}
  IN [whole |-> whole, fraction |-> fraction, unit |-> SubSeq(rest, 1, unitEnd),
      length |-> Len(text) - Len(rest) + unitEnd]

SizeComponents(text) ==
  LET components[at \in Nat, total \in Nat] ==
        LET c == Component(From(text, at))
            bytes == Number(c.whole) * SizeUnits[c.unit] + Part(c.fraction, SizeUnits[c.unit])
        IN IF at > Len(text) THEN total
           ELSE IF c.whole \o c.fraction = <<>> \/ c.unit \notin DOMAIN SizeUnits THEN Invalid
           ELSE IF Number(c.whole) > MaxNumber \/ total + bytes > MaxNumber THEN Invalid
           ELSE components[at + c.length, total + bytes]
  IN components[1, 0]

\* PromSize::parse
ParseSize(text) ==
  LET input == Trim(text)
  IN IF input = <<>> THEN Invalid
     ELSE IF LeadingDigits(input) = Len(input)
       THEN IF Number(input) > MaxNumber THEN Invalid ELSE Number(input)
     ELSE SizeComponents(input)

-----------------------------------------------------------------------------
\* The references.  A text falls into blocks, each from a character of `head`
\* behind one that is not to the next such place.

Blocks(text, head) ==
  LET starts == {i \in DOMAIN text : text[i] \in head /\ (i = 1 \/ text[i - 1] \notin head)}
      bounds == SetToSortSeq(starts \cup {1, Len(text) + 1}, LAMBDA i, j : i < j)
  IN [k \in 1 .. Len(bounds) - 1 |-> SubSeq(text, bounds[k], bounds[k + 1] - 1)]

\* A duration is accepted exactly if each block is digits and a unit, in
\* descending order, and is then the sum of its blocks: "1m1ms" is not read as
\* "1m" and something, and a sum beyond u64 is refused, not wrapped.
DurationMeansItsText(text) ==
  LET blocks == Blocks(text, Digit)
      Unit(block) == From(block, LeadingDigits(block) + 1)
      Units == {i \in DOMAIN DurationUnits : \E k \in DOMAIN blocks :
                                               Unit(blocks[k]) = DurationUnits[i].text}
      IndexOf(block) == CHOOSE i \in Units : DurationUnits[i].text = Unit(block)
      wellFormed ==
        /\ \A k \in DOMAIN blocks :
             /\ LeadingDigits(blocks[k]) > 0
             /\ Number(SubSeq(blocks[k], 1, LeadingDigits(blocks[k]))) <= MaxNumber
             /\ \E i \in Units : DurationUnits[i].text = Unit(blocks[k])
        /\ \A k, l \in DOMAIN blocks : k < l => IndexOf(blocks[k]) < IndexOf(blocks[l])
      sum == FoldLeft(LAMBDA acc, block :
                        acc + Number(SubSeq(block, 1, LeadingDigits(block)))
                                * DurationUnits[IndexOf(block)].length, 0, blocks)
  IN text \notin {<<>>, <<"0">>} =>
       ParseDuration(text) = IF wellFormed /\ sum <= MaxNumber THEN sum ELSE Invalid

\* A size of numbers and known units, and no other, is accepted unless it is
\* beyond u64.  It is never more than what its text says, and less by at most a
\* byte for each fraction (two where digits are cut off): "values may be
\* fractional and components may be concatenated".  Behind a bare number a "B"
\* changes nothing.
SizeMeansItsText(text) ==
  LET input == Trim(text)
      blocks == Blocks(input, Digit \cup {Point})
      NumberOf(block) == SubSeq(block, 1, Run(block, Digit \cup {Point}))
      UnitOf(block) == From(block, Len(NumberOf(block)) + 1)
      points(block) == {i \in DOMAIN block : block[i] = Point}
      FractionOf(block) ==
        IF points(block) = {} THEN <<>>
        ELSE From(NumberOf(block), 1 + CHOOSE i \in points(block) : TRUE)
      wellFormed ==
        \A k \in DOMAIN blocks :
          /\ UnitOf(blocks[k]) \in DOMAIN SizeUnits /\ Cardinality(points(blocks[k])) < 2
          /\ \E i \in DOMAIN blocks[k] : blocks[k][i] \in Digit
      longest == Max({0} \cup {Len(FractionOf(blocks[k])) : k \in DOMAIN blocks})
      scale == 10 ^ longest
      exact == FoldLeft(LAMBDA acc, block :
                 acc + Number(SelectSeq(NumberOf(block), LAMBDA c : c # Point))
                         * SizeUnits[UnitOf(block)]
                         * 10 ^ (longest - Len(FractionOf(block))), 0, blocks)
      slack == FoldLeft(LAMBDA acc, block :
                 acc + CASE FractionOf(block) = <<>> -> 0
                         [] Len(FractionOf(block)) <= FractionDigits -> 1
                         [] OTHER -> 2, 0, blocks)
      size == ParseSize(text)
  IN IF input = <<>> THEN size = Invalid
     ELSE IF LeadingDigits(input) = Len(input)
       THEN size = ParseSize(Append(input, "B"))
     ELSE IF ~wellFormed THEN size = Invalid
     ELSE IF size = Invalid THEN exact > MaxNumber * scale
     ELSE exact = size * scale \/ (size * scale < exact /\ exact < (size + slack) * scale)
=============================================================================
