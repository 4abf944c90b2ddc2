------------------------------- MODULE Relabel -------------------------------
(***************************************************************************)
(* Relabelling (relabel.rs): the rules of relabel_configs applied one by   *)
(* one to a label set.  Strings are sequences of tokens, so that joining,  *)
(* prefixes and newlines mean what they mean in the code; a template is a  *)
(* sequence of tokens and group references.  A pattern is a prefix, at     *)
(* most one dot-star, captured or not, and a suffix: it has all three      *)
(* kinds that `classify` tells apart, and one capture group.               *)
(***************************************************************************)
EXTENDS Naturals, Sequences, SequencesExt

CONSTANTS
  Newline,        \* the token `.` does not match
  NameStart,      \* tokens a label name may start with
  NameTokens,     \* tokens a label name is made of
  Capture,          \* `$1` in a template
  NoCapture,        \* `$2`: a reference to a group no pattern here has
  Dropped,        \* the result of a series that is dropped
  Lowercase(_), Uppercase(_),  \* of a token
  Digest(_),      \* the eight bytes of the MD5 digest, as a number
  Numeral(_)      \* the text of a number

\* A template tells its references apart, and a dropped series is no label set.
RelabelAssumption == Capture # NoCapture /\ Dropped # <<>>

ASSUME RelabelAssumption

\* A pattern's star is "none", "plain" or "group".
Pattern(prefix, star, suffix) == [prefix |-> prefix, star |-> star, suffix |-> suffix]
DefaultPattern == Pattern(<<>>, "group", <<>>)

-----------------------------------------------------------------------------
\* The regex crate, for `^(?:pattern)$`.

Middle(re, text) == SubSeq(text, Len(re.prefix) + 1, Len(text) - Len(re.suffix))

EngineMatches(re, text) ==
  IF re.star = "none" THEN text = re.prefix
  ELSE /\ Len(re.prefix) + Len(re.suffix) <= Len(text)
       /\ IsPrefix(re.prefix, text)
       /\ IsSuffix(re.suffix, text)
       /\ ~Contains(Middle(re, text), Newline)

\* caps.expand: a group that does not exist is empty.
Expand(template, re, text) ==
  FlattenSeq([i \in DOMAIN template |->
    CASE template[i] = Capture -> IF re.star = "group" THEN Middle(re, text) ELSE <<>>
      [] template[i] = NoCapture -> <<>>
      [] OTHER -> <<template[i]>>])

HasReference(template) == Contains(template, Capture) \/ Contains(template, NoCapture)

-----------------------------------------------------------------------------
Kind(re) ==
  IF re.star = "none" THEN "Literal"
  ELSE IF re.star = "plain" /\ re.suffix = <<>> THEN "LiteralPrefix"
  ELSE "General"

\* Mutant: the remainder is not looked at.
MatchesAcrossLines(re, text) ==
  CASE Kind(re) = "Literal" -> text = re.prefix
    [] Kind(re) = "LiteralPrefix" -> IsPrefix(re.prefix, text)
    [] OTHER -> EngineMatches(re, text)

Matches(re, text) ==
  CASE Kind(re) = "Literal" -> text = re.prefix
    [] Kind(re) = "LiteralPrefix" ->
         /\ IsPrefix(re.prefix, text)
         /\ ~Contains(SubSeq(text, Len(re.prefix) + 1, Len(text)), Newline)
    [] OTHER -> EngineMatches(re, text)

ValidName(name) ==
  /\ name # <<>>
  /\ name[1] \in NameStart
  /\ \A i \in DOMAIN name : name[i] \in NameTokens

-----------------------------------------------------------------------------
\* LabelSet: a vector of labels, searched from the front.

Label(name, value) == [name |-> name, value |-> value]
Position(set, name) == SelectInSeq(set, LAMBDA label : label.name = name)

Get(set, name) ==
  IF Position(set, name) = 0 THEN <<>> ELSE set[Position(set, name)].value

Set(set, name, value) ==
  IF Position(set, name) = 0
  THEN Append(set, Label(name, value))
  ELSE [set EXCEPT ![Position(set, name)].value = value]

\* The labels at some positions, in their order.
Pick(set, positions) ==
  FoldLeftDomain(LAMBDA acc, i : IF i \in positions THEN Append(acc, set[i]) ELSE acc, <<>>, set)

Retain(set, Test(_)) == Pick(set, {i \in DOMAIN set : Test(set[i])})
Discard(set, name) == Retain(set, LAMBDA label : label.name # name)

Join(set, rule) ==
  FlattenSeq([i \in DOMAIN rule.source_labels |->
    (IF i > 1 THEN rule.separator ELSE <<>>) \o Get(set, rule.source_labels[i])])

HashMod(text, modulus) == Digest(text) % modulus

-----------------------------------------------------------------------------
\* The end of every path of apply_replace.
Write(set, name, value) ==
  IF ~ValidName(name) THEN set
  ELSE IF value = <<>> THEN Discard(set, name)
  ELSE Set(set, name, value)

\* The path through the regex engine.
ReplaceGeneral(set, rule) ==
  LET joined == Join(set, rule)
  IN IF EngineMatches(rule.regex, joined)
     THEN Write(set, Expand(rule.target_label, rule.regex, joined),
                Expand(rule.replacement, rule.regex, joined))
     ELSE set

\* Copies the source of a rule with the default pattern.
CopyApplies(rule) ==
  /\ rule.regex = DefaultPattern
  /\ ~HasReference(rule.target_label)
  /\ rule.replacement = <<Capture>> \/ ~HasReference(rule.replacement)

ReplaceByCopy(set, rule) ==
  LET joined == Join(set, rule)
  IN IF Contains(joined, Newline) THEN set
     ELSE Write(set, rule.target_label,
                IF rule.replacement = <<Capture>> THEN joined ELSE rule.replacement)

\* Compares with a literal pattern.
TagApplies(rule) ==
  /\ Kind(rule.regex) = "Literal"
  /\ ~HasReference(rule.target_label)
  /\ ~HasReference(rule.replacement)

ReplaceByTag(set, rule) ==
  IF Join(set, rule) = rule.regex.prefix
  THEN Write(set, rule.target_label, rule.replacement)
  ELSE set

Replace(set, rule) ==
  IF CopyApplies(rule) THEN ReplaceByCopy(set, rule)
  ELSE IF TagApplies(rule) THEN ReplaceByTag(set, rule)
  ELSE ReplaceGeneral(set, rule)

\* labelmap: the updates are collected before the first is made.
LabelMap(set, rule) ==
  LET matching == Retain(set, LAMBDA label : EngineMatches(rule.regex, label.name))
      Update(acc, label) ==
        Set(acc, Expand(rule.replacement, rule.regex, label.name), label.value)
  IN FoldLeft(Update, set, matching)

MapTokens(text, Op(_)) == [i \in DOMAIN text |-> Op(text[i])]

Keeps(set, rule) ==
  LET joined == Join(set, rule)
  IN CASE rule.action = "keep" -> Matches(rule.regex, joined)
       [] rule.action = "drop" -> ~Matches(rule.regex, joined)
       [] rule.action = "keepequal" -> joined = Get(set, rule.target_label)
       [] rule.action = "dropequal" -> joined # Get(set, rule.target_label)
       [] OTHER -> TRUE

Rewrite(set, rule) ==
  LET joined == Join(set, rule)
  IN CASE rule.action = "replace" -> Replace(set, rule)
       [] rule.action = "hashmod" ->
            Set(set, rule.target_label, Numeral(HashMod(joined, rule.modulus)))
       [] rule.action = "labelmap" -> LabelMap(set, rule)
       [] rule.action = "labeldrop" ->
            Retain(set, LAMBDA label : ~Matches(rule.regex, label.name))
       [] rule.action = "labelkeep" ->
            Retain(set, LAMBDA label : Matches(rule.regex, label.name))
       [] rule.action = "lowercase" ->
            Set(set, rule.target_label, MapTokens(joined, Lowercase))
       [] rule.action = "uppercase" ->
            Set(set, rule.target_label, MapTokens(joined, Uppercase))
       [] OTHER -> set

Apply(set, rule) ==
  IF Keeps(set, rule) THEN Rewrite(set, rule) ELSE Dropped

\* RelabelConfig::validate
Valid(rule) ==
  CASE rule.action = "hashmod" -> rule.modulus > 0 /\ rule.target_label # <<>>
    [] rule.action \in {"replace", "lowercase", "uppercase", "keepequal", "dropequal"} ->
         rule.target_label # <<>>
    [] OTHER -> TRUE

\* What process returns of the set that is left.
Finish(set) ==
  IF set = Dropped THEN Dropped
  ELSE Retain(set, LAMBDA label : label.value # <<>>)

Process(labels, rules) ==
  Finish(FoldLeft(LAMBDA set, rule : IF set = Dropped THEN Dropped ELSE Apply(set, rule),
                  labels, rules))

-----------------------------------------------------------------------------
\* A rule does what the regex engine would make it do, whichever of the fast
\* paths of apply_replace and AnchoredRegex::matches it takes ("skips the
\* regex engine"): over missing labels, newlines in joined values, invalid
\* target names and empty replacements.
FastPathsAgree(set, rule) ==
  LET joined == Join(set, rule)
  IN /\ rule.action = "replace" => Replace(set, rule) = ReplaceGeneral(set, rule)
     /\ Matches(rule.regex, joined) <=> EngineMatches(rule.regex, joined)

\* The working set has "unique names", after any rules in any order: labels
\* that a rule maps onto each other or onto an old one are one label.
NamesUnique(set) ==
  \A i, j \in DOMAIN set : set[i].name = set[j].name => i = j

\* The two rules that shard a series set: hash some labels, keep one residue.
ShardRules(sources, separator, scratch, modulus, shard) ==
  LET rule == [action |-> "hashmod", source_labels |-> sources, separator |-> separator,
               target_label |-> scratch, regex |-> DefaultPattern, modulus |-> modulus,
               replacement |-> <<Capture>>]
  IN <<rule, [rule EXCEPT !.action = "keep", !.source_labels = <<scratch>>,
                          !.regex = Pattern(Numeral(shard), "none", <<>>)]>>

\* Agents that share targets by hashmod and keep ($(SHARD) in their files)
\* scrape each of them once: one shard keeps it, the others drop it.
OneShardKeeps(set, sources, separator, scratch, modulus) ==
  Cardinality({shard \in 0 .. modulus - 1 :
    Process(set, ShardRules(sources, separator, scratch, modulus, shard)) # Dropped}) = 1
=============================================================================
