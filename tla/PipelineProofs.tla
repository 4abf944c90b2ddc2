----------------------------- MODULE PipelineProofs -----------------------------
(***************************************************************************)
(* Facts about relabelling, the labels a scrape is sent with and the       *)
(* targets of a job, for inputs of every size; and, first, about sequences,*)
(* folds and sets, those they and AlgorithmProofs rest on.                 *)
(***************************************************************************)
EXTENDS ScrapePipeline, FiniteSetTheorems, TLAPS

\* A set of natural numbers that has 0 and with every number the next has all.
LEMMA Induction ==
  ASSUME NEW S, 0 \in S, \A n \in Nat : n \in S => n + 1 \in S
  PROVE  Nat \subseteq S
<1> DEFINE T == Nat \ S
<1>1. SUFFICES ASSUME T # {} PROVE FALSE
  OBVIOUS
<1>2. PICK x \in T : \A y \in T : <<y, x>> \notin OpToRel(<, Nat)
  BY <1>1, NatLessThanWellFounded, WFMin
<1>3. x # 0 /\ x - 1 \in Nat /\ x - 1 < x
  OBVIOUS
<1>4. <<x - 1, x>> \in OpToRel(<, Nat)
  BY <1>3 DEF OpToRel
<1>5. x - 1 \in S
  BY <1>2, <1>3, <1>4
<1> QED
  BY <1>3, <1>5

\* The induction rule, up to a bound.
LEMMA BoundedInduction ==
  ASSUME NEW n \in Nat, NEW S, 0 \in S, \A i \in 1 .. n : i - 1 \in S => i \in S
  PROVE  0 .. n \subseteq S
<1> DEFINE T == S \cup {i \in Nat : i > n}
<1>1. 0 \in T
  OBVIOUS
<1>2. \A i \in Nat : i \in T => i + 1 \in T
  <2> TAKE i \in Nat
  <2> HAVE i \in T
  <2>1. CASE i + 1 <= n
    <3>1. i \in S /\ i + 1 \in 1 .. n /\ (i + 1) - 1 = i
      BY <2>1
    <3> QED  BY <3>1
  <2>2. CASE i + 1 > n
    BY <2>2
  <2> QED  BY <2>1, <2>2
<1> HIDE DEF T
<1>3. Nat \subseteq T
  BY <1>1, <1>2, Induction
<1> QED
  BY <1>3 DEF T

\* The greatest of the numbers up to i is i itself, if it is among them.
LEMMA MaxOfTop ==
  ASSUME NEW i \in Nat, NEW s \in SUBSET (1 .. i), i \in s
  PROVE  Max(s) = i
<1>1. \A y \in s : i >= y
  OBVIOUS
<1>2. Max(s) \in s /\ \A y \in s : Max(s) >= y
  BY <1>1 DEF Max
<1>3. Max(s) \in 1 .. i
  BY <1>2
<1> QED
  BY <1>2, <1>3

\* What a fold from the left goes through: the positions up to i.
LEMMA UpTo ==
  ASSUME NEW n \in Nat, NEW i \in 1 .. n
  PROVE  /\ 1 .. i \in SUBSET (1 .. n) /\ 1 .. i # {}
         /\ Max(1 .. i) = i /\ (1 .. i) \ {i} = 1 .. i - 1
<1>1. 1 .. i \in SUBSET (1 .. n) /\ i \in 1 .. i /\ 1 .. i # {}
  OBVIOUS
<1>2. Max(1 .. i) = i
  BY <1>1, MaxOfTop
<1>3. (1 .. i) \ {i} = 1 .. i - 1
  OBVIOUS
<1> QED
  BY <1>1, <1>2, <1>3

\* A fold over n positions is defined: there is a function of the sets of positions
\* that is base for none and goes a step for the last one.
GoesBy(f, n, base, step) ==
  /\ f[{}] = base
  /\ \A s \in SUBSET (1 .. n) :
       s # {} => Max(s) \in s /\ f[s] = step[Max(s)][f[s \ {Max(s)}]]

\* There is such a function for every number of elements, by induction.
LEMMA FoldIsDefined ==
  ASSUME NEW n \in Nat, NEW S, NEW base \in S, NEW step \in [1 .. n -> [S -> S]]
  PROVE  \E f \in [SUBSET (1 .. n) -> S] : GoesBy(f, n, base, step)
<1> DEFINE Good(f, m) ==
             /\ f[{}] = base
             /\ \A s \in SUBSET (1 .. m) :
                  s # {} => Max(s) \in s /\ f[s] = step[Max(s)][f[s \ {Max(s)}]]
           Done == {m \in 0 .. n : \E f \in [SUBSET (1 .. m) -> S] : Good(f, m)}
<1>1. 0 \in Done
  <2> DEFINE f == [s \in SUBSET (1 .. 0) |-> base]
  <2>1. f \in [SUBSET (1 .. 0) -> S] /\ f[{}] = base
    OBVIOUS
  <2>2. \A s \in SUBSET (1 .. 0) : s = {}
    OBVIOUS
  <2> HIDE DEF f
  <2>3. Good(f, 0)
    BY <2>1, <2>2
  <2>4. 0 \in 0 .. n
    OBVIOUS
  <2> QED  BY <2>1, <2>3, <2>4
<1>2. ASSUME NEW m \in 1 .. n, m - 1 \in Done
      PROVE  m \in Done
  <2>1. PICK f \in [SUBSET (1 .. m - 1) -> S] : Good(f, m - 1)
    BY <1>2
  <2> DEFINE g == [s \in SUBSET (1 .. m) |->
                     IF m \in s THEN step[m][f[s \ {m}]] ELSE f[s]]
  <2>2. ASSUME NEW s \in SUBSET (1 .. m), m \notin s
        PROVE  s \in SUBSET (1 .. m - 1)
    BY <2>2
  <2>3. ASSUME NEW s \in SUBSET (1 .. m)
        PROVE  s \ {m} \in SUBSET (1 .. m - 1)
    OBVIOUS
  <2>4. g \in [SUBSET (1 .. m) -> S]
    BY <2>2, <2>3
  <2>5. g[{}] = base
    BY <2>1
  <2>6. ASSUME NEW s \in SUBSET (1 .. m), s # {}
        PROVE  Max(s) \in s /\ g[s] = step[Max(s)][g[s \ {Max(s)}]]
    <3>1. CASE m \in s
      <4>1. Max(s) = m
        BY <3>1, MaxOfTop
      <4>2. g[s \ {m}] = f[s \ {m}]
        OBVIOUS
      <4> QED  BY <3>1, <4>1, <4>2
    <3>2. CASE m \notin s
      <4>1. s \in SUBSET (1 .. m - 1) /\ g[s] = f[s]
        BY <3>2, <2>2
      <4>2. g[s \ {Max(s)}] = f[s \ {Max(s)}]
        BY <3>2
      <4> QED  BY <2>1, <2>6, <4>1, <4>2
    <3> QED  BY <3>1, <3>2
  <2> HIDE DEF g
  <2>7. Good(g, m)
    BY <2>5, <2>6
  <2>8. m \in 0 .. n
    OBVIOUS
  <2> HIDE DEF Good
  <2> QED
    BY <2>4, <2>7, <2>8
<1> HIDE DEF Done
<1>3. n \in Done
  <2>1. 0 .. n \subseteq Done
    BY <1>1, <1>2, BoundedInduction
  <2> QED  BY <2>1
<1>4. PICK f \in [SUBSET (1 .. n) -> S] : Good(f, n)
  BY <1>3 DEF Done
<1>5. GoesBy(f, n, base, step)
  BY <1>4 DEF GoesBy
<1> QED
  BY <1>5

-----------------------------------------------------------------------------
\* A sequence without elements is the empty one.
LEMMA NoElements ==
  ASSUME NEW S, NEW s \in Seq(S), Len(s) = 0
  PROVE  s = <<>>
  OBVIOUS

\* What appending does to a sequence.
LEMMA Appended ==
  ASSUME NEW S, NEW s \in Seq(S), NEW x \in S
  PROVE  /\ Append(s, x) \in Seq(S)
         /\ Len(Append(s, x)) = Len(s) + 1 /\ Append(s, x)[Len(s) + 1] = x
         /\ \A i \in 1 .. Len(s) : Append(s, x)[i] = s[i]
  OBVIOUS

\* What joining does to two sequences.
LEMMA Joined ==
  ASSUME NEW S, NEW s \in Seq(S), NEW t \in Seq(S)
  PROVE  /\ s \o t \in Seq(S)
         /\ Len(s \o t) = Len(s) + Len(t)
         /\ \A i \in 1 .. Len(s) : (s \o t)[i] = s[i]
         /\ \A i \in 1 .. Len(t) : (s \o t)[Len(s) + i] = t[i]
  OBVIOUS

\* Two sequences of one length with the same elements are one.
LEMMA SameElements ==
  ASSUME NEW S, NEW s \in Seq(S), NEW T, NEW t \in Seq(T), Len(s) = Len(t),
         \A i \in 1 .. Len(s) : s[i] = t[i]
  PROVE  s = t
  OBVIOUS

\* Nothing in front of a sequence.
LEMMA NothingBefore ==
  ASSUME NEW S, NEW s \in Seq(S)
  PROVE  <<>> \o s = s
  OBVIOUS

\* What a fold goes through, by the number of elements it is past.
GoesThrough(h, n, base, step) ==
  /\ h[0] = base
  /\ \A i \in 1 .. n : h[i] = step[i][h[i - 1]]

\* There is such a sequence of results for every number of elements.
LEMMA StepsAreDefined ==
  ASSUME NEW n \in Nat, NEW S, NEW base \in S, NEW step \in [1 .. n -> [S -> S]]
  PROVE  \E h \in [0 .. n -> S] : GoesThrough(h, n, base, step)
<1>1. PICK f \in [SUBSET (1 .. n) -> S] : GoesBy(f, n, base, step)
  BY FoldIsDefined
<1> DEFINE h == [i \in 0 .. n |-> f[1 .. i]]
<1>2. h \in [0 .. n -> S]
  OBVIOUS
<1>3. h[0] = base
  <2>1. 1 .. 0 = {}
    OBVIOUS
  <2> QED
    BY <1>1, <2>1 DEF GoesBy
<1>4. ASSUME NEW i \in 1 .. n
      PROVE  h[i] = step[i][h[i - 1]]
  <2>1. /\ 1 .. i \in SUBSET (1 .. n) /\ 1 .. i # {}
        /\ Max(1 .. i) = i /\ (1 .. i) \ {i} = 1 .. i - 1
    BY UpTo
  <2>2. f[1 .. i] = step[Max(1 .. i)][f[(1 .. i) \ {Max(1 .. i)}]]
    BY <1>1, <2>1 DEF GoesBy
  <2>3. i \in 0 .. n /\ i - 1 \in 0 .. n
    OBVIOUS
  <2> QED
    BY <2>1, <2>2, <2>3
<1> HIDE DEF h
<1>5. GoesThrough(h, n, base, step)
  BY <1>3, <1>4 DEF GoesThrough
<1> QED
  BY <1>2, <1>5

\* FlattenSeq joins its pieces from the left.
LEMMA FlattenSteps ==
  ASSUME NEW S, NEW n \in Nat, NEW pieces \in [1 .. n -> Seq(S)]
  PROVE  \E h \in [0 .. n -> Seq(S)] :
           /\ h[0] = <<>>
           /\ \A i \in 1 .. n : h[i] = h[i - 1] \o pieces[i]
           /\ h[n] = FlattenSeq(pieces)
<1> DEFINE step == [i \in 1 .. n |-> [s \in Seq(S) |-> s \o pieces[i]]]
           Follows(f) == f = [i \in 1 .. n |-> IF i = 1 THEN pieces[i] ELSE f[i - 1] \o pieces[i]]
           flatten == CHOOSE f : Follows(f)
<1>1. step \in [1 .. n -> [Seq(S) -> Seq(S)]] /\ <<>> \in Seq(S)
  OBVIOUS
<1>2. PICK h \in [0 .. n -> Seq(S)] : GoesThrough(h, n, <<>>, step)
  <2> HIDE DEF step
  <2> QED
    BY <1>1, StepsAreDefined
<1> HIDE DEF step
<1>3. h[0] = <<>> /\ \A i \in 1 .. n : h[i] = h[i - 1] \o pieces[i]
  <2>1. ASSUME NEW i \in 1 .. n
        PROVE  h[i] = h[i - 1] \o pieces[i]
    <3>1. h[i] = step[i][h[i - 1]]
      BY <1>2, Zenon DEF GoesThrough
    <3>2. h[i - 1] \in Seq(S)
      OBVIOUS
    <3>3. \A s \in Seq(S) : step[i][s] = s \o pieces[i]
      BY DEF step
    <3> QED
      BY <3>1, <3>2, <3>3
  <2> QED
    BY <1>2, <2>1 DEF GoesThrough
<1>4. Len(pieces) = n
  OBVIOUS
<1>5. CASE n = 0
  <2>1. pieces = <<>> /\ FlattenSeq(pieces) = pieces
    BY <1>5 DEF FlattenSeq
  <2> QED
    BY <1>3, <1>5, <2>1
<1>6. CASE n # 0
  <2>1. FlattenSeq(pieces) = flatten[n]
    BY <1>4, <1>6 DEF FlattenSeq
  <2>2. n >= 1 /\ h[1] = pieces[1] /\ 1 \in 1 .. n
    <3>1. 1 \in 1 .. n /\ 1 - 1 = 0
      BY <1>6
    <3>2. h[1] = <<>> \o pieces[1] /\ pieces[1] \in Seq(S)
      BY <1>3, <3>1
    <3> QED
      BY <3>1, <3>2, NothingBefore
  <2> DEFINE g == [i \in 1 .. n |-> h[i]]
  <2>3. ASSUME NEW i \in 1 .. n
        PROVE  g[i] = IF i = 1 THEN pieces[i] ELSE g[i - 1] \o pieces[i]
    <3>1. CASE i = 1
      BY <2>2, <3>1
    <3>2. CASE i # 1
      <4>1. i - 1 \in 1 .. n
        BY <3>2
      <4> QED
        BY <1>3, <3>2, <4>1
    <3> QED
      BY <3>1, <3>2
  <2>4. Follows(g)
    <3>1. g = [i \in 1 .. n |-> g[i]]
      OBVIOUS
    <3> HIDE DEF g
    <3> QED
      BY <2>3, <3>1
  <2> HIDE DEF g
  <2>5. Follows(flatten)
    <3> HIDE DEF Follows
    <3> QED
      BY <2>4
  <2> HIDE DEF flatten
  <2>6. \A i \in 1 .. n : flatten[i] = h[i]
    <3> DEFINE Same == {i \in 0 .. n : i # 0 => flatten[i] = h[i]}
    <3>1. 0 \in Same
      OBVIOUS
    <3>2. ASSUME NEW i \in 1 .. n, i - 1 \in Same PROVE i \in Same
      <4>1. flatten[i] = IF i = 1 THEN pieces[i] ELSE flatten[i - 1] \o pieces[i]
        BY <2>5
      <4>2. CASE i = 1
        BY <2>2, <4>1, <4>2
      <4>3. CASE i # 1
        <5>1. i - 1 # 0 /\ i \in 0 .. n
          BY <4>3
        <5> QED
          BY <1>3, <3>2, <4>1, <4>3, <5>1
      <4> QED
        BY <4>2, <4>3
    <3> HIDE DEF Same
    <3>3. 0 .. n \subseteq Same
      BY <3>1, <3>2, BoundedInduction
    <3> QED
      BY <3>3 DEF Same
  <2>7. flatten[n] = h[n]
    <3>1. n \in 1 .. n
      BY <1>6
    <3> QED
      BY <2>6, <3>1
  <2> QED
    BY <1>3, <2>1, <2>7
<1> QED
  BY <1>5, <1>6

-----------------------------------------------------------------------------
\* What relabelling works on, over any set of tokens.
Patterns(Tokens) ==
  [prefix : Seq(Tokens), star : {"none", "plain", "group"}, suffix : Seq(Tokens)]

\* Every text ends with the empty text.
LEMMA EmptySuffix ==
  ASSUME NEW S, NEW text \in Seq(S)
  PROVE  IsSuffix(<<>>, text)
  BY DEF IsSuffix, IsPrefix, Reverse

\* AnchoredRegex::matches gives the answer of the regex engine, whichever of
\* the three kinds classify has put the pattern in.
THEOREM MatchesIsExact ==
  ASSUME NEW Tokens, NEW re \in Patterns(Tokens), NEW text \in Seq(Tokens)
  PROVE  Matches(re, text) <=> EngineMatches(re, text)
<1>1. CASE Kind(re) = "Literal"
  BY <1>1 DEF Kind, Matches, EngineMatches
<1>2. CASE Kind(re) = "LiteralPrefix"
  <2>1. re.star = "plain" /\ re.suffix = <<>>
    BY <1>2 DEF Kind
  <2>2. IsSuffix(re.suffix, text)
    BY <2>1, EmptySuffix
  <2>3. Middle(re, text) = SubSeq(text, Len(re.prefix) + 1, Len(text))
    BY <2>1 DEF Middle
  <2>4. IsPrefix(re.prefix, text) => Len(re.prefix) + Len(re.suffix) <= Len(text)
    BY <2>1 DEF IsPrefix, Patterns
  <2> QED
    BY <1>2, <2>1, <2>2, <2>3, <2>4 DEF Matches, EngineMatches
<1>3. CASE Kind(re) = "General"
  BY <1>3 DEF Matches
<1> QED
  BY <1>1, <1>2, <1>3 DEF Kind

-----------------------------------------------------------------------------
\* A search from the front finds the first.
LEMMA MinIsMember ==
  ASSUME NEW S \in SUBSET Nat, S # {}
  PROVE  Min(S) \in S /\ \A y \in S : Min(S) <= y
<1> DEFINE T == {0 .. i : i \in S}
<1>1. T \subseteq FiniteSubsetsOf(Nat) /\ T # {}
  <2>1. \A i \in S : 0 .. i \in SUBSET Nat /\ IsFiniteSet(0 .. i)
    BY FS_Interval
  <2> QED
    BY <2>1 DEF FiniteSubsetsOf
<1>2. PICK t \in T : \A u \in T : <<u, t>> \notin StrictSubsetOrdering(Nat)
  BY <1>1, FS_StrictSubsetOrderingWellFounded, WFMin
<1>3. PICK x \in S : t = 0 .. x
  OBVIOUS
<1>4. ASSUME NEW y \in S, y < x PROVE FALSE
  <2>1. 0 .. y \in T /\ 0 .. y \in SUBSET Nat /\ 0 .. x \in SUBSET Nat
    OBVIOUS
  <2>2. 0 .. y \subseteq 0 .. x /\ x \in 0 .. x /\ x \notin 0 .. y
    BY <1>4
  <2> QED
    BY <1>2, <1>3, <2>1, <2>2 DEF StrictSubsetOrdering
<1>5. \A y \in S : x <= y
  BY <1>4
<1> QED
  BY <1>5 DEF Min

\* LabelSet::set keeps the names of a set unique, be the name there or not.
THEOREM SetKeepsNamesUnique ==
  ASSUME NEW Names, NEW Values, NEW set \in Seq([name : Names, value : Values]),
         NEW name \in Names, NEW value \in Values, NamesUnique(set)
  PROVE  NamesUnique(Set(set, name, value))
<1> DEFINE Found == {i \in 1 .. Len(set) : set[i].name = name}
<1>1. Position(set, name) = IF Found # {} THEN Min(Found) ELSE 0
  BY DEF Position, SelectInSeq
<1>2. CASE Found = {}
  <2>1. Set(set, name, value) = Append(set, Label(name, value))
    BY <1>1, <1>2 DEF Set
  <2>2. \A i \in DOMAIN set : set[i].name # name
    BY <1>2
  <2> QED
    BY <2>1, <2>2 DEF NamesUnique, Label
<1>3. CASE Found # {}
  <2>1. Found \in SUBSET Nat
    OBVIOUS
  <2>2. Min(Found) \in Found
    BY <1>3, <2>1, MinIsMember
  <2> QED
    BY <1>1, <1>3, <2>2 DEF Set, NamesUnique
<1> QED
  BY <1>2, <1>3

-----------------------------------------------------------------------------
\* FlattenSeq of sequences over a set is one.
LEMMA FlattenIsTyped ==
  ASSUME NEW S, NEW n \in Nat, NEW pieces \in [1 .. n -> Seq(S)]
  PROVE  FlattenSeq(pieces) \in Seq(S)
<1>1. PICK h \in [0 .. n -> Seq(S)] :
        /\ h[0] = <<>>
        /\ \A i \in 1 .. n : h[i] = h[i - 1] \o pieces[i]
        /\ h[n] = FlattenSeq(pieces)
  BY FlattenSteps, ZenonT(30)
<1> QED
  BY <1>1

\* Flattening the elements of a sequence gives the sequence.
LEMMA FlattenOfElements ==
  ASSUME NEW S, NEW s \in Seq(S)
  PROVE  FlattenSeq([i \in DOMAIN s |-> <<s[i]>>]) = s
<1> DEFINE n == Len(s)
           pieces == [i \in 1 .. n |-> <<s[i]>>]
<1>1. n \in Nat /\ pieces \in [1 .. n -> Seq(S)] /\ DOMAIN s = 1 .. n
  OBVIOUS
<1>2. \A i \in 1 .. n : pieces[i] = <<s[i]>> /\ s[i] \in S
  OBVIOUS
<1> HIDE DEF n, pieces
<1>3. PICK h \in [0 .. n -> Seq(S)] :
        /\ h[0] = <<>>
        /\ \A i \in 1 .. n : h[i] = h[i - 1] \o pieces[i]
        /\ h[n] = FlattenSeq(pieces)
  BY <1>1, FlattenSteps
<1> DEFINE Same == {i \in 0 .. n : Len(h[i]) = i /\ \A k \in 1 .. i : h[i][k] = s[k]}
<1>4. 0 \in Same
  BY <1>1, <1>3
<1>5. ASSUME NEW i \in 1 .. n, i - 1 \in Same
      PROVE  i \in Same
  <2>1. h[i] = h[i - 1] \o <<s[i]>> /\ s[i] \in S
    BY <1>2, <1>3
  <2>2. /\ h[i - 1] \in Seq(S) /\ Len(h[i - 1]) = i - 1
        /\ \A k \in 1 .. i - 1 : h[i - 1][k] = s[k]
    BY <1>1, <1>5
  <2>3. Len(h[i]) = i /\ h[i][i] = s[i] /\ \A k \in 1 .. i - 1 : h[i][k] = s[k]
    BY <1>1, <2>1, <2>2
  <2> QED
    BY <1>1, <2>3
<1> HIDE DEF Same
<1>6. n \in Same
  <2>1. \A i \in 1 .. n : i - 1 \in Same => i \in Same
    BY <1>5
  <2>2. 0 .. n \subseteq Same
    BY <1>1, <1>4, <2>1, BoundedInduction
  <2> QED
    BY <1>1, <2>2
<1>7. /\ h[n] \in Seq(S) /\ Len(h[n]) = Len(s)
      /\ \A k \in 1 .. Len(s) : h[n][k] = s[k]
  BY <1>1, <1>6 DEF Same, n
<1>8. h[n] = s
  BY <1>7, SameElements
<1> QED
  BY <1>1, <1>3, <1>8 DEF pieces

\* The types of relabelling over a set of tokens: labels, templates, rules.
Labels(Tokens) == [name : Seq(Tokens), value : Seq(Tokens)]
Templates(Tokens) == Seq(Tokens \cup {Capture, NoCapture})
Actions == {"replace", "keep", "drop", "keepequal", "dropequal", "hashmod", "labelmap",
            "labeldrop", "labelkeep", "lowercase", "uppercase"}
RelabelRules(Tokens) ==
  [action : Actions, source_labels : Seq(Seq(Tokens)), separator : Seq(Tokens),
   target_label : Templates(Tokens), regex : Patterns(Tokens), modulus : Nat,
   replacement : Templates(Tokens)]

\* get_label finds the value of a label or nothing.
LEMMA GetIsTyped ==
  ASSUME NEW Tokens, NEW set \in Seq(Labels(Tokens)), NEW name
  PROVE  Get(set, name) \in Seq(Tokens)
<1> DEFINE Found == {i \in 1 .. Len(set) : set[i].name = name}
<1>1. Position(set, name) = IF Found # {} THEN Min(Found) ELSE 0
  BY DEF Position, SelectInSeq
<1>2. Found # {} => Min(Found) \in Found
  <2>1. Found \in SUBSET Nat
    OBVIOUS
  <2> QED
    BY <2>1, MinIsMember
<1>3. CASE Found = {}
  BY <1>1, <1>3 DEF Get
<1>4. CASE Found # {}
  <2>1. Position(set, name) \in 1 .. Len(set) /\ Position(set, name) # 0
    BY <1>1, <1>2, <1>4
  <2>2. set[Position(set, name)] \in Labels(Tokens)
    BY <2>1
  <2>3. set[Position(set, name)].value \in Seq(Tokens)
    BY <2>2 DEF Labels
  <2> QED
    BY <2>1, <2>3 DEF Get
<1> QED
  BY <1>3, <1>4

\* The joined values of the source labels are a text over the tokens.
LEMMA JoinIsTyped ==
  ASSUME NEW Tokens, NEW set \in Seq(Labels(Tokens)), NEW rule,
         rule.source_labels \in Seq(Seq(Tokens)), rule.separator \in Seq(Tokens)
  PROVE  Join(set, rule) \in Seq(Tokens)
<1> DEFINE n == Len(rule.source_labels)
           Piece(i) == (IF i > 1 THEN rule.separator ELSE <<>>) \o Get(set, rule.source_labels[i])
           pieces == [i \in 1 .. n |-> Piece(i)]
<1>1. n \in Nat /\ DOMAIN rule.source_labels = 1 .. n
  OBVIOUS
<1>2. pieces \in [1 .. n -> Seq(Tokens)]
  <2>1. ASSUME NEW i \in 1 .. n
        PROVE  Piece(i) \in Seq(Tokens)
    <3>1. Get(set, rule.source_labels[i]) \in Seq(Tokens)
      BY GetIsTyped
    <3> QED
      BY <3>1
  <2> HIDE DEF Piece
  <2> QED
    BY <2>1
<1>3. Join(set, rule) = FlattenSeq(pieces)
  BY <1>1 DEF Join
<1> HIDE DEF n, pieces
<1> QED
  BY <1>1, <1>2, <1>3, FlattenIsTyped

\* A template without references stands for itself.
LEMMA ExpandOfText ==
  ASSUME NEW Tokens, NEW template \in Templates(Tokens), ~HasReference(template),
         NEW re, NEW text
  PROVE  Expand(template, re, text) = template
<1>1. \A i \in DOMAIN template : template[i] # Capture /\ template[i] # NoCapture
  BY DEF HasReference, Contains, Templates
<1>2. Expand(template, re, text) = FlattenSeq([i \in DOMAIN template |-> <<template[i]>>])
  BY <1>1 DEF Expand
<1> QED
  BY <1>2, FlattenOfElements DEF Templates

\* `$1` of the default pattern stands for the text that matches.
LEMMA ExpandOfCapture ==
  ASSUME NEW Tokens, NEW text \in Seq(Tokens)
  PROVE  Expand(<<Capture>>, DefaultPattern, text) = text
<1>1. Middle(DefaultPattern, text) = text
  BY DEF Middle, DefaultPattern, Pattern
<1> DEFINE pieces == [i \in DOMAIN <<Capture>> |->
             CASE <<Capture>>[i] = Capture ->
                    IF DefaultPattern.star = "group" THEN Middle(DefaultPattern, text) ELSE <<>>
               [] <<Capture>>[i] = NoCapture -> <<>>
               [] OTHER -> << <<Capture>>[i]>>]
<1>2. Expand(<<Capture>>, DefaultPattern, text) = FlattenSeq(pieces)
  BY DEF Expand
<1>3. pieces = [i \in 1 .. 1 |-> text]
  <2>1. DOMAIN <<Capture>> = 1 .. 1 /\ <<Capture>>[1] = Capture
    OBVIOUS
  <2>2. DefaultPattern.star = "group"
    BY DEF DefaultPattern, Pattern
  <2> QED
    BY <1>1, <2>1, <2>2, RelabelAssumption DEF RelabelAssumption
<1> HIDE DEF pieces
<1>4. PICK h \in [0 .. 1 -> Seq(Tokens)] :
        h[0] = <<>> /\ h[1] = h[0] \o pieces[1] /\ h[1] = FlattenSeq(pieces)
  <2> DEFINE n == 1
  <2>1. pieces \in [1 .. n -> Seq(Tokens)] /\ n \in Nat
    BY <1>3
  <2> HIDE DEF n
  <2>2. PICK h \in [0 .. n -> Seq(Tokens)] :
          /\ h[0] = <<>>
          /\ \A i \in 1 .. n : h[i] = h[i - 1] \o pieces[i]
          /\ h[n] = FlattenSeq(pieces)
    BY <2>1, FlattenSteps
  <2>3. 1 \in 1 .. n /\ 1 - 1 = 0
    BY DEF n
  <2>4. h[0] = <<>> /\ h[1] = h[0] \o pieces[1] /\ h[n] = FlattenSeq(pieces)
    BY <2>2, <2>3
  <2> QED
    BY <2>4 DEF n
<1>5. <<>> \o text = text
  BY NothingBefore
<1> QED
  BY <1>2, <1>3, <1>4, <1>5

\* A rule does what the regex engine would make it do, whichever of the fast
\* paths of apply_replace and AnchoredRegex::matches it takes: for every label
\* set and rule, over any tokens.
THEOREM FastPathsAreExact ==
  ASSUME NEW Tokens, NEW set \in Seq(Labels(Tokens)), NEW rule \in RelabelRules(Tokens)
  PROVE  FastPathsAgree(set, rule)
<1> DEFINE joined == Join(set, rule)
<1>1. joined \in Seq(Tokens)
  BY JoinIsTyped DEF RelabelRules
<1>2. rule.regex \in Patterns(Tokens) /\ rule.target_label \in Templates(Tokens)
      /\ rule.replacement \in Templates(Tokens)
  BY DEF RelabelRules
<1>3. Matches(rule.regex, joined) <=> EngineMatches(rule.regex, joined)
  BY <1>1, <1>2, MatchesIsExact
<1> HIDE DEF joined
<1>4. CASE CopyApplies(rule)
  <2>1. EngineMatches(rule.regex, joined) <=> ~Contains(joined, Newline)
    <3>1. /\ rule.regex.prefix = <<>> /\ rule.regex.star = "group" /\ rule.regex.suffix = <<>>
          /\ rule.regex = DefaultPattern
      BY <1>4 DEF CopyApplies, DefaultPattern, Pattern
    <3>2. Middle(rule.regex, joined) = joined
      BY <1>1, <3>1 DEF Middle
    <3>3. IsPrefix(<<>>, joined) /\ IsSuffix(<<>>, joined) /\ Len(joined) >= 0
      BY <1>1, EmptySuffix DEF IsPrefix
    <3> QED
      BY <1>1, <3>1, <3>2, <3>3 DEF EngineMatches
  <2>2. Expand(rule.target_label, rule.regex, joined) = rule.target_label
    BY <1>2, <1>4, ExpandOfText DEF CopyApplies
  <2>3. Expand(rule.replacement, rule.regex, joined)
          = IF rule.replacement = <<Capture>> THEN joined ELSE rule.replacement
    <3>1. CASE rule.replacement = <<Capture>>
      BY <1>1, <1>4, <3>1, ExpandOfCapture DEF CopyApplies
    <3>2. CASE rule.replacement # <<Capture>>
      BY <1>2, <1>4, <3>2, ExpandOfText DEF CopyApplies
    <3> QED
      BY <3>1, <3>2
  <2>4. Replace(set, rule) = ReplaceByCopy(set, rule)
    BY <1>4 DEF Replace
  <2>5. ReplaceByCopy(set, rule) = ReplaceGeneral(set, rule)
    BY <2>1, <2>2, <2>3 DEF ReplaceByCopy, ReplaceGeneral, joined
  <2> QED
    BY <1>3, <2>4, <2>5 DEF FastPathsAgree, joined
<1>5. CASE ~CopyApplies(rule) /\ TagApplies(rule)
  <2>1. EngineMatches(rule.regex, joined) <=> joined = rule.regex.prefix
    BY <1>5 DEF TagApplies, Kind, EngineMatches
  <2>2. Expand(rule.target_label, rule.regex, joined) = rule.target_label
    BY <1>2, <1>5, ExpandOfText DEF TagApplies
  <2>3. Expand(rule.replacement, rule.regex, joined) = rule.replacement
    BY <1>2, <1>5, ExpandOfText DEF TagApplies
  <2>4. Replace(set, rule) = ReplaceByTag(set, rule)
    BY <1>5 DEF Replace
  <2>5. ReplaceByTag(set, rule) = ReplaceGeneral(set, rule)
    BY <2>1, <2>2, <2>3 DEF ReplaceByTag, ReplaceGeneral, joined
  <2> QED
    BY <1>3, <2>4, <2>5 DEF FastPathsAgree, joined
<1>6. CASE ~CopyApplies(rule) /\ ~TagApplies(rule)
  BY <1>3, <1>6 DEF FastPathsAgree, Replace, joined
<1> QED
  BY <1>4, <1>5, <1>6

-----------------------------------------------------------------------------
\* A LabelSet: its names are unique.
LabelSets(Tokens) == {set \in Seq(Labels(Tokens)) : NamesUnique(set)}

\* Retaining goes through the labels one by one.
Retains(h, n, set, positions) ==
  /\ h[0] = <<>>
  /\ \A i \in 1 .. n :
       h[i] = IF i \in positions THEN Append(h[i - 1], set[i]) ELSE h[i - 1]
  /\ h[n] = Pick(set, positions)

\* There are such results for every label set.
LEMMA PickSteps ==
  ASSUME NEW S, NEW n \in Nat, NEW set \in [1 .. n -> S], NEW positions
  PROVE  \E h \in [0 .. n -> Seq(S)] : Retains(h, n, set, positions)
<1> DEFINE Op(acc, i) == IF i \in positions THEN Append(acc, set[i]) ELSE acc
           order == [i \in 1 .. n |-> i]
           Follows(f) == f = [s \in SUBSET (1 .. n) |->
                                IF s = {} THEN <<>> ELSE Op(f[s \ {Max(s)}], order[Max(s)])]
           f == CHOOSE f : Follows(f)
           h == [i \in 0 .. n |-> f[1 .. i]]
<1>1. Pick(set, positions) = f[1 .. n]
  <2>1. DOMAIN set = 1 .. n /\ DOMAIN order = 1 .. n
    OBVIOUS
  <2> QED
    BY <2>1 DEF Pick, FoldLeftDomain, FoldLeft, MapThenFoldSet
<1>2. \A acc \in Seq(S), i \in 1 .. n : Op(acc, i) \in Seq(S) /\ order[i] = i
  OBVIOUS
<1>3. \E g : Follows(g)
  <2> DEFINE step == [i \in 1 .. n |-> [acc \in Seq(S) |-> Op(acc, i)]]
  <2>1. step \in [1 .. n -> [Seq(S) -> Seq(S)]] /\ <<>> \in Seq(S)
    <3> HIDE DEF Op
    <3> QED
      BY <1>2
  <2> HIDE DEF step
  <2>2. PICK g \in [SUBSET (1 .. n) -> Seq(S)] : GoesBy(g, n, <<>>, step)
    <3> HIDE DEF f, h, Follows
    <3> QED
      BY <2>1, FoldIsDefined
  <2> HIDE DEF Op
  <2>3. ASSUME NEW s \in SUBSET (1 .. n)
        PROVE  g[s] = IF s = {} THEN <<>> ELSE Op(g[s \ {Max(s)}], order[Max(s)])
    <3>1. CASE s = {}
      BY <2>2, <3>1 DEF GoesBy
    <3>2. CASE s # {}
      <4>1. Max(s) \in s /\ g[s] = step[Max(s)][g[s \ {Max(s)}]]
        BY <2>2, <3>2 DEF GoesBy
      <4>2. g[s \ {Max(s)}] \in Seq(S) /\ Max(s) \in 1 .. n /\ order[Max(s)] = Max(s)
        BY <4>1
      <4> HIDE DEF order
      <4> QED
        BY <3>2, <4>1, <4>2 DEF step
    <3> QED
      BY <3>1, <3>2
  <2>4. g = [s \in SUBSET (1 .. n) |-> g[s]]
    OBVIOUS
  <2>5. Follows(g)
    <3> HIDE DEF order
    <3> QED
      BY <2>3, <2>4
  <2> QED
    BY <2>5
<1>4. Follows(f)
  <2> HIDE DEF Follows
  <2> QED
    BY <1>3
<1> HIDE DEF f
<1>5. h[0] = <<>> /\ \A i \in 1 .. n : h[i] = Op(h[i - 1], i)
  <2>1. f[{}] = <<>>
    BY <1>4
  <2> HIDE DEF Op
  <2>2. ASSUME NEW i \in 1 .. n
        PROVE  f[1 .. i] = Op(f[1 .. i - 1], i)
    <3>1. /\ 1 .. i \in SUBSET (1 .. n) /\ 1 .. i # {}
          /\ Max(1 .. i) = i /\ (1 .. i) \ {i} = 1 .. i - 1 /\ order[i] = i
      BY UpTo
    <3>2. f[1 .. i] = Op(f[(1 .. i) \ {Max(1 .. i)}], order[Max(1 .. i)])
      BY <1>4, <3>1
    <3> QED
      BY <3>1, <3>2
  <2>3. /\ h[0] = f[1 .. 0] /\ 1 .. 0 = {}
        /\ \A i \in 1 .. n : h[i] = f[1 .. i] /\ h[i - 1] = f[1 .. i - 1]
    OBVIOUS
  <2> HIDE DEF h
  <2>4. h[0] = <<>>
    BY <2>1, <2>3
  <2>5. \A i \in 1 .. n : h[i] = Op(h[i - 1], i)
    BY <2>2, <2>3
  <2> QED
    BY <2>4, <2>5 DEF Op
<1>6. h \in [0 .. n -> Seq(S)]
  <2> DEFINE Done == {i \in 0 .. n : h[i] \in Seq(S)}
  <2> HIDE DEF h, Op
  <2>1. 0 \in Done
    <3>1. <<>> \in Seq(S) /\ 0 \in 0 .. n
      OBVIOUS
    <3> QED
      BY <1>5, <3>1
  <2>5. ASSUME NEW i \in 1 .. n, h[i - 1] \in Seq(S) PROVE h[i] \in Seq(S)
    BY <1>2, <1>5, <2>5
  <2>6. \A i \in 1 .. n : i - 1 \in Done => i \in Done
    BY <2>5
  <2> HIDE DEF Done
  <2>2. 0 .. n \subseteq Done
    BY <2>1, <2>6, BoundedInduction
  <2>3. h = [i \in 0 .. n |-> h[i]]
    BY DEF h
  <2>4. \A i \in 0 .. n : h[i] \in Seq(S)
    BY <2>2 DEF Done
  <2> QED
    BY <2>3, <2>4
<1>7. h[n] = f[1 .. n]
  OBVIOUS
<1> HIDE DEF h
<1>8. Retains(h, n, set, positions)
  BY <1>1, <1>5, <1>7 DEF Retains
<1> QED
  BY <1>6, <1>8

\* Retaining labels leaves labels of the set, and no name twice.
LEMMA PickIsLabelSet ==
  ASSUME NEW Tokens, NEW set \in LabelSets(Tokens), NEW positions
  PROVE  Pick(set, positions) \in LabelSets(Tokens)
<1> DEFINE n == Len(set)
<1>1. n \in Nat /\ set \in [1 .. n -> Labels(Tokens)] /\ set \in Seq(Labels(Tokens))
  BY DEF LabelSets
<1> HIDE DEF n
<1>2. PICK h \in [0 .. n -> Seq(Labels(Tokens))] : Retains(h, n, set, positions)
  BY <1>1, PickSteps
<1>3. \A i, j \in 1 .. n : set[i].name = set[j].name => i = j
  BY <1>1 DEF LabelSets, NamesUnique
<1> DEFINE SoFar(i) == /\ NamesUnique(h[i])
                      /\ \A k \in 1 .. Len(h[i]) : \E j \in 1 .. i : h[i][k] = set[j]
           Done == {i \in 0 .. n : SoFar(i)}
<1>4. 0 \in Done
  <2>1. 0 \in 0 .. n /\ Len(h[0]) = 0 /\ DOMAIN h[0] = {}
    BY <1>1, <1>2 DEF Retains
  <2> QED
    BY <2>1 DEF NamesUnique
<1>5. ASSUME NEW i \in 1 .. n, SoFar(i - 1)
      PROVE  SoFar(i)
  <2>1. /\ i - 1 \in 0 .. n /\ h[i - 1] \in Seq(Labels(Tokens)) /\ set[i] \in Labels(Tokens)
        /\ h[i] = IF i \in positions THEN Append(h[i - 1], set[i]) ELSE h[i - 1]
    <3>1. i - 1 \in 0 .. n
      BY <1>1
    <3> QED
      BY <1>1, <1>2, <3>1 DEF Retains
  <2>2. CASE i \notin positions
    BY <1>5, <2>1, <2>2
  <2>3. CASE i \in positions
    <3> DEFINE s == h[i - 1]
    <3>1. h[i] = Append(s, set[i])
      BY <2>1, <2>3
    <3>2. /\ s \in Seq(Labels(Tokens)) /\ NamesUnique(s)
          /\ \A k \in 1 .. Len(s) : \E j \in 1 .. i - 1 : s[k] = set[j]
      BY <1>5, <2>1
    <3> HIDE DEF s
    <3>3. /\ Len(h[i]) = Len(s) + 1 /\ h[i][Len(s) + 1] = set[i] /\ Len(s) \in Nat
          /\ \A k \in 1 .. Len(s) : h[i][k] = s[k]
          /\ h[i] \in Seq(Labels(Tokens))
      <4>1. s \in Seq(Labels(Tokens)) /\ set[i] \in Labels(Tokens) /\ Len(s) \in Nat
        BY <2>1, <3>2
      <4> QED
        BY <3>1, <4>1, Appended
    <3>4. \A k \in 1 .. Len(s) : s[k].name # set[i].name
      <4>1. ASSUME NEW k \in 1 .. Len(s) PROVE s[k].name # set[i].name
        <5>1. PICK j \in 1 .. i - 1 : s[k] = set[j]
          BY <3>2
        <5>2. j \in 1 .. n /\ j # i
          BY <1>1
        <5> QED
          BY <1>3, <5>1, <5>2
      <4> QED
        BY <4>1
    <3>5. \A k \in 1 .. Len(h[i]) : k \in 1 .. Len(s) \/ k = Len(s) + 1
      BY <3>3
    <3>6. \A k \in 1 .. Len(h[i]) : \E j \in 1 .. i : h[i][k] = set[j]
      BY <3>2, <3>3, <3>5
    <3>7. DOMAIN h[i] = 1 .. Len(h[i]) /\ DOMAIN s = 1 .. Len(s)
      BY <3>2, <3>3
    <3>8. NamesUnique(h[i])
      BY <3>2, <3>3, <3>4, <3>5, <3>7 DEF NamesUnique
    <3> QED
      BY <3>6, <3>8
  <2> QED
    BY <2>2, <2>3
<1> HIDE DEF SoFar
<1>6. \A i \in 1 .. n : i - 1 \in Done => i \in Done
  BY <1>5
<1> HIDE DEF Done
<1>7. 0 .. n \subseteq Done
  BY <1>1, <1>4, <1>6, BoundedInduction
<1>8. SoFar(n) /\ h[n] \in Seq(Labels(Tokens))
  <2>1. n \in 0 .. n
    BY <1>1
  <2> QED
    BY <1>2, <1>7, <2>1 DEF Done
<1> QED
  BY <1>2, <1>8 DEF SoFar, LabelSets, Retains

\* Setting a label, new or not.
LEMMA SetIsLabelSet ==
  ASSUME NEW Tokens, NEW set \in LabelSets(Tokens), NEW name \in Seq(Tokens),
         NEW value \in Seq(Tokens)
  PROVE  Set(set, name, value) \in LabelSets(Tokens)
<1>1. NamesUnique(Set(set, name, value))
  BY SetKeepsNamesUnique DEF LabelSets, Labels
<1>2. Label(name, value) \in Labels(Tokens) /\ set \in Seq(Labels(Tokens))
  BY DEF Label, Labels, LabelSets
<1>3. CASE Position(set, name) = 0
  <2>1. Append(set, Label(name, value)) \in Seq(Labels(Tokens))
    BY <1>2, Appended
  <2> QED
    BY <1>1, <1>3, <2>1 DEF Set, LabelSets
<1>4. CASE Position(set, name) # 0
  <2>1. ASSUME NEW p
        PROVE  [set EXCEPT ![p].value = value] \in Seq(Labels(Tokens))
    <3>1. \A label \in Labels(Tokens) : [label EXCEPT !.value = value] \in Labels(Tokens)
      BY DEF Labels
    <3> DEFINE n == Len(set)
               u == [set EXCEPT ![p].value = value]
    <3>2. n \in Nat /\ set \in [1 .. n -> Labels(Tokens)]
      BY <1>2
    <3> HIDE DEF n
    <3>3. u \in [1 .. n -> Labels(Tokens)]
      <4>1. CASE p \in 1 .. n
        <5>1. [set[p] EXCEPT !.value = value] \in Labels(Tokens)
          BY <3>1, <3>2, <4>1
        <5> HIDE DEF Labels
        <5> QED
          BY <3>2, <5>1
      <4>2. CASE p \notin 1 .. n
        BY <3>2, <4>2
      <4> QED
        BY <4>1, <4>2
    <3> HIDE DEF u
    <3>4. u \in Seq(Labels(Tokens))
      BY <3>2, <3>3
    <3> QED
      BY <3>4 DEF u
  <2> QED
    BY <1>1, <1>4, <2>1 DEF Set, LabelSets
<1> QED
  BY <1>3, <1>4

-----------------------------------------------------------------------------
\* What a star matches is a part of the text.
LEMMA MiddleIsTyped ==
  ASSUME NEW Tokens, NEW re \in Patterns(Tokens), NEW text \in Seq(Tokens)
  PROVE  Middle(re, text) \in Seq(Tokens)
<1> DEFINE m == Len(re.prefix) + 1
           n == Len(text) - Len(re.suffix)
<1>1. m \in Nat /\ m >= 1 /\ n \in Int /\ n <= Len(text)
  BY DEF Patterns
<1>2. Middle(re, text) = SubSeq(text, m, n)
  BY DEF Middle
<1> HIDE DEF m, n
<1>3. SubSeq(text, m, n) \in Seq(Tokens)
  BY <1>1
<1> QED
  BY <1>2, <1>3

\* caps.expand writes the tokens of the template and of the text.
LEMMA ExpandIsTyped ==
  ASSUME NEW Tokens, NEW template \in Templates(Tokens), NEW re \in Patterns(Tokens),
         NEW text \in Seq(Tokens)
  PROVE  Expand(template, re, text) \in Seq(Tokens)
<1> DEFINE n == Len(template)
           Piece(i) == CASE template[i] = Capture ->
                              IF re.star = "group" THEN Middle(re, text) ELSE <<>>
                         [] template[i] = NoCapture -> <<>>
                         [] OTHER -> <<template[i]>>
           pieces == [i \in 1 .. n |-> Piece(i)]
<1>1. n \in Nat /\ DOMAIN template = 1 .. n
  BY DEF Templates
<1>2. ASSUME NEW i \in 1 .. n
      PROVE  Piece(i) \in Seq(Tokens)
  <2>1. template[i] \in Tokens \/ template[i] = Capture \/ template[i] = NoCapture
    BY DEF Templates
  <2>2. CASE template[i] = Capture
    BY <2>2, MiddleIsTyped, RelabelAssumption DEF RelabelAssumption
  <2>3. CASE template[i] = NoCapture
    BY <2>3, RelabelAssumption DEF RelabelAssumption
  <2>4. CASE template[i] \in Tokens /\ template[i] # Capture /\ template[i] # NoCapture
    BY <2>4
  <2> QED
    BY <2>1, <2>2, <2>3, <2>4
<1>3. Expand(template, re, text) = FlattenSeq(pieces)
  BY <1>1 DEF Expand
<1> HIDE DEF n, Piece
<1>4. pieces \in [1 .. n -> Seq(Tokens)]
  BY <1>2
<1> HIDE DEF pieces
<1> QED
  BY <1>1, <1>3, <1>4, FlattenIsTyped

\* The end of every path of apply_replace.
LEMMA WriteIsLabelSet ==
  ASSUME NEW Tokens, NEW set \in LabelSets(Tokens), NEW name \in Seq(Tokens),
         NEW value \in Seq(Tokens)
  PROVE  Write(set, name, value) \in LabelSets(Tokens)
  BY SetIsLabelSet, PickIsLabelSet DEF Write, Discard, Retain

\* labelmap sets one label after the other, each to a value that was there.
LEMMA LabelMapIsLabelSet ==
  ASSUME NEW Tokens, NEW set \in LabelSets(Tokens), NEW rule \in RelabelRules(Tokens)
  PROVE  LabelMap(set, rule) \in LabelSets(Tokens)
<1> DEFINE matching == Retain(set, LAMBDA label : EngineMatches(rule.regex, label.name))
           n == Len(matching)
           LS == LabelSets(Tokens)
           Update(acc, label) ==
             Set(acc, Expand(rule.replacement, rule.regex, label.name), label.value)
           Follows(f) == f = [s \in SUBSET (1 .. n) |->
                                IF s = {} THEN set
                                ELSE Update(f[s \ {Max(s)}], matching[Max(s)])]
           f == CHOOSE f : Follows(f)
<1>1. matching \in LS
  BY PickIsLabelSet DEF Retain
<1>2. n \in Nat /\ DOMAIN matching = 1 .. n /\ \A i \in 1 .. n : matching[i] \in Labels(Tokens)
  <2> HIDE DEF matching
  <2>1. matching \in Seq(Labels(Tokens))
    BY <1>1 DEF LabelSets
  <2> QED
    BY <2>1
<1>3. LabelMap(set, rule) = f[1 .. n]
  BY <1>2 DEF LabelMap, FoldLeft, MapThenFoldSet
<1> HIDE DEF matching, n
<1>4. ASSUME NEW acc \in LS, NEW i \in 1 .. n
      PROVE  Update(acc, matching[i]) \in LS
  <2>1. matching[i].name \in Seq(Tokens) /\ matching[i].value \in Seq(Tokens)
    BY <1>2 DEF Labels
  <2>2. rule.replacement \in Templates(Tokens) /\ rule.regex \in Patterns(Tokens)
    BY DEF RelabelRules
  <2>3. Expand(rule.replacement, rule.regex, matching[i].name) \in Seq(Tokens)
    BY <2>1, <2>2, ExpandIsTyped
  <2> QED
    BY <2>1, <2>3, SetIsLabelSet
<1> HIDE DEF Update, LS
<1>5. PICK g \in [SUBSET (1 .. n) -> LS] : Follows(g)
  <2> DEFINE step == [i \in 1 .. n |-> [acc \in LS |-> Update(acc, matching[i])]]
  <2>1. step \in [1 .. n -> [LS -> LS]] /\ set \in LS
    BY <1>4 DEF LS
  <2> HIDE DEF step
  <2>2. PICK g \in [SUBSET (1 .. n) -> LS] : GoesBy(g, n, set, step)
    <3> HIDE DEF f, Follows
    <3> QED
      BY <1>2, <2>1, FoldIsDefined
  <2>3. ASSUME NEW s \in SUBSET (1 .. n)
        PROVE  g[s] = IF s = {} THEN set ELSE Update(g[s \ {Max(s)}], matching[Max(s)])
    <3>1. CASE s = {}
      BY <2>2, <3>1 DEF GoesBy
    <3>2. CASE s # {}
      <4>1. Max(s) \in s /\ g[s] = step[Max(s)][g[s \ {Max(s)}]]
        BY <2>2, <3>2 DEF GoesBy
      <4>2. g[s \ {Max(s)}] \in LS /\ Max(s) \in 1 .. n
        BY <4>1
      <4> QED
        BY <3>2, <4>1, <4>2 DEF step
    <3> QED
      BY <3>1, <3>2
  <2>4. g = [s \in SUBSET (1 .. n) |-> g[s]]
    OBVIOUS
  <2>5. Follows(g)
    BY <2>3, <2>4
  <2> HIDE DEF Follows
  <2> QED
    BY <2>5
<1>6. Follows(f)
  <2> HIDE DEF Follows
  <2> QED
    BY <1>5
<1> HIDE DEF f
<1>7. f[{}] = set
  BY <1>6
<1>8. ASSUME NEW i \in 1 .. n
      PROVE  f[1 .. i] = Update(f[1 .. i - 1], matching[i])
  <2>1. /\ 1 .. i \in SUBSET (1 .. n) /\ 1 .. i # {}
        /\ Max(1 .. i) = i /\ (1 .. i) \ {i} = 1 .. i - 1
    BY <1>2, UpTo
  <2>2. f[1 .. i] = Update(f[(1 .. i) \ {Max(1 .. i)}], matching[Max(1 .. i)])
    BY <1>6, <2>1
  <2> QED
    BY <2>1, <2>2
<1> HIDE DEF Follows
<1> DEFINE Done == {i \in 0 .. n : f[1 .. i] \in LS}
<1>9. 0 \in Done
  <2>1. 1 .. 0 = {} /\ 0 \in 0 .. n /\ set \in LS
    BY <1>2 DEF LS
  <2> QED
    BY <1>7, <2>1
<1>10. \A i \in 1 .. n : i - 1 \in Done => i \in Done
  BY <1>2, <1>4, <1>8
<1> HIDE DEF Done
<1>11. n \in Nat
  BY <1>2
<1>12. 0 .. n \subseteq Done
  BY <1>9, <1>10, <1>11, BoundedInduction
<1>13. f[1 .. n] \in LS
  BY <1>11, <1>12 DEF Done
<1> QED
  BY <1>3, <1>13 DEF LS

-----------------------------------------------------------------------------
\* What a text's tokens and numbers are taken to: numerals and the letters of the
\* other case are texts again, a digest is a number.
TextsAreClosed(Tokens) ==
  /\ \A n \in Nat : Numeral(n) \in Seq(Tokens)
  /\ \A text \in Seq(Tokens) : Digest(text) \in Nat
  /\ \A token \in Tokens : Lowercase(token) \in Tokens /\ Uppercase(token) \in Tokens

\* The rules that pass validation; only replace reads its target as a template.
ValidRules(Tokens) ==
  {rule \in RelabelRules(Tokens) :
     Valid(rule) /\ (rule.action # "replace" => rule.target_label \in Seq(Tokens))}

\* A replace that finds its pattern writes one label, whichever path it takes.
LEMMA ReplaceIsLabelSet ==
  ASSUME NEW Tokens, NEW set \in LabelSets(Tokens), NEW rule \in RelabelRules(Tokens),
         rule.action = "replace"
  PROVE  Replace(set, rule) \in LabelSets(Tokens)
<1> DEFINE joined == Join(set, rule)
<1>1. set \in Seq(Labels(Tokens))
  BY DEF LabelSets
<1>2. joined \in Seq(Tokens)
  BY <1>1, JoinIsTyped DEF RelabelRules
<1>3. Replace(set, rule) = ReplaceGeneral(set, rule)
  BY <1>1, FastPathsAreExact DEF FastPathsAgree
<1> HIDE DEF joined
<1>4. /\ rule.regex \in Patterns(Tokens) /\ rule.target_label \in Templates(Tokens)
      /\ rule.replacement \in Templates(Tokens)
  BY DEF RelabelRules
<1>5. /\ Expand(rule.target_label, rule.regex, joined) \in Seq(Tokens)
      /\ Expand(rule.replacement, rule.regex, joined) \in Seq(Tokens)
  BY <1>2, <1>4, ExpandIsTyped
<1>6. Write(set, Expand(rule.target_label, rule.regex, joined),
            Expand(rule.replacement, rule.regex, joined)) \in LabelSets(Tokens)
  BY <1>5, WriteIsLabelSet
<1> QED
  BY <1>3, <1>6 DEF ReplaceGeneral, joined

\* A rule makes of a label set a label set, whatever its action.
LEMMA RewriteIsLabelSet ==
  ASSUME NEW Tokens, NEW set \in LabelSets(Tokens), NEW rule \in ValidRules(Tokens),
         TextsAreClosed(Tokens)
  PROVE  Rewrite(set, rule) \in LabelSets(Tokens)
<1> DEFINE joined == Join(set, rule)
<1>1. rule \in RelabelRules(Tokens) /\ Valid(rule)
  BY DEF ValidRules
<1>2. joined \in Seq(Tokens)
  BY <1>1, JoinIsTyped DEF RelabelRules, LabelSets
<1>3. rule.action # "replace" => rule.target_label \in Seq(Tokens)
  BY DEF ValidRules
<1> HIDE DEF joined
<1>4. CASE rule.action = "replace"
  BY <1>1, <1>4, ReplaceIsLabelSet DEF Rewrite
<1>5. CASE rule.action = "hashmod"
  <2>1. rule.modulus \in Nat /\ rule.modulus > 0
    BY <1>1, <1>5 DEF RelabelRules, Valid
  <2>2. HashMod(joined, rule.modulus) \in Nat
    <3>1. Digest(joined) \in Nat
      BY <1>2 DEF TextsAreClosed
    <3> QED
      BY <2>1, <3>1 DEF HashMod
  <2>3. Numeral(HashMod(joined, rule.modulus)) \in Seq(Tokens)
    BY <2>2 DEF TextsAreClosed
  <2>4. Set(set, rule.target_label, Numeral(HashMod(joined, rule.modulus))) \in LabelSets(Tokens)
    BY <1>3, <1>5, <2>3, SetIsLabelSet
  <2> QED
    BY <1>5, <2>4 DEF Rewrite, joined
<1>6. CASE rule.action = "labelmap"
  BY <1>1, <1>6, LabelMapIsLabelSet DEF Rewrite
<1>7. CASE rule.action \in {"labeldrop", "labelkeep"}
  BY <1>7, PickIsLabelSet DEF Rewrite, Retain
<1>8. CASE rule.action = "lowercase"
  <2>1. MapTokens(joined, Lowercase) \in Seq(Tokens)
    <3>1. \A i \in 1 .. Len(joined) : Lowercase(joined[i]) \in Tokens
      <4>1. \A token \in Tokens : Lowercase(token) \in Tokens
        BY DEF TextsAreClosed
      <4>2. \A i \in 1 .. Len(joined) : joined[i] \in Tokens
        BY <1>2
      <4> QED
        BY <4>1, <4>2
    <3>2. MapTokens(joined, Lowercase) = [i \in 1 .. Len(joined) |-> Lowercase(joined[i])]
      BY <1>2 DEF MapTokens
    <3>3. Len(joined) \in Nat
      BY <1>2
    <3> QED
      BY <3>1, <3>2, <3>3
  <2>2. Set(set, rule.target_label, MapTokens(joined, Lowercase)) \in LabelSets(Tokens)
    BY <1>3, <1>8, <2>1, SetIsLabelSet
  <2> QED
    BY <1>8, <2>2 DEF Rewrite, joined
<1>9. CASE rule.action = "uppercase"
  <2>1. MapTokens(joined, Uppercase) \in Seq(Tokens)
    <3>1. \A i \in 1 .. Len(joined) : Uppercase(joined[i]) \in Tokens
      <4>1. \A token \in Tokens : Uppercase(token) \in Tokens
        BY DEF TextsAreClosed
      <4>2. \A i \in 1 .. Len(joined) : joined[i] \in Tokens
        BY <1>2
      <4> QED
        BY <4>1, <4>2
    <3>2. MapTokens(joined, Uppercase) = [i \in 1 .. Len(joined) |-> Uppercase(joined[i])]
      BY <1>2 DEF MapTokens
    <3>3. Len(joined) \in Nat
      BY <1>2
    <3> QED
      BY <3>1, <3>2, <3>3
  <2>2. Set(set, rule.target_label, MapTokens(joined, Uppercase)) \in LabelSets(Tokens)
    BY <1>3, <1>9, <2>1, SetIsLabelSet
  <2> QED
    BY <1>9, <2>2 DEF Rewrite, joined
<1>10. CASE rule.action \notin {"replace", "hashmod", "labelmap", "labeldrop", "labelkeep",
                                "lowercase", "uppercase"}
  BY <1>10 DEF Rewrite
<1> QED
  BY <1>4, <1>5, <1>6, <1>7, <1>8, <1>9, <1>10

\* What is left of a series after a rule: a dropped one stays dropped.
After(set, rule) == IF set = Dropped THEN Dropped ELSE Apply(set, rule)
Left(Tokens) == LabelSets(Tokens) \cup {Dropped}

\* A rule leaves a label set or drops it.
LEMMA AfterIsLeft ==
  ASSUME NEW Tokens, NEW set \in Left(Tokens), NEW rule \in ValidRules(Tokens),
         TextsAreClosed(Tokens)
  PROVE  After(set, rule) \in Left(Tokens)
  BY RewriteIsLabelSet DEF After, Left, Apply

\* Processing goes through the rules one by one.
Processes(h, labels, rules) ==
  /\ h[0] = labels
  /\ \A i \in 1 .. Len(rules) : h[i] = After(h[i - 1], rules[i])
  /\ Process(labels, rules) = Finish(h[Len(rules)])

\* Every intermediate result of processing is a label set or dropped.
LEMMA ProcessSteps ==
  ASSUME NEW Tokens, NEW labels \in LabelSets(Tokens), NEW rules \in Seq(ValidRules(Tokens)),
         TextsAreClosed(Tokens)
  PROVE  \E h \in [0 .. Len(rules) -> Left(Tokens)] : Processes(h, labels, rules)
<1> DEFINE n == Len(rules)
           LS == Left(Tokens)
           Follows(f) == f = [s \in SUBSET (1 .. n) |->
                                IF s = {} THEN labels
                                ELSE After(f[s \ {Max(s)}], rules[Max(s)])]
           f == CHOOSE f : Follows(f)
           h == [i \in 0 .. n |-> f[1 .. i]]
<1>1. n \in Nat /\ DOMAIN rules = 1 .. n /\ \A i \in 1 .. n : rules[i] \in ValidRules(Tokens)
  OBVIOUS
<1>2. Process(labels, rules) = Finish(f[1 .. n])
  BY <1>1 DEF Process, FoldLeft, MapThenFoldSet, After
<1> HIDE DEF n
<1>3. labels \in LS
  BY DEF Left
<1>4. ASSUME NEW acc \in LS, NEW i \in 1 .. n
      PROVE  After(acc, rules[i]) \in LS
  BY <1>1, AfterIsLeft
<1> HIDE DEF LS
<1>5. PICK g \in [SUBSET (1 .. n) -> LS] : Follows(g)
  <2> DEFINE step == [i \in 1 .. n |-> [acc \in LS |-> After(acc, rules[i])]]
  <2>1. step \in [1 .. n -> [LS -> LS]]
    BY <1>4
  <2> HIDE DEF step
  <2>2. PICK g \in [SUBSET (1 .. n) -> LS] : GoesBy(g, n, labels, step)
    <3> HIDE DEF f, h, Follows
    <3> QED
      BY <1>1, <1>3, <2>1, FoldIsDefined
  <2>3. ASSUME NEW s \in SUBSET (1 .. n)
        PROVE  g[s] = IF s = {} THEN labels ELSE After(g[s \ {Max(s)}], rules[Max(s)])
    <3>1. CASE s = {}
      BY <2>2, <3>1 DEF GoesBy
    <3>2. CASE s # {}
      <4>1. Max(s) \in s /\ g[s] = step[Max(s)][g[s \ {Max(s)}]]
        BY <2>2, <3>2 DEF GoesBy
      <4>2. g[s \ {Max(s)}] \in LS /\ Max(s) \in 1 .. n
        BY <4>1
      <4> QED
        BY <3>2, <4>1, <4>2 DEF step
    <3> QED
      BY <3>1, <3>2
  <2>4. g = [s \in SUBSET (1 .. n) |-> g[s]]
    OBVIOUS
  <2>5. Follows(g)
    BY <2>3, <2>4
  <2> HIDE DEF Follows
  <2> QED
    BY <2>5
<1>6. Follows(f)
  <2> HIDE DEF Follows
  <2> QED
    BY <1>5
<1> HIDE DEF f
<1>7. h[0] = labels
  <2>1. 1 .. 0 = {} /\ 0 \in 0 .. n /\ f[{}] = labels
    BY <1>1, <1>6
  <2> QED
    BY <2>1
<1>8. ASSUME NEW i \in 1 .. n
      PROVE  h[i] = After(h[i - 1], rules[i])
  <2>1. /\ 1 .. i \in SUBSET (1 .. n) /\ 1 .. i # {}
        /\ Max(1 .. i) = i /\ (1 .. i) \ {i} = 1 .. i - 1
    BY <1>1, UpTo
  <2>2. f[1 .. i] = After(f[(1 .. i) \ {Max(1 .. i)}], rules[Max(1 .. i)])
    BY <1>6, <2>1
  <2>3. i \in 0 .. n /\ i - 1 \in 0 .. n
    BY <1>1
  <2> QED
    BY <2>1, <2>2, <2>3
<1> HIDE DEF Follows
<1>9. Process(labels, rules) = Finish(h[n])
  BY <1>1, <1>2
<1>10. \A i \in 0 .. n : h[i] \in LS
  <2> DEFINE Done == {i \in 0 .. n : h[i] \in LS}
  <2>1. 0 \in Done
    BY <1>1, <1>3, <1>7
  <2>2. \A i \in 1 .. n : i - 1 \in Done => i \in Done
    <3> HIDE DEF h
    <3> QED
      BY <1>1, <1>4, <1>8
  <2> HIDE DEF Done
  <2>3. 0 .. n \subseteq Done
    BY <1>1, <2>1, <2>2, BoundedInduction
  <2> QED
    BY <2>3 DEF Done
<1>11. h \in [0 .. n -> LS]
  BY <1>10
<1>12. Processes(h, labels, rules)
  <2> HIDE DEF h
  <2> QED
    BY <1>7, <1>8, <1>9 DEF Processes, n
<1> HIDE DEF h
<1> QED
  BY <1>11, <1>12 DEF n, LS

\* The rules of a job, in any number and any order, never give a series two labels
\* of one name: what relabelling returns is a label set, or the series is dropped.
THEOREM ProcessKeepsNamesUnique ==
  ASSUME NEW Tokens, NEW labels \in LabelSets(Tokens), NEW rules \in Seq(ValidRules(Tokens)),
         TextsAreClosed(Tokens)
  PROVE  Process(labels, rules) = Dropped \/ Process(labels, rules) \in LabelSets(Tokens)
<1>1. PICK h \in [0 .. Len(rules) -> Left(Tokens)] : Processes(h, labels, rules)
  BY ProcessSteps
<1>2. Len(rules) \in Nat /\ Len(rules) \in 0 .. Len(rules)
  OBVIOUS
<1>3. h[Len(rules)] \in Left(Tokens)
  BY <1>2
<1>4. Process(labels, rules) = Finish(h[Len(rules)])
  BY <1>1 DEF Processes
<1> QED
  BY <1>3, <1>4, PickIsLabelSet DEF Finish, Left, Retain

-----------------------------------------------------------------------------
\* The search of a name finds it where a label has it, and nothing otherwise.
LEMMA PositionFinds ==
  ASSUME NEW Tokens, NEW set \in Seq(Labels(Tokens)), NEW name
  PROVE  /\ name \notin LabelNames(set) => Position(set, name) = 0
         /\ name \in LabelNames(set) =>
              /\ Position(set, name) \in 1 .. Len(set) /\ Position(set, name) # 0
              /\ set[Position(set, name)].name = name
<1> DEFINE Found == {i \in 1 .. Len(set) : set[i].name = name}
<1>1. Position(set, name) = IF Found # {} THEN Min(Found) ELSE 0
  BY DEF Position, SelectInSeq
<1>2. name \in LabelNames(set) <=> Found # {}
  BY DEF LabelNames
<1>3. Found \in SUBSET Nat /\ \A i \in Found : i \in 1 .. Len(set) /\ i # 0 /\ set[i].name = name
  OBVIOUS
<1> HIDE DEF Found
<1>4. Found # {} => Min(Found) \in Found
  BY <1>3, MinIsMember
<1> QED
  BY <1>1, <1>2, <1>3, <1>4

\* What a label set says of a name is the value of the label that has it.
LEMMA GetOfLabel ==
  ASSUME NEW Tokens, NEW set \in LabelSets(Tokens), NEW i \in 1 .. Len(set)
  PROVE  set[i].name \in LabelNames(set) /\ Get(set, set[i].name) = set[i].value
<1>1. set \in Seq(Labels(Tokens)) /\ DOMAIN set = 1 .. Len(set) /\ NamesUnique(set)
  BY DEF LabelSets
<1>2. set[i].name \in LabelNames(set)
  BY <1>1 DEF LabelNames
<1> DEFINE p == Position(set, set[i].name)
<1>3. p \in 1 .. Len(set) /\ p # 0 /\ set[p].name = set[i].name
  BY <1>1, <1>2, PositionFinds
<1>4. p = i
  <2> HIDE DEF p
  <2> QED
    BY <1>1, <1>3 DEF NamesUnique
<1> QED
  BY <1>2, <1>3, <1>4 DEF Get

\* It says nothing of a name that no label has.
LEMMA GetOfNone ==
  ASSUME NEW Tokens, NEW set \in Seq(Labels(Tokens)), NEW name, name \notin LabelNames(set)
  PROVE  Get(set, name) = <<>>
  BY PositionFinds DEF Get

\* The labels of a set are the names it has with what it says of them.
LEMMA LabelsOfSet ==
  ASSUME NEW Tokens, NEW set \in LabelSets(Tokens), NEW label \in Labels(Tokens)
  PROVE  (\E i \in 1 .. Len(set) : set[i] = label)
           <=> label.name \in LabelNames(set) /\ Get(set, label.name) = label.value
<1>1. set \in Seq(Labels(Tokens)) /\ DOMAIN set = 1 .. Len(set)
  BY DEF LabelSets
<1>2. \A i \in 1 .. Len(set) : set[i].name \in LabelNames(set) /\ Get(set, set[i].name) = set[i].value
  BY GetOfLabel
<1>3. ASSUME label.name \in LabelNames(set), Get(set, label.name) = label.value
      PROVE  \E i \in 1 .. Len(set) : set[i] = label
  <2>1. PICK i \in 1 .. Len(set) : set[i].name = label.name
    BY <1>1, <1>3 DEF LabelNames
  <2>2. set[i].value = label.value /\ set[i] \in Labels(Tokens)
    BY <1>1, <1>2, <1>3, <2>1
  <2>3. set[i] = label
    BY <2>1, <2>2 DEF Labels
  <2> QED
    BY <2>3
<1> QED
  BY <1>2, <1>3

\* Setting a label changes what is said of its name and of no other.
LEMMA SetSays ==
  ASSUME NEW Tokens, NEW set \in LabelSets(Tokens), NEW name \in Seq(Tokens),
         NEW value \in Seq(Tokens)
  PROVE  /\ Set(set, name, value) \in LabelSets(Tokens)
         /\ LabelNames(Set(set, name, value)) = LabelNames(set) \cup {name}
         /\ Get(Set(set, name, value), name) = value
         /\ \A other : other # name => Get(Set(set, name, value), other) = Get(set, other)
<1> DEFINE u == Set(set, name, value)
           n == Len(set)
           p == Position(set, name)
<1>1. /\ set \in Seq(Labels(Tokens)) /\ DOMAIN set = 1 .. n /\ n \in Nat /\ NamesUnique(set)
      /\ u \in LabelSets(Tokens) /\ u \in Seq(Labels(Tokens)) /\ DOMAIN u = 1 .. Len(u)
  <2>1. u \in LabelSets(Tokens) /\ set \in Seq(Labels(Tokens)) /\ NamesUnique(set)
    BY SetIsLabelSet DEF LabelSets
  <2> HIDE DEF u
  <2>2. u \in Seq(Labels(Tokens))
    BY <2>1 DEF LabelSets
  <2> QED
    BY <2>1, <2>2
<1>2. \A label \in Labels(Tokens) :
        /\ [label EXCEPT !.value = value] \in Labels(Tokens)
        /\ [label EXCEPT !.value = value].name = label.name
        /\ [label EXCEPT !.value = value].value = value
  BY DEF Labels
<1>3. /\ \A i \in 1 .. n : u[i].name = set[i].name
      /\ \A i \in 1 .. n : set[i].name # name => u[i] = set[i]
      /\ 1 .. n \subseteq DOMAIN u
      /\ \E q \in DOMAIN u : u[q].name = name /\ u[q].value = value
      /\ \A i \in DOMAIN u : i \in 1 .. n \/ u[i].name = name
  <2>1. CASE name \notin LabelNames(set)
    <3>0. p = 0
      BY <1>1, <2>1, PositionFinds
    <3>1. u = Append(set, Label(name, value))
      BY <3>0 DEF Set
    <3>2. /\ Len(u) = n + 1 /\ u[n + 1] = Label(name, value)
          /\ \A i \in 1 .. n : u[i] = set[i]
      <4> HIDE DEF u
      <4>1. Label(name, value) \in Labels(Tokens)
        BY DEF Label, Labels
      <4> QED
        BY <1>1, <3>1, <4>1, Appended DEF n
    <3>3. Label(name, value).name = name /\ Label(name, value).value = value
      BY DEF Label
    <3> HIDE DEF u, n
    <3>4. DOMAIN u = 1 .. n + 1 /\ n + 1 \in 1 .. n + 1 /\ 1 .. n \subseteq 1 .. n + 1
      BY <1>1, <3>2
    <3>5. \A i \in DOMAIN u : i \in 1 .. n \/ i = n + 1
      BY <1>1, <3>4
    <3> QED
      BY <3>2, <3>3, <3>4, <3>5
  <2>2. CASE name \in LabelNames(set)
    <3>1. p \in 1 .. n /\ p # 0 /\ set[p].name = name
      BY <1>1, <2>2, PositionFinds
    <3>2. u = [set EXCEPT ![p] = [@ EXCEPT !.value = value]]
      BY <3>1 DEF Set
    <3>3. set[p] \in Labels(Tokens) /\ DOMAIN u = 1 .. n
      <4> HIDE DEF u, p
      <4> QED
        BY <1>1, <3>1, <3>2
    <3> HIDE DEF u, p, n
    <3>4. /\ u[p] = [set[p] EXCEPT !.value = value]
          /\ \A i \in 1 .. n : i # p => u[i] = set[i]
      BY <1>1, <3>1, <3>2
    <3>5. u[p].name = name /\ u[p].value = value
      BY <1>2, <3>1, <3>3, <3>4
    <3> QED
      BY <3>1, <3>3, <3>4, <3>5
  <2> QED
    BY <2>1, <2>2
<1> HIDE DEF u, n, p
<1>4. \A i \in DOMAIN u : u[i].name \in LabelNames(u) /\ Get(u, u[i].name) = u[i].value
  BY <1>1, GetOfLabel
<1>5. \A i \in 1 .. n : set[i].name \in LabelNames(set) /\ Get(set, set[i].name) = set[i].value
  BY <1>1, GetOfLabel DEF n
<1>6. LabelNames(u) = LabelNames(set) \cup {name}
  BY <1>1, <1>3, SMTT(30) DEF LabelNames
<1>7. Get(u, name) = value
  BY <1>3, <1>4
<1>8. ASSUME NEW other, other # name
      PROVE  Get(u, other) = Get(set, other)
  <2>1. CASE other \in LabelNames(set)
    <3>1. PICK i \in 1 .. n : set[i].name = other
      BY <1>1, <2>1 DEF LabelNames
    <3>2. i \in DOMAIN u /\ u[i] = set[i]
      BY <1>3, <1>8, <3>1
    <3> QED
      BY <1>4, <1>5, <3>1, <3>2
  <2>2. CASE other \notin LabelNames(set)
    <3>1. other \notin LabelNames(u)
      BY <1>6, <1>8, <2>2
    <3> QED
      BY <1>1, <2>2, <3>1, GetOfNone
  <2> QED
    BY <2>1, <2>2
<1> QED
  BY <1>1, <1>6, <1>7, <1>8 DEF u

-----------------------------------------------------------------------------
\* What retaining leaves are the elements at the positions, and all of them.
LEMMA PickElements ==
  ASSUME NEW S, NEW set \in Seq(S), NEW positions
  PROVE  LET u == Pick(set, positions)
         IN /\ u \in Seq(S) /\ Len(u) <= Len(set)
            /\ \A k \in 1 .. Len(u) : \E i \in 1 .. Len(set) : i \in positions /\ u[k] = set[i]
            /\ \A i \in 1 .. Len(set) : i \in positions => \E k \in 1 .. Len(u) : u[k] = set[i]
            /\ 1 .. Len(set) \subseteq positions => u = set
<1> DEFINE n == Len(set)
<1>1. n \in Nat /\ set \in [1 .. n -> S]
  OBVIOUS
<1> HIDE DEF n
<1>2. PICK h \in [0 .. n -> Seq(S)] : Retains(h, n, set, positions)
  BY <1>1, PickSteps
<1> DEFINE SoFar(i) ==
             /\ Len(h[i]) <= i
             /\ \A k \in 1 .. Len(h[i]) : \E j \in 1 .. i : j \in positions /\ h[i][k] = set[j]
             /\ \A j \in 1 .. i : j \in positions => \E k \in 1 .. Len(h[i]) : h[i][k] = set[j]
             /\ 1 .. n \subseteq positions =>
                  Len(h[i]) = i /\ \A j \in 1 .. i : h[i][j] = set[j]
           Done == {i \in 0 .. n : SoFar(i)}
<1>3. 0 \in Done
  <2>1. 0 \in 0 .. n /\ Len(h[0]) = 0 /\ \A k \in 1 .. 0 : FALSE
    BY <1>1, <1>2 DEF Retains
  <2> QED
    BY <2>1
<1>4. ASSUME NEW i \in 1 .. n, SoFar(i - 1)
      PROVE  SoFar(i)
  <2> DEFINE s == h[i - 1]
  <2>1. /\ i - 1 \in 0 .. n /\ i \in Nat /\ i - 1 \in Nat /\ s \in Seq(S) /\ set[i] \in S
        /\ h[i] = IF i \in positions THEN Append(s, set[i]) ELSE s
        /\ Len(s) \in Nat
    <3>1. i - 1 \in 0 .. n /\ i \in Nat /\ i - 1 \in Nat
      BY <1>1
    <3>2. h[i - 1] \in Seq(S) /\ set[i] \in S
      BY <1>1, <1>2, <3>1
    <3>3. h[i] = IF i \in positions THEN Append(h[i - 1], set[i]) ELSE h[i - 1]
      BY <1>2 DEF Retains
    <3> QED
      BY <3>1, <3>2, <3>3
  <2>2. /\ Len(s) <= i - 1
        /\ \A k \in 1 .. Len(s) : \E j \in 1 .. i - 1 : j \in positions /\ s[k] = set[j]
        /\ \A j \in 1 .. i - 1 : j \in positions => \E k \in 1 .. Len(s) : s[k] = set[j]
        /\ 1 .. n \subseteq positions =>
             Len(s) = i - 1 /\ \A j \in 1 .. i - 1 : s[j] = set[j]
    BY <1>4
  <2> HIDE DEF s
  <2>3. \A j \in 1 .. i : j \in 1 .. i - 1 \/ j = i
    BY <2>1
  <2>4. 1 .. i - 1 \subseteq 1 .. i /\ i \in 1 .. i
    BY <2>1
  <2>5. CASE i \notin positions
    <3>1. h[i] = s /\ ~(1 .. n \subseteq positions)
      BY <2>1, <2>5
    <3> QED
      BY <2>1, <2>2, <2>3, <2>4, <2>5, <3>1
  <2>6. CASE i \in positions
    <3> DEFINE m == Len(s)
    <3>1. /\ Len(h[i]) = m + 1 /\ h[i][m + 1] = set[i]
          /\ \A k \in 1 .. m : h[i][k] = s[k]
      BY <2>1, <2>6, Appended
    <3>2. \A k \in 1 .. m + 1 : k \in 1 .. m \/ k = m + 1
      BY <2>1
    <3>3. 1 .. m \subseteq 1 .. m + 1 /\ m + 1 \in 1 .. m + 1 /\ m \in Nat
      BY <2>1
    <3>4. Len(h[i]) <= i
      BY <2>1, <2>2, <3>1, <3>3
    <3> HIDE DEF m
    <3>5. \A k \in 1 .. Len(h[i]) : \E j \in 1 .. i : j \in positions /\ h[i][k] = set[j]
      <4>1. ASSUME NEW k \in 1 .. m
            PROVE  \E j \in 1 .. i : j \in positions /\ h[i][k] = set[j]
        BY <2>2, <2>4, <3>1 DEF m
      <4> QED
        BY <2>4, <2>6, <3>1, <3>2, <4>1
    <3>6. \A j \in 1 .. i : j \in positions => \E k \in 1 .. Len(h[i]) : h[i][k] = set[j]
      BY <2>2, <2>3, <3>1, <3>3 DEF m
    <3>7. ASSUME 1 .. n \subseteq positions
          PROVE  Len(h[i]) = i /\ \A j \in 1 .. i : h[i][j] = set[j]
      <4>1. m = i - 1 /\ \A j \in 1 .. i - 1 : s[j] = set[j]
        BY <2>2, <3>7 DEF m
      <4>2. m + 1 = i
        BY <2>1, <4>1
      <4> QED
        BY <2>3, <3>1, <4>1, <4>2
    <3> QED
      BY <3>4, <3>5, <3>6, <3>7
  <2> QED
    BY <2>5, <2>6
<1> HIDE DEF SoFar
<1>5. \A i \in 1 .. n : i - 1 \in Done => i \in Done
  BY <1>4
<1> HIDE DEF Done
<1>6. 0 .. n \subseteq Done
  BY <1>1, <1>3, <1>5, BoundedInduction
<1>7. n \in 0 .. n /\ h[n] \in Seq(S) /\ h[n] = Pick(set, positions)
  BY <1>1, <1>2 DEF Retains
<1>8. SoFar(n)
  BY <1>6, <1>7 DEF Done
<1> DEFINE u == Pick(set, positions)
<1>9. /\ u \in Seq(S) /\ Len(u) <= n
      /\ \A k \in 1 .. Len(u) : \E i \in 1 .. n : i \in positions /\ u[k] = set[i]
      /\ \A i \in 1 .. n : i \in positions => \E k \in 1 .. Len(u) : u[k] = set[i]
      /\ 1 .. n \subseteq positions => Len(u) = n /\ \A j \in 1 .. n : u[j] = set[j]
  BY <1>7, <1>8 DEF SoFar
<1> HIDE DEF u
<1>10. 1 .. n \subseteq positions => u = set
  BY <1>9, SameElements DEF n
<1> QED
  BY <1>9, <1>10 DEF n, u

\* What relabelling leaves out are labels without a value, so that no name says
\* anything else than before.
LEMMA FinishSays ==
  ASSUME NEW Tokens, NEW set \in LabelSets(Tokens), set # Dropped
  PROVE  /\ Finish(set) \in LabelSets(Tokens)
         /\ LabelNames(Finish(set)) \subseteq LabelNames(set)
         /\ \A name \in LabelNames(set) :
              Get(set, name) # <<>> => name \in LabelNames(Finish(set))
         /\ \A name : Get(Finish(set), name) = Get(set, name)
<1> DEFINE positions == {i \in DOMAIN set : set[i].value # <<>>}
           u == Pick(set, positions)
<1>1. Finish(set) = u
  BY DEF Finish, Retain
<1>2. set \in Seq(Labels(Tokens)) /\ DOMAIN set = 1 .. Len(set)
  BY DEF LabelSets
<1>3. u \in LabelSets(Tokens)
  BY PickIsLabelSet
<1>4. /\ \A k \in 1 .. Len(u) : \E i \in 1 .. Len(set) : i \in positions /\ u[k] = set[i]
      /\ \A i \in 1 .. Len(set) : i \in positions => \E k \in 1 .. Len(u) : u[k] = set[i]
  <2> HIDE DEF positions
  <2> QED
    BY <1>2, PickElements
<1>5. \A i \in 1 .. Len(set) : i \in positions <=> set[i].value # <<>>
  BY <1>2
<1> HIDE DEF u, positions
<1>6. u \in Seq(Labels(Tokens)) /\ DOMAIN u = 1 .. Len(u)
  BY <1>3 DEF LabelSets
<1>7. \A k \in 1 .. Len(u) : u[k].name \in LabelNames(u) /\ Get(u, u[k].name) = u[k].value
  BY <1>3, GetOfLabel
<1>8. \A i \in 1 .. Len(set) : set[i].name \in LabelNames(set) /\ Get(set, set[i].name) = set[i].value
  BY GetOfLabel
<1>9. LabelNames(u) \subseteq LabelNames(set)
  BY <1>2, <1>4, <1>6 DEF LabelNames
<1>10. ASSUME NEW name \in LabelNames(set), Get(set, name) # <<>>
       PROVE  name \in LabelNames(u) /\ Get(u, name) = Get(set, name)
  <2>1. PICK i \in 1 .. Len(set) : set[i].name = name
    BY <1>2 DEF LabelNames
  <2>2. i \in positions
    BY <1>5, <1>8, <1>10, <2>1
  <2>3. PICK k \in 1 .. Len(u) : u[k] = set[i]
    BY <1>4, <2>2
  <2> QED
    BY <1>7, <1>8, <2>1, <2>3
<1>11. ASSUME NEW name
       PROVE  Get(u, name) = Get(set, name)
  <2>1. CASE name \in LabelNames(set) /\ Get(set, name) # <<>>
    BY <1>10, <2>1
  <2>2. CASE name \in LabelNames(u)
    <3>1. PICK k \in 1 .. Len(u) : u[k].name = name
      BY <1>6, <2>2 DEF LabelNames
    <3>2. PICK i \in 1 .. Len(set) : u[k] = set[i]
      BY <1>4
    <3> QED
      BY <1>7, <1>8, <3>1, <3>2
  <2>3. CASE name \notin LabelNames(u) /\ (name \notin LabelNames(set) \/ Get(set, name) = <<>>)
    BY <1>2, <1>6, <2>3, GetOfNone
  <2> QED
    BY <2>1, <2>2, <2>3
<1> QED
  BY <1>1, <1>3, <1>9, <1>10, <1>11

-----------------------------------------------------------------------------
\* Insertion moves what follows by one.
LEMMA InsertedAt ==
  ASSUME NEW S, NEW s \in Seq(S), NEW i \in 1 .. Len(s), NEW e \in S
  PROVE  LET u == InsertAt(s, i, e)
         IN /\ u \in Seq(S) /\ Len(u) = Len(s) + 1 /\ u[i] = e
            /\ \A j \in 1 .. i - 1 : u[j] = s[j]
            /\ \A j \in i .. Len(s) : u[j + 1] = s[j]
<1> DEFINE a == SubSeq(s, 1, i - 1)
           b == SubSeq(s, i, Len(s))
           one == <<e>>
           c == a \o one
           u == InsertAt(s, i, e)
           n == Len(s)
<1>1. n \in Nat /\ i \in 1 .. n /\ i - 1 \in Nat /\ n - i + 1 \in Nat
  OBVIOUS
<1>2. /\ a \in Seq(S) /\ Len(a) = i - 1 /\ \A j \in 1 .. i - 1 : a[j] = s[j]
      /\ b \in Seq(S) /\ Len(b) = n - i + 1 /\ \A j \in 1 .. n - i + 1 : b[j] = s[i + j - 1]
  OBVIOUS
<1>3. one \in Seq(S) /\ Len(one) = 1 /\ one[1] = e /\ 1 \in 1 .. 1
  OBVIOUS
<1>4. u = c \o b
  BY DEF InsertAt
<1> HIDE DEF a, b, u, n, one
<1>5. /\ c \in Seq(S) /\ Len(c) = i /\ c[i] = e
      /\ \A j \in 1 .. i - 1 : c[j] = s[j]
  <2>4. /\ c \in Seq(S) /\ Len(c) = Len(a) + Len(one)
        /\ \A j \in 1 .. Len(a) : c[j] = a[j]
        /\ \A j \in 1 .. Len(one) : c[Len(a) + j] = one[j]
    <3>1. a \in Seq(S) /\ one \in Seq(S)
      BY <1>2, <1>3
    <3> QED
      BY <3>1, Joined
  <2> HIDE DEF c
  <2>1. /\ c \in Seq(S) /\ Len(c) = (i - 1) + 1
        /\ \A j \in 1 .. i - 1 : c[j] = a[j]
        /\ c[(i - 1) + 1] = e
    BY <1>2, <1>3, <2>4
  <2>2. (i - 1) + 1 = i
    BY <1>1
  <2> QED
    BY <1>2, <2>1, <2>2
<1> HIDE DEF c
<1>6. /\ u \in Seq(S) /\ Len(u) = i + (n - i + 1)
      /\ \A j \in 1 .. i : u[j] = c[j]
      /\ \A j \in 1 .. n - i + 1 : u[i + j] = b[j]
  <2>1. /\ u \in Seq(S) /\ Len(u) = Len(c) + Len(b)
        /\ \A j \in 1 .. Len(c) : u[j] = c[j]
        /\ \A j \in 1 .. Len(b) : u[Len(c) + j] = b[j]
    <3>1. b \in Seq(S) /\ c \in Seq(S)
      BY <1>2, <1>5
    <3> QED
      BY <1>4, <3>1, Joined
  <2> QED
    BY <1>2, <1>5, <2>1
<1>7. u[i] = e /\ \A j \in 1 .. i - 1 : u[j] = s[j]
  <2>1. i \in 1 .. i /\ \A j \in 1 .. i - 1 : j \in 1 .. i
    BY <1>1
  <2> QED
    BY <1>5, <1>6, <2>1
<1>8. ASSUME NEW j \in i .. n
      PROVE  u[j + 1] = s[j]
  <2> DEFINE k == j - i + 1
  <2>1. k \in 1 .. n - i + 1 /\ i + k = j + 1 /\ i + k - 1 = j
    BY <1>1
  <2> HIDE DEF k
  <2> QED
    BY <1>2, <1>6, <2>1
<1> QED
  BY <1>1, <1>6, <1>7, <1>8 DEF u, n

\* A label is put somewhere between the labels that are there.
PutIn(u, s, label, p) ==
  /\ p \in 1 .. Len(s) + 1 /\ Len(u) = Len(s) + 1 /\ u[p] = label
  /\ \A j \in 1 .. p - 1 : u[j] = s[j]
  /\ \A j \in p .. Len(s) : u[j + 1] = s[j]

\* Insertion by name does this.
LEMMA InsertPuts ==
  ASSUME NEW S, NEW s \in Seq(S), NEW label \in S
  PROVE  /\ InsertLabel(s, label) \in Seq(S)
         /\ \E p \in 1 .. Len(s) + 1 : PutIn(InsertLabel(s, label), s, label, p)
<1> DEFINE Found == {i \in 1 .. Len(s) : Before(label.name, s[i].name)}
           next == IF Found # {} THEN Min(Found) ELSE 0
<1>1. InsertLabel(s, label) = IF next = 0 THEN Append(s, label) ELSE InsertAt(s, next, label)
  BY DEF InsertLabel, SelectInSeq
<1>2. next = 0 \/ next \in 1 .. Len(s)
  <2>1. Found \in SUBSET Nat /\ Found \subseteq 1 .. Len(s)
    OBVIOUS
  <2> HIDE DEF Found
  <2>2. Found # {} => Min(Found) \in Found
    BY <2>1, MinIsMember
  <2> QED
    BY <2>1, <2>2
<1> HIDE DEF next
<1>3. CASE next = 0
  <2> DEFINE u == Append(s, label)
             p == Len(s) + 1
  <2>1. /\ u \in Seq(S) /\ Len(u) = Len(s) + 1 /\ u[p] = label
        /\ \A j \in 1 .. Len(s) : u[j] = s[j]
    BY Appended
  <2>2. /\ p \in 1 .. Len(s) + 1 /\ \A j \in 1 .. p - 1 : j \in 1 .. Len(s)
        /\ \A j \in p .. Len(s) : FALSE
    OBVIOUS
  <2> HIDE DEF u, p
  <2>3. PutIn(u, s, label, p)
    BY <2>1, <2>2 DEF PutIn
  <2> QED
    BY <1>1, <1>3, <2>1, <2>2, <2>3 DEF u
<1>4. CASE next # 0
  <2> DEFINE u == InsertAt(s, next, label)
  <2>1. next \in 1 .. Len(s) /\ next \in 1 .. Len(s) + 1
    BY <1>2, <1>4
  <2>2. /\ u \in Seq(S) /\ Len(u) = Len(s) + 1 /\ u[next] = label
        /\ \A j \in 1 .. next - 1 : u[j] = s[j]
        /\ \A j \in next .. Len(s) : u[j + 1] = s[j]
    BY <2>1, InsertedAt
  <2> HIDE DEF u
  <2>3. PutIn(u, s, label, next)
    BY <2>1, <2>2 DEF PutIn
  <2> QED
    BY <1>1, <1>4, <2>1, <2>2, <2>3 DEF u
<1> QED
  BY <1>3, <1>4

\* Inserting a label of a new name adds what it says, and changes nothing else.
LEMMA InsertSays ==
  ASSUME NEW Tokens, NEW set \in LabelSets(Tokens), NEW label \in Labels(Tokens),
         label.name \notin LabelNames(set)
  PROVE  LET u == InsertLabel(set, label)
         IN /\ u \in LabelSets(Tokens)
            /\ LabelNames(u) = LabelNames(set) \cup {label.name}
            /\ Get(u, label.name) = label.value
            /\ \A other : other # label.name => Get(u, other) = Get(set, other)
<1> DEFINE u == InsertLabel(set, label)
           n == Len(set)
<1>1. set \in Seq(Labels(Tokens)) /\ DOMAIN set = 1 .. n /\ n \in Nat /\ NamesUnique(set)
  BY DEF LabelSets
<1> HIDE DEF n
<1>2. u \in Seq(Labels(Tokens))
  BY <1>1, InsertPuts
<1>3. PICK p \in 1 .. n + 1 : PutIn(u, set, label, p)
  BY <1>1, InsertPuts DEF n
<1> HIDE DEF u
<1>4. /\ DOMAIN u = 1 .. n + 1 /\ Len(u) = n + 1 /\ u[p] = label
      /\ \A j \in 1 .. p - 1 : u[j] = set[j]
      /\ \A j \in p .. n : u[j + 1] = set[j]
  BY <1>1, <1>2, <1>3 DEF PutIn, n
<1>5. \A k \in 1 .. n + 1 :
        \/ k = p
        \/ k \in 1 .. p - 1 /\ k \in 1 .. n
        \/ k > p /\ k - 1 \in p .. n /\ k - 1 \in 1 .. n /\ (k - 1) + 1 = k
  BY <1>1
<1>6. \A k \in 1 .. n + 1 :
        \/ k = p /\ u[k] = label
        \/ k < p /\ k \in 1 .. n /\ u[k] = set[k]
        \/ k > p /\ k - 1 \in 1 .. n /\ u[k] = set[k - 1]
  <2> TAKE k \in 1 .. n + 1
  <2>1. CASE k = p
    BY <1>4, <2>1
  <2>2. CASE k \in 1 .. p - 1 /\ k \in 1 .. n
    BY <1>4, <2>2
  <2>3. CASE k > p /\ k - 1 \in p .. n /\ k - 1 \in 1 .. n /\ (k - 1) + 1 = k
    BY <1>4, <2>3
  <2> QED
    BY <1>5, <2>1, <2>2, <2>3
<1>7. \A j \in 1 .. n : \E k \in 1 .. n + 1 : u[k] = set[j]
  <2> TAKE j \in 1 .. n
  <2>1. CASE j < p
    <3>1. j \in 1 .. p - 1 /\ j \in 1 .. n + 1
      BY <1>1, <2>1
    <3> QED
      BY <1>4, <3>1
  <2>2. CASE j >= p
    <3>1. j \in p .. n /\ j + 1 \in 1 .. n + 1
      BY <1>1, <2>2
    <3> QED
      BY <1>4, <3>1
  <2> QED
    BY <1>1, <2>1, <2>2
<1>8. \A i, j \in 1 .. n : set[i].name = set[j].name => i = j
  BY <1>1 DEF NamesUnique
<1>9. \A j \in 1 .. n : set[j].name # label.name
  BY <1>1 DEF LabelNames
<1>10. NamesUnique(u)
  <2> SUFFICES ASSUME NEW i \in 1 .. n + 1, NEW j \in 1 .. n + 1, u[i].name = u[j].name
               PROVE  i = j
    BY <1>4 DEF NamesUnique
  <2>1. CASE i = p
    BY <1>6, <1>9, <2>1
  <2>2. CASE j = p
    BY <1>6, <1>9, <2>2
  <2>3. CASE i < p /\ j < p
    BY <1>6, <1>8, <2>3
  <2>4. CASE i > p /\ j > p
    <3>1. i - 1 = j - 1
      BY <1>6, <1>8, <2>4
    <3> QED
      BY <3>1
  <2>5. CASE i < p /\ j > p
    <3>1. i = j - 1
      BY <1>6, <1>8, <2>5
    <3> QED
      BY <2>5, <3>1
  <2>6. CASE i > p /\ j < p
    <3>1. i - 1 = j
      BY <1>6, <1>8, <2>6
    <3> QED
      BY <2>6, <3>1
  <2> QED
    BY <2>1, <2>2, <2>3, <2>4, <2>5, <2>6
<1>11. u \in LabelSets(Tokens)
  BY <1>2, <1>10 DEF LabelSets
<1>12. LabelNames(u) = LabelNames(set) \cup {label.name}
  <2>1. \A k \in 1 .. n + 1 : u[k] = label \/ \E j \in 1 .. n : u[k] = set[j]
    BY <1>6
  <2>2. /\ LabelNames(u) = {u[k].name : k \in 1 .. n + 1}
        /\ LabelNames(set) = {set[j].name : j \in 1 .. n}
    BY <1>1, <1>4 DEF LabelNames
  <2>3. \A k \in 1 .. n + 1 : u[k].name \in LabelNames(set) \cup {label.name}
    BY <2>1, <2>2
  <2>4. label.name \in LabelNames(u) /\ \A j \in 1 .. n : set[j].name \in LabelNames(u)
    BY <1>4, <1>7, <2>2
  <2> QED
    BY <2>2, <2>3, <2>4
<1>13. \A k \in 1 .. n + 1 : Get(u, u[k].name) = u[k].value
  BY <1>4, <1>11, GetOfLabel
<1>14. \A j \in 1 .. n : Get(set, set[j].name) = set[j].value
  BY GetOfLabel DEF n
<1>15. Get(u, label.name) = label.value
  BY <1>4, <1>13
<1>16. ASSUME NEW other, other # label.name
       PROVE  Get(u, other) = Get(set, other)
  <2>1. CASE other \in LabelNames(set)
    <3>1. PICK j \in 1 .. n : set[j].name = other
      BY <1>1, <2>1 DEF LabelNames
    <3>2. PICK k \in 1 .. n + 1 : u[k] = set[j]
      BY <1>7
    <3> QED
      BY <1>13, <1>14, <3>1, <3>2
  <2>2. CASE other \notin LabelNames(set)
    <3>1. other \notin LabelNames(u)
      BY <1>12, <1>16, <2>2
    <3> QED
      BY <1>1, <1>2, <2>2, <3>1, GetOfNone
  <2> QED
    BY <2>1, <2>2
<1> QED
  BY <1>11, <1>12, <1>15, <1>16 DEF u

\* Sorting inserts the labels one by one.
LEMMA SortSteps ==
  ASSUME NEW S, NEW labels \in Seq(S)
  PROVE  \E h \in [0 .. Len(labels) -> Seq(S)] :
           /\ h[0] = <<>>
           /\ \A i \in 1 .. Len(labels) : h[i] = InsertLabel(h[i - 1], labels[i])
           /\ h[Len(labels)] = SortLabels(labels)
<1> DEFINE n == Len(labels)
           LS == Seq(S)
           Op(acc, x) == InsertLabel(acc, x)
           Follows(f) == f = [s \in SUBSET (1 .. n) |->
                                IF s = {} THEN <<>>
                                ELSE Op(f[s \ {Max(s)}], labels[Max(s)])]
           f == CHOOSE f : Follows(f)
           h == [i \in 0 .. n |-> f[1 .. i]]
<1>1. n \in Nat /\ DOMAIN labels = 1 .. n /\ \A i \in 1 .. n : labels[i] \in S
  OBVIOUS
<1>2. SortLabels(labels) = f[1 .. n]
  BY <1>1 DEF SortLabels, FoldLeft, MapThenFoldSet
<1> HIDE DEF n
<1>3. <<>> \in LS
  OBVIOUS
<1>4. ASSUME NEW acc \in LS, NEW i \in 1 .. n
      PROVE  Op(acc, labels[i]) \in LS
  BY <1>1, InsertPuts
<1> HIDE DEF LS, Op
<1>5. PICK g \in [SUBSET (1 .. n) -> LS] : Follows(g)
  <2> DEFINE step == [i \in 1 .. n |-> [acc \in LS |-> Op(acc, labels[i])]]
  <2>1. step \in [1 .. n -> [LS -> LS]]
    BY <1>4
  <2> HIDE DEF step
  <2>2. PICK g \in [SUBSET (1 .. n) -> LS] : GoesBy(g, n, <<>>, step)
    <3> HIDE DEF f, h, Follows
    <3> QED
      BY <1>1, <1>3, <2>1, FoldIsDefined
  <2>3. ASSUME NEW s \in SUBSET (1 .. n)
        PROVE  g[s] = IF s = {} THEN <<>> ELSE Op(g[s \ {Max(s)}], labels[Max(s)])
    <3>1. CASE s = {}
      BY <2>2, <3>1 DEF GoesBy
    <3>2. CASE s # {}
      <4>1. Max(s) \in s /\ g[s] = step[Max(s)][g[s \ {Max(s)}]]
        BY <2>2, <3>2 DEF GoesBy
      <4>2. g[s \ {Max(s)}] \in LS /\ Max(s) \in 1 .. n
        BY <4>1
      <4> QED
        BY <3>2, <4>1, <4>2 DEF step
    <3> QED
      BY <3>1, <3>2
  <2>4. g = [s \in SUBSET (1 .. n) |-> g[s]]
    OBVIOUS
  <2>5. Follows(g)
    BY <2>3, <2>4
  <2> HIDE DEF Follows
  <2> QED
    BY <2>5
<1>6. Follows(f)
  <2> HIDE DEF Follows
  <2> QED
    BY <1>5
<1> HIDE DEF f
<1>7. h[0] = <<>>
  <2>1. 1 .. 0 = {} /\ 0 \in 0 .. n /\ f[{}] = <<>>
    BY <1>1, <1>6
  <2> QED
    BY <2>1
<1>8. ASSUME NEW i \in 1 .. n
      PROVE  h[i] = Op(h[i - 1], labels[i])
  <2>1. /\ 1 .. i \in SUBSET (1 .. n) /\ 1 .. i # {}
        /\ Max(1 .. i) = i /\ (1 .. i) \ {i} = 1 .. i - 1
    BY <1>1, UpTo
  <2>2. f[1 .. i] = Op(f[(1 .. i) \ {Max(1 .. i)}], labels[Max(1 .. i)])
    BY <1>6, <2>1
  <2>3. i \in 0 .. n /\ i - 1 \in 0 .. n
    BY <1>1
  <2> QED
    BY <2>1, <2>2, <2>3
<1> HIDE DEF Follows
<1>9. h[n] = SortLabels(labels)
  BY <1>1, <1>2
<1>10. \A i \in 0 .. n : h[i] \in LS
  <2> DEFINE Done == {i \in 0 .. n : h[i] \in LS}
  <2>1. 0 \in Done
    BY <1>1, <1>3, <1>7
  <2>2. \A i \in 1 .. n : i - 1 \in Done => i \in Done
    <3> HIDE DEF h
    <3> QED
      BY <1>1, <1>4, <1>8
  <2> HIDE DEF Done
  <2>3. 0 .. n \subseteq Done
    BY <1>1, <2>1, <2>2, BoundedInduction
  <2> QED
    BY <2>3 DEF Done
<1>11. h \in [0 .. n -> LS]
  BY <1>10
<1> HIDE DEF h
<1> QED
  BY <1>7, <1>8, <1>9, <1>11 DEF n, LS, Op

\* Sorting leaves a label set what it says (sort_labels).
LEMMA SortSays ==
  ASSUME NEW Tokens, NEW set \in LabelSets(Tokens)
  PROVE  /\ SortLabels(set) \in LabelSets(Tokens)
         /\ LabelNames(SortLabels(set)) = LabelNames(set)
         /\ \A name : Get(SortLabels(set), name) = Get(set, name)
<1> DEFINE n == Len(set)
<1>1. set \in Seq(Labels(Tokens)) /\ DOMAIN set = 1 .. n /\ n \in Nat /\ NamesUnique(set)
  BY DEF LabelSets
<1>2. PICK h \in [0 .. n -> Seq(Labels(Tokens))] :
        /\ h[0] = <<>>
        /\ \A i \in 1 .. n : h[i] = InsertLabel(h[i - 1], set[i])
        /\ h[n] = SortLabels(set)
  BY <1>1, SortSteps
<1> HIDE DEF n
<1>3. \A i, j \in 1 .. n : set[i].name = set[j].name => i = j
  BY <1>1 DEF NamesUnique
<1> DEFINE SoFar(i) == /\ h[i] \in LabelSets(Tokens)
                       /\ LabelNames(h[i]) = {set[j].name : j \in 1 .. i}
                       /\ \A j \in 1 .. i : Get(h[i], set[j].name) = set[j].value
           Done == {i \in 0 .. n : SoFar(i)}
<1>4. 0 \in Done
  <2>1. 0 \in 0 .. n /\ DOMAIN h[0] = {} /\ 1 .. 0 = {} /\ h[0] \in Seq(Labels(Tokens))
    BY <1>1, <1>2
  <2>2. h[0] \in LabelSets(Tokens) /\ LabelNames(h[0]) = {}
    BY <2>1 DEF LabelSets, NamesUnique, LabelNames
  <2> QED
    BY <2>1, <2>2
<1>5. ASSUME NEW i \in 1 .. n, SoFar(i - 1)
      PROVE  SoFar(i)
  <2> DEFINE s == h[i - 1]
  <2>1. /\ i \in Nat /\ set[i] \in Labels(Tokens)
        /\ \A j \in 1 .. i : j \in 1 .. i - 1 \/ j = i
        /\ 1 .. i - 1 \subseteq 1 .. i /\ i \in 1 .. i
        /\ \A j \in 1 .. i - 1 : j \in 1 .. n /\ j # i
    BY <1>1
  <2>2. /\ s \in LabelSets(Tokens) /\ h[i] = InsertLabel(s, set[i])
        /\ LabelNames(s) = {set[j].name : j \in 1 .. i - 1}
        /\ \A j \in 1 .. i - 1 : Get(s, set[j].name) = set[j].value
    BY <1>2, <1>5
  <2> HIDE DEF s
  <2>3. \A j \in 1 .. i - 1 : set[j].name # set[i].name
    BY <1>3, <2>1
  <2>4. set[i].name \notin LabelNames(s)
    BY <2>2, <2>3
  <2>5. /\ h[i] \in LabelSets(Tokens)
        /\ LabelNames(h[i]) = LabelNames(s) \cup {set[i].name}
        /\ Get(h[i], set[i].name) = set[i].value
        /\ \A other : other # set[i].name => Get(h[i], other) = Get(s, other)
    BY <2>1, <2>2, <2>4, InsertSays
  <2>6. LabelNames(h[i]) = {set[j].name : j \in 1 .. i}
    BY <2>1, <2>2, <2>5
  <2>7. \A j \in 1 .. i : Get(h[i], set[j].name) = set[j].value
    BY <2>1, <2>2, <2>3, <2>5
  <2> QED
    BY <2>5, <2>6, <2>7
<1> HIDE DEF SoFar
<1>6. \A i \in 1 .. n : i - 1 \in Done => i \in Done
  BY <1>5
<1> HIDE DEF Done
<1>7. 0 .. n \subseteq Done
  BY <1>1, <1>4, <1>6, BoundedInduction
<1> DEFINE u == SortLabels(set)
<1>8. /\ u \in LabelSets(Tokens)
      /\ LabelNames(u) = {set[j].name : j \in 1 .. n}
      /\ \A j \in 1 .. n : Get(u, set[j].name) = set[j].value
  <2>1. n \in 0 .. n
    BY <1>1
  <2>2. SoFar(n)
    BY <1>7, <2>1 DEF Done
  <2> QED
    BY <1>2, <2>2 DEF SoFar
<1> HIDE DEF u
<1>9. \A j \in 1 .. n : Get(set, set[j].name) = set[j].value
  BY GetOfLabel DEF n
<1>10. LabelNames(u) = LabelNames(set) /\ u \in Seq(Labels(Tokens))
  BY <1>1, <1>8 DEF LabelNames, LabelSets
<1>11. ASSUME NEW name PROVE Get(u, name) = Get(set, name)
  <2>1. CASE name \in LabelNames(set)
    <3>1. PICK j \in 1 .. n : set[j].name = name
      BY <1>1, <2>1 DEF LabelNames
    <3> QED
      BY <1>8, <1>9, <3>1
  <2>2. CASE name \notin LabelNames(set)
    BY <1>1, <1>10, <2>2, GetOfNone
  <2> QED
    BY <2>1, <2>2
<1> QED
  BY <1>8, <1>10, <1>11 DEF u

-----------------------------------------------------------------------------
\* The name a label is moved to is another one for every name, is longer, and is not
\* that of the metric.
LEMMA ExportedDiffer ==
  ASSUME NEW Tokens, "exported_" \in Tokens, NEW m \in Seq(Tokens)
  PROVE  /\ Exported(m) \in Seq(Tokens) /\ Exported(m) # m /\ Exported(m) # MetricName
         /\ \A n \in Seq(Tokens) : Exported(m) = Exported(n) => m = n
<1> DEFINE prefix == <<"exported_">>
<1>1. prefix \in Seq(Tokens) /\ Len(prefix) = 1 /\ prefix[1] = "exported_" /\ 1 \in 1 .. 1
  OBVIOUS
<1> HIDE DEF prefix
<1>2. ASSUME NEW n \in Seq(Tokens)
      PROVE  /\ Exported(n) \in Seq(Tokens) /\ Len(Exported(n)) = 1 + Len(n)
             /\ Exported(n)[1] = "exported_"
             /\ \A i \in 1 .. Len(n) : Exported(n)[1 + i] = n[i]
  <2>1. Exported(n) = prefix \o n
    BY DEF Exported, prefix
  <2>2. /\ prefix \o n \in Seq(Tokens) /\ Len(prefix \o n) = Len(prefix) + Len(n)
        /\ \A i \in 1 .. Len(prefix) : (prefix \o n)[i] = prefix[i]
        /\ \A i \in 1 .. Len(n) : (prefix \o n)[Len(prefix) + i] = n[i]
    BY <1>1, Joined
  <2> QED
    BY <1>1, <2>1, <2>2
<1>3. Exported(m) # m
  <2>1. Len(m) \in Nat
    OBVIOUS
  <2> QED
    BY <1>2, <2>1
<1>4. Exported(m) # MetricName
  BY <1>2 DEF MetricName
<1>5. ASSUME NEW n \in Seq(Tokens), Exported(m) = Exported(n)
      PROVE  m = n
  <2>1. Len(m) = Len(n)
    BY <1>2, <1>5
  <2>2. \A i \in 1 .. Len(m) : m[i] = n[i]
    BY <1>2, <1>5, <2>1
  <2> QED
    BY <2>1, <2>2, SameElements
<1> QED
  BY <1>2, <1>3, <1>4, <1>5

\* A label of a new name is put behind the others as setting it does.
LEMMA AppendSets ==
  ASSUME NEW Tokens, NEW set \in LabelSets(Tokens), NEW label \in Labels(Tokens),
         label.name \notin LabelNames(set)
  PROVE  Append(set, label) = Set(set, label.name, label.value)
<1>1. set \in Seq(Labels(Tokens))
  BY DEF LabelSets
<1>2. Position(set, label.name) = 0
  BY <1>1, PositionFinds
<1>3. label = Label(label.name, label.value)
  BY DEF Label, Labels
<1> QED
  BY <1>2, <1>3 DEF Set

\* Adding a label where its name is absent changes nothing that was said
\* (add_if_absent).
LEMMA AbsentSays ==
  ASSUME NEW Tokens, NEW set \in LabelSets(Tokens), NEW name \in Seq(Tokens),
         NEW value \in Seq(Tokens)
  PROVE  LET u == AddIfAbsent(set, name, value)
         IN /\ u \in LabelSets(Tokens) /\ LabelNames(u) = LabelNames(set) \cup {name}
            /\ \A other : other \in LabelNames(set) \/ other # name =>
                 Get(u, other) = Get(set, other)
            /\ name \notin LabelNames(set) => Get(u, name) = value
<1>1. CASE name \in LabelNames(set)
  BY <1>1 DEF AddIfAbsent
<1>2. CASE name \notin LabelNames(set)
  <2> DEFINE label == Label(name, value)
  <2>1. label \in Labels(Tokens) /\ label.name = name /\ label.value = value
    BY DEF Label, Labels
  <2>2. AddIfAbsent(set, name, value) = Append(set, label)
    BY <1>2 DEF AddIfAbsent
  <2> HIDE DEF label
  <2>3. AddIfAbsent(set, name, value) = Set(set, name, value)
    BY <1>2, <2>1, <2>2, AppendSets
  <2> QED
    BY <1>2, <2>3, SetSays
<1> QED
  BY <1>1, <1>2

\* The same of one label after the other.
AddLabelTo(set, label) == AddIfAbsent(set, label.name, label.value)

\* Such a step leaves a label set.
LEMMA AddIsLabelSet ==
  ASSUME NEW Tokens, NEW set \in LabelSets(Tokens), NEW label \in Labels(Tokens)
  PROVE  AddLabelTo(set, label) \in LabelSets(Tokens)
<1>1. label.name \in Seq(Tokens) /\ label.value \in Seq(Tokens)
  BY DEF Labels
<1> QED
  BY <1>1, AbsentSays DEF AddLabelTo

\* Adding labels goes through them one by one.
LEMMA AddSteps ==
  ASSUME NEW Tokens, NEW labels \in LabelSets(Tokens), NEW more \in Seq(Labels(Tokens))
  PROVE  \E h \in [0 .. Len(more) -> LabelSets(Tokens)] :
           /\ h[0] = labels
           /\ \A i \in 1 .. Len(more) : h[i] = AddLabelTo(h[i - 1], more[i])
           /\ h[Len(more)] = AddAllIfAbsent(labels, more)
<1> DEFINE n == Len(more)
           LS == LabelSets(Tokens)
           Op(acc, x) == AddLabelTo(acc, x)
           Follows(f) == f = [s \in SUBSET (1 .. n) |->
                                IF s = {} THEN labels
                                ELSE Op(f[s \ {Max(s)}], more[Max(s)])]
           f == CHOOSE f : Follows(f)
           h == [i \in 0 .. n |-> f[1 .. i]]
<1>1. n \in Nat /\ DOMAIN more = 1 .. n /\ \A i \in 1 .. n : more[i] \in Labels(Tokens)
  OBVIOUS
<1>2. AddAllIfAbsent(labels, more) = f[1 .. n]
  BY <1>1 DEF AddAllIfAbsent, AddLabelTo, FoldLeft, MapThenFoldSet
<1> HIDE DEF n
<1>3. labels \in LS
  OBVIOUS
<1>4. ASSUME NEW acc \in LS, NEW i \in 1 .. n
      PROVE  Op(acc, more[i]) \in LS
  BY <1>1, AddIsLabelSet
<1> HIDE DEF LS, Op
<1>5. PICK g \in [SUBSET (1 .. n) -> LS] : Follows(g)
  <2> DEFINE step == [i \in 1 .. n |-> [acc \in LS |-> Op(acc, more[i])]]
  <2>1. step \in [1 .. n -> [LS -> LS]]
    BY <1>4
  <2> HIDE DEF step
  <2>2. PICK g \in [SUBSET (1 .. n) -> LS] : GoesBy(g, n, labels, step)
    <3> HIDE DEF f, h, Follows
    <3> QED
      BY <1>1, <1>3, <2>1, FoldIsDefined
  <2>3. ASSUME NEW s \in SUBSET (1 .. n)
        PROVE  g[s] = IF s = {} THEN labels ELSE Op(g[s \ {Max(s)}], more[Max(s)])
    <3>1. CASE s = {}
      BY <2>2, <3>1 DEF GoesBy
    <3>2. CASE s # {}
      <4>1. Max(s) \in s /\ g[s] = step[Max(s)][g[s \ {Max(s)}]]
        BY <2>2, <3>2 DEF GoesBy
      <4>2. g[s \ {Max(s)}] \in LS /\ Max(s) \in 1 .. n
        BY <4>1
      <4> QED
        BY <3>2, <4>1, <4>2 DEF step
    <3> QED
      BY <3>1, <3>2
  <2>4. g = [s \in SUBSET (1 .. n) |-> g[s]]
    OBVIOUS
  <2>5. Follows(g)
    BY <2>3, <2>4
  <2> HIDE DEF Follows
  <2> QED
    BY <2>5
<1>6. Follows(f)
  <2> HIDE DEF Follows
  <2> QED
    BY <1>5
<1> HIDE DEF f
<1>7. h[0] = labels
  <2>1. 1 .. 0 = {} /\ 0 \in 0 .. n /\ f[{}] = labels
    BY <1>1, <1>6
  <2> QED
    BY <2>1
<1>8. ASSUME NEW i \in 1 .. n
      PROVE  h[i] = Op(h[i - 1], more[i])
  <2>1. /\ 1 .. i \in SUBSET (1 .. n) /\ 1 .. i # {}
        /\ Max(1 .. i) = i /\ (1 .. i) \ {i} = 1 .. i - 1
    BY <1>1, UpTo
  <2>2. f[1 .. i] = Op(f[(1 .. i) \ {Max(1 .. i)}], more[Max(1 .. i)])
    BY <1>6, <2>1
  <2>3. i \in 0 .. n /\ i - 1 \in 0 .. n
    BY <1>1
  <2> QED
    BY <2>1, <2>2, <2>3
<1> HIDE DEF Follows
<1>9. h[n] = AddAllIfAbsent(labels, more)
  BY <1>1, <1>2
<1>10. \A i \in 0 .. n : h[i] \in LS
  <2> DEFINE Done == {i \in 0 .. n : h[i] \in LS}
  <2>1. 0 \in Done
    BY <1>1, <1>3, <1>7
  <2>2. \A i \in 1 .. n : i - 1 \in Done => i \in Done
    <3> HIDE DEF h
    <3> QED
      BY <1>1, <1>4, <1>8
  <2> HIDE DEF Done
  <2>3. 0 .. n \subseteq Done
    BY <1>1, <2>1, <2>2, BoundedInduction
  <2> QED
    BY <2>3 DEF Done
<1>11. h \in [0 .. n -> LS]
  BY <1>10
<1> HIDE DEF h
<1> QED
  BY <1>7, <1>8, <1>9, <1>11 DEF n, LS, Op

\* Adding what is absent leaves what is said of the names that were there, and of
\* those that are not added.
LEMMA AddSays ==
  ASSUME NEW Tokens, NEW labels \in LabelSets(Tokens), NEW more \in Seq(Labels(Tokens))
  PROVE  LET u == AddAllIfAbsent(labels, more)
         IN /\ u \in LabelSets(Tokens)
            /\ LabelNames(u) = LabelNames(labels) \cup LabelNames(more)
            /\ \A name : name \in LabelNames(labels) \/ name \notin LabelNames(more) =>
                 Get(u, name) = Get(labels, name)
<1> DEFINE n == Len(more)
<1>1. n \in Nat /\ DOMAIN more = 1 .. n /\ \A i \in 1 .. n : more[i] \in Labels(Tokens)
  OBVIOUS
<1>2. PICK h \in [0 .. n -> LabelSets(Tokens)] :
        /\ h[0] = labels
        /\ \A i \in 1 .. n : h[i] = AddLabelTo(h[i - 1], more[i])
        /\ h[n] = AddAllIfAbsent(labels, more)
  BY AddSteps
<1> HIDE DEF n
<1> DEFINE SoFar(i) ==
             /\ LabelNames(h[i]) = LabelNames(labels) \cup {more[j].name : j \in 1 .. i}
             /\ \A name : name \in LabelNames(labels) \/ name \notin LabelNames(more) =>
                  Get(h[i], name) = Get(labels, name)
           Done == {i \in 0 .. n : SoFar(i)}
<1>3. 0 \in Done
  <2>1. 0 \in 0 .. n /\ 1 .. 0 = {}
    BY <1>1
  <2> QED
    BY <1>2, <2>1
<1>4. ASSUME NEW i \in 1 .. n, SoFar(i - 1)
      PROVE  SoFar(i)
  <2> DEFINE s == h[i - 1]
             label == more[i]
  <2>1. /\ i - 1 \in 0 .. n
        /\ \A j \in 1 .. i : j \in 1 .. i - 1 \/ j = i
        /\ 1 .. i - 1 \subseteq 1 .. i /\ i \in 1 .. i
    BY <1>1
  <2>2. /\ s \in LabelSets(Tokens) /\ h[i] = AddIfAbsent(s, label.name, label.value)
        /\ LabelNames(s) = LabelNames(labels) \cup {more[j].name : j \in 1 .. i - 1}
        /\ \A name : name \in LabelNames(labels) \/ name \notin LabelNames(more) =>
             Get(s, name) = Get(labels, name)
    BY <1>2, <1>4, <2>1 DEF AddLabelTo
  <2> HIDE DEF s
  <2>3. label \in Labels(Tokens) /\ label.name \in Seq(Tokens) /\ label.value \in Seq(Tokens)
    BY <1>1 DEF Labels
  <2>4. label.name \in LabelNames(more)
    BY <1>1 DEF LabelNames
  <2>5. /\ LabelNames(h[i]) = LabelNames(s) \cup {label.name}
        /\ \A other : other \in LabelNames(s) \/ other # label.name =>
             Get(h[i], other) = Get(s, other)
    <3> HIDE DEF label
    <3> QED
      BY <2>2, <2>3, AbsentSays
  <2>6. LabelNames(h[i]) = LabelNames(labels) \cup {more[j].name : j \in 1 .. i}
    BY <2>1, <2>2, <2>5
  <2> HIDE DEF label
  <2>7. ASSUME NEW name, name \in LabelNames(labels) \/ name \notin LabelNames(more)
        PROVE  Get(h[i], name) = Get(labels, name)
    BY <2>2, <2>4, <2>5, <2>7
  <2> QED
    BY <2>6, <2>7
<1> HIDE DEF SoFar
<1>5. \A i \in 1 .. n : i - 1 \in Done => i \in Done
  BY <1>4
<1> HIDE DEF Done
<1>6. 0 .. n \subseteq Done
  BY <1>1, <1>3, <1>5, BoundedInduction
<1>7. n \in 0 .. n
  BY <1>1
<1>8. SoFar(n)
  BY <1>6, <1>7 DEF Done
<1>9. LabelNames(more) = {more[j].name : j \in 1 .. n}
  BY <1>1 DEF LabelNames
<1>10. h[n] \in LabelSets(Tokens)
  BY <1>2, <1>7
<1> QED
  BY <1>2, <1>8, <1>9, <1>10 DEF SoFar

\* A label of the target joins those of a series.
Merged(set, label, honor) ==
  IF label.name \notin LabelNames(set) THEN Append(set, label)
  ELSE IF honor THEN set
  ELSE MergeConflict(set, label)

\* What this changes: nothing that is honoured; otherwise the label is the target's,
\* and what was there is said of its exported name.
LEMMA MergedSays ==
  ASSUME NEW Tokens, "exported_" \in Tokens, NEW set \in LabelSets(Tokens),
         NEW label \in Labels(Tokens), NEW honor \in BOOLEAN
  PROVE  LET u == Merged(set, label, honor)
             conflict == label.name \in LabelNames(set)
             moved == IF conflict /\ ~honor THEN {Exported(label.name)} ELSE {}
         IN /\ u \in LabelSets(Tokens)
            /\ LabelNames(u) = LabelNames(set) \cup {label.name} \cup moved
            /\ ~(conflict /\ honor) => Get(u, label.name) = label.value
            /\ conflict /\ ~honor => Get(u, Exported(label.name)) = Get(set, label.name)
            /\ \A other : other \notin moved /\ (other # label.name \/ (conflict /\ honor)) =>
                 Get(u, other) = Get(set, other)
<1> DEFINE name == label.name
           value == label.value
<1>1. name \in Seq(Tokens) /\ value \in Seq(Tokens)
  BY DEF Labels
<1>2. Exported(name) \in Seq(Tokens) /\ Exported(name) # name
  BY <1>1, ExportedDiffer
<1>3. CASE name \notin LabelNames(set)
  <2>1. Merged(set, label, honor) = Set(set, name, value)
    BY <1>3, AppendSets DEF Merged
  <2> HIDE DEF name, value
  <2>2. /\ Set(set, name, value) \in LabelSets(Tokens)
        /\ LabelNames(Set(set, name, value)) = LabelNames(set) \cup {name}
        /\ Get(Set(set, name, value), name) = value
        /\ \A other : other # name => Get(Set(set, name, value), other) = Get(set, other)
    BY <1>1, SetSays
  <2> QED
    BY <1>3, <2>1, <2>2 DEF name, value
<1>4. CASE name \in LabelNames(set) /\ honor
  BY <1>4 DEF Merged
<1>5. CASE name \in LabelNames(set) /\ ~honor
  <2> DEFINE v == Set(set, name, value)
             w == Set(v, Exported(name), Get(set, name))
  <2>1. Merged(set, label, honor) = w
    BY <1>5 DEF Merged, MergeConflict
  <2> HIDE DEF name, value
  <2>2. /\ v \in LabelSets(Tokens) /\ LabelNames(v) = LabelNames(set) \cup {name}
        /\ Get(v, name) = value
        /\ \A other : other # name => Get(v, other) = Get(set, other)
    BY <1>1, SetSays
  <2>3. Get(set, name) \in Seq(Tokens)
    BY GetIsTyped DEF LabelSets
  <2> HIDE DEF v
  <2>4. /\ w \in LabelSets(Tokens) /\ LabelNames(w) = LabelNames(v) \cup {Exported(name)}
        /\ Get(w, Exported(name)) = Get(set, name)
        /\ \A other : other # Exported(name) => Get(w, other) = Get(v, other)
    BY <1>2, <2>2, <2>3, SetSays
  <2> HIDE DEF w
  <2> QED
    BY <1>2, <1>5, <2>1, <2>2, <2>4 DEF name, value
<1> QED
  BY <1>3, <1>4, <1>5

\* The labels of a target join one by one (merge_target_labels).
LEMMA MergeSteps ==
  ASSUME NEW Tokens, "exported_" \in Tokens, NEW labels \in LabelSets(Tokens), NEW target,
         target.labels \in Seq(Labels(Tokens)), NEW honor \in BOOLEAN
  PROVE  \E h \in [0 .. Len(target.labels) -> LabelSets(Tokens)] :
           /\ h[0] = labels
           /\ \A i \in 1 .. Len(target.labels) : h[i] = Merged(h[i - 1], target.labels[i], honor)
           /\ h[Len(target.labels)] = MergeTargetLabels(labels, target, honor)
<1> DEFINE n == Len(target.labels)
           LS == LabelSets(Tokens)
           Op(acc, x) == Merged(acc, x, honor)
           Follows(f) == f = [s \in SUBSET (1 .. n) |->
                                IF s = {} THEN labels
                                ELSE Op(f[s \ {Max(s)}], target.labels[Max(s)])]
           f == CHOOSE f : Follows(f)
           h == [i \in 0 .. n |-> f[1 .. i]]
<1>1. n \in Nat /\ DOMAIN target.labels = 1 .. n /\ \A i \in 1 .. n : target.labels[i] \in Labels(Tokens)
  OBVIOUS
<1>2. MergeTargetLabels(labels, target, honor) = f[1 .. n]
  BY <1>1 DEF MergeTargetLabels, Merged, FoldLeft, MapThenFoldSet
<1> HIDE DEF n
<1>3. labels \in LS
  OBVIOUS
<1>4. ASSUME NEW acc \in LS, NEW i \in 1 .. n
      PROVE  Op(acc, target.labels[i]) \in LS
  BY <1>1, MergedSays
<1> HIDE DEF LS, Op
<1>5. PICK g \in [SUBSET (1 .. n) -> LS] : Follows(g)
  <2> DEFINE step == [i \in 1 .. n |-> [acc \in LS |-> Op(acc, target.labels[i])]]
  <2>1. step \in [1 .. n -> [LS -> LS]]
    BY <1>4
  <2> HIDE DEF step
  <2>2. PICK g \in [SUBSET (1 .. n) -> LS] : GoesBy(g, n, labels, step)
    <3> HIDE DEF f, h, Follows
    <3> QED
      BY <1>1, <1>3, <2>1, FoldIsDefined
  <2>3. ASSUME NEW s \in SUBSET (1 .. n)
        PROVE  g[s] = IF s = {} THEN labels ELSE Op(g[s \ {Max(s)}], target.labels[Max(s)])
    <3>1. CASE s = {}
      BY <2>2, <3>1 DEF GoesBy
    <3>2. CASE s # {}
      <4>1. Max(s) \in s /\ g[s] = step[Max(s)][g[s \ {Max(s)}]]
        BY <2>2, <3>2 DEF GoesBy
      <4>2. g[s \ {Max(s)}] \in LS /\ Max(s) \in 1 .. n
        BY <4>1
      <4> QED
        BY <3>2, <4>1, <4>2 DEF step
    <3> QED
      BY <3>1, <3>2
  <2>4. g = [s \in SUBSET (1 .. n) |-> g[s]]
    OBVIOUS
  <2>5. Follows(g)
    BY <2>3, <2>4
  <2> HIDE DEF Follows
  <2> QED
    BY <2>5
<1>6. Follows(f)
  <2> HIDE DEF Follows
  <2> QED
    BY <1>5
<1> HIDE DEF f
<1>7. h[0] = labels
  <2>1. 1 .. 0 = {} /\ 0 \in 0 .. n /\ f[{}] = labels
    BY <1>1, <1>6
  <2> QED
    BY <2>1
<1>8. ASSUME NEW i \in 1 .. n
      PROVE  h[i] = Op(h[i - 1], target.labels[i])
  <2>1. /\ 1 .. i \in SUBSET (1 .. n) /\ 1 .. i # {}
        /\ Max(1 .. i) = i /\ (1 .. i) \ {i} = 1 .. i - 1
    BY <1>1, UpTo
  <2>2. f[1 .. i] = Op(f[(1 .. i) \ {Max(1 .. i)}], target.labels[Max(1 .. i)])
    BY <1>6, <2>1
  <2>3. i \in 0 .. n /\ i - 1 \in 0 .. n
    BY <1>1
  <2> QED
    BY <2>1, <2>2, <2>3
<1> HIDE DEF Follows
<1>9. h[n] = MergeTargetLabels(labels, target, honor)
  BY <1>1, <1>2
<1>10. \A i \in 0 .. n : h[i] \in LS
  <2> DEFINE Done == {i \in 0 .. n : h[i] \in LS}
  <2>1. 0 \in Done
    BY <1>1, <1>3, <1>7
  <2>2. \A i \in 1 .. n : i - 1 \in Done => i \in Done
    <3> HIDE DEF h
    <3> QED
      BY <1>1, <1>4, <1>8
  <2> HIDE DEF Done
  <2>3. 0 .. n \subseteq Done
    BY <1>1, <2>1, <2>2, BoundedInduction
  <2> QED
    BY <2>3 DEF Done
<1>11. h \in [0 .. n -> LS]
  BY <1>10
<1> HIDE DEF h
<1> QED
  BY <1>7, <1>8, <1>9, <1>11 DEF n, LS, Op

-----------------------------------------------------------------------------
\* Without honor_labels the target says what it says, what a series said under its
\* names is said under their exported names, and the rest is as it was; unless a
\* label of the target stands where one is moved to.
LEMMA MergeMoves ==
  ASSUME NEW Tokens, "exported_" \in Tokens, NEW raw \in LabelSets(Tokens), NEW target,
         NEW honor \in BOOLEAN, ~honor, target.labels \in LabelSets(Tokens),
         \A name \in LabelNames(target.labels) \cap LabelNames(raw) :
           Exported(name) \notin LabelNames(target.labels)
  PROVE  LET u == MergeTargetLabels(raw, target, honor)
             names == LabelNames(target.labels)
         IN /\ u \in LabelSets(Tokens)
            /\ \A name \in names : Get(u, name) = Get(target.labels, name)
            /\ \A name \in names \cap LabelNames(raw) : Get(u, Exported(name)) = Get(raw, name)
            /\ \A other : /\ other \notin names
                          /\ \A name \in names \cap LabelNames(raw) : other # Exported(name)
                          => Get(u, other) = Get(raw, other)
<1> DEFINE T == target.labels
           n == Len(T)
           names == LabelNames(T)
<1>1. /\ T \in Seq(Labels(Tokens)) /\ n \in Nat /\ DOMAIN T = 1 .. n
      /\ \A i \in 1 .. n : T[i] \in Labels(Tokens) /\ T[i].name \in Seq(Tokens)
      /\ \A i, j \in 1 .. n : T[i].name = T[j].name => i = j
  <2>1. T \in Seq(Labels(Tokens)) /\ NamesUnique(T)
    BY DEF LabelSets
  <2> HIDE DEF T
  <2>2. \A i \in 1 .. n : T[i] \in Labels(Tokens)
    BY <2>1
  <2>3. \A i \in 1 .. n : T[i].name \in Seq(Tokens)
    BY <2>2 DEF Labels
  <2> QED
    BY <2>1, <2>2, <2>3 DEF NamesUnique
<1>2. PICK h \in [0 .. n -> LabelSets(Tokens)] :
        /\ h[0] = raw
        /\ \A i \in 1 .. n : h[i] = Merged(h[i - 1], T[i], honor)
        /\ h[n] = MergeTargetLabels(raw, target, honor)
  <2>1. target.labels \in Seq(Labels(Tokens))
    BY <1>1
  <2> QED
    BY <2>1, MergeSteps
<1>3. /\ names = {T[j].name : j \in 1 .. n}
      /\ \A j \in 1 .. n : Get(T, T[j].name) = T[j].value
      /\ \A name \in names \cap LabelNames(raw) : Exported(name) \notin names
  <2>1. T \in LabelSets(Tokens)
    OBVIOUS
  <2>2. \A name \in names \cap LabelNames(raw) : Exported(name) \notin names
    OBVIOUS
  <2> HIDE DEF T
  <2>3. \A j \in 1 .. n : Get(T, T[j].name) = T[j].value
    BY <2>1, GetOfLabel
  <2>4. names = {T[j].name : j \in 1 .. n}
    BY <1>1 DEF LabelNames
  <2> QED
    BY <2>2, <2>3, <2>4
<1> HIDE DEF n, names, T
<1> DEFINE Ex(i) == {Exported(T[j].name) : j \in {j \in 1 .. i : T[j].name \in LabelNames(raw)}}
           SoFar(i) ==
             /\ LabelNames(h[i]) = LabelNames(raw) \cup {T[j].name : j \in 1 .. i} \cup Ex(i)
             /\ \A j \in 1 .. i : Get(h[i], T[j].name) = T[j].value
             /\ \A j \in 1 .. i : T[j].name \in LabelNames(raw) =>
                  Get(h[i], Exported(T[j].name)) = Get(raw, T[j].name)
             /\ \A other : other \notin {T[j].name : j \in 1 .. i} \cup Ex(i) =>
                  Get(h[i], other) = Get(raw, other)
           Done == {i \in 0 .. n : SoFar(i)}
<1>4. 0 \in Done
  <2>1. 0 \in 0 .. n /\ 1 .. 0 = {} /\ Ex(0) = {}
    BY <1>1
  <2> QED
    BY <1>2, <2>1
<1>5. ASSUME NEW i \in 1 .. n, SoFar(i - 1)
      PROVE  SoFar(i)
  <2> DEFINE s == h[i - 1]
             label == T[i]
             name == label.name
             before == {T[j].name : j \in 1 .. i - 1}
             conflict == name \in LabelNames(raw)
             moved == IF conflict THEN {Exported(name)} ELSE {}
  <2>1. /\ i - 1 \in 0 .. n
        /\ \A j \in 1 .. i : j \in 1 .. i - 1 \/ j = i
        /\ 1 .. i - 1 \subseteq 1 .. i /\ i \in 1 .. i
        /\ \A j \in 1 .. i - 1 : j \in 1 .. n /\ j # i
    BY <1>1
  <2>2. /\ s \in LabelSets(Tokens) /\ h[i] = Merged(s, label, honor)
        /\ LabelNames(s) = LabelNames(raw) \cup before \cup Ex(i - 1)
        /\ \A j \in 1 .. i - 1 : Get(s, T[j].name) = T[j].value
        /\ \A j \in 1 .. i - 1 : T[j].name \in LabelNames(raw) =>
             Get(s, Exported(T[j].name)) = Get(raw, T[j].name)
        /\ \A other : other \notin before \cup Ex(i - 1) => Get(s, other) = Get(raw, other)
    BY <1>2, <1>5, <2>1
  <2>3. /\ Ex(i) = Ex(i - 1) \cup moved
        /\ {T[j].name : j \in 1 .. i} = before \cup {name}
    BY <2>1
  <2>4. \A j \in 1 .. n : /\ T[j].name \in LabelNames(raw) => Exported(T[j].name) \notin names
                          /\ T[j].name \in names
    BY <1>3
  <2>5. \A j \in 1 .. n : T[j].name # name =>
          (Exported(T[j].name) # Exported(name) /\ (j \in 1 .. i - 1 => T[j].name # name))
    BY <1>1, ExportedDiffer
  <2>6. \A j \in 1 .. i - 1 : T[j].name # name
    BY <1>1, <2>1
  <2>7. name \in names /\ name \notin before /\ name \notin Ex(i - 1)
    BY <2>1, <2>4, <2>6
  <2>8. name \in LabelNames(s) <=> conflict
    BY <2>2, <2>7
  <2>9. label \in Labels(Tokens)
    BY <1>1
  <2> HIDE DEF s, label, before, Ex
  <2>10. /\ LabelNames(h[i]) = LabelNames(s) \cup {name} \cup moved
         /\ Get(h[i], name) = label.value
         /\ conflict => Get(h[i], Exported(name)) = Get(s, name)
         /\ \A other : other \notin moved /\ other # name => Get(h[i], other) = Get(s, other)
    <3> DEFINE u == Merged(s, label, honor)
    <3>1. LET clash == label.name \in LabelNames(s)
              gone == IF clash /\ ~honor THEN {Exported(label.name)} ELSE {}
          IN /\ LabelNames(u) = LabelNames(s) \cup {label.name} \cup gone
             /\ ~(clash /\ honor) => Get(u, label.name) = label.value
             /\ clash /\ ~honor => Get(u, Exported(label.name)) = Get(s, label.name)
             /\ \A other : other \notin gone /\ (other # label.name \/ (clash /\ honor)) =>
                  Get(u, other) = Get(s, other)
      BY <2>2, <2>9, MergedSays
    <3> HIDE DEF u
    <3>2. h[i] = u
      BY <2>2 DEF u
    <3> QED
      BY <2>8, <3>1, <3>2
  <2>11. LabelNames(h[i]) = LabelNames(raw) \cup {T[j].name : j \in 1 .. i} \cup Ex(i)
    <3> HIDE DEF name, conflict, moved
    <3> QED
      BY <2>2, <2>3, <2>10
  <2>12. ASSUME NEW j \in 1 .. i
         PROVE  Get(h[i], T[j].name) = T[j].value
    <3>1. CASE j = i
      BY <2>10, <3>1 DEF label
    <3>2. CASE j \in 1 .. i - 1
      <4>1. T[j].name # name /\ T[j].name \in names
        BY <2>1, <2>4, <2>6, <3>2
      <4>2. T[j].name \notin moved
        BY <1>3, <2>7, <4>1
      <4> QED
        BY <2>2, <2>10, <3>2, <4>1, <4>2
    <3> QED
      BY <2>1, <3>1, <3>2
  <2>13. ASSUME NEW j \in 1 .. i, T[j].name \in LabelNames(raw)
         PROVE  Get(h[i], Exported(T[j].name)) = Get(raw, T[j].name)
    <3>1. CASE j = i
      <4>1. T[j].name = name
        BY <3>1 DEF label
      <4> QED
        BY <2>2, <2>7, <2>10, <2>13, <4>1
    <3>2. CASE j \in 1 .. i - 1
      <4>1. Exported(T[j].name) # Exported(name) /\ Exported(T[j].name) # name
        BY <2>1, <2>4, <2>5, <2>6, <2>7, <2>13, <3>2
      <4>2. Exported(T[j].name) \notin moved
        BY <4>1
      <4> QED
        BY <2>2, <2>10, <2>13, <3>2, <4>1, <4>2
    <3> QED
      BY <2>1, <3>1, <3>2
  <2>14. ASSUME NEW other, other \notin {T[j].name : j \in 1 .. i} \cup Ex(i)
         PROVE  Get(h[i], other) = Get(raw, other)
    <3> HIDE DEF name, moved
    <3> QED
      BY <2>2, <2>3, <2>10, <2>14
  <2> QED
    BY <2>11, <2>12, <2>13, <2>14
<1> HIDE DEF SoFar
<1>6. \A i \in 1 .. n : i - 1 \in Done => i \in Done
  BY <1>5
<1> HIDE DEF Done
<1>7. 0 .. n \subseteq Done
  BY <1>1, <1>4, <1>6, BoundedInduction
<1> DEFINE u == MergeTargetLabels(raw, target, honor)
<1>8. SoFar(n) /\ u = h[n] /\ u \in LabelSets(Tokens)
  <2>1. n \in 0 .. n
    BY <1>1
  <2> QED
    BY <1>2, <1>7, <2>1 DEF Done
<1> HIDE DEF u
<1>9. /\ \A j \in 1 .. n : Get(u, T[j].name) = T[j].value
      /\ \A j \in 1 .. n : T[j].name \in LabelNames(raw) =>
           Get(u, Exported(T[j].name)) = Get(raw, T[j].name)
      /\ \A other : other \notin names \cup Ex(n) => Get(u, other) = Get(raw, other)
  BY <1>3, <1>8 DEF SoFar
<1>10. \A name \in names : Get(u, name) = Get(T, name)
  BY <1>3, <1>9
<1>11. \A name \in names \cap LabelNames(raw) : Get(u, Exported(name)) = Get(raw, name)
  BY <1>3, <1>9
<1>12. ASSUME NEW other, other \notin names,
              \A name \in names \cap LabelNames(raw) : other # Exported(name)
       PROVE  Get(u, other) = Get(raw, other)
  BY <1>3, <1>9, <1>12
<1> QED
  BY <1>8, <1>10, <1>11, <1>12 DEF u, names, T

\* With honor_labels a series keeps what it says, and has of the target what it does
\* not say itself.
LEMMA MergeHonours ==
  ASSUME NEW Tokens, "exported_" \in Tokens, NEW raw \in LabelSets(Tokens), NEW target,
         NEW honor \in BOOLEAN, target.labels \in LabelSets(Tokens)
  PROVE  LET u == MergeTargetLabels(raw, target, honor)
         IN /\ u \in LabelSets(Tokens)
            /\ honor =>
                 \A name : name \in LabelNames(raw) \/ name \notin LabelNames(target.labels) =>
                   Get(u, name) = Get(raw, name)
<1> DEFINE T == target.labels
           n == Len(T)
           names == LabelNames(T)
<1>1. /\ T \in Seq(Labels(Tokens)) /\ n \in Nat /\ DOMAIN T = 1 .. n
      /\ \A i \in 1 .. n : T[i] \in Labels(Tokens) /\ T[i].name \in names
  <2>1. T \in Seq(Labels(Tokens))
    BY DEF LabelSets
  <2> HIDE DEF T
  <2> QED
    BY <2>1 DEF LabelNames
<1>2. PICK h \in [0 .. n -> LabelSets(Tokens)] :
        /\ h[0] = raw
        /\ \A i \in 1 .. n : h[i] = Merged(h[i - 1], T[i], honor)
        /\ h[n] = MergeTargetLabels(raw, target, honor)
  <2>1. target.labels \in Seq(Labels(Tokens))
    BY <1>1
  <2> QED
    BY <2>1, MergeSteps
<1> HIDE DEF n, names, T
<1> DEFINE SoFar(i) ==
             /\ LabelNames(raw) \subseteq LabelNames(h[i])
             /\ honor => \A name : name \in LabelNames(raw) \/ name \notin names =>
                           Get(h[i], name) = Get(raw, name)
           Done == {i \in 0 .. n : SoFar(i)}
<1>3. 0 \in Done
  BY <1>1, <1>2
<1>4. ASSUME NEW i \in 1 .. n, SoFar(i - 1)
      PROVE  SoFar(i)
  <2> DEFINE s == h[i - 1]
             label == T[i]
  <2>1. /\ s \in LabelSets(Tokens) /\ h[i] = Merged(s, label, honor)
        /\ LabelNames(raw) \subseteq LabelNames(s)
        /\ honor => \A name : name \in LabelNames(raw) \/ name \notin names =>
                      Get(s, name) = Get(raw, name)
    <3>1. i - 1 \in 0 .. n
      BY <1>1
    <3> QED
      BY <1>2, <1>4, <3>1
  <2>2. label \in Labels(Tokens) /\ label.name \in names
    BY <1>1
  <2> HIDE DEF s, label
  <2>3. /\ LabelNames(s) \subseteq LabelNames(h[i])
        /\ honor => \A other : other # label.name \/ label.name \in LabelNames(s) =>
                      Get(h[i], other) = Get(s, other)
    <3> DEFINE u == Merged(s, label, honor)
    <3>1. LET clash == label.name \in LabelNames(s)
              gone == IF clash /\ ~honor THEN {Exported(label.name)} ELSE {}
          IN /\ LabelNames(u) = LabelNames(s) \cup {label.name} \cup gone
             /\ \A other : other \notin gone /\ (other # label.name \/ (clash /\ honor)) =>
                  Get(u, other) = Get(s, other)
      BY <2>1, <2>2, MergedSays
    <3> HIDE DEF u
    <3>2. h[i] = u
      BY <2>1 DEF u
    <3> QED
      BY <3>1, <3>2
  <2>4. ASSUME honor, NEW name, name \in LabelNames(raw) \/ name \notin names
        PROVE  Get(h[i], name) = Get(raw, name)
    BY <2>1, <2>2, <2>3, <2>4
  <2> QED
    BY <2>1, <2>3, <2>4
<1> HIDE DEF SoFar
<1>5. \A i \in 1 .. n : i - 1 \in Done => i \in Done
  BY <1>4
<1> HIDE DEF Done
<1>6. 0 .. n \subseteq Done
  BY <1>1, <1>3, <1>5, BoundedInduction
<1>7. n \in 0 .. n
  BY <1>1
<1>8. SoFar(n) /\ h[n] \in LabelSets(Tokens)
  BY <1>2, <1>6, <1>7 DEF Done
<1> QED
  BY <1>2, <1>8 DEF SoFar, names, T

-----------------------------------------------------------------------------
\* Without rules nothing is relabelled, but for the labels without a value.
LEMMA ProcessOfNone ==
  ASSUME NEW set
  PROVE  Process(set, <<>>) = Finish(set)
<1> DEFINE Op(acc, rule) == IF acc = Dropped THEN Dropped ELSE Apply(acc, rule)
           none == <<>>
           Follows(f) == f = [s \in SUBSET (1 .. 0) |->
                                IF s = {} THEN set ELSE Op(f[s \ {Max(s)}], none[Max(s)])]
           f == CHOOSE f : Follows(f)
<1>1. DOMAIN none = 1 .. 0 /\ Len(none) = 0
  OBVIOUS
<1>2. Process(set, none) = Finish(f[1 .. 0])
  BY <1>1 DEF Process, FoldLeft, MapThenFoldSet
<1>3. \A s \in SUBSET (1 .. 0) : s = {}
  OBVIOUS
<1>4. Follows([s \in SUBSET (1 .. 0) |-> set])
  <2> DEFINE g == [s \in SUBSET (1 .. 0) |-> set]
  <2> HIDE DEF Op, none
  <2>1. \A s \in SUBSET (1 .. 0) :
          g[s] = IF s = {} THEN set ELSE Op(g[s \ {Max(s)}], none[Max(s)])
    BY <1>3
  <2> QED
    BY <2>1
<1>5. Follows(f)
  <2> HIDE DEF Follows
  <2> QED
    BY <1>4
<1> HIDE DEF f
<1>6. f[1 .. 0] = set
  <2>1. 1 .. 0 = {} /\ 1 .. 0 \in SUBSET (1 .. 0)
    OBVIOUS
  <2> QED
    BY <1>5, <2>1
<1> QED
  BY <1>2, <1>6

\* The settings of a job that finalize_series_labels looks at, without rules.
PlainJob(job, Tokens) ==
  /\ job.honor_labels \in BOOLEAN /\ job.external \in Seq(Labels(Tokens))
  /\ job.metric_relabel_configs = <<>>

\* Completed with the labels of the agent a series says what it said, where it said
\* anything or the agent does not.
LEMMA FinalizeSays ==
  ASSUME NEW Tokens, Dropped \notin LabelSets(Tokens), NEW raw, NEW target, NEW job,
         PlainJob(job, Tokens),
         MergeTargetLabels(raw, target, job.honor_labels) \in LabelSets(Tokens)
  PROVE  LET m == MergeTargetLabels(raw, target, job.honor_labels)
             u == Finalize(raw, target, job)
         IN /\ u \in LabelSets(Tokens)
            /\ \A name : name \notin LabelNames(job.external) \/ Get(m, name) # <<>> =>
                 Get(u, name) = Get(m, name)
<1> DEFINE m == MergeTargetLabels(raw, target, job.honor_labels)
           v == Finish(m)
           w == AddAllIfAbsent(v, job.external)
           u == SortLabels(w)
<1>1. m \in LabelSets(Tokens) /\ m # Dropped /\ job.external \in Seq(Labels(Tokens))
  BY DEF PlainJob
<1>2. Process(m, job.metric_relabel_configs) = v
  BY ProcessOfNone DEF PlainJob
<1> HIDE DEF m
<1>3. /\ v \in LabelSets(Tokens)
      /\ \A name \in LabelNames(m) : Get(m, name) # <<>> => name \in LabelNames(v)
      /\ \A name : Get(v, name) = Get(m, name)
  BY <1>1, FinishSays
<1>4. Finalize(raw, target, job) = u
  <2>1. v # Dropped
    BY <1>3
  <2> HIDE DEF v
  <2> QED
    BY <1>2, <2>1 DEF Finalize, m
<1> HIDE DEF v
<1>5. /\ w \in LabelSets(Tokens)
      /\ \A name : name \in LabelNames(v) \/ name \notin LabelNames(job.external) =>
           Get(w, name) = Get(v, name)
  BY <1>1, <1>3, AddSays
<1> HIDE DEF w
<1>6. u \in LabelSets(Tokens) /\ \A name : Get(u, name) = Get(w, name)
  BY <1>5, SortSays
<1> HIDE DEF u
<1>7. \A name : Get(m, name) # <<>> => name \in LabelNames(m)
  BY <1>1, GetOfNone DEF LabelSets
<1>8. ASSUME NEW name, name \notin LabelNames(job.external) \/ Get(m, name) # <<>>
      PROVE  Get(u, name) = Get(m, name)
  <2>1. CASE name \notin LabelNames(job.external)
    BY <1>3, <1>5, <1>6, <2>1
  <2>2. CASE Get(m, name) # <<>>
    <3>1. name \in LabelNames(v)
      BY <1>3, <1>7, <2>2
    <3> QED
      BY <1>3, <1>5, <1>6, <3>1
  <2> QED
    BY <1>8, <2>1, <2>2
<1> QED
  BY <1>4, <1>6, <1>8 DEF m

\* What build_targets gives a target: labels with values, of different names.
TargetLabels(Tokens) ==
  {set \in LabelSets(Tokens) : \A i \in DOMAIN set : set[i].value # <<>>}

\* A target says something of each of its labels.
LEMMA TargetSays ==
  ASSUME NEW Tokens, NEW set \in TargetLabels(Tokens), NEW name \in LabelNames(set)
  PROVE  Get(set, name) # <<>>
<1>1. set \in LabelSets(Tokens) /\ set \in Seq(Labels(Tokens)) /\ DOMAIN set = 1 .. Len(set)
  BY DEF TargetLabels, LabelSets
<1>2. PICK i \in 1 .. Len(set) : set[i].name = name
  BY <1>1 DEF LabelNames
<1>3. Get(set, set[i].name) = set[i].value
  BY <1>1, GetOfLabel
<1> QED
  BY <1>1, <1>2, <1>3 DEF TargetLabels

\* The labels of a series are those the configuration promises (finalize_series_labels):
\* for any series, any target and any labels of the agent; unless the agent has the
\* very name an empty label of the series is moved to.
THEOREM LabelsArePromised ==
  ASSUME NEW Tokens, "exported_" \in Tokens, Dropped \notin LabelSets(Tokens),
         NEW raw \in LabelSets(Tokens), NEW target, target.labels \in TargetLabels(Tokens),
         NEW job, job.honor_labels \in BOOLEAN, job.external \in Seq(Labels(Tokens)),
         \A name \in LabelNames(target.labels) \cap LabelNames(raw) :
           Get(raw, name) = <<>> => Exported(name) \notin LabelNames(job.external)
  PROVE  LabelsAsPromised(raw, target, job)
<1> SUFFICES ASSUME job.metric_relabel_configs = <<>>
             PROVE  LET names == LabelNames(target.labels)
                        moved == {Exported(name) : name \in names \cap LabelNames(raw)}
                        labels == Finalize(raw, target, job)
                    IN /\ NamesUnique(labels)
                       /\ job.honor_labels =>
                            \A name \in LabelNames(raw) \ LabelNames(job.external) :
                              Get(labels, name) = Get(raw, name)
                       /\ ~job.honor_labels /\ moved \cap (names \cup LabelNames(raw)) = {} =>
                            /\ \A name \in names : Get(labels, name) = Get(target.labels, name)
                            /\ \A name \in names \cap LabelNames(raw) :
                                 Get(labels, Exported(name)) = Get(raw, name)
  BY DEF LabelsAsPromised
<1> DEFINE names == LabelNames(target.labels)
           moved == {Exported(name) : name \in names \cap LabelNames(raw)}
           honor == job.honor_labels
           m == MergeTargetLabels(raw, target, honor)
           labels == Finalize(raw, target, job)
<1>1. target.labels \in LabelSets(Tokens) /\ honor \in BOOLEAN /\ PlainJob(job, Tokens)
  BY DEF TargetLabels, PlainJob
<1>2. /\ m \in LabelSets(Tokens)
      /\ honor => \A name : name \in LabelNames(raw) \/ name \notin names =>
                    Get(m, name) = Get(raw, name)
  <2> HIDE DEF honor
  <2> QED
    BY <1>1, MergeHonours
<1>3. /\ labels \in LabelSets(Tokens)
      /\ \A name : name \notin LabelNames(job.external) \/ Get(m, name) # <<>> =>
           Get(labels, name) = Get(m, name)
  BY <1>1, <1>2, FinalizeSays
<1>4. NamesUnique(labels)
  BY <1>3 DEF LabelSets
<1> HIDE DEF labels
<1>5. ASSUME honor, NEW name \in LabelNames(raw) \ LabelNames(job.external)
      PROVE  Get(labels, name) = Get(raw, name)
  BY <1>2, <1>3, <1>5
<1>6. ASSUME ~honor, moved \cap (names \cup LabelNames(raw)) = {}
      PROVE  /\ \A name \in names : Get(labels, name) = Get(target.labels, name)
             /\ \A name \in names \cap LabelNames(raw) :
                  Get(labels, Exported(name)) = Get(raw, name)
  <2>1. \A name \in names \cap LabelNames(raw) : Exported(name) \notin names
    BY <1>6
  <2>2. /\ \A name \in names : Get(m, name) = Get(target.labels, name)
        /\ \A name \in names \cap LabelNames(raw) : Get(m, Exported(name)) = Get(raw, name)
    <3> HIDE DEF honor
    <3> QED
      BY <1>1, <1>6, <2>1, MergeMoves
  <2> HIDE DEF m
  <2>3. \A name \in names : Get(target.labels, name) # <<>>
    BY TargetSays
  <2>4. \A name \in names : Get(labels, name) = Get(target.labels, name)
    BY <1>3, <2>2, <2>3
  <2>5. \A name \in names \cap LabelNames(raw) :
          Exported(name) \notin LabelNames(job.external) \/ Get(m, Exported(name)) # <<>>
    BY <2>2
  <2>6. \A name \in names \cap LabelNames(raw) : Get(labels, Exported(name)) = Get(raw, name)
    BY <1>3, <2>2, <2>5
  <2> QED
    BY <2>4, <2>6
<1> QED
  BY <1>4, <1>5, <1>6 DEF labels

-----------------------------------------------------------------------------
\* A label put before the others says what it says.
LEMMA PrependSays ==
  ASSUME NEW Tokens, NEW set \in LabelSets(Tokens), NEW label \in Labels(Tokens),
         label.name \notin LabelNames(set)
  PROVE  /\ <<label>> \o set \in LabelSets(Tokens)
         /\ Get(<<label>> \o set, label.name) = label.value
<1> DEFINE one == <<label>>
           u == one \o set
           n == Len(set)
<1>1. /\ set \in Seq(Labels(Tokens)) /\ n \in Nat /\ DOMAIN set = 1 .. n
      /\ one \in Seq(Labels(Tokens)) /\ Len(one) = 1 /\ one[1] = label
  BY DEF LabelSets
<1>2. /\ \A i, j \in 1 .. n : set[i].name = set[j].name => i = j
      /\ \A i \in 1 .. n : set[i].name # label.name
  BY <1>1 DEF LabelSets, NamesUnique, LabelNames
<1> HIDE DEF one, n
<1>3. /\ u \in Seq(Labels(Tokens)) /\ Len(u) = 1 + n
      /\ \A i \in 1 .. 1 : u[i] = one[i]
      /\ \A i \in 1 .. n : u[1 + i] = set[i]
  <2>1. /\ u \in Seq(Labels(Tokens)) /\ Len(u) = Len(one) + Len(set)
        /\ \A i \in 1 .. Len(one) : u[i] = one[i]
        /\ \A i \in 1 .. Len(set) : u[Len(one) + i] = set[i]
    BY <1>1, Joined, SMTT(30)
  <2> QED
    BY <1>1, <2>1 DEF n
<1> HIDE DEF u
<1>4. DOMAIN u = 1 .. n + 1 /\ u[1] = label /\ 1 \in 1 .. Len(u)
  BY <1>1, <1>3
<1>5. \A k \in 1 .. n + 1 : k = 1 \/ (k # 1 /\ k - 1 \in 1 .. n /\ u[k] = set[k - 1])
  <2> TAKE k \in 1 .. n + 1
  <2>1. CASE k = 1
    BY <2>1
  <2>2. CASE k # 1
    <3>1. k - 1 \in 1 .. n /\ 1 + (k - 1) = k
      BY <1>1, <2>2
    <3> QED
      BY <1>3, <2>2, <3>1
  <2> QED
    BY <2>1, <2>2
<1>6. NamesUnique(u)
  <2> SUFFICES ASSUME NEW i \in 1 .. n + 1, NEW j \in 1 .. n + 1, u[i].name = u[j].name
               PROVE  i = j
    BY <1>4 DEF NamesUnique
  <2>1. CASE i = 1 \/ j = 1
    BY <1>2, <1>4, <1>5, <2>1
  <2>2. CASE i # 1 /\ j # 1
    <3>1. i - 1 = j - 1
      BY <1>2, <1>5, <2>2
    <3> QED
      BY <3>1
  <2> QED
    BY <2>1, <2>2
<1>7. u \in LabelSets(Tokens)
  BY <1>3, <1>6 DEF LabelSets
<1>8. Get(u, label.name) = label.value
  BY <1>4, <1>7, GetOfLabel
<1> QED
  BY <1>7, <1>8 DEF u, one

\* Neither the target nor the agent has a label of the name of a metric.
Nameless(target, job) ==
  MetricName \notin LabelNames(target.labels) \cup LabelNames(job.external)

\* Each report series has its own name.
LEMMA ReportSays ==
  ASSUME NEW Tokens, NEW target, NEW job, target.labels \in LabelSets(Tokens),
         job.external \in Seq(Labels(Tokens)), Nameless(target, job),
         MetricName \in Seq(Tokens), NEW i \in DOMAIN ReportNames, <<ReportNames[i]>> \in Seq(Tokens)
  PROVE  Get(Report(target, job)[i], MetricName) = <<ReportNames[i]>>
<1> DEFINE label == Label(MetricName, <<ReportNames[i]>>)
           w == AddAllIfAbsent(target.labels, job.external)
           u == <<label>> \o w
<1>1. label \in Labels(Tokens) /\ label.name = MetricName /\ label.value = <<ReportNames[i]>>
  BY DEF Label, Labels
<1>2. Report(target, job)[i] = SortLabels(u)
  BY DEF Report
<1>3. w \in LabelSets(Tokens) /\ LabelNames(w) = LabelNames(target.labels) \cup LabelNames(job.external)
  BY AddSays
<1> HIDE DEF w, label
<1>4. label.name \notin LabelNames(w)
  BY <1>1, <1>3 DEF Nameless
<1>5. u \in LabelSets(Tokens) /\ Get(u, label.name) = label.value
  BY <1>1, <1>3, <1>4, PrependSays
<1> HIDE DEF u
<1>6. Get(SortLabels(u), label.name) = Get(u, label.name)
  BY <1>5, SortSays
<1> QED
  BY <1>1, <1>2, <1>5, <1>6

\* A series sets no name under which two series may come to have one label set, and
\* no label of the target stands where one is moved to, nor does one of the agent.
Uncontested(raw, target, job) ==
  /\ LabelNames(raw) \cap Contested(target, job) = {}
  /\ \A name \in LabelNames(target.labels) :
       Exported(name) \notin LabelNames(target.labels) \cup LabelNames(job.external)

\* What a series said, told from its labels.
Recovered(labels, name, target, job) ==
  IF name \in Contested(target, job) THEN <<>>
  ELSE IF name \in LabelNames(target.labels) THEN Get(labels, Exported(name))
  ELSE Get(labels, name)

\* What a series said is what is told from its labels.
LEMMA RawIsRecovered ==
  ASSUME NEW Tokens, "exported_" \in Tokens, Dropped \notin LabelSets(Tokens),
         NEW raw \in LabelSets(Tokens), NEW target, target.labels \in LabelSets(Tokens),
         NEW job, PlainJob(job, Tokens), Uncontested(raw, target, job)
  PROVE  /\ Finalize(raw, target, job) \in LabelSets(Tokens)
         /\ \A name : Get(raw, name) = Recovered(Finalize(raw, target, job), name, target, job)
<1> DEFINE names == LabelNames(target.labels)
           honor == job.honor_labels
           m == MergeTargetLabels(raw, target, honor)
           labels == Finalize(raw, target, job)
<1>1. honor \in BOOLEAN /\ raw \in Seq(Labels(Tokens)) /\ target.labels \in Seq(Labels(Tokens))
  BY DEF PlainJob, LabelSets
<1>2. /\ m \in LabelSets(Tokens)
      /\ honor => \A name : name \in LabelNames(raw) \/ name \notin names =>
                    Get(m, name) = Get(raw, name)
  <2> HIDE DEF honor
  <2> QED
    BY <1>1, MergeHonours
<1>3. \A name \in names : Exported(name) \notin names \cup LabelNames(job.external)
  BY DEF Uncontested
<1>4. ~honor => /\ \A name \in names \cap LabelNames(raw) : Get(m, Exported(name)) = Get(raw, name)
                /\ \A other : /\ other \notin names
                              /\ \A name \in names \cap LabelNames(raw) : other # Exported(name)
                              => Get(m, other) = Get(raw, other)
  <2>1. \A name \in names \cap LabelNames(raw) : Exported(name) \notin names
    BY <1>3
  <2> HIDE DEF honor
  <2> QED
    BY <1>1, <2>1, MergeMoves
<1>5. /\ labels \in LabelSets(Tokens)
      /\ \A name : name \notin LabelNames(job.external) => Get(labels, name) = Get(m, name)
  BY <1>2, FinalizeSays
<1>6. \A name \in Contested(target, job) : name \notin LabelNames(raw)
  BY DEF Uncontested
<1>7. \A name \in Contested(target, job) : Get(raw, name) = <<>>
  BY <1>1, <1>6, GetOfNone
<1>8. /\ LabelNames(job.external) \subseteq Contested(target, job)
      /\ honor => names \subseteq Contested(target, job)
      /\ ~honor => \A name \in names : Exported(name) \in Contested(target, job)
  BY DEF Contested
<1>9. \A name \in names : name \in Seq(Tokens)
  <2>1. \A i \in DOMAIN target.labels : target.labels[i] \in Labels(Tokens)
    BY <1>1
  <2> QED
    BY <2>1 DEF Labels, LabelNames
<1> HIDE DEF labels, m
<1>10. ASSUME NEW name, name \notin Contested(target, job), name \in names
       PROVE  Get(raw, name) = Get(labels, Exported(name))
  <2>1. ~honor /\ Exported(name) \in Contested(target, job)
    BY <1>8, <1>10
  <2>2. Exported(name) \notin LabelNames(job.external) /\ Exported(name) \notin names
    BY <1>3, <1>10
  <2>3. Get(labels, Exported(name)) = Get(m, Exported(name))
    BY <1>5, <2>2
  <2>4. CASE name \in LabelNames(raw)
    BY <1>4, <1>10, <2>1, <2>3, <2>4
  <2>5. CASE name \notin LabelNames(raw)
    <3>1. \A other \in names \cap LabelNames(raw) : Exported(name) # Exported(other)
      BY <1>9, <1>10, <2>5, ExportedDiffer
    <3>2. Get(m, Exported(name)) = Get(raw, Exported(name))
      BY <1>4, <2>1, <2>2, <3>1
    <3>3. Get(raw, Exported(name)) = <<>> /\ Get(raw, name) = <<>>
      BY <1>1, <1>7, <2>1, <2>5, GetOfNone
    <3> QED
      BY <2>3, <3>2, <3>3
  <2> QED
    BY <2>4, <2>5
<1>11. ASSUME NEW name, name \notin Contested(target, job), name \notin names
       PROVE  Get(raw, name) = Get(labels, name)
  <2>1. Get(labels, name) = Get(m, name)
    BY <1>5, <1>8, <1>11
  <2>2. CASE honor
    BY <1>2, <1>11, <2>1, <2>2
  <2>3. CASE ~honor
    <3>1. \A other \in names : name # Exported(other)
      BY <1>8, <1>11, <2>3
    <3> QED
      BY <1>4, <1>11, <2>1, <2>3, <3>1
  <2> QED
    BY <2>2, <2>3
<1> QED
  BY <1>5, <1>7, <1>10, <1>11 DEF Recovered, labels

\* Sets of labels with values that say the same are the same labels.
LEMMA SameLabels ==
  ASSUME NEW Tokens, NEW s \in LabelSets(Tokens), NEW t \in LabelSets(Tokens),
         \A i \in DOMAIN s : s[i].value # <<>>, \A i \in DOMAIN t : t[i].value # <<>>,
         \A name : Get(s, name) = Get(t, name)
  PROVE  Range(s) = Range(t)
<1>1. ASSUME NEW u \in LabelSets(Tokens), NEW v \in LabelSets(Tokens),
             \A i \in DOMAIN u : u[i].value # <<>>, \A name : Get(u, name) = Get(v, name)
      PROVE  Range(u) \subseteq Range(v)
  <2>1. /\ u \in Seq(Labels(Tokens)) /\ DOMAIN u = 1 .. Len(u)
        /\ v \in Seq(Labels(Tokens)) /\ DOMAIN v = 1 .. Len(v)
    BY DEF LabelSets
  <2> SUFFICES ASSUME NEW i \in 1 .. Len(u) PROVE \E j \in DOMAIN v : v[j] = u[i]
    BY <2>1 DEF Range
  <2>2. Get(u, u[i].name) = u[i].value /\ u[i].value # <<>>
    BY <1>1, <2>1, GetOfLabel
  <2>3. Get(v, u[i].name) = u[i].value
    BY <1>1, <2>2
  <2>4. u[i].name \in LabelNames(v)
    BY <2>1, <2>2, <2>3, GetOfNone
  <2>5. u[i] \in Labels(Tokens)
    BY <2>1
  <2> QED
    BY <2>1, <2>3, <2>4, <2>5, LabelsOfSet
<1> QED
  BY <1>1

-----------------------------------------------------------------------------
\* The report series have names of their own.
LEMMA ReportNamesDiffer ==
  /\ DOMAIN ReportNames = 1 .. 5
  /\ \A i, j \in 1 .. 5 : ReportNames[i] = ReportNames[j] => i = j
<1>1. DOMAIN ReportNames = 1 .. 5 /\ 1 .. 5 = {1, 2, 3, 4, 5}
  BY DEF ReportNames
<1>2. \A i, j \in {1, 2, 3, 4, 5} : ReportNames[i] = ReportNames[j] => i = j
  BY DEF ReportNames
<1> QED
  BY <1>1, <1>2

\* Two sequences without repetition, of which no element of the one is in the other,
\* are one without repetition.
LEMMA JoinedInjective ==
  ASSUME NEW S, NEW s \in Seq(S), NEW t \in Seq(S),
         \A i, j \in 1 .. Len(s) : s[i] = s[j] => i = j,
         \A i, j \in 1 .. Len(t) : t[i] = t[j] => i = j,
         \A i \in 1 .. Len(s), j \in 1 .. Len(t) : s[i] # t[j]
  PROVE  IsInjective(s \o t)
<1> DEFINE u == s \o t
           m == Len(s)
           n == Len(t)
<1>1. /\ m \in Nat /\ n \in Nat /\ u \in Seq(S) /\ Len(u) = m + n
      /\ \A i \in 1 .. m : u[i] = s[i]
      /\ \A i \in 1 .. n : u[m + i] = t[i]
  BY Joined
<1> HIDE DEF u, m, n
<1>2. DOMAIN u = 1 .. m + n
  BY <1>1
<1>3. \A k \in 1 .. m + n :
        \/ k \in 1 .. m /\ u[k] = s[k]
        \/ k - m \in 1 .. n /\ u[k] = t[k - m]
  <2> TAKE k \in 1 .. m + n
  <2>1. CASE k <= m
    BY <1>1, <2>1
  <2>2. CASE k > m
    <3>1. k - m \in 1 .. n /\ m + (k - m) = k
      BY <1>1, <2>2
    <3> QED
      BY <1>1, <3>1
  <2> QED
    BY <1>1, <2>1, <2>2
<1>4. ASSUME NEW i \in 1 .. m + n, NEW j \in 1 .. m + n, u[i] = u[j]
      PROVE  i = j
  <2>1. CASE i \in 1 .. m /\ j \in 1 .. m /\ u[i] = s[i] /\ u[j] = s[j]
    BY <1>4, <2>1 DEF m
  <2>2. CASE i - m \in 1 .. n /\ j - m \in 1 .. n /\ u[i] = t[i - m] /\ u[j] = t[j - m]
    <3>1. i - m = j - m
      BY <1>4, <2>2 DEF n
    <3> QED
      BY <1>1, <3>1
  <2>3. CASE i \in 1 .. m /\ u[i] = s[i] /\ j - m \in 1 .. n /\ u[j] = t[j - m]
    BY <1>4, <2>3 DEF m, n
  <2>4. CASE j \in 1 .. m /\ u[j] = s[j] /\ i - m \in 1 .. n /\ u[i] = t[i - m]
    BY <1>4, <2>4 DEF m, n
  <2> QED
    BY <1>3, <2>1, <2>2, <2>3, <2>4
<1> QED
  BY <1>2, <1>4 DEF IsInjective, u

\* s is a function on the numbers up to n.
Numbered(s, n) == s = [i \in 1 .. n |-> s[i]]

\* It is a sequence of that length.
LEMMA NumberedIsSeq ==
  ASSUME NEW S, NEW n \in Nat, NEW f, Numbered(f, n), \A i \in 1 .. n : f[i] \in S
  PROVE  f \in Seq(S) /\ Len(f) = n /\ DOMAIN f = 1 .. n /\ <<>> \o f = f
<1>1. f \in [1 .. n -> S]
  BY DEF Numbered
<1>2. f \in Seq(S) /\ Len(f) = n
  BY <1>1
<1> QED
  BY <1>2

\* The five report series are one.
LEMMA FiveAreSeq ==
  ASSUME NEW S, NEW f, Numbered(f, 5), \A i \in 1 .. 5 : f[i] \in S
  PROVE  f \in Seq(S) /\ Len(f) = 5 /\ DOMAIN f = 1 .. 5 /\ <<>> \o f = f
<1> DEFINE n == 5
<1>1. n \in Nat /\ Numbered(f, n) /\ \A i \in 1 .. n : f[i] \in S
  OBVIOUS
<1> HIDE DEF n
<1>2. f \in Seq(S) /\ Len(f) = n /\ DOMAIN f = 1 .. n /\ <<>> \o f = f
  BY <1>1, NumberedIsSeq, Zenon
<1> QED
  BY <1>2 DEF n

\* The tokens of which the names the scrape loop adds are made.
Spelled(Tokens) ==
  {"exported_", "__", "name"} \cup Range(ReportNames) \subseteq Tokens

\* The labels of one series tell what it said.
Tells(labels, raw, target, job) ==
  \A name : Get(raw, name) = Recovered(labels, name, target, job)

\* Those it is sent with do.
LEMMA SentTells ==
  ASSUME NEW Tokens, "exported_" \in Tokens, Dropped \notin LabelSets(Tokens),
         NEW raw \in LabelSets(Tokens), NEW target, target.labels \in LabelSets(Tokens),
         NEW job, PlainJob(job, Tokens), Uncontested(raw, target, job)
  PROVE  /\ Finalize(raw, target, job) \in LabelSets(Tokens)
         /\ Tells(Finalize(raw, target, job), raw, target, job)
<1>1. /\ Finalize(raw, target, job) \in LabelSets(Tokens)
      /\ \A name : Get(raw, name) = Recovered(Finalize(raw, target, job), name, target, job)
  BY RawIsRecovered, ZenonT(60)
<1> QED
  BY <1>1, Zenon DEF Tells

\* One label set is not that of two series.
LEMMA TellsOne ==
  ASSUME NEW Tokens, NEW a \in LabelSets(Tokens), NEW b \in LabelSets(Tokens),
         \A k \in DOMAIN a : a[k].value # <<>>, \A k \in DOMAIN b : b[k].value # <<>>,
         NEW labels, NEW target, NEW job,
         Tells(labels, a, target, job), Tells(labels, b, target, job)
  PROVE  Range(a) = Range(b)
<1>1. \A name : Get(a, name) = Get(b, name)
  BY Zenon DEF Tells
<1> QED
  BY <1>1, SameLabels

\* The report series are five, and each has a name of its own.
Separate(report) ==
  /\ Numbered(report, 5)
  /\ \A i, j \in 1 .. 5 : report[i] = report[j] => i = j
  /\ \A i \in 1 .. 5 : \E name \in Range(ReportNames) :
       Get(report[i], MetricName) = <<name>>

\* The report series are five, told apart by their names, whatever the target.
LEMMA ReportsDiffer ==
  ASSUME NEW Tokens, Spelled(Tokens),
         NEW target, NEW job, target.labels \in LabelSets(Tokens),
         job.external \in Seq(Labels(Tokens)), Nameless(target, job)
  PROVE  Separate(Report(target, job))
<1> DEFINE report == Report(target, job)
<1>1. /\ DOMAIN ReportNames = 1 .. 5
      /\ \A i, j \in 1 .. 5 : ReportNames[i] = ReportNames[j] => i = j
  BY ReportNamesDiffer
<1>2. Numbered(report, 5)
  BY <1>1 DEF Report, Numbered
<1>3. ASSUME NEW i \in 1 .. 5
      PROVE  Get(report[i], MetricName) = <<ReportNames[i]>> /\ ReportNames[i] \in Range(ReportNames)
  <2>1. i \in DOMAIN ReportNames /\ ReportNames[i] \in Range(ReportNames)
    BY <1>1 DEF Range
  <2>2. ReportNames[i] \in Tokens /\ "__" \in Tokens /\ "name" \in Tokens
    BY <2>1 DEF Spelled
  <2>3. <<ReportNames[i]>> \in Seq(Tokens) /\ MetricName \in Seq(Tokens)
    BY <2>2 DEF MetricName
  <2>4. Get(Report(target, job)[i], MetricName) = <<ReportNames[i]>>
    BY <2>1, <2>3, ReportSays, Zenon
  <2> QED
    BY <2>1, <2>4
<1> HIDE DEF report
<1>4. \A i, j \in 1 .. 5 : report[i] = report[j] => i = j
  <2>1. \A i, j \in 1 .. 5 : report[i] = report[j] => <<ReportNames[i]>> = <<ReportNames[j]>>
    BY <1>3
  <2> QED
    BY <1>1, <2>1
<1>5. \A i \in 1 .. 5 : \E name \in Range(ReportNames) : Get(report[i], MetricName) = <<name>>
  BY <1>3, Zenon
<1> QED
  BY <1>2, <1>4, <1>5, Zenon DEF report, Separate

\* Both label sets have one name.
SameName(raw, labels) == Get(raw, MetricName) = Get(labels, MetricName)

\* The name of a series is told from its labels.
LEMMA NameIsTold ==
  ASSUME NEW Tokens, Spelled(Tokens),
         NEW target, NEW job, target.labels \in LabelSets(Tokens), Nameless(target, job),
         NEW raw, NEW labels, Tells(labels, raw, target, job)
  PROVE  SameName(raw, labels)
<1>1. MetricName \notin LabelNames(target.labels) /\ MetricName \notin LabelNames(job.external)
  BY DEF Nameless
<1>2. \A name \in LabelNames(target.labels) : Exported(name) # MetricName
  <2>0. target.labels \in Seq(Labels(Tokens))
    BY DEF LabelSets
  <2>1. \A k \in DOMAIN target.labels : target.labels[k].name \in Seq(Tokens)
    <3> TAKE k \in DOMAIN target.labels
    <3>1. target.labels[k] \in Labels(Tokens)
      BY <2>0
    <3> QED
      BY <3>1 DEF Labels
  <2> QED
    BY <2>1, ExportedDiffer DEF LabelNames, Spelled
<1>3. MetricName \notin Contested(target, job)
  BY <1>1, <1>2 DEF Contested
<1>4. Get(raw, MetricName) = Recovered(labels, MetricName, target, job)
  BY Zenon DEF Tells
<1> QED
  BY <1>1, <1>3, <1>4 DEF Recovered, SameName

\* What is kept of the series of a scrape is no more than they are, and all of them
\* when none is dropped.
LEMMA KeptOfAll ==
  ASSUME NEW n \in Nat, NEW all, Numbered(all, n)
  PROVE  /\ all \in Seq({all[i] : i \in 1 .. n}) /\ Len(all) = n
         /\ Len(Retain(all, LAMBDA labels : labels # Dropped)) <= n
         /\ (\A i \in 1 .. n : all[i] # Dropped) =>
              Retain(all, LAMBDA labels : labels # Dropped) = all
<1> DEFINE every == {all[i] : i \in 1 .. n}
           positions == {i \in DOMAIN all : all[i] # Dropped}
           kept == Retain(all, LAMBDA labels : labels # Dropped)
<1>1. \A i \in 1 .. n : all[i] \in every
  OBVIOUS
<1>2. kept = Pick(all, positions)
  BY DEF Retain
<1> HIDE DEF every, kept
<1>4. all \in Seq(every) /\ Len(all) = n /\ DOMAIN all = 1 .. n
  BY <1>1, NumberedIsSeq
<1>5. (\A i \in 1 .. n : all[i] # Dropped) => 1 .. n \subseteq positions
  BY <1>4
<1> HIDE DEF positions
<1>6. Len(kept) <= n /\ (1 .. n \subseteq positions => kept = all)
  BY <1>2, <1>4, PickElements
<1> QED
  BY <1>4, <1>5, <1>6 DEF every, kept

\* n series of which no two have the same labels, none has a label claimed twice or
\* without a value, and none the name of a report.
Scraped(scraped, n, target, job, Tokens) ==
  /\ \A i \in 1 .. n : scraped[i] \in LabelSets(Tokens)
  /\ \A i, j \in 1 .. n : Range(scraped[i]) = Range(scraped[j]) => i = j
  /\ \A i \in 1 .. n : Uncontested(scraped[i], target, job)
  /\ \A i \in 1 .. n : \A k \in DOMAIN scraped[i] : scraped[i][k].value # <<>>
  /\ \A i \in 1 .. n : \A name \in Range(ReportNames) :
       Get(scraped[i], MetricName) # <<name>>

\* Each as the scrape loop sends it.
SentAs(all, scraped, n, target, job) ==
  /\ Numbered(all, n)
  /\ \A i \in 1 .. n : all[i] = Finalize(scraped[i], target, job)

\* None of them is lost, and all differ from each other and from the reports.
SentApart(all, n, target, job) ==
  /\ \A i \in 1 .. n : all[i] # Dropped
  /\ IsInjective(all \o Report(target, job))

\* No series of a scrape without metric_relabel_configs is dropped or comes to the
\* labels of another or of a report.
LEMMA SentDiffer ==
  ASSUME NEW Tokens, Spelled(Tokens),
         Dropped \notin LabelSets(Tokens),
         NEW target, NEW job, target.labels \in LabelSets(Tokens), PlainJob(job, Tokens),
         Nameless(target, job),
         NEW n \in Nat, NEW scraped, Scraped(scraped, n, target, job, Tokens),
         NEW all, SentAs(all, scraped, n, target, job)
  PROVE  SentApart(all, n, target, job)
<1> DEFINE report == Report(target, job)
           S == {all[i] : i \in 1 .. n} \cup {report[i] : i \in 1 .. 5}
<1>1. ASSUME NEW i \in 1 .. n
      PROVE  all[i] \in LabelSets(Tokens) /\ Tells(all[i], scraped[i], target, job)
  <2>1. all[i] = Finalize(scraped[i], target, job) /\ scraped[i] \in LabelSets(Tokens)
    BY DEF SentAs, Scraped
  <2>2. "exported_" \in Tokens /\ Uncontested(scraped[i], target, job)
    BY DEF Spelled, Scraped
  <2>3. /\ Finalize(scraped[i], target, job) \in LabelSets(Tokens)
        /\ Tells(Finalize(scraped[i], target, job), scraped[i], target, job)
    BY <2>1, <2>2, SentTells, Zenon
  <2> QED
    BY <2>1, <2>3, Zenon
<1>2. ASSUME NEW i \in 1 .. n, NEW j \in 1 .. n, all[i] = all[j]
      PROVE  i = j
  <2>1. /\ Tells(all[i], scraped[i], target, job) /\ Tells(all[i], scraped[j], target, job)
        /\ scraped[i] \in LabelSets(Tokens) /\ scraped[j] \in LabelSets(Tokens)
    BY <1>1, <1>2 DEF Scraped
  <2>2. /\ \A k \in DOMAIN scraped[i] : scraped[i][k].value # <<>>
        /\ \A k \in DOMAIN scraped[j] : scraped[j][k].value # <<>>
    BY DEF Scraped
  <2>3. Range(scraped[i]) = Range(scraped[j])
    BY <2>1, <2>2, TellsOne, Zenon
  <2> QED
    BY <2>3 DEF Scraped
<1>3. job.external \in Seq(Labels(Tokens))
  BY DEF PlainJob
<1>4. Separate(report)
  BY <1>3, ReportsDiffer, Zenon
<1> HIDE DEF report
<1>5. ASSUME NEW i \in 1 .. n, NEW j \in 1 .. 5
      PROVE  all[i] # report[j]
  <2>1. Tells(all[i], scraped[i], target, job)
    BY <1>1
  <2>2. Get(scraped[i], MetricName) = Get(all[i], MetricName)
    <3>1. SameName(scraped[i], all[i])
      BY <2>1, NameIsTold, Zenon
    <3> QED
      BY <3>1 DEF SameName
  <2>3. \A name \in Range(ReportNames) : Get(scraped[i], MetricName) # <<name>>
    BY DEF Scraped
  <2>4. \E name \in Range(ReportNames) : Get(report[j], MetricName) = <<name>>
    BY <1>4, Zenon DEF Separate
  <2> QED
    BY <2>2, <2>3, <2>4, Zenon
<1>6. \A i \in 1 .. n : all[i] # Dropped
  BY <1>1
<1>7. all \in Seq(S) /\ Len(all) = n
  <2>1. \A i \in 1 .. n : all[i] \in S
    OBVIOUS
  <2> HIDE DEF S
  <2> QED
    BY <2>1, NumberedIsSeq, Zenon DEF SentAs
<1>8. report \in Seq(S) /\ Len(report) = 5
  <2>1. \A i \in 1 .. 5 : report[i] \in S
    OBVIOUS
  <2> HIDE DEF S
  <2> QED
    BY <1>4, <2>1, FiveAreSeq, Zenon DEF Separate
<1> HIDE DEF S
<1>9. IsInjective(all \o report)
  <2>1. \A i, j \in 1 .. Len(all) : all[i] = all[j] => i = j
    BY <1>2, <1>7
  <2>2. \A i, j \in 1 .. Len(report) : report[i] = report[j] => i = j
    BY <1>4, <1>8 DEF Separate
  <2>3. \A i \in 1 .. Len(all), j \in 1 .. Len(report) : all[i] # report[j]
    BY <1>5, <1>7, <1>8
  <2> QED
    BY <1>7, <1>8, <2>1, <2>2, <2>3, JoinedInjective, Zenon
<1> QED
  BY <1>6, <1>9 DEF report, SentApart

\* Conditions under which no label of a series is claimed twice, of one of them.
LEMMA UncontestedEach ==
  ASSUME NEW raw, NEW target, NEW job,
         {Exported(l.name) : l \in Range(target.labels)}
           \cap (LabelNames(target.labels) \cup LabelNames(job.external)) = {},
         LabelNames(raw) \cap Contested(target, job) = {}
  PROVE  Uncontested(raw, target, job)
<1>1. \A name \in LabelNames(target.labels) : \E l \in Range(target.labels) : l.name = name
  BY DEF LabelNames, Range
<1>2. \A name \in LabelNames(target.labels) :
        Exported(name) \notin LabelNames(target.labels) \cup LabelNames(job.external)
  BY <1>1
<1> QED
  BY <1>2 DEF Uncontested

\* A batch has one sample of each series (scrape_once): for any series of which no two
\* have the same labels, any target and any labels of the agent, over or within the
\* limit, and whether or not the scrape failed.
THEOREM BatchHasEachOnce ==
  ASSUME NEW Tokens, {"exported_", "__", "name"} \cup Range(ReportNames) \subseteq Tokens,
         Dropped \notin LabelSets(Tokens),
         NEW scraped \in Seq(LabelSets(Tokens)) \cup {Unusable},
         scraped # Unusable =>
           \A i, j \in DOMAIN scraped : Range(scraped[i]) = Range(scraped[j]) => i = j,
         NEW target, target.labels \in TargetLabels(Tokens),
         NEW job, job.honor_labels \in BOOLEAN, job.external \in Seq(Labels(Tokens)),
         Nameless(target, job)
  PROVE  BatchOfSeries(scraped, target, job)
<1> DEFINE failed == scraped = Unusable
           over == ~failed /\ job.sample_limit > 0 /\ Len(scraped) > job.sample_limit
           all == [i \in DOMAIN scraped |-> Finalize(scraped[i], target, job)]
           kept == Retain(all, LAMBDA labels : labels # Dropped)
           batch == IF failed \/ over THEN <<>> ELSE kept
           report == Report(target, job)
           outcome == [up |-> ~failed /\ ~over, kept |-> Len(batch),
                       scraped |-> IF failed THEN 0 ELSE Len(scraped),
                       batch |-> batch, report |-> report,
                       retained |-> ~failed /\ ~over /\ job.track_staleness]
           reported == {<<name>> : name \in Range(ReportNames)}
           apart == {Exported(l.name) : l \in Range(target.labels)}
                      \cap (LabelNames(target.labels) \cup LabelNames(job.external)) = {}
           uncontested ==
             /\ apart
             /\ \A i \in DOMAIN scraped :
                  /\ LabelNames(scraped[i]) \cap Contested(target, job) = {}
                  /\ Get(scraped[i], MetricName) \notin reported
                  /\ \A label \in Range(scraped[i]) : label.value # <<>>
<1>1. SUFFICES
        /\ Len(report) = 5 /\ outcome.kept <= outcome.scraped
        /\ ~outcome.up => outcome.batch = <<>> /\ ~outcome.retained
        /\ scraped # Unusable /\ job.metric_relabel_configs = <<>> /\ uncontested =>
             IsInjective(batch \o report)
  BY DEF BatchOfSeries, ScrapeOnce
<1>2. ~outcome.up => outcome.batch = <<>> /\ ~outcome.retained
  OBVIOUS
<1>3. outcome.kept = Len(batch) /\ outcome.scraped = IF failed THEN 0 ELSE Len(scraped)
  OBVIOUS
<1> HIDE DEF outcome
<1>4. target.labels \in LabelSets(Tokens)
  BY DEF TargetLabels
<1>5. Spelled(Tokens)
  BY DEF Spelled
<1>6. Separate(report)
  BY <1>4, <1>5, ReportsDiffer, Zenon
<1> HIDE DEF report
<1>12. Len(report) = 5 /\ DOMAIN report = 1 .. 5 /\ <<>> \o report = report
  <2> DEFINE S == {report[i] : i \in 1 .. 5}
  <2>1. \A i \in 1 .. 5 : report[i] \in S
    OBVIOUS
  <2> HIDE DEF S
  <2> QED
    BY <1>6, <2>1, FiveAreSeq, Zenon DEF Separate
<1>7. ASSUME ~failed
      PROVE  /\ Len(scraped) \in Nat /\ DOMAIN scraped = 1 .. Len(scraped)
             /\ scraped \in [1 .. Len(scraped) -> LabelSets(Tokens)]
             /\ all = [i \in 1 .. Len(scraped) |-> Finalize(scraped[i], target, job)]
             /\ Numbered(all, Len(scraped))
  <2>1. scraped \in Seq(LabelSets(Tokens))
    BY <1>7
  <2> QED
    BY <2>1 DEF Numbered
<1> HIDE DEF all
<1>8. ASSUME ~failed
      PROVE  /\ Len(kept) <= Len(scraped)
             /\ (\A i \in 1 .. Len(scraped) : all[i] # Dropped) => kept = all
  <2> DEFINE n == Len(scraped)
  <2>1. n \in Nat /\ Numbered(all, n)
    BY <1>7, <1>8
  <2> HIDE DEF n
  <2>2. /\ Len(kept) <= n
        /\ (\A i \in 1 .. n : all[i] # Dropped) => kept = all
    BY <2>1, KeptOfAll
  <2> QED
    BY <2>2 DEF n
<1> HIDE DEF kept
<1>9. outcome.kept <= outcome.scraped
  <2>1. CASE failed \/ over
    <3>1. Len(batch) = 0
      BY <2>1
    <3> HIDE DEF batch, over
    <3> QED
      BY <1>3, <1>7, <3>1
  <2>2. CASE ~failed /\ ~over
    <3>1. batch = kept
      BY <2>2
    <3> HIDE DEF batch, over
    <3> QED
      BY <1>3, <1>8, <2>2, <3>1
  <2> QED
    BY <2>1, <2>2
<1>10. ASSUME ~failed, job.metric_relabel_configs = <<>>, uncontested
       PROVE  /\ \A i \in 1 .. Len(scraped) : all[i] # Dropped
              /\ IsInjective(all \o report)
  <2> DEFINE n == Len(scraped)
  <2>1. /\ n \in Nat /\ DOMAIN scraped = 1 .. n /\ scraped \in [1 .. n -> LabelSets(Tokens)]
        /\ all = [i \in 1 .. n |-> Finalize(scraped[i], target, job)] /\ Numbered(all, n)
    BY <1>7, <1>10
  <2>2. PlainJob(job, Tokens)
    BY <1>10 DEF PlainJob
  <2>3. \A i, j \in DOMAIN scraped : Range(scraped[i]) = Range(scraped[j]) => i = j
    BY <1>10
  <2>4. \A i \in DOMAIN scraped :
          /\ LabelNames(scraped[i]) \cap Contested(target, job) = {}
          /\ Get(scraped[i], MetricName) \notin reported
          /\ \A label \in Range(scraped[i]) : label.value # <<>>
    BY <1>10
  <2>5. {Exported(l.name) : l \in Range(target.labels)}
          \cap (LabelNames(target.labels) \cup LabelNames(job.external)) = {}
    BY <1>10
  <2> HIDE DEF uncontested, n, reported
  <2>6. \A i \in 1 .. n : Uncontested(scraped[i], target, job)
    <3> TAKE i \in 1 .. n
    <3>1. LabelNames(scraped[i]) \cap Contested(target, job) = {}
      BY <2>1, <2>4
    <3> QED
      BY <2>5, <3>1, UncontestedEach, Zenon
  <2>7. \A i \in 1 .. n : \A k \in DOMAIN scraped[i] : scraped[i][k].value # <<>>
    BY <2>1, <2>4 DEF Range
  <2>8. \A i \in 1 .. n : \A name \in Range(ReportNames) :
          Get(scraped[i], MetricName) # <<name>>
    BY <2>1, <2>4 DEF reported
  <2>9. \A i, j \in 1 .. n : Range(scraped[i]) = Range(scraped[j]) => i = j
    BY <2>1, <2>3, Zenon
  <2>10. /\ \A i \in 1 .. n : scraped[i] \in LabelSets(Tokens)
         /\ \A i \in 1 .. n : all[i] = Finalize(scraped[i], target, job)
    BY <2>1
  <2>11. Scraped(scraped, n, target, job, Tokens) /\ SentAs(all, scraped, n, target, job)
    BY <2>1, <2>6, <2>7, <2>8, <2>9, <2>10, Zenon DEF Scraped, SentAs
  <2>12. SentApart(all, n, target, job)
    BY <1>4, <1>5, <2>1, <2>2, <2>11, SentDiffer, Zenon
  <2> QED
    BY <2>12 DEF n, report, SentApart
<1>11. ASSUME ~failed, job.metric_relabel_configs = <<>>, uncontested
       PROVE  IsInjective(batch \o report)
  <2>1. CASE over
    <3>1. batch = <<>>
      BY <2>1
    <3> HIDE DEF batch
    <3> QED
      BY <1>6, <1>12, <3>1 DEF IsInjective, Separate
  <2>2. CASE ~over
    <3>1. batch = kept
      BY <1>11, <2>2
    <3> HIDE DEF batch, over, uncontested
    <3>2. kept = all /\ IsInjective(all \o report)
      BY <1>8, <1>10, <1>11
    <3> QED
      BY <3>1, <3>2
  <2> QED
    BY <2>1, <2>2
<1> QED
  BY <1>2, <1>9, <1>11, <1>12

-----------------------------------------------------------------------------
\* The words of labels: the name and the value of each.
WordsOf(labels) == FlattenSeq([i \in DOMAIN labels |-> <<labels[i].name, labels[i].value>>])

\* Where the words of a label are among those of all.
LEMMA WordsAre ==
  ASSUME NEW Tokens, NEW labels \in Seq(Labels(Tokens))
  PROVE  /\ WordsOf(labels) \in Seq(Seq(Tokens)) /\ Len(WordsOf(labels)) = 2 * Len(labels)
         /\ \A k \in 1 .. Len(labels) : /\ WordsOf(labels)[2 * k - 1] = labels[k].name
                                        /\ WordsOf(labels)[2 * k] = labels[k].value
<1> DEFINE n == Len(labels)
           pieces == [i \in 1 .. n |-> <<labels[i].name, labels[i].value>>]
<1>1. n \in Nat /\ DOMAIN labels = 1 .. n
  OBVIOUS
<1>2. WordsOf(labels) = FlattenSeq(pieces)
  BY <1>1 DEF WordsOf
<1>3. ASSUME NEW i \in 1 .. n
      PROVE  /\ pieces[i] \in Seq(Seq(Tokens)) /\ Len(pieces[i]) = 2
             /\ pieces[i][1] = labels[i].name /\ pieces[i][2] = labels[i].value
  <2>1. labels[i].name \in Seq(Tokens) /\ labels[i].value \in Seq(Tokens)
    <3>1. labels[i] \in Labels(Tokens)
      OBVIOUS
    <3> QED
      BY <3>1 DEF Labels
  <2>2. pieces[i] = <<labels[i].name, labels[i].value>>
    OBVIOUS
  <2> HIDE DEF pieces
  <2> QED
    BY <2>1, <2>2
<1>4. pieces \in [1 .. n -> Seq(Seq(Tokens))]
  BY <1>3
<1> HIDE DEF pieces, n
<1>5. PICK h \in [0 .. n -> Seq(Seq(Tokens))] :
        /\ h[0] = <<>>
        /\ \A i \in 1 .. n : h[i] = h[i - 1] \o pieces[i]
        /\ h[n] = FlattenSeq(pieces)
  <2> DEFINE Words == Seq(Tokens)
  <2>1. n \in Nat /\ pieces \in [1 .. n -> Seq(Words)]
    BY <1>1, <1>4
  <2> HIDE DEF Words
  <2>2. \E h \in [0 .. n -> Seq(Words)] :
          /\ h[0] = <<>>
          /\ \A i \in 1 .. n : h[i] = h[i - 1] \o pieces[i]
          /\ h[n] = FlattenSeq(pieces)
    BY <2>1, FlattenSteps
  <2> QED
    BY <2>2 DEF Words
<1> DEFINE Good(i) == /\ Len(h[i]) = 2 * i
                      /\ \A k \in 1 .. i : /\ h[i][2 * k - 1] = labels[k].name
                                           /\ h[i][2 * k] = labels[k].value
           Done == {i \in 0 .. n : Good(i)}
<1>6. 0 \in Done
  BY <1>1, <1>5
<1>7. ASSUME NEW i \in 1 .. n, i - 1 \in Done PROVE i \in Done
  <2> DEFINE a == h[i - 1]
             b == pieces[i]
  <2>1. /\ a \in Seq(Seq(Tokens)) /\ b \in Seq(Seq(Tokens)) /\ Len(b) = 2
        /\ b[1] = labels[i].name /\ b[2] = labels[i].value
    <3>1. i - 1 \in 0 .. n
      BY <1>1
    <3> QED
      BY <1>3, <1>5, <3>1
  <2>2. /\ Len(a) = 2 * (i - 1)
        /\ \A k \in 1 .. i - 1 : a[2 * k - 1] = labels[k].name /\ a[2 * k] = labels[k].value
    BY <1>7
  <2>3. h[i] = a \o b
    BY <1>5
  <2> HIDE DEF a, b
  <2>4. a \in Seq(Seq(Tokens)) /\ b \in Seq(Seq(Tokens))
    BY <2>1
  <2>5. /\ Len(a \o b) = Len(a) + Len(b)
        /\ \A k \in 1 .. Len(a) : (a \o b)[k] = a[k]
        /\ \A k \in 1 .. Len(b) : (a \o b)[Len(a) + k] = b[k]
    BY <2>4, Joined
  <2>6. Len(h[i]) = 2 * i
    BY <1>1, <2>1, <2>2, <2>3, <2>5
  <2>7. ASSUME NEW k \in 1 .. i
        PROVE  h[i][2 * k - 1] = labels[k].name /\ h[i][2 * k] = labels[k].value
    <3>1. CASE k = i
      <4>1. 2 * k - 1 = Len(a) + 1 /\ 2 * k = Len(a) + 2 /\ 1 \in 1 .. Len(b) /\ 2 \in 1 .. Len(b)
        BY <1>1, <2>1, <2>2, <3>1
      <4>2. h[i][Len(a) + 1] = b[1] /\ h[i][Len(a) + 2] = b[2]
        BY <2>3, <2>5, <4>1
      <4> QED
        BY <2>1, <3>1, <4>1, <4>2
    <3>2. CASE k # i
      <4>1. k \in 1 .. i - 1 /\ 2 * k - 1 \in 1 .. Len(a) /\ 2 * k \in 1 .. Len(a)
        BY <1>1, <2>2, <3>2
      <4> QED
        BY <2>2, <2>3, <2>5, <4>1
    <3> QED
      BY <3>1, <3>2
  <2>8. i \in 0 .. n
    BY <1>1
  <2> QED
    BY <2>6, <2>7, <2>8
<1> HIDE DEF Done
<1>8. 0 .. n \subseteq Done
  BY <1>1, <1>6, <1>7, BoundedInduction
<1>9. n \in 0 .. n
  BY <1>1
<1>10. h[n] \in Seq(Seq(Tokens)) /\ Good(n)
  BY <1>8, <1>9 DEF Done
<1> QED
  BY <1>2, <1>5, <1>10 DEF n

\* Labels with the same words are the same.
LEMMA WordsTellLabels ==
  ASSUME NEW Tokens, NEW s \in Seq(Labels(Tokens)), NEW t \in Seq(Labels(Tokens)),
         WordsOf(s) = WordsOf(t)
  PROVE  s = t
<1>1. /\ Len(WordsOf(s)) = 2 * Len(s)
      /\ \A k \in 1 .. Len(s) : /\ WordsOf(s)[2 * k - 1] = s[k].name
                                /\ WordsOf(s)[2 * k] = s[k].value
  BY WordsAre
<1>2. /\ Len(WordsOf(t)) = 2 * Len(t)
      /\ \A k \in 1 .. Len(t) : /\ WordsOf(t)[2 * k - 1] = t[k].name
                                /\ WordsOf(t)[2 * k] = t[k].value
  BY WordsAre
<1>3. Len(s) = Len(t)
  <2>1. Len(s) \in Nat /\ Len(t) \in Nat
    OBVIOUS
  <2> QED
    BY <1>1, <1>2, <2>1
<1>4. \A k \in 1 .. Len(s) : s[k] = t[k]
  <2> TAKE k \in 1 .. Len(s)
  <2>1. s[k] \in Labels(Tokens) /\ t[k] \in Labels(Tokens)
    BY <1>3
  <2>2. s[k].name = t[k].name /\ s[k].value = t[k].value
    BY <1>1, <1>2, <1>3
  <2>3. s[k] = Label(s[k].name, s[k].value) /\ t[k] = Label(t[k].name, t[k].value)
    BY <2>1 DEF Labels, Label
  <2> QED
    BY <2>2, <2>3
<1> QED
  BY <1>3, <1>4, SameElements

\* One element in front of a sequence.
LEMMA WithFirst ==
  ASSUME NEW S, NEW x \in S, NEW s \in Seq(S)
  PROVE  /\ <<x>> \o s \in Seq(S) /\ Len(<<x>> \o s) = 1 + Len(s)
         /\ (<<x>> \o s)[1] = x /\ \A i \in 1 .. Len(s) : (<<x>> \o s)[1 + i] = s[i]
<1> DEFINE one == <<x>>
<1>1. one \in Seq(S) /\ Len(one) = 1 /\ one[1] = x /\ 1 \in 1 .. 1
  OBVIOUS
<1> HIDE DEF one
<1>2. /\ one \o s \in Seq(S) /\ Len(one \o s) = Len(one) + Len(s)
      /\ \A i \in 1 .. Len(one) : (one \o s)[i] = one[i]
      /\ \A i \in 1 .. Len(s) : (one \o s)[Len(one) + i] = s[i]
  BY <1>1, Joined
<1>3. /\ one \o s \in Seq(S) /\ Len(one \o s) = 1 + Len(s)
      /\ (one \o s)[1] = x /\ \A i \in 1 .. Len(s) : (one \o s)[1 + i] = s[i]
  BY <1>1, <1>2
<1> QED
  BY <1>3 DEF one

\* Sequences that are the same behind one element each.
LEMMA SameBehindFirst ==
  ASSUME NEW S, NEW x \in S, NEW s \in Seq(S), NEW y \in S, NEW t \in Seq(S),
         <<x>> \o s = <<y>> \o t
  PROVE  x = y /\ s = t
<1> DEFINE u == <<x>> \o s
<1>1. /\ Len(u) = 1 + Len(s) /\ u[1] = x /\ \A i \in 1 .. Len(s) : u[1 + i] = s[i]
  BY WithFirst
<1>2. /\ Len(<<y>> \o t) = 1 + Len(t) /\ (<<y>> \o t)[1] = y
      /\ \A i \in 1 .. Len(t) : (<<y>> \o t)[1 + i] = t[i]
  BY WithFirst
<1>3. /\ Len(u) = 1 + Len(t) /\ u[1] = y /\ \A i \in 1 .. Len(t) : u[1 + i] = t[i]
  BY <1>2
<1> HIDE DEF u
<1>4. Len(s) \in Nat /\ Len(t) \in Nat
  OBVIOUS
<1>5. Len(s) = Len(t)
  BY <1>1, <1>3, <1>4
<1>6. \A i \in 1 .. Len(s) : s[i] = t[i]
  BY <1>1, <1>3, <1>5
<1> QED
  BY <1>1, <1>3, <1>5, <1>6, SameElements

\* Of two ways to divide a sequence in two, one takes its elements from the front part
\* where the other takes them from the rest, or they are one.
LEMMA Divided ==
  ASSUME NEW S, NEW p \in Seq(S), NEW l \in Seq(S), NEW q \in Seq(S), NEW k \in Seq(S),
         p \o l = q \o k
  PROVE  \/ p = q /\ l = k
         \/ \E i \in 1 .. Len(p), j \in 1 .. Len(k) : p[i] = k[j]
         \/ \E i \in 1 .. Len(q), j \in 1 .. Len(l) : q[i] = l[j]
<1> DEFINE u == p \o l
<1>1. /\ Len(p \o l) = Len(p) + Len(l)
      /\ \A i \in 1 .. Len(p) : (p \o l)[i] = p[i]
      /\ \A i \in 1 .. Len(l) : (p \o l)[Len(p) + i] = l[i]
  <2>1. ASSUME NEW a \in Seq(S), NEW b \in Seq(S)
        PROVE  /\ Len(a \o b) = Len(a) + Len(b)
               /\ \A i \in 1 .. Len(a) : (a \o b)[i] = a[i]
               /\ \A i \in 1 .. Len(b) : (a \o b)[Len(a) + i] = b[i]
    BY Joined
  <2> QED
    BY <2>1
<1>2. /\ Len(q \o k) = Len(q) + Len(k)
      /\ \A i \in 1 .. Len(q) : (q \o k)[i] = q[i]
      /\ \A i \in 1 .. Len(k) : (q \o k)[Len(q) + i] = k[i]
  BY Joined
<1>3. /\ Len(u) = Len(q) + Len(k)
      /\ \A i \in 1 .. Len(q) : u[i] = q[i]
      /\ \A i \in 1 .. Len(k) : u[Len(q) + i] = k[i]
  BY <1>2
<1> HIDE DEF u
<1>4. Len(p) \in Nat /\ Len(l) \in Nat /\ Len(q) \in Nat /\ Len(k) \in Nat
  OBVIOUS
<1>5. CASE Len(p) = Len(q)
  <2>1. Len(l) = Len(k)
    BY <1>1, <1>3, <1>4, <1>5
  <2>2. \A i \in 1 .. Len(p) : p[i] = q[i]
    BY <1>1, <1>3, <1>5
  <2>3. \A i \in 1 .. Len(l) : l[i] = k[i]
    BY <1>1, <1>3, <1>5, <2>1
  <2>4. p = q
    BY <1>5, <2>2, SameElements
  <2>5. l = k
    BY <2>1, <2>3, SameElements
  <2> QED
    BY <2>4, <2>5
<1>6. CASE Len(p) > Len(q)
  <2>1. Len(q) + 1 \in 1 .. Len(p) /\ 1 \in 1 .. Len(k)
    BY <1>1, <1>3, <1>4, <1>6
  <2>2. p[Len(q) + 1] = k[1]
    BY <1>1, <1>3, <2>1
  <2> QED
    BY <2>1, <2>2
<1>7. CASE Len(q) > Len(p)
  <2>1. Len(p) + 1 \in 1 .. Len(q) /\ 1 \in 1 .. Len(l)
    BY <1>1, <1>3, <1>4, <1>7
  <2>2. q[Len(p) + 1] = l[1]
    BY <1>1, <1>3, <2>1
  <2> QED
    BY <2>1, <2>2
<1> QED
  BY <1>4, <1>5, <1>6, <1>7

\* What build_targets makes: a URL, parameters and labels.
Targets(Tokens) ==
  [url : Seq(Tokens), params : Seq(Labels(Tokens)), labels : Seq(Labels(Tokens))]

\* Targets that a job takes for one (Target::identity) are one, but where a parameter of
\* the one may stand for a label of the other: for any parameters and labels.
THEOREM IdentitiesTell ==
  ASSUME NEW Tokens, NEW t \in Targets(Tokens), NEW u \in Targets(Tokens)
  PROVE  IdentityTellsApart(t, u)
<1> DEFINE p == t.params
           l == t.labels
           q == u.params
           k == u.labels
<1> SUFFICES ASSUME Identity(t) = Identity(u)
             PROVE  \/ t = u \/ LabelNames(p) \cap LabelNames(k) # {}
                    \/ LabelNames(q) \cap LabelNames(l) # {}
  BY DEF IdentityTellsApart
<1>1. /\ t = [url |-> t.url, params |-> p, labels |-> l]
      /\ u = [url |-> u.url, params |-> q, labels |-> k]
      /\ t.url \in Seq(Tokens) /\ u.url \in Seq(Tokens)
  BY DEF Targets
<1>2. /\ p \in Seq(Labels(Tokens)) /\ l \in Seq(Labels(Tokens))
      /\ q \in Seq(Labels(Tokens)) /\ k \in Seq(Labels(Tokens))
  BY DEF Targets
<1>3. <<t.url>> \o WordsOf(p \o l) = <<u.url>> \o WordsOf(q \o k)
  BY DEF Identity, WordsOf
<1> HIDE DEF p, l, q, k
<1>4. p \o l \in Seq(Labels(Tokens)) /\ q \o k \in Seq(Labels(Tokens))
  BY <1>2, Joined
<1>5. WordsOf(p \o l) \in Seq(Seq(Tokens)) /\ WordsOf(q \o k) \in Seq(Seq(Tokens))
  BY <1>4, WordsAre
<1>6. t.url = u.url /\ WordsOf(p \o l) = WordsOf(q \o k)
  <2> DEFINE v == WordsOf(p \o l)
             w == WordsOf(q \o k)
  <2>1. /\ <<t.url>> \o v = <<u.url>> \o w /\ v \in Seq(Seq(Tokens)) /\ w \in Seq(Seq(Tokens))
        /\ t.url \in Seq(Tokens) /\ u.url \in Seq(Tokens)
    BY <1>1, <1>3, <1>5
  <2> DEFINE x == t.url
             y == u.url
             Words == Seq(Tokens)
  <2>2. /\ <<x>> \o v = <<y>> \o w /\ v \in Seq(Words) /\ w \in Seq(Words)
        /\ x \in Words /\ y \in Words
    BY <2>1
  <2> HIDE DEF v, w, x, y, Words
  <2>3. x = y /\ v = w
    BY <2>2, SameBehindFirst, ZenonT(60)
  <2> QED
    BY <2>3 DEF v, w, x, y
<1>7. p \o l = q \o k
  BY <1>4, <1>6, WordsTellLabels
<1>8. \/ p = q /\ l = k
      \/ \E i \in 1 .. Len(p), j \in 1 .. Len(k) : p[i] = k[j]
      \/ \E i \in 1 .. Len(q), j \in 1 .. Len(l) : q[i] = l[j]
  BY <1>2, <1>7, Divided
<1>9. ASSUME NEW v \in Seq(Labels(Tokens)), NEW w \in Seq(Labels(Tokens)),
             NEW i \in 1 .. Len(v), NEW j \in 1 .. Len(w), v[i] = w[j]
      PROVE  LabelNames(v) \cap LabelNames(w) # {}
  <2>1. v[i].name \in LabelNames(v) /\ w[j].name \in LabelNames(w)
    BY DEF LabelNames
  <2> QED
    BY <1>9, <2>1
<1>10. CASE p = q /\ l = k
  BY <1>1, <1>6, <1>10
<1> QED
  BY <1>2, <1>8, <1>9, <1>10

-----------------------------------------------------------------------------
\* A label that discovery gives is written, but the address stays that of the group.
AddDiscovered(acc, label) ==
  IF label.name = AddressLabel THEN acc ELSE Set(acc, label.name, label.value)
Discovered(seed, group) == FoldLeft(LAMBDA acc, label : AddDiscovered(acc, label), seed, group)

\* Such a step leaves a label set.
LEMMA DiscoveredIsLabelSet ==
  ASSUME NEW Tokens, NEW set \in LabelSets(Tokens), NEW label \in Labels(Tokens)
  PROVE  AddDiscovered(set, label) \in LabelSets(Tokens)
<1>1. label.name \in Seq(Tokens) /\ label.value \in Seq(Tokens)
  BY DEF Labels
<1> QED
  BY <1>1, SetIsLabelSet DEF AddDiscovered

\* The labels of a group are written one by one.
LEMMA DiscoveredSteps ==
  ASSUME NEW Tokens, NEW seed \in LabelSets(Tokens), NEW group \in Seq(Labels(Tokens))
  PROVE  \E h \in [0 .. Len(group) -> LabelSets(Tokens)] :
           /\ h[0] = seed
           /\ \A i \in 1 .. Len(group) : h[i] = AddDiscovered(h[i - 1], group[i])
           /\ h[Len(group)] = Discovered(seed, group)
<1> DEFINE n == Len(group)
           LS == LabelSets(Tokens)
           Op(acc, x) == AddDiscovered(acc, x)
           Follows(f) == f = [s \in SUBSET (1 .. n) |->
                                IF s = {} THEN seed
                                ELSE Op(f[s \ {Max(s)}], group[Max(s)])]
           f == CHOOSE f : Follows(f)
           h == [i \in 0 .. n |-> f[1 .. i]]
<1>1. n \in Nat /\ DOMAIN group = 1 .. n /\ \A i \in 1 .. n : group[i] \in Labels(Tokens)
  OBVIOUS
<1>2. Discovered(seed, group) = f[1 .. n]
  BY <1>1 DEF Discovered, FoldLeft, MapThenFoldSet
<1> HIDE DEF n
<1>3. seed \in LS
  OBVIOUS
<1>4. ASSUME NEW acc \in LS, NEW i \in 1 .. n
      PROVE  Op(acc, group[i]) \in LS
  BY <1>1, DiscoveredIsLabelSet
<1> HIDE DEF LS, Op
<1>5. PICK g \in [SUBSET (1 .. n) -> LS] : Follows(g)
  <2> DEFINE step == [i \in 1 .. n |-> [acc \in LS |-> Op(acc, group[i])]]
  <2>1. step \in [1 .. n -> [LS -> LS]]
    BY <1>4
  <2> HIDE DEF step
  <2>2. PICK g \in [SUBSET (1 .. n) -> LS] : GoesBy(g, n, seed, step)
    <3> HIDE DEF f, h, Follows
    <3> QED
      BY <1>1, <1>3, <2>1, FoldIsDefined
  <2>3. ASSUME NEW s \in SUBSET (1 .. n)
        PROVE  g[s] = IF s = {} THEN seed ELSE Op(g[s \ {Max(s)}], group[Max(s)])
    <3>1. CASE s = {}
      BY <2>2, <3>1 DEF GoesBy
    <3>2. CASE s # {}
      <4>1. Max(s) \in s /\ g[s] = step[Max(s)][g[s \ {Max(s)}]]
        BY <2>2, <3>2 DEF GoesBy
      <4>2. g[s \ {Max(s)}] \in LS /\ Max(s) \in 1 .. n
        BY <4>1
      <4> QED
        BY <3>2, <4>1, <4>2 DEF step
    <3> QED
      BY <3>1, <3>2
  <2>4. g = [s \in SUBSET (1 .. n) |-> g[s]]
    OBVIOUS
  <2>5. Follows(g)
    BY <2>3, <2>4
  <2> HIDE DEF Follows
  <2> QED
    BY <2>5
<1>6. Follows(f)
  <2> HIDE DEF Follows
  <2> QED
    BY <1>5
<1> HIDE DEF f
<1>7. h[0] = seed
  <2>1. 1 .. 0 = {} /\ 0 \in 0 .. n /\ f[{}] = seed
    BY <1>1, <1>6
  <2> QED
    BY <2>1
<1>8. ASSUME NEW i \in 1 .. n
      PROVE  h[i] = Op(h[i - 1], group[i])
  <2>1. /\ 1 .. i \in SUBSET (1 .. n) /\ 1 .. i # {}
        /\ Max(1 .. i) = i /\ (1 .. i) \ {i} = 1 .. i - 1
    BY <1>1, UpTo
  <2>2. f[1 .. i] = Op(f[(1 .. i) \ {Max(1 .. i)}], group[Max(1 .. i)])
    BY <1>6, <2>1
  <2>3. i \in 0 .. n /\ i - 1 \in 0 .. n
    BY <1>1
  <2> QED
    BY <2>1, <2>2, <2>3
<1> HIDE DEF Follows
<1>9. h[n] = Discovered(seed, group)
  BY <1>1, <1>2
<1>10. \A i \in 0 .. n : h[i] \in LS
  <2> DEFINE Done == {i \in 0 .. n : h[i] \in LS}
  <2>1. 0 \in Done
    BY <1>1, <1>3, <1>7
  <2>2. \A i \in 1 .. n : i - 1 \in Done => i \in Done
    <3> HIDE DEF h
    <3> QED
      BY <1>1, <1>4, <1>8
  <2> HIDE DEF Done
  <2>3. 0 .. n \subseteq Done
    BY <1>1, <2>1, <2>2, BoundedInduction
  <2> QED
    BY <2>3 DEF Done
<1>11. h \in [0 .. n -> LS]
  BY <1>10
<1> HIDE DEF h
<1> QED
  BY <1>7, <1>8, <1>9, <1>11 DEF n, LS, Op

\* The jobs a target is built for: texts, parameters and rules that are valid.
BuildJob(job, Tokens) ==
  /\ job.name \in Seq(Tokens) /\ job.scheme \in Seq(Tokens) /\ job.path \in Seq(Tokens)
  /\ job.params \in Seq(Labels(Tokens)) /\ job.relabel_configs \in Seq(ValidRules(Tokens))

\* The tokens that building a target writes.
BuildTokens ==
  {"__", "address", "scheme", "metrics_path", "param_", "job", "instance", "://", "/"}

\* The names that building a target writes are texts.
LEMMA BuildNames ==
  ASSUME NEW Tokens, BuildTokens \subseteq Tokens
  PROVE  {AddressLabel, SchemeLabel, PathLabel, ParamPrefix, JobLabel, InstanceLabel, <<"://">>, <<"/">>}
           \subseteq Seq(Tokens)
<1>1. {"__", "address", "scheme", "metrics_path", "param_", "job", "instance", "://", "/"} \subseteq Tokens
  BY DEF BuildTokens
<1> QED
  BY <1>1 DEF AddressLabel, SchemeLabel, PathLabel, ParamPrefix, JobLabel, InstanceLabel

\* The labels before relabelling are a label set.
LEMMA SeedIsLabelSet ==
  ASSUME NEW Tokens, BuildTokens \subseteq Tokens, NEW address \in Seq(Tokens),
         NEW group \in Seq(Labels(Tokens)), NEW job, BuildJob(job, Tokens)
  PROVE  SeedLabels(address, group, job) \in LabelSets(Tokens)
<1> DEFINE seed == <<Label(AddressLabel, address)>>
           own == <<Label(JobLabel, job.name), Label(SchemeLabel, job.scheme),
                    Label(PathLabel, job.path)>>
           params == [i \in DOMAIN job.params |->
                        Label(ParamPrefix \o job.params[i].name, job.params[i].value)]
<1>1. SeedLabels(address, group, job) = AddAllIfAbsent(Discovered(seed, group), own \o params)
  BY DEF SeedLabels, Discovered, AddDiscovered
<1>2. /\ AddressLabel \in Seq(Tokens) /\ SchemeLabel \in Seq(Tokens) /\ PathLabel \in Seq(Tokens)
      /\ ParamPrefix \in Seq(Tokens) /\ JobLabel \in Seq(Tokens)
  BY BuildNames
<1>3. seed \in LabelSets(Tokens)
  <2>1. Label(AddressLabel, address) \in Labels(Tokens)
    BY <1>2 DEF Label, Labels
  <2>2. seed \in Seq(Labels(Tokens)) /\ DOMAIN seed = {1}
    BY <2>1
  <2> HIDE DEF seed
  <2> QED
    BY <2>2 DEF LabelSets, NamesUnique
<1>4. own \in Seq(Labels(Tokens))
  <2>1. /\ Label(JobLabel, job.name) \in Labels(Tokens)
        /\ Label(SchemeLabel, job.scheme) \in Labels(Tokens)
        /\ Label(PathLabel, job.path) \in Labels(Tokens)
    BY <1>2 DEF BuildJob, Label, Labels
  <2> QED
    BY <2>1
<1>5. params \in Seq(Labels(Tokens))
  <2> DEFINE given == job.params
  <2>1. given \in Seq(Labels(Tokens))
    BY DEF BuildJob
  <2> HIDE DEF given
  <2> DEFINE made == [i \in DOMAIN given |-> Label(ParamPrefix \o given[i].name, given[i].value)]
  <2>2. DOMAIN given = 1 .. Len(given) /\ Len(given) \in Nat
    BY <2>1
  <2>3. ASSUME NEW i \in 1 .. Len(given)
        PROVE  Label(ParamPrefix \o given[i].name, given[i].value) \in Labels(Tokens)
    <3>0. given[i] \in Labels(Tokens)
      BY <2>1
    <3>1. given[i].name \in Seq(Tokens) /\ given[i].value \in Seq(Tokens)
      BY <3>0 DEF Labels
    <3>2. ParamPrefix \o given[i].name \in Seq(Tokens)
      BY <1>2, <3>1
    <3> QED
      BY <3>1, <3>2 DEF Label, Labels
  <2>4. made \in [1 .. Len(given) -> Labels(Tokens)]
    BY <2>2, <2>3
  <2> HIDE DEF made
  <2>5. made \in Seq(Labels(Tokens))
    BY <2>2, <2>4
  <2> QED
    BY <2>5 DEF made, given
<1> HIDE DEF seed, own, params
<1>6. own \o params \in Seq(Labels(Tokens))
  BY <1>4, <1>5
<1>7. Discovered(seed, group) \in LabelSets(Tokens)
  <2>1. PICK h \in [0 .. Len(group) -> LabelSets(Tokens)] : h[Len(group)] = Discovered(seed, group)
    BY <1>3, DiscoveredSteps
  <2>2. Len(group) \in 0 .. Len(group)
    OBVIOUS
  <2> QED
    BY <2>1, <2>2
<1>8. AddAllIfAbsent(Discovered(seed, group), own \o params) \in LabelSets(Tokens)
  BY <1>6, <1>7, AddSays
<1> QED
  BY <1>1, <1>8

\* A processed label set has a value for each of its names.
LEMMA ProcessLeavesValues ==
  ASSUME NEW Tokens, NEW labels \in LabelSets(Tokens), NEW rules \in Seq(ValidRules(Tokens)),
         TextsAreClosed(Tokens)
  PROVE  Process(labels, rules) = Dropped \/ Process(labels, rules) \in TargetLabels(Tokens)
<1>1. PICK h \in [0 .. Len(rules) -> Left(Tokens)] : Processes(h, labels, rules)
  BY ProcessSteps
<1> DEFINE set == h[Len(rules)]
           positions == {i \in DOMAIN set : set[i].value # <<>>}
<1>2. Process(labels, rules) = Finish(set)
  BY <1>1 DEF Processes
<1>3. set \in Left(Tokens)
  <2>1. Len(rules) \in 0 .. Len(rules)
    OBVIOUS
  <2> QED
    BY <2>1
<1> HIDE DEF set
<1>4. CASE set = Dropped
  BY <1>2, <1>4 DEF Finish
<1>5. CASE set # Dropped
  <2>1. set \in LabelSets(Tokens) /\ set \in Seq(Labels(Tokens))
    BY <1>3, <1>5 DEF Left, LabelSets
  <2>2. Finish(set) = Pick(set, positions)
    BY <1>5 DEF Finish, Retain
  <2>3. \A i \in positions : set[i].value # <<>>
    OBVIOUS
  <2> HIDE DEF positions
  <2>4. Pick(set, positions) \in LabelSets(Tokens)
    BY <2>1, PickIsLabelSet
  <2>5. \A k \in 1 .. Len(Pick(set, positions)) :
          \E i \in 1 .. Len(set) : i \in positions /\ Pick(set, positions)[k] = set[i]
    <3>1. set \in Seq(Labels(Tokens))
      BY <2>1
    <3> QED
      BY <3>1, PickElements
  <2> DEFINE u == Pick(set, positions)
  <2>6. u \in LabelSets(Tokens) /\ \A k \in 1 .. Len(u) : u[k].value # <<>>
    BY <2>3, <2>4, <2>5
  <2> HIDE DEF u
  <2>7. DOMAIN u = 1 .. Len(u)
    BY <2>6 DEF LabelSets
  <2>8. u \in TargetLabels(Tokens)
    BY <2>6, <2>7 DEF TargetLabels
  <2> QED
    BY <1>2, <2>2, <2>8 DEF u
<1> QED
  BY <1>4, <1>5

\* The parameters of a target are labels.
LEMMA ParamsTyped ==
  ASSUME NEW Tokens, NEW labels \in Seq(Labels(Tokens))
  PROVE  ParamsOf(labels) \in Seq(Labels(Tokens))
<1> DEFINE positions == {i \in DOMAIN labels : IsPrefix(ParamPrefix, labels[i].name)}
           given == Pick(labels, positions)
           Made(label) == Label(SubSeq(label.name, Len(ParamPrefix) + 1, Len(label.name)), label.value)
           made == [i \in DOMAIN given |-> Made(given[i])]
<1>1. ParamsOf(labels) = made
  BY DEF ParamsOf, Retain
<1>2. given \in Seq(Labels(Tokens))
  <2> HIDE DEF positions
  <2> QED
    BY PickElements
<1>3. Len(ParamPrefix) = 2
  BY DEF ParamPrefix
<1>4. ASSUME NEW label \in Labels(Tokens) PROVE Made(label) \in Labels(Tokens)
  <2>1. label.name \in Seq(Tokens) /\ label.value \in Seq(Tokens)
    BY DEF Labels
  <2>2. SubSeq(label.name, 3, Len(label.name)) \in Seq(Tokens)
    BY <2>1
  <2> QED
    BY <1>3, <2>1, <2>2 DEF Label, Labels
<1> HIDE DEF given, Made
<1>5. made \in [1 .. Len(given) -> Labels(Tokens)] /\ Len(given) \in Nat
  BY <1>2, <1>4
<1> HIDE DEF made
<1>6. made \in Seq(Labels(Tokens))
  BY <1>5
<1> QED
  BY <1>1, <1>6

\* The URL of a target is a text.
LEMMA UrlTyped ==
  ASSUME NEW Tokens, BuildTokens \subseteq Tokens, NEW scheme \in Seq(Tokens),
         NEW final \in Seq(Tokens), NEW path \in Seq(Tokens)
  PROVE  scheme \o <<"://">> \o final
           \o (IF path # <<>> /\ path[1] # "/" THEN <<"/">> \o path ELSE path) \in Seq(Tokens)
<1> DEFINE tail == IF path # <<>> /\ path[1] # "/" THEN <<"/">> \o path ELSE path
           colon == <<"://">>
           slash == <<"/">>
<1>1. colon \in Seq(Tokens) /\ slash \in Seq(Tokens)
  BY BuildNames
<1> HIDE DEF colon
<1>2. tail \in Seq(Tokens)
  <2>1. slash \o path \in Seq(Tokens)
    <3> HIDE DEF slash
    <3> QED
      BY <1>1
  <2> QED
    BY <2>1
<1> HIDE DEF tail
<1>3. scheme \o colon \in Seq(Tokens)
  BY <1>1
<1>4. scheme \o colon \o final \in Seq(Tokens)
  BY <1>3
<1>5. scheme \o colon \o final \o tail \in Seq(Tokens)
  BY <1>2, <1>4
<1> QED
  BY <1>5 DEF tail, colon

\* A target that is built has a URL, parameters, and labels of different names, each
\* with a value, none of them one that only relabelling sees (build_targets): for any
\* address and labels of discovery, any job and any valid rules.
THEOREM TargetsAreBuilt ==
  ASSUME NEW Tokens, BuildTokens \subseteq Tokens, TextsAreClosed(Tokens),
         NEW address \in Seq(Tokens), NEW group \in Seq(Labels(Tokens)),
         NEW job, BuildJob(job, Tokens), BuildTarget(address, group, job) # Dropped
  PROVE  LET target == BuildTarget(address, group, job)
         IN /\ target \in Targets(Tokens) /\ target.labels \in TargetLabels(Tokens)
            /\ \A name \in LabelNames(target.labels) : ~IsMeta(name)
<1> DEFINE target == BuildTarget(address, group, job)
           labels == Process(SeedLabels(address, group, job), job.relabel_configs)
           final == Get(labels, AddressLabel)
           added == AddIfAbsent(labels, InstanceLabel, final)
           positions == {i \in DOMAIN added : ~IsMeta(added[i].name)}
           seen == Pick(added, positions)
           scheme == Get(labels, SchemeLabel)
           path == Get(labels, PathLabel)
           url == scheme \o <<"://">> \o final
                    \o (IF path # <<>> /\ path[1] # "/" THEN <<"/">> \o path ELSE path)
<1>1. /\ labels # Dropped /\ final # <<>>
      /\ target = [url |-> url, params |-> ParamsOf(labels), labels |-> SortLabels(seen)]
  BY DEF BuildTarget, Retain
<1> HIDE DEF target
<1>2. labels \in TargetLabels(Tokens)
  <2>1. job.relabel_configs \in Seq(ValidRules(Tokens))
    BY DEF BuildJob
  <2>2. SeedLabels(address, group, job) \in LabelSets(Tokens)
    BY SeedIsLabelSet
  <2> QED
    BY <1>1, <2>1, <2>2, ProcessLeavesValues
<1> HIDE DEF labels
<1>3. labels \in LabelSets(Tokens) /\ labels \in Seq(Labels(Tokens))
  BY <1>2 DEF TargetLabels, LabelSets
<1>4. final \in Seq(Tokens) /\ scheme \in Seq(Tokens) /\ path \in Seq(Tokens)
  BY <1>3, GetIsTyped
<1> HIDE DEF final, scheme, path
<1>5. url \in Seq(Tokens)
  BY <1>4, UrlTyped
<1> HIDE DEF url
<1>6. ParamsOf(labels) \in Seq(Labels(Tokens))
  BY <1>3, ParamsTyped
<1>7. /\ added \in LabelSets(Tokens) /\ LabelNames(added) = LabelNames(labels) \cup {InstanceLabel}
      /\ \A name \in LabelNames(labels) : Get(added, name) = Get(labels, name)
      /\ InstanceLabel \notin LabelNames(labels) => Get(added, InstanceLabel) = final
  <2>1. InstanceLabel \in Seq(Tokens)
    BY BuildNames
  <2>2. /\ AddIfAbsent(labels, InstanceLabel, final) \in LabelSets(Tokens)
        /\ LabelNames(AddIfAbsent(labels, InstanceLabel, final))
             = LabelNames(labels) \cup {InstanceLabel}
        /\ \A other : other \in LabelNames(labels) \/ other # InstanceLabel =>
             Get(AddIfAbsent(labels, InstanceLabel, final), other) = Get(labels, other)
        /\ InstanceLabel \notin LabelNames(labels) =>
             Get(AddIfAbsent(labels, InstanceLabel, final), InstanceLabel) = final
    <3> HIDE DEF added
    <3> QED
      BY <1>3, <1>4, <2>1, AbsentSays, SMTT(60)
  <2>3. added = AddIfAbsent(labels, InstanceLabel, final)
    OBVIOUS
  <2> HIDE DEF added
  <2> QED
    BY <2>2, <2>3
<1> HIDE DEF added
<1>8. \A name \in LabelNames(added) : Get(added, name) # <<>>
  BY <1>1, <1>2, <1>7, TargetSays
<1>9. added \in Seq(Labels(Tokens)) /\ DOMAIN added = 1 .. Len(added)
  BY <1>7 DEF LabelSets
<1>10. \A i \in positions : ~IsMeta(added[i].name)
  OBVIOUS
<1> HIDE DEF positions
<1>11. seen \in LabelSets(Tokens)
  BY <1>7, PickIsLabelSet
<1>12. \A k \in 1 .. Len(seen) : \E i \in 1 .. Len(added) : i \in positions /\ seen[k] = added[i]
  <2>1. added \in Seq(Labels(Tokens))
    BY <1>9
  <2> QED
    BY <2>1, PickElements
<1> HIDE DEF seen
<1>13. seen \in Seq(Labels(Tokens)) /\ DOMAIN seen = 1 .. Len(seen)
  BY <1>11 DEF LabelSets
<1>14. \A k \in 1 .. Len(seen) : seen[k].value # <<>> /\ ~IsMeta(seen[k].name)
  <2> TAKE k \in 1 .. Len(seen)
  <2>1. PICK i \in 1 .. Len(added) : i \in positions /\ seen[k] = added[i]
    BY <1>12
  <2>2. added[i].name \in LabelNames(added) /\ Get(added, added[i].name) = added[i].value
    BY <1>7, GetOfLabel
  <2> QED
    BY <1>8, <1>10, <2>1, <2>2
<1> DEFINE sorted == SortLabels(seen)
<1>15. /\ sorted \in LabelSets(Tokens) /\ LabelNames(sorted) = LabelNames(seen)
       /\ \A name : Get(sorted, name) = Get(seen, name)
  BY <1>11, SortSays
<1> HIDE DEF sorted
<1>16. sorted \in Seq(Labels(Tokens)) /\ DOMAIN sorted = 1 .. Len(sorted)
  BY <1>15 DEF LabelSets
<1>17. \A name \in LabelNames(sorted) : ~IsMeta(name) /\ Get(seen, name) # <<>>
  <2> TAKE name \in LabelNames(sorted)
  <2>1. PICK k \in 1 .. Len(seen) : seen[k].name = name
    BY <1>13, <1>15 DEF LabelNames
  <2>2. Get(seen, seen[k].name) = seen[k].value
    BY <1>11, GetOfLabel
  <2> QED
    BY <1>14, <2>1, <2>2
<1>18. \A i \in 1 .. Len(sorted) : sorted[i].value # <<>>
  <2> TAKE i \in 1 .. Len(sorted)
  <2>1. sorted[i].name \in LabelNames(sorted) /\ Get(sorted, sorted[i].name) = sorted[i].value
    BY <1>15, GetOfLabel
  <2> QED
    BY <1>15, <1>17, <2>1
<1>19. sorted \in TargetLabels(Tokens)
  BY <1>15, <1>16, <1>18 DEF TargetLabels
<1>20. /\ target = [url |-> url, params |-> ParamsOf(labels), labels |-> sorted]
       /\ target.labels = sorted
  BY <1>1 DEF sorted
<1>21. target \in Targets(Tokens)
  BY <1>5, <1>6, <1>16, <1>20 DEF Targets
<1> QED
  BY <1>17, <1>19, <1>20, <1>21 DEF target

-----------------------------------------------------------------------------
\* The value of a label that is there is the value that is read.
LEMMA GetFinds ==
  ASSUME NEW Tokens, NEW set \in LabelSets(Tokens), NEW k \in 1 .. Len(set)
  PROVE  Get(set, set[k].name) = set[k].value
<1> DEFINE name == set[k].name
           Found == {i \in 1 .. Len(set) : set[i].name = name}
<1>1. Position(set, name) = IF Found # {} THEN Min(Found) ELSE 0
  BY DEF Position, SelectInSeq
<1>2. k \in Found /\ Found \in SUBSET Nat
  OBVIOUS
<1>3. Min(Found) \in Found
  BY <1>2, MinIsMember
<1>4. DOMAIN set = 1 .. Len(set) /\ NamesUnique(set)
  BY DEF LabelSets
<1>5. Min(Found) = k
  BY <1>3, <1>4 DEF NamesUnique
<1> HIDE DEF Found
<1>6. Position(set, name) = k /\ k # 0
  BY <1>1, <1>2, <1>5
<1> QED
  BY <1>6 DEF Get

\* A label that was set has the value it was set to.
LEMMA GetOfSet ==
  ASSUME NEW Tokens, NEW set \in LabelSets(Tokens), NEW name \in Seq(Tokens),
         NEW value \in Seq(Tokens)
  PROVE  Get(Set(set, name, value), name) = value
<1> DEFINE Found == {i \in 1 .. Len(set) : set[i].name = name}
           new == Set(set, name, value)
<1>1. Position(set, name) = IF Found # {} THEN Min(Found) ELSE 0
  BY DEF Position, SelectInSeq
<1>2. new \in LabelSets(Tokens)
  BY SetIsLabelSet
<1>3. set \in Seq(Labels(Tokens)) /\ Label(name, value) \in Labels(Tokens)
  BY DEF LabelSets, Labels, Label
<1>4. \E k \in 1 .. Len(new) : new[k].name = name /\ new[k].value = value
  <2>1. CASE Found = {}
    <3>1. new = Append(set, Label(name, value))
      BY <1>1, <2>1 DEF Set
    <3>2. Len(new) = Len(set) + 1 /\ new[Len(set) + 1] = Label(name, value) /\ Len(set) \in Nat
      BY <1>3, <3>1
    <3> HIDE DEF new
    <3>3. Len(set) + 1 \in 1 .. Len(new)
      BY <3>2
    <3> QED
      BY <3>2, <3>3 DEF Label
  <2>2. CASE Found # {}
    <3> DEFINE p == Min(Found)
    <3>1. p \in Found
      <4>1. Found \in SUBSET Nat
        OBVIOUS
      <4> QED
        BY <2>2, <4>1, MinIsMember
    <3>2. p \in 1 .. Len(set) /\ set[p].name = name
      BY <3>1
    <3>3. Position(set, name) = p /\ p # 0
      BY <1>1, <2>2, <3>2
    <3> HIDE DEF p
    <3>4. new = [set EXCEPT ![p].value = value]
      BY <3>3 DEF Set
    <3> HIDE DEF new, Found
    <3>5. Len(new) = Len(set) /\ new[p] = [set[p] EXCEPT !.value = value]
      BY <1>3, <3>2, <3>4
    <3>6. set[p] \in Labels(Tokens)
      BY <1>3, <3>2
    <3>7. new[p].name = name /\ new[p].value = value
      BY <3>2, <3>5, <3>6 DEF Labels
    <3> QED
      BY <3>2, <3>5, <3>7
  <2> QED
    BY <2>1, <2>2
<1> HIDE DEF new
<1>5. PICK k \in 1 .. Len(new) : new[k].name = name /\ new[k].value = value
  BY <1>4
<1>6. Get(new, new[k].name) = new[k].value
  BY <1>2, GetFinds
<1> QED
  BY <1>5, <1>6 DEF new

\* The value of a single source label is joined to itself.
LEMMA JoinOfOne ==
  ASSUME NEW Tokens, NEW set \in LabelSets(Tokens), NEW name \in Seq(Tokens),
         NEW rule, rule.source_labels = <<name>>
  PROVE  Join(set, rule) = Get(set, name)
<1> DEFINE text == Get(set, name)
           pieces == [i \in 1 .. 1 |-> text]
<1>1. text \in Seq(Tokens)
  BY GetIsTyped DEF LabelSets
<1>2. Join(set, rule) = FlattenSeq(pieces)
  <2>1. DOMAIN rule.source_labels = 1 .. 1 /\ rule.source_labels[1] = name
    OBVIOUS
  <2>2. ASSUME NEW i \in 1 .. 1
        PROVE  (IF i > 1 THEN rule.separator ELSE <<>>) \o Get(set, rule.source_labels[i]) = text
    <3>1. i = 1
      OBVIOUS
    <3>2. (IF i > 1 THEN rule.separator ELSE <<>>) = <<>> /\ rule.source_labels[i] = name
      BY <2>1, <3>1
    <3>3. <<>> \o text = text
      <4> HIDE DEF text
      <4> QED
        BY <1>1, NothingBefore
    <3> QED
      BY <3>2, <3>3
  <2>3. [i \in DOMAIN rule.source_labels |->
           (IF i > 1 THEN rule.separator ELSE <<>>) \o Get(set, rule.source_labels[i])] = pieces
    BY <2>1, <2>2
  <2> QED
    BY <2>3 DEF Join
<1> HIDE DEF text
<1>3. pieces \in [1 .. 1 -> Seq(Tokens)] /\ pieces[1] = text
  BY <1>1
<1> HIDE DEF pieces
<1> DEFINE n == 1
<1>4. PICK h \in [0 .. n -> Seq(Tokens)] :
        /\ h[0] = <<>>
        /\ \A i \in 1 .. n : h[i] = h[i - 1] \o pieces[i]
        /\ h[n] = FlattenSeq(pieces)
  <2>1. n \in Nat /\ pieces \in [1 .. n -> Seq(Tokens)]
    BY <1>3
  <2> HIDE DEF n
  <2> QED
    BY <2>1, FlattenSteps
<1>5. h[1] = <<>> \o text
  <2>1. 1 \in 1 .. 1 /\ 1 - 1 = 0
    OBVIOUS
  <2>2. h[1] = h[1 - 1] \o pieces[1]
    BY <1>4, <2>1
  <2> QED
    BY <1>3, <1>4, <2>1, <2>2
<1>6. <<>> \o text = text
  BY <1>1, NothingBefore
<1> QED
  BY <1>2, <1>4, <1>5, <1>6 DEF text

\* A rule is the record of its parts.
LEMMA RuleOfParts ==
  ASSUME NEW Tokens, NEW action \in Actions, NEW sources \in Seq(Seq(Tokens)),
         NEW separator \in Seq(Tokens), NEW target \in Templates(Tokens),
         NEW regex \in Patterns(Tokens), NEW modulus \in Nat,
         NEW replacement \in Templates(Tokens)
  PROVE  [action |-> action, source_labels |-> sources, separator |-> separator,
          target_label |-> target, regex |-> regex, modulus |-> modulus,
          replacement |-> replacement] \in RelabelRules(Tokens)
  BY DEF RelabelRules

\* Of the agents that share targets by the residue of a hash, exactly one keeps a
\* series, whatever its labels: numerals tell residues apart, and a label set is
\* not what stands for a dropped series.
THEOREM SharedOnce ==
  ASSUME NEW Tokens, NEW set \in LabelSets(Tokens), NEW sources \in Seq(Seq(Tokens)),
         NEW separator \in Seq(Tokens), NEW scratch \in Seq(Tokens), scratch # <<>>,
         NEW modulus \in Nat \ {0}, TextsAreClosed(Tokens), Dropped \notin LabelSets(Tokens),
         \A m, n \in Nat : Numeral(m) = Numeral(n) => m = n
  PROVE  OneShardKeeps(set, sources, separator, scratch, modulus)
<1> DEFINE first == ShardRules(sources, separator, scratch, modulus, 0)[1]
           residue == HashMod(Join(set, first), modulus)
           marked == Set(set, scratch, Numeral(residue))
<1>1. DefaultPattern \in Patterns(Tokens) /\ <<Capture>> \in Templates(Tokens)
  BY DEF DefaultPattern, Pattern, Patterns, Templates
<1>2. scratch \in Templates(Tokens)
  BY DEF Templates
<1>3. /\ first \in ValidRules(Tokens) /\ first.action = "hashmod"
      /\ first.modulus = modulus /\ first.target_label = scratch
  <2>1. /\ first.action = "hashmod" /\ first.source_labels = sources
        /\ first.separator = separator /\ first.target_label = scratch
        /\ first.regex = DefaultPattern /\ first.modulus = modulus
        /\ first.replacement = <<Capture>>
    BY DEF ShardRules
  <2>2. first = [action |-> "hashmod", source_labels |-> sources, separator |-> separator,
                 target_label |-> scratch, regex |-> DefaultPattern, modulus |-> modulus,
                 replacement |-> <<Capture>>]
    BY DEF ShardRules
  <2> HIDE DEF first
  <2>3. first \in RelabelRules(Tokens)
    <3>1. modulus \in Nat
      OBVIOUS
    <3>3. "hashmod" \in Actions
      BY DEF Actions
    <3> QED
      BY <1>1, <1>2, <2>2, <3>1, <3>3, RuleOfParts, Zenon
  <2>4. Valid(first)
    BY <2>1 DEF Valid
  <2> QED
    BY <2>1, <2>3, <2>4 DEF ValidRules
<1>4. residue \in 0 .. modulus - 1
  <2>1. Join(set, first) \in Seq(Tokens)
    BY <1>3, JoinIsTyped DEF LabelSets, ValidRules, RelabelRules
  <2>2. Digest(Join(set, first)) \in Nat
    BY <2>1 DEF TextsAreClosed
  <2> HIDE DEF first
  <2> QED
    BY <2>2 DEF HashMod
<1>5. marked \in LabelSets(Tokens) /\ Get(marked, scratch) = Numeral(residue)
  <2> HIDE DEF residue
  <2>1. Numeral(residue) \in Seq(Tokens)
    BY <1>4 DEF TextsAreClosed
  <2> QED
    BY <2>1, SetIsLabelSet, GetOfSet
<1>6. Apply(set, first) = marked
  <2> HIDE DEF first
  <2>1. Keeps(set, first)
    BY <1>3 DEF Keeps
  <2>2. Rewrite(set, first) = marked
    BY <1>3 DEF Rewrite
  <2> QED
    BY <2>1, <2>2 DEF Apply
<1> HIDE DEF first, residue, marked
<1>7. ASSUME NEW shard \in 0 .. modulus - 1
      PROVE  Process(set, ShardRules(sources, separator, scratch, modulus, shard)) # Dropped
               <=> shard = residue
  <2> DEFINE rules == ShardRules(sources, separator, scratch, modulus, shard)
             second == rules[2]
  <2>1. rules[1] = first /\ Len(rules) = 2
    BY DEF ShardRules, first
  <2>2. /\ second.action = "keep" /\ second.source_labels = <<scratch>>
        /\ second.regex = Pattern(Numeral(shard), "none", <<>>)
    BY DEF ShardRules
  <2>3. Numeral(shard) \in Seq(Tokens) /\ shard \in Nat
    BY DEF TextsAreClosed
  <2>4. second \in ValidRules(Tokens)
    <3>1. second = [action |-> "keep", source_labels |-> <<scratch>>, separator |-> separator,
                    target_label |-> scratch, regex |-> Pattern(Numeral(shard), "none", <<>>),
                    modulus |-> modulus, replacement |-> <<Capture>>]
      BY DEF ShardRules
    <3> HIDE DEF second
    <3>2. Pattern(Numeral(shard), "none", <<>>) \in Patterns(Tokens)
      BY <2>3 DEF Pattern, Patterns
    <3>3. <<scratch>> \in Seq(Seq(Tokens)) /\ modulus \in Nat /\ "keep" \in Actions
      BY DEF Actions
    <3>4. second \in RelabelRules(Tokens)
      BY <1>1, <1>2, <3>1, <3>2, <3>3, RuleOfParts, Zenon
    <3>5. Valid(second) /\ second.target_label = scratch
      BY <3>1 DEF Valid
    <3> QED
      BY <3>4, <3>5 DEF ValidRules
  <2>5. rules \in Seq(ValidRules(Tokens))
    <3>1. rules = <<first, second>>
      BY <2>1 DEF ShardRules
    <3> HIDE DEF rules, second
    <3> QED
      BY <1>3, <2>4, <3>1
  <2> HIDE DEF rules
  <2>6. PICK h \in [0 .. Len(rules) -> Left(Tokens)] : Processes(h, set, rules)
    BY <2>5, ProcessSteps
  <2>7. h[1] = marked
    <3>1. 1 \in 1 .. Len(rules) /\ 1 - 1 = 0
      BY <2>1
    <3>2. h[1] = After(h[1 - 1], rules[1]) /\ h[0] = set
      BY <2>6, <3>1 DEF Processes
    <3> QED
      BY <1>6, <2>1, <3>1, <3>2 DEF After
  <2>8. h[2] = IF Keeps(marked, second) THEN Rewrite(marked, second) ELSE Dropped
    <3>1. 2 \in 1 .. Len(rules) /\ 2 - 1 = 1
      BY <2>1
    <3>2. h[2] = After(h[2 - 1], second)
      BY <2>6, <3>1 DEF Processes
    <3> QED
      BY <1>5, <2>7, <3>1, <3>2 DEF After, Apply
  <2>9. Rewrite(marked, second) = marked
    BY <2>2 DEF Rewrite
  <2>10. Join(marked, second) = Numeral(residue)
    BY <1>5, <2>2, JoinOfOne
  <2>11. Keeps(marked, second) <=> shard = residue
    <3>1. Keeps(marked, second) <=> Matches(second.regex, Join(marked, second))
      BY <2>2 DEF Keeps
    <3>2. Matches(second.regex, Join(marked, second)) <=> Numeral(residue) = Numeral(shard)
      BY <2>2, <2>10 DEF Matches, Kind, Pattern
    <3>3. residue \in Nat
      BY <1>4
    <3> QED
      BY <2>3, <3>1, <3>2, <3>3
  <2>12. Process(set, rules) = Finish(h[2])
    BY <2>1, <2>6 DEF Processes
  <2>13. Finish(marked) \in LabelSets(Tokens) /\ Finish(Dropped) = Dropped
    BY <1>5, PickIsLabelSet DEF Finish, Retain
  <2> QED
    BY <2>8, <2>9, <2>11, <2>12, <2>13 DEF rules
<1>8. {shard \in 0 .. modulus - 1 :
         Process(set, ShardRules(sources, separator, scratch, modulus, shard)) # Dropped}
        = {residue}
  BY <1>4, <1>7
<1> QED
  BY <1>8, FS_Singleton DEF OneShardKeeps

=============================================================================
