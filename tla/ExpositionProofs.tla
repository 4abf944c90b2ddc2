--------------------------- MODULE ExpositionProofs ---------------------------
(***************************************************************************)
(* Facts about what a protobuf exposition becomes, for inputs of every     *)
(* size.  First native histograms: what giving up resolution makes of the  *)
(* layout and the counts of a side, and which resolution Convert keeps.    *)
(* Then metric families: how floats, names and labels are put into the     *)
(* text of a series, that these texts tell the series of a family apart,   *)
(* and in which forms a histogram is counted.  Last, that the conversions  *)
(* MCAlgorithms runs have what is promised of them.                        *)
(***************************************************************************)
EXTENDS MCAlgorithms, PipelineProofs

\* Sums: the integers are added up one by one.
Sums(h, n, f) ==
  /\ h \in [0 .. n -> Int] /\ h[0] = 0
  /\ \A i \in 1 .. n : h[i] = h[i - 1] + f[i]

\* The sum of the first i elements.
Upto(f, i) == Sum([j \in 1 .. i |-> f[j]])

\* There are such sums for any number of integers, and Sum is the last of them.
LEMMA SumSteps ==
  ASSUME NEW n \in Nat, NEW f \in [1 .. n -> Int]
  PROVE  \E h : Sums(h, n, f) /\ h[n] = Sum(f)
<1> DEFINE Follows(g) == g = [s \in SUBSET (1 .. n) |->
                                IF s = {} THEN 0 ELSE g[s \ {Max(s)}] + f[Max(s)]]
           g == CHOOSE g : Follows(g)
           h == [i \in 0 .. n |-> g[1 .. i]]
<1>1. Sum(f) = g[1 .. n]
  <2>1. DOMAIN f = 1 .. n
    OBVIOUS
  <2> QED
    BY <2>1 DEF Sum, FoldLeft, MapThenFoldSet
<1>2. PICK e \in [SUBSET (1 .. n) -> Int] : Follows(e)
  <2> DEFINE step == [i \in 1 .. n |-> [a \in Int |-> a + f[i]]]
  <2>1. step \in [1 .. n -> [Int -> Int]] /\ 0 \in Int
    OBVIOUS
  <2> HIDE DEF step
  <2>2. PICK e \in [SUBSET (1 .. n) -> Int] : GoesBy(e, n, 0, step)
    <3> HIDE DEF g, h, Follows
    <3> QED
      BY <2>1, FoldIsDefined
  <2>3. Follows(e)
    BY <2>2 DEF step, GoesBy
  <2> HIDE DEF Follows
  <2> QED
    BY <2>3
<1>3. Follows(g)
  <2> HIDE DEF Follows
  <2> QED
    BY <1>2
<1> HIDE DEF g
<1>4. /\ h[0] = 0 /\ h[n] = g[1 .. n]
      /\ \A i \in 1 .. n : h[i] = h[i - 1] + f[i]
  <2>1. g[{}] = 0
    BY <1>3
  <2>2. ASSUME NEW i \in 1 .. n
        PROVE  g[1 .. i] = g[1 .. i - 1] + f[i]
    <3>1. /\ 1 .. i \in SUBSET (1 .. n) /\ 1 .. i # {}
          /\ Max(1 .. i) = i /\ (1 .. i) \ {i} = 1 .. i - 1
      BY UpTo
    <3>2. g[1 .. i] = g[(1 .. i) \ {Max(1 .. i)}] + f[Max(1 .. i)]
      BY <1>3, <3>1
    <3> QED
      BY <3>1, <3>2
  <2> QED
    BY <2>1, <2>2
<1>5. h \in [0 .. n -> Int]
  <2> DEFINE S == {i \in 0 .. n : h[i] \in Int}
  <2>1. 0 \in S /\ \A i \in 1 .. n : i - 1 \in S => i \in S
    <3> HIDE DEF h
    <3> QED
      BY <1>4
  <2> HIDE DEF S
  <2>2. 0 .. n \subseteq S
    BY <2>1, BoundedInduction
  <2> QED
    BY <2>2 DEF S
<1> HIDE DEF h
<1> QED
  BY <1>1, <1>4, <1>5 DEF Sums

\* The sums of the first elements, one after the other.
LEMMA UptoSteps ==
  ASSUME NEW n \in Nat, NEW f \in [1 .. n -> Int]
  PROVE  /\ \A i \in 0 .. n : Upto(f, i) \in Int
         /\ Upto(f, 0) = 0 /\ Upto(f, n) = Sum(f)
         /\ \A i \in 1 .. n : Upto(f, i) = Upto(f, i - 1) + f[i]
<1>1. PICK h : Sums(h, n, f) /\ h[n] = Sum(f)
  BY SumSteps
<1>2. ASSUME NEW i \in 0 .. n
      PROVE  h[i] = Upto(f, i)
  <2> DEFINE g == [j \in 1 .. i |-> f[j]]
  <2>1. i \in Nat /\ g \in [1 .. i -> Int] /\ \A j \in 1 .. i : g[j] = f[j]
    OBVIOUS
  <2>2. Upto(f, i) = Sum(g)
    BY DEF Upto
  <2> HIDE DEF g
  <2>3. PICK e : Sums(e, i, g) /\ e[i] = Sum(g)
    BY <2>1, SumSteps
  <2> DEFINE Same == {j \in 0 .. i : e[j] = h[j]}
  <2>4. 0 \in Same
    BY <1>1, <2>3 DEF Sums
  <2>5. ASSUME NEW j \in 1 .. i, j - 1 \in Same
        PROVE  j \in Same
    <3>1. j \in 1 .. n /\ e[j - 1] = h[j - 1]
      BY <2>5
    <3> QED
      BY <1>1, <2>1, <2>3, <3>1 DEF Sums
  <2> HIDE DEF Same
  <2>6. 0 .. i \subseteq Same
    BY <2>1, <2>4, <2>5, BoundedInduction
  <2>7. e[i] = h[i]
    BY <2>6 DEF Same
  <2> QED
    BY <2>2, <2>3, <2>7
<1> QED
  BY <1>1, <1>2 DEF Sums

\* A sum of first elements does not depend on the others.
LEMMA UptoSame ==
  ASSUME NEW f, NEW g, NEW i, \A j \in 1 .. i : f[j] = g[j]
  PROVE  Upto(f, i) = Upto(g, i)
<1>1. [j \in 1 .. i |-> f[j]] = [j \in 1 .. i |-> g[j]]
  OBVIOUS
<1> QED
  BY <1>1, Zenon DEF Upto

-----------------------------------------------------------------------------

\* The first k pieces, joined.
Ahead(pieces, k) == FlattenSeq([j \in 1 .. k |-> pieces[j]])

\* The pieces are joined one by one.
LEMMA AheadSteps ==
  ASSUME NEW S, NEW n \in Nat, NEW pieces \in [1 .. n -> Seq(S)]
  PROVE  /\ \A i \in 0 .. n : Ahead(pieces, i) \in Seq(S)
         /\ Ahead(pieces, 0) = <<>> /\ Ahead(pieces, n) = FlattenSeq(pieces)
         /\ \A i \in 1 .. n : Ahead(pieces, i) = Ahead(pieces, i - 1) \o pieces[i]
<1>1. PICK h \in [0 .. n -> Seq(S)] :
        /\ h[0] = <<>>
        /\ \A i \in 1 .. n : h[i] = h[i - 1] \o pieces[i]
        /\ h[n] = FlattenSeq(pieces)
  BY FlattenSteps, ZenonT(30)
<1>2. ASSUME NEW i \in 0 .. n
      PROVE  h[i] = Ahead(pieces, i)
  <2> DEFINE g == [j \in 1 .. i |-> pieces[j]]
  <2>1. i \in Nat /\ g \in [1 .. i -> Seq(S)] /\ \A j \in 1 .. i : g[j] = pieces[j]
    OBVIOUS
  <2>2. Ahead(pieces, i) = FlattenSeq(g)
    BY DEF Ahead
  <2> HIDE DEF g
  <2>3. PICK e \in [0 .. i -> Seq(S)] :
          /\ e[0] = <<>>
          /\ \A j \in 1 .. i : e[j] = e[j - 1] \o g[j]
          /\ e[i] = FlattenSeq(g)
    BY <2>1, FlattenSteps, ZenonT(30)
  <2> DEFINE Alike == {j \in 0 .. i : e[j] = h[j]}
  <2>4. 0 \in Alike
    BY <1>1, <2>3
  <2>5. ASSUME NEW j \in 1 .. i, j - 1 \in Alike
        PROVE  j \in Alike
    <3>1. j \in 1 .. n /\ j \in 0 .. i /\ e[j - 1] = h[j - 1]
      BY <2>5
    <3>2. e[j] = e[j - 1] \o g[j] /\ h[j] = h[j - 1] \o pieces[j] /\ g[j] = pieces[j]
      BY <1>1, <2>1, <2>3, <3>1
    <3> QED
      BY <3>1, <3>2
  <2> HIDE DEF Alike
  <2>6. 0 .. i \subseteq Alike
    BY <2>1, <2>4, <2>5, BoundedInduction
  <2>7. e[i] = h[i]
    BY <2>6 DEF Alike
  <2> QED
    BY <2>2, <2>3, <2>7
<1>3. 0 \in 0 .. n /\ n \in 0 .. n /\ \A i \in 1 .. n : i \in 0 .. n /\ i - 1 \in 0 .. n
  OBVIOUS
<1>4. \A i \in 0 .. n : Ahead(pieces, i) \in Seq(S)
  BY <1>1, <1>2
<1>5. \A i \in 1 .. n : Ahead(pieces, i) = Ahead(pieces, i - 1) \o pieces[i]
  <2> TAKE i \in 1 .. n
  <2>1. h[i] = h[i - 1] \o pieces[i] /\ h[i] = Ahead(pieces, i) /\ h[i - 1] = Ahead(pieces, i - 1)
    BY <1>1, <1>2, <1>3
  <2> QED
    BY <2>1
<1> QED
  BY <1>1, <1>2, <1>3, <1>4, <1>5

\* Joined first pieces do not depend on the others.
LEMMA AheadSame ==
  ASSUME NEW p, NEW q, NEW i, \A j \in 1 .. i : p[j] = q[j]
  PROVE  Ahead(p, i) = Ahead(q, i)
<1>1. [j \in 1 .. i |-> p[j]] = [j \in 1 .. i |-> q[j]]
  OBVIOUS
<1> QED
  BY <1>1, Zenon DEF Ahead

\* The types of a side.
Span == [offset : Int, length : Nat]
Side == [spans : Seq(Span), buckets : Seq(Int)]

\* How far a span goes beyond the end of the one before it.
Widths(spans) == [j \in 1 .. Len(spans) |-> spans[j].offset + spans[j].length]

\* The index after the last bucket.
End(spans) == Upto(Widths(spans), Len(spans))

Piece(spans, k) == [i \in 1 .. spans[k].length |-> SpanStart(spans, k) + i - 1]
Pieces(spans) == [k \in 1 .. Len(spans) |-> Piece(spans, k)]

\* A span skips some buckets and has some.
LEMMA SpanTyped ==
  ASSUME NEW spans \in Seq(Span), NEW k \in 1 .. Len(spans)
  PROVE  spans[k].offset \in Int /\ spans[k].length \in Nat
<1>1. spans[k] \in Span
  OBVIOUS
<1> QED
  BY <1>1 DEF Span

\* What the spans advance by adds up to integers.
LEMMA WidthsTyped ==
  ASSUME NEW spans \in Seq(Span)
  PROVE  /\ Len(spans) \in Nat /\ Widths(spans) \in [1 .. Len(spans) -> Int]
         /\ \A k \in 0 .. Len(spans) : Upto(Widths(spans), k) \in Int
         /\ Upto(Widths(spans), 0) = 0
         /\ \A k \in 1 .. Len(spans) :
              Upto(Widths(spans), k) = Upto(Widths(spans), k - 1)
                                         + (spans[k].offset + spans[k].length)
<1>1. Len(spans) \in Nat
  OBVIOUS
<1>2. ASSUME NEW k \in 1 .. Len(spans) PROVE spans[k].offset + spans[k].length \in Int
  BY SpanTyped
<1>3. /\ Widths(spans) \in [1 .. Len(spans) -> Int]
      /\ \A k \in 1 .. Len(spans) : Widths(spans)[k] = spans[k].offset + spans[k].length
  BY <1>2 DEF Widths
<1> QED
  BY <1>1, <1>3, UptoSteps

\* A span starts at its offset from the end of the one before it.
LEMMA StartOfSpan ==
  ASSUME NEW spans \in Seq(Span), NEW k \in 1 .. Len(spans)
  PROVE  /\ SpanStart(spans, k) = Upto(Widths(spans), k - 1) + spans[k].offset
         /\ SpanStart(spans, k) \in Int
<1> DEFINE g == [j \in 1 .. k |-> spans[j].offset + IF j < k THEN spans[j].length ELSE 0]
<1>1. k \in Nat /\ k - 1 \in 0 .. Len(spans) /\ k \in 1 .. k
  OBVIOUS
<1>2. ASSUME NEW j \in 1 .. k PROVE spans[j].offset \in Int /\ spans[j].length \in Nat
  <2>1. j \in 1 .. Len(spans)
    OBVIOUS
  <2> QED
    BY <2>1, SpanTyped
<1>3. /\ g \in [1 .. k -> Int] /\ g[k] = spans[k].offset
      /\ \A j \in 1 .. k - 1 : g[j] = Widths(spans)[j]
  <2>1. g \in [1 .. k -> Int] /\ g[k] = spans[k].offset
    BY <1>1, <1>2
  <2>2. ASSUME NEW j \in 1 .. k - 1 PROVE g[j] = Widths(spans)[j]
    BY <1>2 DEF Widths
  <2> QED
    BY <2>1, <2>2
<1>4. SpanStart(spans, k) = Sum(g)
  BY DEF SpanStart
<1> HIDE DEF g
<1>5. Sum(g) = Upto(g, k - 1) + spans[k].offset
  BY <1>1, <1>3, UptoSteps
<1>6. Upto(g, k - 1) = Upto(Widths(spans), k - 1)
  BY <1>3, UptoSame
<1>7. Upto(Widths(spans), k - 1) \in Int
  BY <1>1, WidthsTyped
<1> QED
  BY <1>1, <1>2, <1>4, <1>5, <1>6, <1>7

\* The indices are those of the spans one after the other.
LEMMA IndicesSteps ==
  ASSUME NEW spans \in Seq(Span)
  PROVE  /\ Pieces(spans) \in [1 .. Len(spans) -> Seq(Int)]
         /\ \A k \in 0 .. Len(spans) : Ahead(Pieces(spans), k) \in Seq(Int)
         /\ Ahead(Pieces(spans), 0) = <<>>
         /\ Ahead(Pieces(spans), Len(spans)) = Indices(spans)
         /\ \A k \in 1 .. Len(spans) :
              Ahead(Pieces(spans), k) = Ahead(Pieces(spans), k - 1) \o Piece(spans, k)
<1>1. Len(spans) \in Nat /\ DOMAIN spans = 1 .. Len(spans)
  OBVIOUS
<1>2. ASSUME NEW k \in 1 .. Len(spans) PROVE Piece(spans, k) \in Seq(Int)
  <2> DEFINE start == SpanStart(spans, k)
             length == spans[k].length
  <2>1. start \in Int /\ length \in Nat
    BY StartOfSpan, SpanTyped
  <2>2. Piece(spans, k) = [i \in 1 .. length |-> start + i - 1]
    BY DEF Piece
  <2> HIDE DEF start, length
  <2>3. [i \in 1 .. length |-> start + i - 1] \in [1 .. length -> Int]
    BY <2>1
  <2> QED
    BY <2>1, <2>2, <2>3
<1>3. /\ Pieces(spans) \in [1 .. Len(spans) -> Seq(Int)]
      /\ \A k \in 1 .. Len(spans) : Pieces(spans)[k] = Piece(spans, k)
  BY <1>2 DEF Pieces
<1>4. Indices(spans) = FlattenSeq(Pieces(spans))
  BY <1>1, Zenon DEF Indices, Pieces, Piece
<1> DEFINE n == Len(spans)
           p == Pieces(spans)
<1>5. n \in Nat /\ p \in [1 .. n -> Seq(Int)]
  BY <1>1, <1>3
<1> HIDE DEF n, p
<1>6. /\ \A i \in 0 .. n : Ahead(p, i) \in Seq(Int)
      /\ Ahead(p, 0) = <<>> /\ Ahead(p, n) = FlattenSeq(p)
      /\ \A i \in 1 .. n : Ahead(p, i) = Ahead(p, i - 1) \o p[i]
  BY <1>5, AheadSteps
<1> QED
  BY <1>3, <1>4, <1>6 DEF n, p

-----------------------------------------------------------------------------

Increasing(s) == \A i, j \in 1 .. Len(s) : i < j => s[i] < s[j]

\* What is below a bound, followed by what is not.
LEMMA IncreasingJoined ==
  ASSUME NEW s \in Seq(Int), NEW t \in Seq(Int), NEW bound \in Int,
         Increasing(s), Increasing(t),
         \A i \in 1 .. Len(s) : s[i] < bound, \A i \in 1 .. Len(t) : bound <= t[i]
  PROVE  Increasing(s \o t)
<1>1. /\ Len(s \o t) = Len(s) + Len(t) /\ Len(s) \in Nat /\ Len(t) \in Nat
      /\ \A i \in 1 .. Len(s) : (s \o t)[i] = s[i] /\ s[i] \in Int
      /\ \A i \in 1 .. Len(t) : (s \o t)[Len(s) + i] = t[i] /\ t[i] \in Int
  OBVIOUS
<1> DEFINE u == s \o t
           m == Len(s)
           n == Len(t)
<1>2. SUFFICES ASSUME NEW i \in 1 .. Len(u), NEW j \in 1 .. Len(u), i < j
               PROVE  u[i] < u[j]
  BY DEF Increasing
<1>3. /\ m \in Nat /\ n \in Nat /\ i \in 1 .. m + n /\ j \in 1 .. m + n /\ i < j
      /\ \A k \in 1 .. m : u[k] = s[k] /\ s[k] \in Int
      /\ \A k \in 1 .. n : u[m + k] = t[k] /\ t[k] \in Int
  BY <1>1, <1>2
<1>4. /\ \A k, l \in 1 .. m : k < l => s[k] < s[l]
      /\ \A k, l \in 1 .. n : k < l => t[k] < t[l]
      /\ \A k \in 1 .. m : s[k] < bound
      /\ \A k \in 1 .. n : bound <= t[k]
  BY DEF Increasing
<1> HIDE DEF u, m, n
<1>5. CASE j <= m
  <2>1. i \in 1 .. m /\ j \in 1 .. m
    BY <1>3, <1>5
  <2> QED
    BY <1>3, <1>4, <2>1
<1>6. CASE i <= m /\ j > m
  <2>1. i \in 1 .. m /\ j - m \in 1 .. n /\ m + (j - m) = j
    BY <1>3, <1>6
  <2>2. u[i] = s[i] /\ u[j] = t[j - m] /\ s[i] \in Int /\ t[j - m] \in Int
    BY <1>3, <2>1
  <2>3. s[i] < bound /\ bound <= t[j - m]
    BY <1>4, <2>1
  <2> QED
    BY <2>2, <2>3
<1>7. CASE i > m
  <2>1. /\ i - m \in 1 .. n /\ m + (i - m) = i /\ i - m < j - m
        /\ j - m \in 1 .. n /\ m + (j - m) = j
    BY <1>3, <1>7
  <2>2. u[i] = t[i - m] /\ u[j] = t[j - m]
    BY <1>3, <2>1
  <2>3. t[i - m] < t[j - m]
    BY <1>4, <2>1
  <2> QED
    BY <2>2, <2>3
<1> QED
  BY <1>3, <1>5, <1>6, <1>7

\* The layout half of ValidSide: what is left of it when counts overflow.
SpansInRange(spans) ==
  \A k \in 1 .. Len(spans) :
    /\ k > 1 => spans[k].offset >= 0
    /\ SpanStart(spans, k) \in IndexRange
    /\ SpanStart(spans, k) + (IF spans[k].length = 0 THEN 1 ELSE spans[k].length) - 1
         \in IndexRange

LaidOut(side) ==
  SpansInRange(side.spans) /\ Covered(side.spans) = Len(side.buckets)

\* The range of the indices.
LEMMA RangeIsConvex ==
  /\ IndexRange \subseteq Int
  /\ \A x, y, z \in Int :
       x \in IndexRange /\ z \in IndexRange /\ x <= y /\ y <= z => y \in IndexRange
BY HistogramAssumption DEF HistogramAssumption, IndexRange

\* The numbers from start on.
LEMMA PieceOfSpan ==
  ASSUME NEW spans \in Seq(Span), NEW k \in 1 .. Len(spans)
  PROVE  /\ Piece(spans, k) \in Seq(Int) /\ Len(Piece(spans, k)) = spans[k].length
         /\ Increasing(Piece(spans, k))
         /\ \A i \in 1 .. spans[k].length : Piece(spans, k)[i] = SpanStart(spans, k) + i - 1
<1> DEFINE start == SpanStart(spans, k)
           length == spans[k].length
           piece == [i \in 1 .. length |-> start + i - 1]
<1>1. start \in Int /\ length \in Nat
  BY StartOfSpan, SpanTyped
<1>2. Piece(spans, k) = piece
  BY DEF Piece
<1> HIDE DEF start, length
<1>3. piece \in Seq(Int) /\ Len(piece) = length
  <2>1. piece \in [1 .. length -> Int]
    BY <1>1
  <2> QED
    BY <1>1, <2>1
<1>4. \A i \in 1 .. length : piece[i] = start + i - 1
  OBVIOUS
<1> HIDE DEF piece
<1>5. Increasing(piece)
  BY <1>1, <1>3, <1>4 DEF Increasing
<1> QED
  BY <1>2, <1>3, <1>4, <1>5 DEF start, length

\* The buckets of a side that is laid out are in order and within the range of an
\* i32, and there is one index for each.
LEMMA IndicesOfSpans ==
  ASSUME NEW spans \in Seq(Span), SpansInRange(spans)
  PROVE  /\ Indices(spans) \in Seq(Int) /\ Increasing(Indices(spans))
         /\ Len(Indices(spans)) = Covered(spans)
         /\ \A i \in 1 .. Len(Indices(spans)) : Indices(spans)[i] \in IndexRange
<1> DEFINE n == Len(spans)
           W(k) == Upto(Widths(spans), k)
           F(k) == Ahead(Pieces(spans), k)
           lengths == [k \in 1 .. Len(spans) |-> spans[k].length]
           Fine(k) == /\ Increasing(F(k)) /\ Len(F(k)) = Upto(lengths, k)
                      /\ \A i \in 1 .. Len(F(k)) : F(k)[i] \in IndexRange /\ F(k)[i] < W(k)
           Done == {k \in 0 .. n : Fine(k)}
<1>1. n \in Nat /\ DOMAIN spans = 1 .. n
  OBVIOUS
<1>2. /\ lengths \in [1 .. n -> Int]
      /\ \A k \in 1 .. n : lengths[k] = spans[k].length
  BY SpanTyped
<1>3. Covered(spans) = Sum(lengths)
  BY <1>1, Zenon DEF Covered
<1> HIDE DEF lengths
<1>4. /\ Upto(lengths, 0) = 0 /\ Upto(lengths, n) = Sum(lengths)
      /\ \A i \in 1 .. n : Upto(lengths, i) = Upto(lengths, i - 1) + lengths[i]
  BY <1>1, <1>2, UptoSteps
<1>5. 0 \in Done
  <2>1. F(0) = <<>>
    BY IndicesSteps
  <2>2. Increasing(<<>>) /\ Len(<<>>) = 0
    BY DEF Increasing
  <2> QED
    BY <1>1, <1>4, <2>1, <2>2
<1>6. ASSUME NEW k \in 1 .. n, Fine(k - 1)
      PROVE  Fine(k)
  <2> DEFINE s == F(k - 1)
             t == Piece(spans, k)
             start == SpanStart(spans, k)
             length == spans[k].length
  <2>1. k - 1 \in 0 .. n /\ F(k) = s \o t /\ s \in Seq(Int)
    BY IndicesSteps
  <2>2. /\ t \in Seq(Int) /\ Len(t) = length /\ Increasing(t)
        /\ \A i \in 1 .. length : t[i] = start + i - 1
    BY PieceOfSpan
  <2>3. /\ start = W(k - 1) + spans[k].offset /\ start \in Int /\ W(k - 1) \in Int
        /\ W(k) = W(k - 1) + (spans[k].offset + length)
        /\ spans[k].offset \in Int /\ length \in Nat
    BY <2>1, StartOfSpan, WidthsTyped, SpanTyped
  <2>4. /\ k > 1 => spans[k].offset >= 0
        /\ start \in IndexRange
        /\ start + (IF length = 0 THEN 1 ELSE length) - 1 \in IndexRange
    BY DEF SpansInRange
  <2>5. /\ Increasing(s) /\ Len(s) = Upto(lengths, k - 1)
        /\ \A i \in 1 .. Len(s) : s[i] \in IndexRange /\ s[i] < W(k - 1)
    BY <1>6
  <2>6. k = 1 => s = <<>>
    BY IndicesSteps
  <2>7. \A x, y, z \in Int :
          x \in IndexRange /\ z \in IndexRange /\ x <= y /\ y <= z => y \in IndexRange
    BY RangeIsConvex
  <2> DEFINE end == W(k)
             before == W(k - 1)
             offset == spans[k].offset
  <2> HIDE DEF s, t, start, length, end, before, offset, F, W, Fine
  <2>8. \A i \in 1 .. Len(s) : s[i] < start /\ s[i] < end /\ s[i] \in Int
    <3> TAKE i \in 1 .. Len(s)
    <3>1. s[i] \in Int /\ s[i] < before
      BY <2>1, <2>5 DEF before
    <3>2. k # 1
      <4>1. SUFFICES ASSUME k = 1 PROVE FALSE
        OBVIOUS
      <4>2. Len(s) = 0
        BY <2>6, <4>1
      <4> QED
        BY <4>2
    <3>3. offset >= 0
      BY <2>4, <3>2 DEF offset
    <3>4. /\ start = before + offset /\ end = before + (offset + length)
          /\ before \in Int /\ offset \in Int /\ length \in Nat
      BY <2>3 DEF before, end, offset
    <3>5. s[i] < start /\ start <= end
      BY <3>1, <3>3, <3>4
    <3>6. start \in Int /\ end \in Int
      BY <3>4
    <3> QED
      BY <3>1, <3>5, <3>6
  <2>9. \A i \in 1 .. Len(t) : start <= t[i] /\ t[i] < end /\ t[i] \in IndexRange
    <3> TAKE i \in 1 .. Len(t)
    <3>1. i \in 1 .. length /\ t[i] = start + i - 1 /\ length > 0
      <4>1. length \in Nat /\ i \in 1 .. length
        BY <2>2, <2>3
      <4>2. length > 0
        BY <4>1
      <4> QED
        BY <2>2, <4>1, <4>2
    <3>2. end = start + length
      <4>1. /\ start = before + offset /\ end = before + (offset + length)
            /\ before \in Int /\ offset \in Int /\ length \in Nat
        BY <2>3 DEF before, end, offset
      <4> QED
        BY <4>1
    <3>3. start \in IndexRange /\ start + length - 1 \in IndexRange
      BY <2>3, <2>4, <3>1
    <3>4. /\ start \in Int /\ t[i] \in Int /\ start + length - 1 \in Int
          /\ start <= t[i] /\ t[i] <= start + length - 1
      <4>1. start \in Int /\ length \in Nat /\ i \in 1 .. length
        BY <2>3, <3>1
      <4>2. /\ start + i - 1 \in Int /\ start + length - 1 \in Int
            /\ start <= start + i - 1 /\ start + i - 1 <= start + length - 1
        BY <4>1
      <4> QED
        BY <3>1, <4>1, <4>2
    <3>5. t[i] \in IndexRange
      BY <2>7, <3>3, <3>4
    <3> QED
      BY <2>3, <3>1, <3>2, <3>4, <3>5
  <2>10. Increasing(s \o t)
    BY <2>1, <2>2, <2>3, <2>5, <2>8, <2>9, IncreasingJoined
  <2>11. /\ Len(s \o t) = Len(s) + Len(t)
         /\ \A i \in 1 .. Len(s) : (s \o t)[i] = s[i]
         /\ \A i \in 1 .. Len(t) : (s \o t)[Len(s) + i] = t[i]
    <3>1. s \in Seq(Int) /\ t \in Seq(Int)
      BY <2>1, <2>2
    <3> QED
      BY <3>1, Joined
  <2>12. \A i \in 1 .. Len(s \o t) : (s \o t)[i] \in IndexRange /\ (s \o t)[i] < end
    <3> TAKE i \in 1 .. Len(s \o t)
    <3>1. Len(s) \in Nat /\ Len(t) \in Nat
      BY <2>1, <2>2
    <3>2. CASE i <= Len(s)
      BY <2>5, <2>8, <2>11, <3>2
    <3>3. CASE i > Len(s)
      <4>1. i - Len(s) \in 1 .. Len(t) /\ Len(s) + (i - Len(s)) = i
        BY <2>11, <3>1, <3>3
      <4> QED
        BY <2>9, <2>11, <4>1
    <3> QED
      BY <3>1, <3>2, <3>3
  <2>13. Len(s \o t) = Upto(lengths, k)
    BY <1>2, <1>4, <2>2, <2>5, <2>11 DEF length
  <2> QED
    BY <2>1, <2>10, <2>12, <2>13 DEF Fine, end
<1> HIDE DEF Fine
<1>7. \A k \in 1 .. n : k - 1 \in Done => k \in Done
  BY <1>1, <1>6
<1> HIDE DEF Done
<1>8. 0 .. n \subseteq Done
  BY <1>1, <1>5, <1>7, BoundedInduction
<1>9. Fine(n)
  BY <1>1, <1>8 DEF Done
<1>10. F(n) = Indices(spans) /\ F(n) \in Seq(Int)
  <2>1. n \in 0 .. n
    BY <1>1
  <2> QED
    BY <2>1, IndicesSteps
<1> HIDE DEF F, W
<1> QED
  BY <1>3, <1>4, <1>9, <1>10 DEF Fine

-----------------------------------------------------------------------------

\* Spans alike up to k lay out the same indices up to it.
LEMMA SameLayout ==
  ASSUME NEW a \in Seq(Span), NEW b \in Seq(Span), NEW n \in Nat, n <= Len(a), n <= Len(b),
         \A k \in 1 .. n : a[k] = b[k]
  PROVE  /\ \A k \in 0 .. n : Upto(Widths(a), k) = Upto(Widths(b), k)
         /\ \A k \in 1 .. n : SpanStart(a, k) = SpanStart(b, k)
         /\ Ahead(Pieces(a), n) = Ahead(Pieces(b), n)
<1>1. \A k \in 1 .. n : k \in 1 .. Len(a) /\ k \in 1 .. Len(b)
  OBVIOUS
<1>2. \A k \in 1 .. n : Widths(a)[k] = Widths(b)[k]
  BY <1>1 DEF Widths
<1>3. ASSUME NEW k \in 0 .. n PROVE Upto(Widths(a), k) = Upto(Widths(b), k)
  <2>1. \A j \in 1 .. k : Widths(a)[j] = Widths(b)[j]
    BY <1>2
  <2> QED
    BY <2>1, UptoSame
<1>4. ASSUME NEW k \in 1 .. n PROVE SpanStart(a, k) = SpanStart(b, k)
  <2>1. k - 1 \in 0 .. n /\ k \in 1 .. Len(a) /\ k \in 1 .. Len(b) /\ a[k] = b[k]
    BY <1>1
  <2>2. Upto(Widths(a), k - 1) = Upto(Widths(b), k - 1)
    BY <1>3, <2>1
  <2>3. SpanStart(a, k) = Upto(Widths(a), k - 1) + a[k].offset
    BY <2>1, StartOfSpan
  <2>4. SpanStart(b, k) = Upto(Widths(b), k - 1) + b[k].offset
    BY <2>1, StartOfSpan
  <2> QED
    BY <2>1, <2>2, <2>3, <2>4
<1>5. ASSUME NEW k \in 1 .. n PROVE Pieces(a)[k] = Pieces(b)[k]
  <2>1. Piece(a, k) = Piece(b, k)
    BY <1>4 DEF Piece
  <2>2. Pieces(a)[k] = Piece(a, k) /\ Pieces(b)[k] = Piece(b, k)
    BY <1>1 DEF Pieces
  <2> QED
    BY <2>1, <2>2
<1>6. Ahead(Pieces(a), n) = Ahead(Pieces(b), n)
  BY <1>5, AheadSame
<1> QED
  BY <1>3, <1>4, <1>6

\* A span of one bucket behind the others.
LEMMA AppendedSpan ==
  ASSUME NEW spans \in Seq(Span), NEW offset \in Int
  PROVE  LET more == Append(spans, [offset |-> offset, length |-> 1])
         IN /\ more \in Seq(Span) /\ Len(more) = Len(spans) + 1
            /\ Indices(more) = Append(Indices(spans), End(spans) + offset)
            /\ End(more) = End(spans) + offset + 1
            /\ SpansInRange(spans) /\ (Len(spans) > 0 => offset >= 0)
                 /\ End(spans) + offset \in IndexRange => SpansInRange(more)
<1> DEFINE span == [offset |-> offset, length |-> 1]
           more == Append(spans, span)
           n == Len(spans)
           m == n + 1
<1>1. span \in Span /\ span.offset = offset /\ span.length = 1
  BY DEF Span
<1> HIDE DEF span
<1>2. /\ more \in Seq(Span) /\ Len(more) = n + 1 /\ more[n + 1] = span
      /\ \A i \in 1 .. n : more[i] = spans[i]
  BY <1>1, Appended
<1>3. n \in Nat /\ m \in 1 .. Len(more) /\ m - 1 = n /\ n <= Len(more) /\ n <= Len(spans)
      /\ n \in 0 .. Len(spans) /\ n \in 0 .. n
  BY <1>2
<1> HIDE DEF more
<1>4. /\ \A k \in 0 .. n : Upto(Widths(more), k) = Upto(Widths(spans), k)
      /\ \A k \in 1 .. n : SpanStart(more, k) = SpanStart(spans, k)
      /\ Ahead(Pieces(more), n) = Ahead(Pieces(spans), n)
  BY <1>2, <1>3, SameLayout
<1>5. Upto(Widths(spans), n) = End(spans) /\ End(spans) \in Int
  BY <1>3, WidthsTyped DEF End
<1>6. SpanStart(more, m) = End(spans) + offset
  <2>1. SpanStart(more, m) = Upto(Widths(more), m - 1) + more[m].offset
    BY <1>2, <1>3, StartOfSpan
  <2> QED
    BY <1>1, <1>2, <1>3, <1>4, <1>5, <2>1
<1>7. End(more) = End(spans) + offset + 1
  <2>1. Upto(Widths(more), m) = Upto(Widths(more), m - 1) + (more[m].offset + more[m].length)
    BY <1>2, <1>3, WidthsTyped
  <2> QED
    BY <1>1, <1>2, <1>3, <1>4, <1>5, <2>1 DEF End
<1>8. Indices(more) = Indices(spans) \o Piece(more, m)
  <2>1. Ahead(Pieces(more), m) = Ahead(Pieces(more), m - 1) \o Piece(more, m)
    BY <1>2, <1>3, IndicesSteps
  <2>2. Ahead(Pieces(more), m) = Indices(more)
    BY <1>2, IndicesSteps
  <2>3. Ahead(Pieces(spans), n) = Indices(spans)
    BY IndicesSteps
  <2> QED
    BY <1>3, <1>4, <2>1, <2>2, <2>3
<1>9. Indices(more) = Append(Indices(spans), End(spans) + offset)
  <2> DEFINE p == Piece(more, m)
             s == Indices(spans)
             x == End(spans) + offset
  <2>1. p \in Seq(Int) /\ Len(p) = 1 /\ p[1] = x /\ x \in Int
    <3>1. more \in Seq(Span) /\ m \in 1 .. Len(more) /\ more[m].length = 1
      BY <1>1, <1>2, <1>3
    <3>2. /\ p \in Seq(Int) /\ Len(p) = more[m].length
          /\ \A i \in 1 .. more[m].length : p[i] = SpanStart(more, m) + i - 1
      BY <3>1, PieceOfSpan
    <3>3. x \in Int /\ SpanStart(more, m) = x
      BY <1>5, <1>6
    <3> HIDE DEF p, x
    <3> QED
      BY <3>1, <3>2, <3>3
  <2>2. s \in Seq(Int)
    <3>1. Len(spans) \in 0 .. Len(spans)
      BY <1>3
    <3> QED
      BY <3>1, IndicesSteps
  <2> HIDE DEF p, s, x
  <2>3. s \o p = Append(s, x)
    <3>1. p \in Seq(Int)
      BY <2>1
    <3>2. /\ s \o p \in Seq(Int) /\ Len(s \o p) = Len(s) + 1
          /\ \A i \in 1 .. Len(s) : (s \o p)[i] = s[i]
          /\ (s \o p)[Len(s) + 1] = x
      <4>1. /\ s \o p \in Seq(Int) /\ Len(s \o p) = Len(s) + Len(p)
            /\ \A i \in 1 .. Len(s) : (s \o p)[i] = s[i]
            /\ \A i \in 1 .. Len(p) : (s \o p)[Len(s) + i] = p[i]
        BY <2>2, <3>1, Joined
      <4>2. 1 \in 1 .. Len(p)
        BY <2>1
      <4> QED
        BY <2>1, <4>1, <4>2
    <3>3. /\ Append(s, x) \in Seq(Int) /\ Len(Append(s, x)) = Len(s) + 1
          /\ Append(s, x)[Len(s) + 1] = x
          /\ \A i \in 1 .. Len(s) : Append(s, x)[i] = s[i]
      BY <2>1, <2>2, Appended
    <3> DEFINE u == s \o p
               v == Append(s, x)
    <3> HIDE DEF u, v
    <3>4. \A i \in 1 .. Len(u) : u[i] = v[i]
      <4>1. Len(s) \in Nat
        BY <2>2
      <4> QED
        BY <3>2, <3>3, <4>1 DEF u, v
    <3>5. u = v
      BY <3>2, <3>3, <3>4, SameElements DEF u, v
    <3> QED
      BY <3>5 DEF u, v
  <2> QED
    BY <1>8, <2>3 DEF p, s, x
<1>10. ASSUME SpansInRange(spans), n > 0 => offset >= 0, End(spans) + offset \in IndexRange
       PROVE  SpansInRange(more)
  <2>1. ASSUME NEW k \in 1 .. n
        PROVE  /\ k > 1 => more[k].offset >= 0
               /\ SpanStart(more, k) \in IndexRange
               /\ SpanStart(more, k)
                    + (IF more[k].length = 0 THEN 1 ELSE more[k].length) - 1 \in IndexRange
    <3>1. more[k] = spans[k] /\ SpanStart(more, k) = SpanStart(spans, k)
      BY <1>2, <1>4
    <3> QED
      BY <1>10, <3>1 DEF SpansInRange
  <2>2. /\ m > 1 => more[m].offset >= 0
        /\ SpanStart(more, m) \in IndexRange
        /\ SpanStart(more, m)
             + (IF more[m].length = 0 THEN 1 ELSE more[m].length) - 1 \in IndexRange
    BY <1>1, <1>2, <1>3, <1>5, <1>6, <1>10
  <2>3. \A k \in 1 .. Len(more) : k \in 1 .. n \/ k = m
    BY <1>2, <1>3
  <2> QED
    BY <2>1, <2>2, <2>3 DEF SpansInRange
<1> QED
  BY <1>2, <1>7, <1>9, <1>10 DEF more, span

\* One bucket more in the last span.
LEMMA ExtendedSpan ==
  ASSUME NEW spans \in Seq(Span), Len(spans) > 0
  PROVE  LET more == Extend(spans)
         IN /\ more \in Seq(Span) /\ Len(more) = Len(spans)
            /\ Indices(more) = Append(Indices(spans), End(spans))
            /\ End(more) = End(spans) + 1
            /\ SpansInRange(spans) /\ End(spans) \in IndexRange => SpansInRange(more)
<1> DEFINE more == Extend(spans)
           m == Len(spans)
           n == m - 1
           old == spans[m]
           new == [old EXCEPT !.length = @ + 1]
<1>1. m \in Nat /\ n \in Nat /\ m \in 1 .. Len(spans) /\ n <= Len(spans) /\ n < m
  OBVIOUS
<1>2. old \in Span /\ old.offset \in Int /\ old.length \in Nat
  <2>1. old \in Span
    OBVIOUS
  <2> QED
    BY <2>1 DEF Span
<1>3. new \in Span /\ new.offset = old.offset /\ new.length = old.length + 1
  BY <1>2 DEF Span
<1>4. /\ more \in Seq(Span) /\ Len(more) = m /\ more[m] = new
      /\ \A k \in 1 .. n : more[k] = spans[k]
  <2>1. more = [spans EXCEPT ![m] = new]
    BY DEF Extend
  <2> HIDE DEF new, m, n
  <2> QED
    BY <1>1, <1>3, <2>1 DEF m, n
<1> HIDE DEF more, new
<1>5. n <= Len(more) /\ m \in 1 .. Len(more) /\ n \in 0 .. n
  BY <1>1, <1>4
<1>6. /\ \A k \in 0 .. n : Upto(Widths(more), k) = Upto(Widths(spans), k)
      /\ \A k \in 1 .. n : SpanStart(more, k) = SpanStart(spans, k)
      /\ Ahead(Pieces(more), n) = Ahead(Pieces(spans), n)
  BY <1>1, <1>4, <1>5, SameLayout
<1>7. SpanStart(more, m) = SpanStart(spans, m)
  <2>1. SpanStart(more, m) = Upto(Widths(more), m - 1) + more[m].offset
    BY <1>4, <1>5, StartOfSpan
  <2>2. SpanStart(spans, m) = Upto(Widths(spans), m - 1) + spans[m].offset
    BY <1>1, StartOfSpan
  <2> QED
    BY <1>3, <1>4, <1>5, <1>6, <2>1, <2>2
<1>8. /\ Upto(Widths(spans), n) \in Int
      /\ End(spans) = Upto(Widths(spans), n) + (old.offset + old.length)
  BY <1>1, WidthsTyped DEF End
<1>9. End(more) = Upto(Widths(more), n) + (new.offset + new.length)
  BY <1>4, <1>5, WidthsTyped DEF End
<1>10. End(more) = End(spans) + 1 /\ End(spans) \in Int
  <2> DEFINE before == Upto(Widths(spans), n)
             o == old.offset
             l == old.length
  <2>1. /\ Upto(Widths(more), n) = before
        /\ new.offset = o /\ new.length = l + 1
    BY <1>3, <1>5, <1>6
  <2>2. before \in Int /\ o \in Int /\ l \in Nat
    BY <1>2, <1>8
  <2>3. End(spans) = before + (o + l)
    BY <1>8
  <2>4. End(more) = before + (o + (l + 1))
    BY <1>9, <2>1
  <2> HIDE DEF before, o, l
  <2> QED
    BY <2>2, <2>3, <2>4
<1>11. SpanStart(spans, m) + old.length = End(spans) /\ SpanStart(spans, m) \in Int
  <2>1. SpanStart(spans, m) = Upto(Widths(spans), m - 1) + spans[m].offset
    BY <1>1, StartOfSpan
  <2> QED
    BY <1>2, <1>8, <2>1
<1>12. Indices(more) = Ahead(Pieces(spans), n) \o Piece(more, m)
  <2>1. Ahead(Pieces(more), m) = Ahead(Pieces(more), m - 1) \o Piece(more, m)
    BY <1>4, <1>5, IndicesSteps
  <2>2. Ahead(Pieces(more), m) = Indices(more)
    BY <1>4, IndicesSteps
  <2> QED
    BY <1>6, <2>1, <2>2
<1>13. Indices(spans) = Ahead(Pieces(spans), n) \o Piece(spans, m)
  <2>1. Ahead(Pieces(spans), m) = Ahead(Pieces(spans), m - 1) \o Piece(spans, m)
    BY <1>1, IndicesSteps
  <2>2. Ahead(Pieces(spans), m) = Indices(spans)
    BY IndicesSteps
  <2> QED
    BY <2>1, <2>2
<1>14. Piece(more, m) = Append(Piece(spans, m), End(spans))
  <2> DEFINE p == Piece(spans, m)
             q == Piece(more, m)
             start == SpanStart(spans, m)
             x == End(spans)
  <2>1. /\ p \in Seq(Int) /\ Len(p) = old.length
        /\ \A i \in 1 .. old.length : p[i] = start + i - 1
    BY <1>1, PieceOfSpan
  <2>2. /\ q \in Seq(Int) /\ Len(q) = old.length + 1
        /\ \A i \in 1 .. old.length + 1 : q[i] = start + i - 1
    BY <1>3, <1>4, <1>5, <1>7, PieceOfSpan
  <2>3. start + old.length = x /\ start \in Int /\ x \in Int
    BY <1>10, <1>11
  <2> DEFINE length == old.length
  <2> HIDE DEF p, q, start, x, length
  <2>4. /\ p \in Seq(Int) /\ Len(p) = length /\ length \in Nat
        /\ \A i \in 1 .. length : p[i] = start + i - 1
        /\ q \in Seq(Int) /\ Len(q) = length + 1
        /\ \A i \in 1 .. length + 1 : q[i] = start + i - 1
    BY <1>2, <2>1, <2>2 DEF length
  <2>5. start + length = x
    BY <2>3 DEF length
  <2> DEFINE a == Append(p, x)
  <2>6. a \in Seq(Int) /\ Len(a) = length + 1 /\ a[length + 1] = x
        /\ \A i \in 1 .. length : a[i] = p[i]
    BY <2>3, <2>4, Appended
  <2> HIDE DEF a
  <2>7. \A i \in 1 .. Len(q) : q[i] = a[i]
    <3> TAKE i \in 1 .. Len(q)
    <3>1. CASE i = length + 1
      BY <2>3, <2>4, <2>5, <2>6, <3>1
    <3>2. CASE i # length + 1
      <4>1. i \in 1 .. length
        BY <2>4, <3>2
      <4> QED
        BY <2>4, <2>6, <4>1
    <3> QED
      BY <3>1, <3>2
  <2>8. q = a
    BY <2>4, <2>6, <2>7, SameElements
  <2> QED
    BY <2>8 DEF a, p, q, x
<1>15. Indices(more) = Append(Indices(spans), End(spans))
  <2> DEFINE f == Ahead(Pieces(spans), n)
             p == Piece(spans, m)
             x == End(spans)
  <2>1. f \in Seq(Int) /\ p \in Seq(Int) /\ x \in Int
    <3>1. n \in 0 .. Len(spans)
      BY <1>1
    <3> QED
      BY <1>1, <1>10, <3>1, IndicesSteps, PieceOfSpan
  <2> HIDE DEF f, p, x
  <2>2. f \o Append(p, x) = Append(f \o p, x)
    BY <2>1
  <2> QED
    BY <1>12, <1>13, <1>14, <2>2 DEF f, p, x
<1>16. ASSUME SpansInRange(spans), End(spans) \in IndexRange
       PROVE  SpansInRange(more)
  <2>1. ASSUME NEW k \in 1 .. n
        PROVE  /\ k > 1 => more[k].offset >= 0
               /\ SpanStart(more, k) \in IndexRange
               /\ SpanStart(more, k)
                    + (IF more[k].length = 0 THEN 1 ELSE more[k].length) - 1 \in IndexRange
    <3>1. more[k] = spans[k] /\ SpanStart(more, k) = SpanStart(spans, k) /\ k \in 1 .. Len(spans)
      BY <1>1, <1>4, <1>6
    <3> QED
      BY <1>16, <3>1 DEF SpansInRange
  <2>2. /\ m > 1 => more[m].offset >= 0
        /\ SpanStart(more, m) \in IndexRange
        /\ SpanStart(more, m)
             + (IF more[m].length = 0 THEN 1 ELSE more[m].length) - 1 \in IndexRange
    <3>1. (m > 1 => old.offset >= 0) /\ SpanStart(spans, m) \in IndexRange
      BY <1>1, <1>16 DEF SpansInRange
    <3>2. SpanStart(spans, m) + (old.length + 1) - 1 = End(spans)
      BY <1>2, <1>10, <1>11
    <3>3. new.length # 0
      BY <1>2, <1>3
    <3> QED
      BY <1>3, <1>4, <1>7, <1>16, <3>1, <3>2, <3>3
  <2>3. \A k \in 1 .. Len(more) : k \in 1 .. n \/ k = m
    BY <1>1, <1>4
  <2> QED
    BY <2>1, <2>2, <2>3 DEF SpansInRange
<1> QED
  BY <1>4, <1>10, <1>15, <1>16 DEF more

-----------------------------------------------------------------------------

\* The provers know no powers; this much of those of two is assumed where it is
\* used.
PowersOfTwo == 2 ^ 0 = 1 /\ \A n \in Nat : 2 ^ n \in Nat \ {0} /\ 2 ^ (n + 1) = 2 * 2 ^ n

\* A positive power of two is at least two.
LEMMA PowerBounds ==
  ASSUME PowersOfTwo, NEW n \in Nat, n > 0
  PROVE  2 ^ n \in Nat \ {0} /\ 2 ^ n >= 2
<1>1. n - 1 \in Nat /\ (n - 1) + 1 = n
  OBVIOUS
<1>2. 2 ^ (n - 1) \in Nat \ {0} /\ 2 ^ ((n - 1) + 1) = 2 * 2 ^ (n - 1)
  BY <1>1 DEF PowersOfTwo
<1>3. 2 ^ n \in Nat \ {0} /\ 2 ^ n = 2 * 2 ^ (n - 1)
  BY <1>1, <1>2 DEF PowersOfTwo
<1> QED
  BY <1>2, <1>3

\* The power with which a distance between two schemas shifts an index.
LEMMA ShiftOfDistance ==
  ASSUME NEW shift \in Nat, shift < IndexBits
  PROVE  shift % IndexBits = shift
<1>1. IndexBits \in Nat /\ IndexBits > 0
  BY HistogramAssumption DEF HistogramAssumption
<1> QED
  BY <1>1

\* The bucket at a schema coarser by a factor of width that an index is part of.
Up(index, width) == (index + width - 1) \div width

\* Up divides, rounding up.
LEMMA UpBounds ==
  ASSUME NEW index \in Int, NEW width \in Nat \ {0}
  PROVE  /\ Up(index, width) \in Int
         /\ (Up(index, width) - 1) * width < index
         /\ index <= Up(index, width) * width
<1> DEFINE a == index + width - 1
           q == a \div width
<1>1. q \in Int /\ a \in Int
  OBVIOUS
<1>2. q * width <= a /\ a < (q + 1) * width
  OBVIOUS
<1>3. (q - 1) * width = q * width - width /\ (q + 1) * width = q * width + width
  BY <1>1
<1>4. q * width \in Int
  BY <1>1
<1> DEFINE p == q * width
<1>5. p \in Int /\ p <= a /\ a < p + width /\ (q - 1) * width = p - width
  BY <1>2, <1>3, <1>4
<1>6. q = Up(index, width) /\ a = index + width - 1
  BY DEF Up
<1> HIDE DEF p, q, a
<1>7. p - width < index /\ index <= p
  BY <1>1, <1>5, <1>6
<1> QED
  BY <1>1, <1>5, <1>6, <1>7 DEF p

\* Multiples are ordered as what they are of.
LEMMA TimesMonotone ==
  ASSUME NEW a \in Int, NEW b \in Int, NEW w \in Nat, a <= b
  PROVE  a * w \in Int /\ b * w \in Int /\ a * w <= b * w
OBVIOUS

\* An index lies within bounds that are multiples of the width as its bucket does.
LEMMA UpWithin ==
  ASSUME NEW index \in Int, NEW width \in Nat \ {0}, NEW b \in Int
  PROVE  (Up(index, width) <= b) <=> (index <= b * width)
<1> DEFINE u == Up(index, width)
<1>1. u \in Int /\ (u - 1) * width < index /\ index <= u * width
  BY UpBounds
<1> HIDE DEF u
<1>2. CASE u <= b
  <2>1. u * width \in Int /\ b * width \in Int /\ u * width <= b * width
    BY <1>1, <1>2, TimesMonotone
  <2>2. index <= b * width
    BY <1>1, <2>1
  <2> QED
    BY <1>2, <2>2 DEF u
<1>3. CASE ~(u <= b)
  <2>1. b <= u - 1 /\ u - 1 \in Int
    BY <1>1, <1>3
  <2>2. b * width \in Int /\ (u - 1) * width \in Int /\ b * width <= (u - 1) * width
    BY <2>1, TimesMonotone
  <2>3. ~(index <= b * width)
    BY <1>1, <2>2
  <2> QED
    BY <1>3, <2>3 DEF u
<1> QED
  BY <1>2, <1>3

\* Up compares as the index compares with the multiple.
LEMMA UpAbove ==
  ASSUME NEW index \in Int, NEW width \in Nat \ {0}, NEW a \in Int
  PROVE  (a < Up(index, width)) <=> (a * width < index)
<1>1. Up(index, width) \in Int /\ a * width \in Int
  BY UpBounds
<1>2. (Up(index, width) <= a) <=> (index <= a * width)
  BY UpWithin
<1> QED
  BY <1>1, <1>2

\* Up keeps the order of indices.
LEMMA UpMonotone ==
  ASSUME NEW i \in Int, NEW j \in Int, NEW width \in Nat \ {0}, i <= j
  PROVE  Up(i, width) <= Up(j, width)
<1>1. /\ Up(j, width) \in Int /\ j <= Up(j, width) * width
      /\ Up(j, width) * width \in Int
  BY UpBounds
<1>2. i <= Up(j, width) * width
  BY <1>1
<1> QED
  BY <1>1, <1>2, UpWithin

\* No other integer is the quotient rounded up.
LEMMA UpUnique ==
  ASSUME NEW index \in Int, NEW width \in Nat \ {0}, NEW t \in Int,
         (t - 1) * width < index, index <= t * width
  PROVE  Up(index, width) = t
<1>1. Up(index, width) \in Int /\ t - 1 \in Int
  BY UpBounds
<1>2. Up(index, width) <= t
  BY UpWithin
<1>3. t - 1 < Up(index, width)
  BY <1>1, UpAbove
<1> QED
  BY <1>1, <1>2, <1>3

\* Going down in two steps leads where one goes.
LEMMA UpTwice ==
  ASSUME NEW index \in Int, NEW v \in Nat \ {0}, NEW w \in Nat \ {0}
  PROVE  v * w \in Nat \ {0} /\ Up(Up(index, v), w) = Up(index, w * v)
<1> DEFINE t == Up(index, v)
           u == Up(t, w)
<1>1. t \in Int
  BY UpBounds
<1>2. u \in Int
  BY <1>1, UpBounds
<1>3. v * w \in Nat \ {0} /\ w * v \in Nat \ {0}
  OBVIOUS
<1>4. index <= (u * w) * v
  <2>1. u * w \in Int /\ t <= u * w
    <3> HIDE DEF t
    <3>1. Up(t, w) \in Int /\ t <= Up(t, w) * w
      BY <1>1, UpBounds
    <3> QED
      BY <3>1
  <2> QED
    BY <2>1, UpWithin
<1>5. ((u - 1) * w) * v < index
  <2>1. (u - 1) * w \in Int /\ (u - 1) * w < t
    BY <1>1, <1>2, UpBounds
  <2> QED
    BY <2>1, UpAbove
<1>6. (u * w) * v = u * (w * v) /\ ((u - 1) * w) * v = (u - 1) * (w * v)
  BY <1>2
<1> HIDE DEF t, u
<1>7. Up(index, w * v) = u
  BY <1>2, <1>3, <1>4, <1>5, <1>6, UpUnique
<1> QED
  BY <1>3, <1>7 DEF t, u

\* The target of merge_buckets is that bucket.
LEMMA TargetIsUp ==
  ASSUME NEW index \in Int, NEW shift \in Nat, shift < IndexBits, 2 ^ shift \in Nat \ {0}
  PROVE  Target(index, shift) = Up(index, 2 ^ shift)
<1> DEFINE w == 2 ^ shift
<1>1. Target(index, shift) = (index - 1) \div w + 1
  BY ShiftOfDistance DEF Target, ShiftRight
<1> HIDE DEF w
<1>2. w \in Nat \ {0}
  BY DEF w
<1>3. (index - 1) \div w + 1 = (index + w - 1) \div w
  BY <1>2
<1> QED
  BY <1>1, <1>3 DEF Up, w

\* From a width of two on, the buckets that hold an index of an i32 lie in the
\* middle half of its range.
LEMMA UpHalves ==
  ASSUME NEW index \in IndexRange, NEW w \in Nat, w >= 2
  PROVE  /\ -IndexLimit <= 2 * Up(index, w) /\ 2 * Up(index, w) <= IndexLimit
         /\ Up(index, w) \in IndexRange
<1>1. IndexLimit \in Nat \ {0} /\ index \in Int /\ -IndexLimit <= index /\ index <= IndexLimit - 1
  BY HistogramAssumption DEF HistogramAssumption, IndexRange
<1> DEFINE b == IndexLimit \div 2
           a == (-IndexLimit - 1) \div 2
           u == Up(index, w)
<1>2. /\ a \in Int /\ b \in Int /\ b >= 0 /\ a < 0
      /\ 2 * b <= IndexLimit /\ IndexLimit - 1 <= 2 * b
      /\ 2 * a <= -IndexLimit - 1 /\ -IndexLimit - 2 <= 2 * a
  BY <1>1
<1> HIDE DEF a, b
<1>3. b * w \in Int /\ a * w \in Int /\ 2 * b <= b * w /\ a * w <= 2 * a
  BY <1>2
<1>4. u \in Int /\ u <= b /\ a < u
  <2>1. w \in Nat \ {0} /\ index <= b * w /\ a * w < index
    BY <1>1, <1>2, <1>3
  <2> QED
    BY <1>1, <1>2, <2>1, UpWithin, UpAbove, UpBounds
<1> HIDE DEF u
<1>5. -IndexLimit <= 2 * u /\ 2 * u <= IndexLimit
  BY <1>1, <1>2, <1>4
<1>6. u \in IndexRange
  BY <1>1, <1>4, <1>5 DEF IndexRange
<1> QED
  BY <1>5, <1>6 DEF u

-----------------------------------------------------------------------------

\* What is counted above one index and up to another.
Kept(indices, counts, a, b) ==
  [i \in 1 .. Len(indices) |-> IF a < indices[i] /\ indices[i] <= b THEN counts[i] ELSE 0]
TotalWithin(indices, counts, a, b) == Upto(Kept(indices, counts, a, b), Len(indices))

\* The counts within two bounds are integers, and so is their total.
LEMMA KeptTyped ==
  ASSUME NEW s \in Seq(Int), NEW c \in Seq(Int), Len(s) = Len(c), NEW a, NEW b
  PROVE  /\ Len(s) \in Nat /\ Kept(s, c, a, b) \in [1 .. Len(s) -> Int]
         /\ \A i \in 1 .. Len(s) :
              Kept(s, c, a, b)[i] = IF a < s[i] /\ s[i] <= b THEN c[i] ELSE 0
         /\ TotalWithin(s, c, a, b) \in Int
<1>1. Len(s) \in Nat
  OBVIOUS
<1>2. \A i \in 1 .. Len(s) : c[i] \in Int
  OBVIOUS
<1>3. /\ Kept(s, c, a, b) \in [1 .. Len(s) -> Int]
      /\ \A i \in 1 .. Len(s) :
           Kept(s, c, a, b)[i] = IF a < s[i] /\ s[i] <= b THEN c[i] ELSE 0
  BY <1>2 DEF Kept
<1>4. TotalWithin(s, c, a, b) \in Int
  <2> DEFINE n == Len(s)
             f == Kept(s, c, a, b)
  <2>1. n \in Nat /\ f \in [1 .. n -> Int] /\ n \in 0 .. n
    BY <1>1, <1>3
  <2> HIDE DEF n, f
  <2>2. Upto(f, n) \in Int
    BY <2>1, UptoSteps
  <2> QED
    BY <2>2 DEF TotalWithin, n, f
<1> QED
  BY <1>1, <1>3, <1>4

\* One element more counts for itself.
LEMMA OneMore ==
  ASSUME NEW n \in Nat, NEW f \in [1 .. n -> Int], NEW g \in [1 .. n + 1 -> Int],
         \A i \in 1 .. n : g[i] = f[i]
  PROVE  Upto(g, n + 1) = Upto(f, n) + g[n + 1]
<1>1. n + 1 \in Nat /\ n + 1 \in 1 .. n + 1 /\ (n + 1) - 1 = n
  OBVIOUS
<1>2. Upto(g, n + 1) = Upto(g, n) + g[n + 1]
  BY <1>1, UptoSteps
<1>3. Upto(g, n) = Upto(f, n)
  BY UptoSame
<1> QED
  BY <1>2, <1>3

\* More of the last element counts as much more.
LEMMA MoreOfLast ==
  ASSUME NEW n \in Nat, n > 0, NEW f \in [1 .. n -> Int], NEW g \in [1 .. n -> Int],
         \A i \in 1 .. n - 1 : g[i] = f[i], NEW c \in Int, g[n] = f[n] + c
  PROVE  Upto(g, n) = Upto(f, n) + c
<1>1. n \in 1 .. n /\ n - 1 \in 0 .. n
  OBVIOUS
<1>2. Upto(g, n) = Upto(g, n - 1) + g[n]
  BY <1>1, UptoSteps
<1>3. Upto(f, n) = Upto(f, n - 1) + f[n] /\ Upto(f, n - 1) \in Int /\ f[n] \in Int
  BY <1>1, UptoSteps
<1>4. Upto(g, n - 1) = Upto(f, n - 1)
  BY UptoSame
<1> QED
  BY <1>2, <1>3, <1>4

\* A bucket more.
LEMMA BucketAppended ==
  ASSUME NEW s \in Seq(Int), NEW c \in Seq(Int), Len(s) = Len(c), NEW t \in Int, NEW x \in Int
  PROVE  /\ \A a, b \in Int :
              TotalWithin(Append(s, t), Append(c, x), a, b)
                = TotalWithin(s, c, a, b) + IF a < t /\ t <= b THEN x ELSE 0
         /\ Sum(Append(c, x)) = Sum(c) + x
<1> DEFINE n == Len(s)
           p == Append(s, t)
           q == Append(c, x)
<1>1. /\ n \in Nat /\ p \in Seq(Int) /\ Len(p) = n + 1 /\ p[n + 1] = t
      /\ \A i \in 1 .. n : p[i] = s[i]
  BY Appended
<1>2. /\ q \in Seq(Int) /\ Len(q) = n + 1 /\ q[n + 1] = x
      /\ \A i \in 1 .. n : q[i] = c[i]
  BY Appended
<1> HIDE DEF p, q
<1>3. ASSUME NEW a \in Int, NEW b \in Int
      PROVE  TotalWithin(p, q, a, b) = TotalWithin(s, c, a, b) + IF a < t /\ t <= b THEN x ELSE 0
  <2> DEFINE f == Kept(s, c, a, b)
             g == Kept(p, q, a, b)
  <2>1. /\ f \in [1 .. n -> Int]
        /\ \A i \in 1 .. n : f[i] = IF a < s[i] /\ s[i] <= b THEN c[i] ELSE 0
    BY KeptTyped
  <2>2. /\ g \in [1 .. n + 1 -> Int]
        /\ \A i \in 1 .. n + 1 : g[i] = IF a < p[i] /\ p[i] <= b THEN q[i] ELSE 0
    BY <1>1, <1>2, KeptTyped
  <2>3. TotalWithin(s, c, a, b) = Upto(f, n) /\ TotalWithin(p, q, a, b) = Upto(g, n + 1)
    BY <1>1 DEF TotalWithin
  <2> HIDE DEF f, g, n
  <2>4. \A i \in 1 .. n : g[i] = f[i]
    <3> TAKE i \in 1 .. n
    <3>1. i \in 1 .. n + 1
      BY <1>1
    <3>2. p[i] = s[i] /\ q[i] = c[i]
      BY <1>1, <1>2
    <3>3. /\ f[i] = IF a < s[i] /\ s[i] <= b THEN c[i] ELSE 0
          /\ g[i] = IF a < p[i] /\ p[i] <= b THEN q[i] ELSE 0
      BY <2>1, <2>2, <3>1
    <3> QED
      BY <3>2, <3>3, Zenon
  <2>5. Upto(g, n + 1) = Upto(f, n) + g[n + 1]
    BY <1>1, <2>1, <2>2, <2>4, OneMore
  <2>6. g[n + 1] = IF a < t /\ t <= b THEN x ELSE 0
    <3>1. n + 1 \in 1 .. n + 1
      BY <1>1
    <3> QED
      BY <1>1, <1>2, <2>2, <3>1
  <2> QED
    BY <2>3, <2>5, <2>6
<1>4. Sum(q) = Sum(c) + x
  <2>1. c \in [1 .. n -> Int] /\ q \in [1 .. n + 1 -> Int] /\ n + 1 \in Nat
    BY <1>1, <1>2
  <2>2. Sum(c) = Upto(c, n)
    BY <1>1, <2>1, UptoSteps
  <2> DEFINE m == n + 1
  <2>3. Sum(q) = Upto(q, m)
    <3>1. m \in Nat /\ q \in [1 .. m -> Int]
      BY <2>1
    <3> HIDE DEF m
    <3> QED
      BY <3>1, UptoSteps
  <2>4. Upto(q, n + 1) = Upto(c, n) + q[n + 1]
    BY <1>1, <1>2, <2>1, OneMore
  <2> QED
    BY <1>2, <2>2, <2>3, <2>4
<1> QED
  BY <1>3, <1>4 DEF p, q

\* More in the last bucket.
Raised(s, c, d, x) ==
  /\ d \in Seq(Int) /\ Len(d) = Len(c)
  /\ \A i \in 1 .. Len(c) : d[i] = IF i = Len(c) THEN c[i] + x ELSE c[i]
  /\ \A a, b \in Int :
       TotalWithin(s, d, a, b)
         = TotalWithin(s, c, a, b) + IF a < s[Len(s)] /\ s[Len(s)] <= b THEN x ELSE 0
  /\ Sum(d) = Sum(c) + x

\* Adding to the last bucket raises what is counted at its index only.
LEMMA BucketRaised ==
  ASSUME NEW s \in Seq(Int), NEW c \in Seq(Int), Len(s) = Len(c), Len(s) > 0, NEW x \in Int
  PROVE  Raised(s, c, AddToLast(c, x), x)
<1> DEFINE n == Len(c)
           q == AddToLast(c, x)
<1>1. n \in Nat /\ n \in 1 .. n /\ \A i \in 1 .. n : c[i] \in Int /\ c[i] + x \in Int
  OBVIOUS
<1>2. /\ q \in Seq(Int) /\ Len(q) = n
      /\ \A i \in 1 .. n : q[i] = IF i = n THEN c[i] + x ELSE c[i]
  BY <1>1 DEF AddToLast
<1> HIDE DEF q
<1>3. ASSUME NEW a \in Int, NEW b \in Int
      PROVE  TotalWithin(s, q, a, b)
               = TotalWithin(s, c, a, b) + IF a < s[n] /\ s[n] <= b THEN x ELSE 0
  <2> DEFINE f == Kept(s, c, a, b)
             g == Kept(s, q, a, b)
             more == IF a < s[n] /\ s[n] <= b THEN x ELSE 0
  <2>1. /\ f \in [1 .. n -> Int]
        /\ \A i \in 1 .. n : f[i] = IF a < s[i] /\ s[i] <= b THEN c[i] ELSE 0
    BY KeptTyped
  <2>2. /\ g \in [1 .. n -> Int]
        /\ \A i \in 1 .. n : g[i] = IF a < s[i] /\ s[i] <= b THEN q[i] ELSE 0
    BY <1>2, KeptTyped
  <2>3. TotalWithin(s, c, a, b) = Upto(f, n) /\ TotalWithin(s, q, a, b) = Upto(g, n)
    BY <1>1 DEF TotalWithin
  <2> HIDE DEF f, g, n
  <2>4. \A i \in 1 .. n - 1 : g[i] = f[i]
    <3> TAKE i \in 1 .. n - 1
    <3>1. i \in 1 .. n /\ i # n
      BY <1>1
    <3>2. q[i] = c[i]
      BY <1>2, <3>1
    <3>3. /\ f[i] = IF a < s[i] /\ s[i] <= b THEN c[i] ELSE 0
          /\ g[i] = IF a < s[i] /\ s[i] <= b THEN q[i] ELSE 0
      BY <2>1, <2>2, <3>1
    <3> QED
      BY <3>2, <3>3, Zenon
  <2>5. g[n] = f[n] + more /\ more \in Int
    <3>1. n \in 1 .. n /\ q[n] = c[n] + x /\ c[n] \in Int
      BY <1>1, <1>2
    <3>2. /\ f[n] = IF a < s[n] /\ s[n] <= b THEN c[n] ELSE 0
          /\ g[n] = IF a < s[n] /\ s[n] <= b THEN q[n] ELSE 0
      BY <2>1, <2>2, <3>1
    <3>3. CASE a < s[n] /\ s[n] <= b
      BY <3>1, <3>2, <3>3
    <3>4. CASE ~(a < s[n] /\ s[n] <= b)
      BY <3>2, <3>4
    <3> QED
      BY <3>3, <3>4
  <2> HIDE DEF more
  <2>6. n > 0
    BY <1>1
  <2>7. Upto(g, n) = Upto(f, n) + more
    BY <1>1, <2>1, <2>2, <2>4, <2>5, <2>6, MoreOfLast
  <2> QED
    BY <2>3, <2>7 DEF more
<1>4. Sum(q) = Sum(c) + x
  <2>1. c \in [1 .. n -> Int] /\ q \in [1 .. n -> Int]
    BY <1>1, <1>2
  <2> HIDE DEF n
  <2>2. Sum(c) = Upto(c, n) /\ Sum(q) = Upto(q, n)
    BY <1>1, <2>1, UptoSteps
  <2>3. q[n] = c[n] + x /\ n > 0 /\ \A i \in 1 .. n - 1 : q[i] = c[i]
    BY <1>1, <1>2
  <2>4. Upto(q, n) = Upto(c, n) + x
    BY <1>1, <2>1, <2>3, MoreOfLast
  <2> QED
    BY <2>2, <2>4
<1> QED
  BY <1>2, <1>3, <1>4 DEF q, Raised

-----------------------------------------------------------------------------

MergedBuckets == [spans : Seq(Span), counts : Seq(Int), last : Seq(Int), ok : BOOLEAN]

\* A bucket is merged into the last one, is next to it or starts a span.
LEMMA PlaceTyped ==
  ASSUME NEW m \in MergedBuckets, NEW t \in Int, NEW x \in Int
  PROVE  Place(m, t, x) \in MergedBuckets
<1>1. /\ m.spans \in Seq(Span) /\ m.counts \in Seq(Int) /\ m.last \in Seq(Int)
      /\ m.ok \in BOOLEAN
  BY DEF MergedBuckets
<1>2. CASE m.last = <<t>>
  <2> DEFINE c == m.counts
             d == AddToLast(c, x)
  <2>1. d \in Seq(Int)
    <3> HIDE DEF c
    <3>1. c \in Seq(Int)
      BY <1>1 DEF c
    <3>2. CASE Len(c) > 0
      <4>1. /\ Len(c) \in 1 .. Len(c) /\ c[Len(c)] + x \in Int
        BY <3>1, <3>2
      <4> QED
        BY <3>1, <4>1 DEF AddToLast
    <3>3. CASE ~(Len(c) > 0)
      <4>1. c = <<>> /\ Len(c) = 0
        BY <3>1, <3>3
      <4>2. d = c
        BY <3>1, <4>1 DEF AddToLast
      <4> QED
        BY <3>1, <4>2
    <3> QED
      BY <3>2, <3>3
  <2>2. Place(m, t, x) = [m EXCEPT !.counts = d]
    BY <1>2 DEF Place
  <2> HIDE DEF c, d
  <2> QED
    BY <2>1, <2>2 DEF MergedBuckets
<1>3. CASE m.last # <<t>> /\ m.last = <<t - 1>>
  <2> DEFINE spans == m.spans
             more == Extend(spans)
             c == Append(m.counts, x)
  <2>1. more \in Seq(Span)
    <3> HIDE DEF spans
    <3>1. spans \in Seq(Span)
      BY <1>1 DEF spans
    <3>2. CASE Len(spans) > 0
      BY <3>1, <3>2, ExtendedSpan, Zenon
    <3>3. CASE ~(Len(spans) > 0)
      <4>1. spans = <<>> /\ Len(spans) = 0
        BY <3>1, <3>3
      <4>2. more = spans
        BY <3>1, <4>1 DEF Extend
      <4> QED
        BY <3>1, <4>2
    <3> QED
      BY <3>2, <3>3
  <2>2. Place(m, t, x) = [m EXCEPT !.spans = more, !.counts = c, !.last = <<t>>]
    BY <1>3 DEF Place
  <2>3. c \in Seq(Int) /\ <<t>> \in Seq(Int)
    BY <1>1
  <2> HIDE DEF more, c
  <2> QED
    BY <2>1, <2>2, <2>3 DEF MergedBuckets
<1>4. CASE m.last # <<t>> /\ m.last # <<t - 1>>
  <2> DEFINE offset == IF m.last = <<>> THEN t ELSE t - m.last[1] - 1
             more == Append(m.spans, [offset |-> offset, length |-> 1])
             c == Append(m.counts, x)
             fine == m.ok /\ offset \in IndexRange
  <2>1. offset \in Int
    BY <1>1
  <2>2. Place(m, t, x) = [spans |-> more, counts |-> c, last |-> <<t>>, ok |-> fine]
    BY <1>4 DEF Place
  <2> HIDE DEF offset
  <2>3. more \in Seq(Span) /\ c \in Seq(Int) /\ <<t>> \in Seq(Int) /\ fine \in BOOLEAN
    BY <1>1, <2>1 DEF Span
  <2> HIDE DEF more, c, fine
  <2> QED
    BY <2>2, <2>3 DEF MergedBuckets
<1> QED
  BY <1>2, <1>3, <1>4

PlacesOf(indices) == [i \in DOMAIN indices |-> i]

\* What merge_buckets makes of indices and counts.
PlacedBuckets(indices, counts, shift) ==
  FoldLeft(LAMBDA merged, i : Place(merged, Target(indices[i], shift), counts[i]),
           NoBuckets, PlacesOf(indices))

\* The buckets are placed one after the other.
LEMMA PlacedSteps ==
  ASSUME NEW indices \in Seq(Int), NEW counts \in Seq(Int), Len(indices) <= Len(counts),
         NEW shift, \A i \in Int : Target(i, shift) \in Int
  PROVE  \E h \in [0 .. Len(indices) -> MergedBuckets] :
           /\ h[0] = NoBuckets
           /\ \A i \in 1 .. Len(indices) :
                h[i] = Place(h[i - 1], Target(indices[i], shift), counts[i])
           /\ h[Len(indices)] = PlacedBuckets(indices, counts, shift)
<1> DEFINE n == Len(indices)
           pos == PlacesOf(indices)
           LS == MergedBuckets
           Op(acc, x) == Place(acc, Target(indices[x], shift), counts[x])
           Follows(f) == f = [s \in SUBSET (1 .. n) |->
                                IF s = {} THEN NoBuckets
                                ELSE Op(f[s \ {Max(s)}], pos[Max(s)])]
           f == CHOOSE f : Follows(f)
           h == [i \in 0 .. n |-> f[1 .. i]]
<1>1. n \in Nat /\ DOMAIN pos = 1 .. n /\ \A i \in 1 .. n : pos[i] = i
  BY DEF PlacesOf
<1>2. PlacedBuckets(indices, counts, shift) = f[1 .. n]
  BY <1>1 DEF PlacedBuckets, FoldLeft, MapThenFoldSet
<1> HIDE DEF n, pos
<1>3. NoBuckets \in LS
  BY DEF NoBuckets, MergedBuckets
<1>4. ASSUME NEW acc \in LS, NEW i \in 1 .. n
      PROVE  Op(acc, i) \in LS /\ Op(acc, pos[i]) \in LS
  <2>1. indices[i] \in Int /\ counts[i] \in Int
    <3>1. Len(indices) \in Nat /\ Len(counts) \in Nat
      <4>1. Len(indices) \in Nat
        OBVIOUS
      <4>2. Len(counts) \in Nat
        OBVIOUS
      <4> QED
        BY <4>1, <4>2
    <3>2. i \in 1 .. Len(indices) /\ i \in 1 .. Len(counts)
      <4> DEFINE p == Len(indices)
                 q == Len(counts)
      <4>1. p \in Nat /\ q \in Nat /\ p <= q /\ i \in 1 .. p
        BY <3>1 DEF n
      <4> HIDE DEF p, q
      <4>2. i \in 1 .. q
        BY <4>1
      <4> QED
        BY <4>1, <4>2 DEF p, q
    <3>3. indices[i] \in Int
      BY <3>2
    <3>4. counts[i] \in Int
      BY <3>2
    <3> QED
      BY <3>3, <3>4
  <2>2. Target(indices[i], shift) \in Int
    BY <2>1
  <2>3. Op(acc, i) \in LS
    BY <2>1, <2>2, PlaceTyped
  <2> QED
    BY <1>1, <2>3
<1> HIDE DEF LS, Op
<1>5. PICK g \in [SUBSET (1 .. n) -> LS] : Follows(g)
  <2> DEFINE step == [i \in 1 .. n |-> [acc \in LS |-> Op(acc, pos[i])]]
  <2>1. step \in [1 .. n -> [LS -> LS]]
    BY <1>4
  <2> HIDE DEF step
  <2>2. PICK g \in [SUBSET (1 .. n) -> LS] : GoesBy(g, n, NoBuckets, step)
    <3> HIDE DEF f, h, Follows
    <3> QED
      BY <1>1, <1>3, <2>1, FoldIsDefined
  <2>3. ASSUME NEW s \in SUBSET (1 .. n)
        PROVE  g[s] = IF s = {} THEN NoBuckets ELSE Op(g[s \ {Max(s)}], pos[Max(s)])
    <3>1. CASE s = {}
      BY <2>2, <3>1 DEF GoesBy
    <3>2. CASE s # {}
      <4>1. Max(s) \in s /\ g[s] = step[Max(s)][g[s \ {Max(s)}]]
        BY <2>2, <3>2 DEF GoesBy
      <4>2. g[s \ {Max(s)}] \in LS /\ Max(s) \in 1 .. n
        BY <4>1
      <4> QED
        BY <3>2, <4>1, <4>2 DEF step
    <3> QED
      BY <3>1, <3>2
  <2>4. g = [s \in SUBSET (1 .. n) |-> g[s]]
    OBVIOUS
  <2>5. Follows(g)
    BY <2>3, <2>4
  <2> HIDE DEF Follows
  <2> QED
    BY <2>5
<1>6. Follows(f)
  <2> HIDE DEF Follows
  <2> QED
    BY <1>5
<1> HIDE DEF f
<1>7. h[0] = NoBuckets
  <2>1. 1 .. 0 = {} /\ 0 \in 0 .. n /\ f[{}] = NoBuckets
    BY <1>1, <1>6
  <2> QED
    BY <2>1
<1>8. ASSUME NEW i \in 1 .. n
      PROVE  h[i] = Op(h[i - 1], pos[i])
  <2>1. /\ 1 .. i \in SUBSET (1 .. n) /\ 1 .. i # {}
        /\ Max(1 .. i) = i /\ (1 .. i) \ {i} = 1 .. i - 1
    BY <1>1, UpTo
  <2>2. f[1 .. i] = Op(f[(1 .. i) \ {Max(1 .. i)}], pos[Max(1 .. i)])
    BY <1>6, <2>1
  <2>3. i \in 0 .. n /\ i - 1 \in 0 .. n
    BY <1>1
  <2> QED
    BY <2>1, <2>2, <2>3
<1> HIDE DEF Follows
<1>9. h[n] = PlacedBuckets(indices, counts, shift)
  BY <1>1, <1>2
<1>10. \A i \in 0 .. n : h[i] \in LS
  <2> DEFINE Done == {i \in 0 .. n : h[i] \in LS}
  <2>1. 0 \in Done
    <3>1. 0 \in 0 .. n
      BY <1>1
    <3> QED
      BY <1>3, <1>7, <3>1
  <2>2. \A i \in 1 .. n : i - 1 \in Done => i \in Done
    <3> HIDE DEF h
    <3>1. ASSUME NEW i \in 1 .. n, h[i - 1] \in LS PROVE h[i] \in LS
      BY <1>4, <1>8, <3>1
    <3>2. \A i \in 1 .. n : i \in 0 .. n
      BY <1>1
    <3> QED
      BY <3>1, <3>2
  <2> HIDE DEF Done
  <2>3. 0 .. n \subseteq Done
    BY <1>1, <2>1, <2>2, BoundedInduction
  <2> QED
    BY <2>3 DEF Done
<1>11. h \in [0 .. n -> LS]
  BY <1>10
<1> HIDE DEF h
<1>12. ASSUME NEW i \in 1 .. n
       PROVE  h[i] = Place(h[i - 1], Target(indices[i], shift), counts[i])
  <2>1. h[i] = Op(h[i - 1], i)
    BY <1>1, <1>8
  <2> QED
    BY <2>1 DEF Op
<1> QED
  BY <1>7, <1>9, <1>11, <1>12 DEF n, LS

-----------------------------------------------------------------------------

\* Buckets were placed, the last one at t.
Ended(m, t) ==
  /\ m \in MergedBuckets /\ m.ok = TRUE /\ m.last = <<t>>
  /\ SpansInRange(m.spans) /\ Len(m.spans) > 0 /\ End(m.spans) = t + 1
  /\ Indices(m.spans) \in Seq(Int) /\ Len(Indices(m.spans)) = Len(m.counts)
  /\ Len(m.counts) > 0 /\ Indices(m.spans)[Len(m.counts)] = t

\* A count x was placed at t.
Grown(m, p, t, x) ==
  /\ Ended(p, t)
  /\ ToSet(Indices(p.spans)) = ToSet(Indices(m.spans)) \cup {t}
  /\ \A a, b \in Int :
       TotalWithin(Indices(p.spans), p.counts, a, b)
         = TotalWithin(Indices(m.spans), m.counts, a, b) + IF a < t /\ t <= b THEN x ELSE 0
  /\ Sum(p.counts) = Sum(m.counts) + x
  /\ x >= 0 /\ (\A k \in 1 .. Len(m.counts) : m.counts[k] >= 0) =>
       \A k \in 1 .. Len(p.counts) : p.counts[k] >= 0

\* The elements of a sequence and one more.
LEMMA ElementAppended ==
  ASSUME NEW s \in Seq(Int), NEW t \in Int
  PROVE  ToSet(Append(s, t)) = ToSet(s) \cup {t}
<1> DEFINE p == Append(s, t)
           n == Len(s)
<1>1. /\ n \in Nat /\ p \in Seq(Int) /\ Len(p) = n + 1 /\ p[n + 1] = t
      /\ \A i \in 1 .. n : p[i] = s[i]
  BY Appended
<1>2. DOMAIN p = 1 .. n + 1 /\ DOMAIN s = 1 .. n
  BY <1>1
<1> HIDE DEF p, n
<1>3. \A i \in 1 .. n + 1 : i \in 1 .. n \/ i = n + 1
  BY <1>1
<1>4. n + 1 \in 1 .. n + 1 /\ \A i \in 1 .. n : i \in 1 .. n + 1
  BY <1>1
<1>5. ToSet(p) \subseteq ToSet(s) \cup {t}
  BY <1>1, <1>2, <1>3 DEF ToSet
<1>6. t \in ToSet(p)
  BY <1>1, <1>2, <1>4 DEF ToSet
<1>7. ToSet(s) \subseteq ToSet(p)
  BY <1>1, <1>2, <1>4 DEF ToSet
<1> QED
  BY <1>5, <1>6, <1>7 DEF p

\* One more bucket at t.
LEMMA GrownByBucket ==
  ASSUME NEW m \in MergedBuckets, Indices(m.spans) \in Seq(Int),
         Len(Indices(m.spans)) = Len(m.counts),
         NEW t \in Int, NEW x \in Int, NEW p \in MergedBuckets, p.ok = TRUE, p.last = <<t>>,
         SpansInRange(p.spans), Len(p.spans) > 0, End(p.spans) = t + 1,
         Indices(p.spans) = Append(Indices(m.spans), t), p.counts = Append(m.counts, x)
  PROVE  Grown(m, p, t, x)
<1> DEFINE s == Indices(m.spans)
           c == m.counts
           n == Len(c)
<1>1. s \in Seq(Int) /\ c \in Seq(Int) /\ Len(s) = n /\ n \in Nat
  BY DEF MergedBuckets
<1>2. Indices(p.spans) = Append(s, t) /\ p.counts = Append(c, x)
  OBVIOUS
<1> HIDE DEF s, c
<1>3. /\ Append(s, t) \in Seq(Int) /\ Len(Append(s, t)) = n + 1 /\ Append(s, t)[n + 1] = t
  BY <1>1, Appended
<1>4. /\ Append(c, x) \in Seq(Int) /\ Len(Append(c, x)) = n + 1 /\ Append(c, x)[n + 1] = x
      /\ \A i \in 1 .. n : Append(c, x)[i] = c[i]
  BY <1>1, Appended
<1>5. Ended(p, t)
  BY <1>1, <1>2, <1>3, <1>4 DEF Ended
<1>6. ToSet(Append(s, t)) = ToSet(s) \cup {t}
  BY <1>1, ElementAppended
<1>7. /\ \A a, b \in Int :
           TotalWithin(Append(s, t), Append(c, x), a, b)
             = TotalWithin(s, c, a, b) + IF a < t /\ t <= b THEN x ELSE 0
      /\ Sum(Append(c, x)) = Sum(c) + x
  <2>1. Len(s) = Len(c)
    BY <1>1
  <2> QED
    BY <1>1, <2>1, BucketAppended
<1>8. ASSUME x >= 0, \A k \in 1 .. n : c[k] >= 0
      PROVE  \A k \in 1 .. Len(Append(c, x)) : Append(c, x)[k] >= 0
  <2> TAKE k \in 1 .. Len(Append(c, x))
  <2>1. k \in 1 .. n \/ k = n + 1
    BY <1>1, <1>4
  <2> QED
    BY <1>4, <1>8, <2>1
<1> QED
  BY <1>2, <1>5, <1>6, <1>7, <1>8 DEF Grown, s, c

\* The first bucket starts a span at its index.
LEMMA PlaceFirst ==
  ASSUME NEW t \in IndexRange, NEW x \in Int
  PROVE  Grown(NoBuckets, Place(NoBuckets, t, x), t, x)
<1> DEFINE none == <<>>
           more == Append(none, [offset |-> t, length |-> 1])
           p == Place(NoBuckets, t, x)
<1>1. t \in Int
  BY RangeIsConvex
<1>2. /\ NoBuckets \in MergedBuckets /\ NoBuckets.spans = none /\ NoBuckets.counts = <<>>
      /\ NoBuckets.last = <<>> /\ NoBuckets.ok = TRUE
  BY DEF NoBuckets, MergedBuckets
<1>3. p \in MergedBuckets
  BY <1>1, <1>2, PlaceTyped
<1>4. p = [spans |-> more, counts |-> Append(<<>>, x), last |-> <<t>>,
           ok |-> t \in IndexRange]
  <2>1. <<>> # <<t>> /\ <<>> # <<t - 1>>
    OBVIOUS
  <2> QED
    BY <2>1 DEF Place, NoBuckets
<1>5. none \in Seq(Span) /\ Len(none) = 0
  OBVIOUS
<1>6. Indices(none) = <<>> /\ End(none) = 0 /\ SpansInRange(none)
  <2> HIDE DEF none
  <2>1. Ahead(Pieces(none), 0) = <<>> /\ Ahead(Pieces(none), Len(none)) = Indices(none)
    BY <1>5, IndicesSteps
  <2>2. Upto(Widths(none), 0) = 0
    BY <1>5, WidthsTyped
  <2>3. SpansInRange(none)
    BY <1>5 DEF SpansInRange
  <2> QED
    BY <1>5, <2>1, <2>2, <2>3 DEF End
<1> HIDE DEF none
<1>7. /\ more \in Seq(Span) /\ Len(more) = Len(none) + 1
      /\ Indices(more) = Append(Indices(none), End(none) + t)
      /\ End(more) = End(none) + t + 1
      /\ SpansInRange(none) /\ (Len(none) > 0 => t >= 0)
           /\ End(none) + t \in IndexRange => SpansInRange(more)
  BY <1>1, <1>5, AppendedSpan
<1>8. End(none) + t = t /\ End(none) + t + 1 = t + 1 /\ Len(none) + 1 > 0 /\ ~(Len(none) > 0)
  BY <1>1, <1>5, <1>6
<1>9. /\ p.spans = more /\ p.counts = Append(<<>>, x) /\ p.last = <<t>> /\ p.ok = TRUE
  <2> DEFINE fine == t \in IndexRange
  <2>1. fine = TRUE
    OBVIOUS
  <2>2. p = [spans |-> more, counts |-> Append(<<>>, x), last |-> <<t>>, ok |-> fine]
    BY <1>4
  <2> HIDE DEF fine, p, more
  <2>3. p.spans = more /\ p.counts = Append(<<>>, x) /\ p.last = <<t>> /\ p.ok = fine
    BY <2>2
  <2> QED
    BY <2>1, <2>3
<1> HIDE DEF p, more
<1>10. /\ SpansInRange(p.spans) /\ Len(p.spans) > 0 /\ End(p.spans) = t + 1
       /\ Indices(p.spans) = Append(Indices(NoBuckets.spans), t)
       /\ p.counts = Append(NoBuckets.counts, x)
  BY <1>2, <1>6, <1>7, <1>8, <1>9
<1>11. /\ Indices(NoBuckets.spans) \in Seq(Int)
       /\ Len(Indices(NoBuckets.spans)) = Len(NoBuckets.counts)
  BY <1>2, <1>6
<1>12. p.ok = TRUE /\ p.last = <<t>>
  BY <1>9
<1> HIDE DEF none
<1> QED
  BY <1>1, <1>2, <1>3, <1>10, <1>11, <1>12, GrownByBucket DEF p

\* A bucket not below the last one: into it, next to it or in a span of its own.
LEMMA PlaceNext ==
  ASSUME NEW m, NEW last \in Int, Ended(m, last),
         NEW t \in IndexRange, last <= t, t - last <= IndexLimit, NEW x \in Int
  PROVE  Grown(m, Place(m, t, x), t, x)
<1> DEFINE p == Place(m, t, x)
           s == Indices(m.spans)
           c == m.counts
           n == Len(c)
<1>1. t \in Int /\ IndexLimit \in Nat
  BY RangeIsConvex, HistogramAssumption DEF HistogramAssumption
<1>2. /\ m \in MergedBuckets /\ m.ok = TRUE
      /\ m.last = <<last>> /\ m.last # <<>> /\ m.last[1] = last
      /\ SpansInRange(m.spans) /\ Len(m.spans) > 0 /\ End(m.spans) = last + 1
      /\ s \in Seq(Int) /\ Len(s) = n /\ n > 0 /\ s[n] = last
      /\ m.spans \in Seq(Span) /\ c \in Seq(Int)
  BY DEF Ended, MergedBuckets
<1>3. p \in MergedBuckets
  BY <1>1, <1>2, PlaceTyped
<1>4. CASE t = last
  <2> DEFINE d == AddToLast(c, x)
  <2>1. p = [m EXCEPT !.counts = d]
    BY <1>2, <1>4 DEF Place
  <2>2. p.spans = m.spans /\ p.counts = d /\ p.last = <<t>> /\ p.ok = TRUE
    BY <1>2, <1>4, <2>1 DEF MergedBuckets
  <2> HIDE DEF s, c, d, p
  <2>3. /\ d \in Seq(Int) /\ Len(d) = n
        /\ \A i \in 1 .. n : d[i] = IF i = n THEN c[i] + x ELSE c[i]
        /\ \A a, b \in Int :
             TotalWithin(s, d, a, b)
               = TotalWithin(s, c, a, b) + IF a < s[n] /\ s[n] <= b THEN x ELSE 0
        /\ Sum(d) = Sum(c) + x
    <3>1. Len(s) = Len(c) /\ Len(s) > 0
      BY <1>2
    <3>2. s \in Seq(Int) /\ c \in Seq(Int)
      BY <1>2
    <3>3. Raised(s, c, d, x)
      BY <3>1, <3>2, BucketRaised DEF d
    <3> QED
      BY <1>2, <3>1, <3>3 DEF Raised
  <2>4. Ended(p, t)
    BY <1>2, <1>3, <1>4, <2>2, <2>3 DEF Ended, s, c
  <2>5. ToSet(s) = ToSet(s) \cup {t}
    <3>1. n \in DOMAIN s /\ s[n] = t
      BY <1>2, <1>4
    <3> QED
      BY <3>1 DEF ToSet
  <2>6. ASSUME x >= 0, \A k \in 1 .. n : c[k] >= 0
        PROVE  \A k \in 1 .. Len(d) : d[k] >= 0
    <3> TAKE k \in 1 .. Len(d)
    <3>1. k \in 1 .. n /\ c[k] \in Int
      BY <1>2, <2>3
    <3> QED
      BY <2>3, <2>6, <3>1
  <2>7. /\ ToSet(Indices(p.spans)) = ToSet(Indices(m.spans)) \cup {t}
        /\ \A a, b \in Int :
             TotalWithin(Indices(p.spans), p.counts, a, b)
               = TotalWithin(Indices(m.spans), m.counts, a, b) + IF a < t /\ t <= b THEN x ELSE 0
        /\ Sum(p.counts) = Sum(m.counts) + x
    BY <1>2, <1>4, <2>2, <2>3, <2>5 DEF s, c
  <2> QED
    BY <2>2, <2>4, <2>6, <2>7 DEF Grown, p, s, c
<1>5. CASE t = last + 1
  <2> DEFINE more == Extend(m.spans)
  <2>1. last # t /\ last = t - 1
    BY <1>1, <1>5
  <2>2. p = [m EXCEPT !.spans = more, !.counts = Append(c, x), !.last = <<t>>]
    BY <1>2, <2>1 DEF Place
  <2>3. p.spans = more /\ p.counts = Append(c, x) /\ p.last = <<t>> /\ p.ok = TRUE
    BY <1>2, <2>2 DEF MergedBuckets
  <2>4. /\ more \in Seq(Span) /\ Len(more) = Len(m.spans)
        /\ Indices(more) = Append(s, End(m.spans))
        /\ End(more) = End(m.spans) + 1
        /\ SpansInRange(m.spans) /\ End(m.spans) \in IndexRange => SpansInRange(more)
    BY <1>2, ExtendedSpan
  <2> HIDE DEF p, more, s, c
  <2>5. /\ SpansInRange(p.spans) /\ Len(p.spans) > 0 /\ End(p.spans) = t + 1
        /\ Indices(p.spans) = Append(Indices(m.spans), t)
        /\ p.counts = Append(m.counts, x)
    BY <1>2, <1>5, <2>3, <2>4 DEF s, c
  <2>6. Indices(m.spans) \in Seq(Int) /\ Len(Indices(m.spans)) = Len(m.counts)
    BY <1>2 DEF s, c
  <2>7. p.ok = TRUE /\ p.last = <<t>>
    BY <2>3
  <2> QED
    BY <1>1, <1>2, <1>3, <2>5, <2>6, <2>7, GrownByBucket DEF p
<1>6. CASE t > last + 1
  <2> DEFINE offset == t - last - 1
             more == Append(m.spans, [offset |-> offset, length |-> 1])
  <2>1. last # t /\ last # t - 1 /\ offset \in Int /\ offset >= 0 /\ offset \in IndexRange
        /\ (last + 1) + offset = t
    <3>1. offset <= IndexLimit - 1 /\ 0 <= offset /\ offset \in Int
      BY <1>1, <1>6
    <3>2. offset \in IndexRange
      BY <1>1, <3>1 DEF IndexRange
    <3> QED
      BY <1>1, <1>6, <3>1, <3>2
  <2>2. p = [spans |-> more, counts |-> Append(c, x), last |-> <<t>>,
             ok |-> m.ok /\ offset \in IndexRange]
    BY <1>2, <2>1 DEF Place
  <2>3. p.spans = more /\ p.counts = Append(c, x) /\ p.last = <<t>> /\ p.ok = TRUE
    <3> DEFINE fine == m.ok /\ offset \in IndexRange
    <3>1. fine = TRUE
      BY <1>2, <2>1
    <3>2. p = [spans |-> more, counts |-> Append(c, x), last |-> <<t>>, ok |-> fine]
      BY <2>2
    <3> HIDE DEF fine, p, more, c
    <3>3. p.spans = more /\ p.counts = Append(c, x) /\ p.last = <<t>> /\ p.ok = fine
      BY <3>2
    <3> QED
      BY <3>1, <3>3
  <2> HIDE DEF offset
  <2>4. /\ more \in Seq(Span) /\ Len(more) = Len(m.spans) + 1
        /\ Indices(more) = Append(s, End(m.spans) + offset)
        /\ End(more) = End(m.spans) + offset + 1
        /\ SpansInRange(m.spans) /\ (Len(m.spans) > 0 => offset >= 0)
             /\ End(m.spans) + offset \in IndexRange => SpansInRange(more)
    BY <1>2, <2>1, AppendedSpan
  <2> HIDE DEF p, more, s, c
  <2>5. End(m.spans) + offset = t /\ Len(m.spans) + 1 > 0
    <3>1. Len(m.spans) \in Nat
      BY <1>2
    <3> QED
      BY <1>2, <2>1, <3>1
  <2>6. /\ SpansInRange(p.spans) /\ Len(p.spans) > 0 /\ End(p.spans) = t + 1
        /\ Indices(p.spans) = Append(Indices(m.spans), t)
        /\ p.counts = Append(m.counts, x)
    BY <1>2, <2>1, <2>3, <2>4, <2>5 DEF s, c
  <2>7. Indices(m.spans) \in Seq(Int) /\ Len(Indices(m.spans)) = Len(m.counts)
    BY <1>2 DEF s, c
  <2>8. p.ok = TRUE /\ p.last = <<t>>
    BY <2>3
  <2> QED
    BY <1>1, <1>2, <1>3, <2>6, <2>7, <2>8, GrownByBucket DEF p
<1> QED
  BY <1>1, <1>4, <1>5, <1>6

-----------------------------------------------------------------------------

\* Nothing was placed.
LEMMA NothingPlaced ==
  /\ NoBuckets \in MergedBuckets /\ NoBuckets.ok = TRUE /\ SpansInRange(NoBuckets.spans)
  /\ Indices(NoBuckets.spans) = <<>> /\ NoBuckets.counts = <<>> /\ Sum(NoBuckets.counts) = 0
  /\ \A a, b \in Int : TotalWithin(Indices(NoBuckets.spans), NoBuckets.counts, a, b) = 0
<1> DEFINE none == <<>>
           n == 0
<1>1. /\ NoBuckets \in MergedBuckets /\ NoBuckets.spans = none /\ NoBuckets.counts = none
      /\ NoBuckets.ok = TRUE
  BY DEF NoBuckets, MergedBuckets
<1>2. /\ none \in Seq(Span) /\ none \in Seq(Int) /\ Len(none) = 0 /\ n \in Nat
      /\ none \in [1 .. n -> Int] /\ n = Len(none)
  OBVIOUS
<1> HIDE DEF n
<1>3. Indices(none) = none /\ SpansInRange(none)
  <2> HIDE DEF none
  <2>1. Ahead(Pieces(none), 0) = <<>> /\ Ahead(Pieces(none), Len(none)) = Indices(none)
    BY <1>2, IndicesSteps
  <2>2. SpansInRange(none)
    BY <1>2 DEF SpansInRange
  <2> QED
    BY <1>2, <2>1, <2>2 DEF none
<1> HIDE DEF none
<1>4. Sum(none) = 0
  <2>1. Upto(none, 0) = 0 /\ Upto(none, n) = Sum(none)
    BY <1>2, UptoSteps
  <2> QED
    BY <1>2, <2>1
<1>5. ASSUME NEW a \in Int, NEW b \in Int PROVE TotalWithin(none, none, a, b) = 0
  <2> DEFINE f == Kept(none, none, a, b)
  <2>1. f \in [1 .. n -> Int]
    BY <1>2, KeptTyped
  <2> HIDE DEF f
  <2>2. Upto(f, 0) = 0
    BY <1>2, <2>1, UptoSteps
  <2> QED
    BY <1>2, <2>2 DEF TotalWithin, f
<1> QED
  BY <1>1, <1>3, <1>4, <1>5 DEF none

\* The first i buckets of a side were merged by a factor of w.
Merging(m, s, c, w, i) ==
  /\ i = 0 => m = NoBuckets
  /\ i > 0 => Ended(m, Up(s[i], w))
  /\ ToSet(Indices(m.spans)) = {Up(s[j], w) : j \in 1 .. i}
  /\ \A a, b \in Int :
       TotalWithin(Indices(m.spans), m.counts, a, b) = Upto(Kept(s, c, a * w, b * w), i)
  /\ Sum(m.counts) = Upto(c, i)
  /\ (\A j \in 1 .. Len(c) : c[j] >= 0) => \A k \in 1 .. Len(m.counts) : m.counts[k] >= 0

\* A bucket more is merged.
LEMMA MergingStep ==
  ASSUME NEW s \in Seq(Int), NEW c \in Seq(Int), Len(s) = Len(c), Increasing(s),
         \A j \in 1 .. Len(s) : s[j] \in IndexRange,
         NEW w \in Nat, w >= 2, NEW i \in 1 .. Len(s),
         NEW m \in MergedBuckets, Merging(m, s, c, w, i - 1)
  PROVE  Merging(Place(m, Up(s[i], w), c[i]), s, c, w, i)
<1> DEFINE t == Up(s[i], w)
           x == c[i]
           p == Place(m, t, x)
           n == Len(s)
<1>1. /\ n \in Nat /\ i \in 1 .. n /\ s[i] \in Int /\ s[i] \in IndexRange
      /\ x \in Int /\ w \in Nat \ {0} /\ i > 0
  <2>1. i \in 1 .. Len(s) /\ i \in 1 .. Len(c)
    OBVIOUS
  <2>2. s[i] \in Int
    BY <2>1
  <2>3. x \in Int
    BY <2>1
  <2> QED
    BY <2>1, <2>2, <2>3
<1>2. t \in IndexRange /\ t \in Int /\ 2 * t <= IndexLimit
  <2>1. t \in IndexRange /\ 2 * t <= IndexLimit
    BY <1>1, UpHalves
  <2> QED
    BY <2>1, RangeIsConvex
<1>3. Grown(m, p, t, x)
  <2>1. CASE i = 1
    <3>1. m = NoBuckets
      BY <2>1 DEF Merging
    <3> HIDE DEF t, x
    <3> QED
      BY <1>1, <1>2, <3>1, PlaceFirst
  <2>2. CASE i # 1
    <3> DEFINE last == Up(s[i - 1], w)
    <3>1. i - 1 \in 1 .. n /\ i - 1 > 0 /\ i - 1 < i
      BY <1>1, <2>2
    <3>2. Ended(m, last)
      BY <3>1 DEF Merging
    <3>3. s[i - 1] \in IndexRange /\ s[i - 1] \in Int /\ s[i - 1] < s[i]
      BY <1>1, <3>1, RangeIsConvex DEF Increasing
    <3>4. last \in Int /\ -IndexLimit <= 2 * last
      <4>1. -IndexLimit <= 2 * Up(s[i - 1], w)
        BY <3>3, UpHalves
      <4>2. Up(s[i - 1], w) \in Int
        BY <1>1, <3>3, UpBounds
      <4> QED
        BY <4>1, <4>2
    <3>5. last <= t
      <4>1. s[i - 1] <= s[i]
        BY <1>1, <3>3
      <4> QED
        BY <1>1, <3>3, <4>1, UpMonotone
    <3> HIDE DEF t, x, last
    <3>6. t - last <= IndexLimit
      <4>1. IndexLimit \in Nat
        BY HistogramAssumption DEF HistogramAssumption
      <4> QED
        BY <1>2, <3>4, <4>1
    <3> QED
      BY <1>1, <1>2, <3>2, <3>4, <3>5, <3>6, PlaceNext
  <2> QED
    BY <2>1, <2>2
<1>4. ToSet(Indices(p.spans)) = {Up(s[j], w) : j \in 1 .. i}
  <2>1. ToSet(Indices(p.spans)) = {Up(s[j], w) : j \in 1 .. i - 1} \cup {Up(s[i], w)}
    BY <1>3 DEF Grown, Merging
  <2>2. \A j : j \in 1 .. i <=> j \in 1 .. i - 1 \/ j = i
    BY <1>1
  <2> QED
    BY <2>1, <2>2
<1>5. ASSUME NEW a \in Int, NEW b \in Int
      PROVE  TotalWithin(Indices(p.spans), p.counts, a, b) = Upto(Kept(s, c, a * w, b * w), i)
  <2> DEFINE f == Kept(s, c, a * w, b * w)
             more == IF a < t /\ t <= b THEN x ELSE 0
  <2>1. /\ f \in [1 .. n -> Int]
        /\ f[i] = IF a * w < s[i] /\ s[i] <= b * w THEN c[i] ELSE 0
    <3>1. a * w \in Int /\ b * w \in Int
      OBVIOUS
    <3> QED
      BY <1>1, <3>1, KeptTyped
  <2>2. /\ (a < t) <=> (a * w < s[i])
        /\ (t <= b) <=> (s[i] <= b * w)
    BY <1>1, UpAbove, UpWithin
  <2>3. f[i] = more
    <3> HIDE DEF f
    <3> QED
      BY <2>1, <2>2, Zenon
  <2>4. TotalWithin(Indices(p.spans), p.counts, a, b)
          = TotalWithin(Indices(m.spans), m.counts, a, b) + more
    BY <1>3 DEF Grown
  <2>5. TotalWithin(Indices(m.spans), m.counts, a, b) = Upto(f, i - 1)
    BY DEF Merging
  <2> HIDE DEF f, more, n
  <2>6. Upto(f, i) = Upto(f, i - 1) + f[i]
    BY <1>1, <2>1, UptoSteps
  <2> QED
    BY <2>3, <2>4, <2>5, <2>6 DEF f
<1>6. Sum(p.counts) = Upto(c, i)
  <2>1. Sum(p.counts) = Sum(m.counts) + c[i]
    BY <1>3 DEF Grown
  <2>2. Sum(m.counts) = Upto(c, i - 1)
    BY DEF Merging
  <2>3. n \in Nat /\ c \in [1 .. n -> Int]
    BY <1>1
  <2> HIDE DEF n
  <2>4. Upto(c, i) = Upto(c, i - 1) + c[i]
    BY <1>1, <2>3, UptoSteps
  <2> QED
    BY <2>1, <2>2, <2>4
<1>7. ASSUME \A j \in 1 .. Len(c) : c[j] >= 0
      PROVE  \A k \in 1 .. Len(p.counts) : p.counts[k] >= 0
  <2>1. x >= 0
    BY <1>1, <1>7
  <2>2. \A k \in 1 .. Len(m.counts) : m.counts[k] >= 0
    BY <1>7 DEF Merging
  <2> QED
    BY <1>3, <2>1, <2>2 DEF Grown
<1>8. Ended(p, t)
  BY <1>3 DEF Grown
<1> QED
  BY <1>1, <1>4, <1>5, <1>6, <1>7, <1>8 DEF Merging

\* What the buckets s with the counts c are merged into, buckets w times as wide.
MergedInto(m, s, c, w) ==
  /\ m \in MergedBuckets /\ m.ok = TRUE /\ SpansInRange(m.spans)
  /\ Len(Indices(m.spans)) = Len(m.counts)
  /\ ToSet(Indices(m.spans)) = {Up(j, w) : j \in ToSet(s)}
  /\ \A a, b \in Int : TotalWithin(Indices(m.spans), m.counts, a, b)
                         = TotalWithin(s, c, a * w, b * w)
  /\ Sum(m.counts) = Sum(c)
  /\ (\A j \in 1 .. Len(c) : c[j] >= 0) => \A k \in 1 .. Len(m.counts) : m.counts[k] >= 0

\* Merging loses nothing and moves nothing out of its bucket: "a histogram at a
\* coarser schema", of what was exposed.
LEMMA PlacedAgrees ==
  ASSUME PowersOfTwo, NEW s \in Seq(Int), NEW c \in Seq(Int), Len(s) = Len(c), Increasing(s),
         \A j \in 1 .. Len(s) : s[j] \in IndexRange,
         NEW shift \in Nat, shift > 0, shift < IndexBits
  PROVE  MergedInto(PlacedBuckets(s, c, shift), s, c, 2 ^ shift)
<1> DEFINE m == PlacedBuckets(s, c, shift)
           w == 2 ^ shift
           n == Len(s)
<1>1. w \in Nat \ {0} /\ w >= 2 /\ w \in Nat /\ n \in Nat
  BY PowerBounds
<1>2. \A i \in Int : Target(i, shift) = Up(i, w)
  BY <1>1, TargetIsUp
<1>3. \A i \in Int : Target(i, shift) \in Int
  BY <1>1, <1>2, UpBounds
<1> HIDE DEF w
<1>4. Len(s) <= Len(c)
  OBVIOUS
<1>5. PICK h \in [0 .. Len(s) -> MergedBuckets] :
        /\ h[0] = NoBuckets
        /\ \A i \in 1 .. Len(s) : h[i] = Place(h[i - 1], Target(s[i], shift), c[i])
        /\ h[Len(s)] = PlacedBuckets(s, c, shift)
  BY <1>3, <1>4, PlacedSteps, ZenonT(30)
<1> DEFINE Done == {i \in 0 .. n : Merging(h[i], s, c, w, i)}
<1>6. 0 \in Done
  <2>1. ToSet(Indices(NoBuckets.spans)) = {Up(s[j], w) : j \in 1 .. 0}
    <3>1. ToSet(<<>>) = {}
      BY DEF ToSet
    <3> QED
      BY <3>1, NothingPlaced
  <2>2. ASSUME NEW a \in Int, NEW b \in Int
        PROVE  TotalWithin(Indices(NoBuckets.spans), NoBuckets.counts, a, b)
                 = Upto(Kept(s, c, a * w, b * w), 0)
    <3>1. Kept(s, c, a * w, b * w) \in [1 .. n -> Int]
      BY KeptTyped
    <3> HIDE DEF n
    <3>2. Upto(Kept(s, c, a * w, b * w), 0) = 0
      BY <1>1, <3>1, UptoSteps
    <3> QED
      BY <3>2, NothingPlaced
  <2>3. Sum(NoBuckets.counts) = Upto(c, 0)
    <3>1. c \in [1 .. n -> Int]
      OBVIOUS
    <3> HIDE DEF n
    <3>2. Upto(c, 0) = 0
      BY <1>1, <3>1, UptoSteps
    <3> QED
      BY <3>2, NothingPlaced
  <2>4. Len(NoBuckets.counts) = 0
    BY NothingPlaced
  <2>5. Merging(NoBuckets, s, c, w, 0)
    BY <2>1, <2>2, <2>3, <2>4 DEF Merging
  <2> QED
    BY <1>1, <1>5, <2>5
<1>7. ASSUME NEW i \in 1 .. n, i - 1 \in Done
      PROVE  i \in Done
  <2>1. /\ h[i - 1] \in MergedBuckets /\ Merging(h[i - 1], s, c, w, i - 1)
        /\ h[i] = Place(h[i - 1], Target(s[i], shift), c[i])
    BY <1>5, <1>7
  <2>2. s[i] \in Int
    OBVIOUS
  <2>3. h[i] = Place(h[i - 1], Up(s[i], w), c[i])
    BY <1>2, <2>1, <2>2
  <2>4. Merging(Place(h[i - 1], Up(s[i], w), c[i]), s, c, w, i)
    BY <1>1, <2>1, MergingStep
  <2> QED
    BY <2>3, <2>4
<1> HIDE DEF Done
<1>8. 0 .. n \subseteq Done
  BY <1>1, <1>6, <1>7, BoundedInduction
<1>9. Merging(m, s, c, w, n)
  <2>1. n \in Done
    BY <1>1, <1>8
  <2> QED
    BY <1>5, <2>1 DEF Done
<1>10. m \in MergedBuckets
  <2>1. n \in 0 .. Len(s)
    BY <1>1
  <2> QED
    BY <1>5, <2>1
<1> HIDE DEF m
<1>11. m.ok = TRUE /\ SpansInRange(m.spans) /\ Len(Indices(m.spans)) = Len(m.counts)
  <2>1. CASE n = 0
    <3>1. m = NoBuckets
      BY <1>9, <2>1 DEF Merging
    <3>2. Len(Indices(NoBuckets.spans)) = Len(NoBuckets.counts)
      BY NothingPlaced
    <3> QED
      BY <3>1, <3>2, NothingPlaced
  <2>2. CASE n # 0
    <3>1. n > 0
      BY <1>1, <2>2
    <3> QED
      BY <1>9, <3>1 DEF Merging, Ended
  <2> QED
    BY <2>1, <2>2
<1>12. ToSet(Indices(m.spans)) = {Up(j, w) : j \in ToSet(s)}
  <2>1. ToSet(Indices(m.spans)) = {Up(s[j], w) : j \in 1 .. n}
    BY <1>9 DEF Merging
  <2>2. ToSet(s) = {s[j] : j \in 1 .. n}
    <3>1. DOMAIN s = 1 .. n
      OBVIOUS
    <3> QED
      BY <3>1 DEF ToSet
  <2> QED
    BY <2>1, <2>2
<1>13. \A a, b \in Int : TotalWithin(Indices(m.spans), m.counts, a, b) = TotalWithin(s, c, a * w, b * w)
  BY <1>9 DEF Merging, TotalWithin
<1>14. Sum(m.counts) = Sum(c)
  <2>1. c \in [1 .. n -> Int]
    OBVIOUS
  <2> HIDE DEF n
  <2>2. Upto(c, n) = Sum(c)
    BY <1>1, <2>1, UptoSteps
  <2> QED
    BY <1>9, <2>2 DEF Merging
<1>15. (\A j \in 1 .. Len(c) : c[j] >= 0) => \A k \in 1 .. Len(m.counts) : m.counts[k] >= 0
  BY <1>9 DEF Merging
<1> QED
  BY <1>10, <1>11, <1>12, <1>13, <1>14, <1>15 DEF m, w, MergedInto

-----------------------------------------------------------------------------

\* The counts of a histogram of integers fit half of what is wrapped.
LEMMA WrappedFits ==
  ASSUME PowersOfTwo
  PROVE  /\ CountLimit \in Nat \ {0}
         /\ \A n \in Int : Wrapped(n) \in Int
         /\ \A n \in Int : -CountLimit <= n /\ n < CountLimit => Wrapped(n) = n
<1>1. CountBits - 1 \in Nat
  BY HistogramAssumption DEF HistogramAssumption
<1>2. CountLimit \in Nat \ {0}
  BY <1>1 DEF CountLimit, PowersOfTwo
<1>3. ASSUME NEW n \in Int PROVE Wrapped(n) \in Int
  <2> DEFINE l == CountLimit
  <2>1. l \in Nat \ {0} /\ Wrapped(n) = ((n + l) % (2 * l)) - l
    BY <1>2 DEF Wrapped
  <2> HIDE DEF l
  <2> QED
    BY <2>1
<1>4. ASSUME NEW n \in Int, -CountLimit <= n, n < CountLimit PROVE Wrapped(n) = n
  <2> DEFINE l == CountLimit
  <2>1. /\ l \in Nat \ {0} /\ Wrapped(n) = ((n + l) % (2 * l)) - l
        /\ 0 <= n + l /\ n + l < 2 * l
    BY <1>2, <1>4 DEF Wrapped
  <2> HIDE DEF l
  <2>2. (n + l) % (2 * l) = n + l
    BY <2>1
  <2> QED
    BY <2>1, <2>2
<1> QED
  BY <1>2, <1>3, <1>4

\* Wrapping keeps the number of elements.
LEMMA EachWrappedTyped ==
  ASSUME PowersOfTwo, NEW s \in Seq(Int)
  PROVE  EachWrapped(s) \in Seq(Int) /\ Len(EachWrapped(s)) = Len(s)
<1>1. \A i \in DOMAIN s : Wrapped(s[i]) \in Int
  BY WrappedFits
<1>2. Len(s) \in Nat /\ DOMAIN s = 1 .. Len(s)
  OBVIOUS
<1>3. EachWrapped(s) \in [1 .. Len(s) -> Int]
  BY <1>1, <1>2 DEF EachWrapped
<1> QED
  BY <1>2, <1>3

\* What fits in an i64 is not wrapped.
LEMMA EachWrappedFits ==
  ASSUME PowersOfTwo, NEW s \in Seq(Int),
         \A i \in 1 .. Len(s) : -CountLimit <= s[i] /\ s[i] < CountLimit
  PROVE  EachWrapped(s) = s
<1> DEFINE e == EachWrapped(s)
<1>1. e \in Seq(Int) /\ Len(e) = Len(s)
  BY EachWrappedTyped
<1>2. \A i \in 1 .. Len(e) : e[i] = s[i]
  <2> TAKE i \in 1 .. Len(e)
  <2>1. i \in DOMAIN s /\ i \in 1 .. Len(s) /\ s[i] \in Int
    BY <1>1
  <2>2. e[i] = Wrapped(s[i])
    BY <2>1 DEF EachWrapped
  <2>3. Wrapped(s[i]) = s[i]
    BY <2>1, WrappedFits
  <2> QED
    BY <2>2, <2>3
<1> HIDE DEF e
<1>3. e = s
  BY <1>1, <1>2, SameElements
<1> QED
  BY <1>3 DEF e

\* The counts are the sums of the first deltas.
LEMMA CountsSteps ==
  ASSUME NEW d \in Seq(Int)
  PROVE  /\ Counts(d) \in Seq(Int) /\ Len(Counts(d)) = Len(d)
         /\ \A i \in 1 .. Len(d) : Counts(d)[i] = Upto(d, i)
<1> DEFINE n == Len(d)
<1>1. n \in Nat /\ DOMAIN d = 1 .. n /\ d \in [1 .. n -> Int]
  OBVIOUS
<1>2. ASSUME NEW i \in 1 .. n PROVE Sum(SubSeq(d, 1, i)) = Upto(d, i)
  <2>1. SubSeq(d, 1, i) = [j \in 1 .. i |-> d[j]]
    OBVIOUS
  <2> QED
    BY <2>1 DEF Upto
<1>3. \A i \in 1 .. n : Upto(d, i) \in Int
  <2> HIDE DEF n
  <2>1. \A i \in 0 .. n : Upto(d, i) \in Int
    BY <1>1, UptoSteps
  <2>2. \A i \in 1 .. n : i \in 0 .. n
    BY <1>1
  <2> QED
    BY <2>1, <2>2
<1>4. Counts(d) \in [1 .. n -> Int] /\ \A i \in 1 .. n : Counts(d)[i] = Upto(d, i)
  BY <1>1, <1>2, <1>3 DEF Counts
<1>5. Counts(d) \in Seq(Int) /\ Len(Counts(d)) = n
  BY <1>1, <1>4
<1> QED
  BY <1>4, <1>5

\* The first delta is the first count, the others are differences.
LEMMA DeltasTyped ==
  ASSUME NEW c \in Seq(Int)
  PROVE  /\ Deltas(c) \in Seq(Int) /\ Len(Deltas(c)) = Len(c)
         /\ \A i \in 1 .. Len(c) :
              Deltas(c)[i] = IF i = 1 THEN c[1] ELSE c[i] - c[i - 1]
<1> DEFINE n == Len(c)
<1>1. n \in Nat /\ DOMAIN c = 1 .. n
  OBVIOUS
<1>2. ASSUME NEW i \in 1 .. n
      PROVE  (IF i = 1 THEN c[1] ELSE c[i] - c[i - 1]) \in Int
  <2>1. c[i] \in Int /\ (i # 1 => i - 1 \in 1 .. n)
    OBVIOUS
  <2>2. i # 1 => c[i - 1] \in Int
    BY <2>1
  <2> QED
    BY <2>1, <2>2
<1>3. /\ Deltas(c) \in [1 .. n -> Int]
      /\ \A i \in 1 .. n : Deltas(c)[i] = IF i = 1 THEN c[1] ELSE c[i] - c[i - 1]
  BY <1>1, <1>2 DEF Deltas
<1>4. Deltas(c) \in Seq(Int) /\ Len(Deltas(c)) = n
  BY <1>1, <1>3
<1> QED
  BY <1>3, <1>4

\* Deltas of counts stand for the counts.
LEMMA CountsOfDeltas ==
  ASSUME NEW c \in Seq(Int)
  PROVE  Counts(Deltas(c)) = c
<1> DEFINE d == Deltas(c)
           n == Len(c)
<1>1. /\ d \in Seq(Int) /\ Len(d) = n /\ n \in Nat
      /\ \A i \in 1 .. n : d[i] = IF i = 1 THEN c[1] ELSE c[i] - c[i - 1]
  BY DeltasTyped
<1>2. d \in [1 .. n -> Int]
  <2> HIDE DEF d
  <2> QED
    BY <1>1
<1> HIDE DEF d, n
<1>3. Upto(d, 0) = 0 /\ \A i \in 1 .. n : Upto(d, i) = Upto(d, i - 1) + d[i]
  BY <1>1, <1>2, UptoSteps
<1> DEFINE Done == {i \in 0 .. n : i > 0 => Upto(d, i) = c[i]}
<1>4. 0 \in Done
  BY <1>1
<1>5. ASSUME NEW i \in 1 .. n, i - 1 \in Done PROVE i \in Done
  <2>1. c[i] \in Int /\ i \in 0 .. n /\ i > 0
    BY <1>1 DEF n
  <2>2. Upto(d, i) = Upto(d, i - 1) + d[i]
    BY <1>3
  <2>3. CASE i = 1
    <3>1. d[i] = c[i] /\ Upto(d, i - 1) = 0
      BY <1>1, <1>3, <2>3
    <3> QED
      BY <2>1, <2>2, <3>1
  <2>4. CASE i # 1
    <3>1. i - 1 > 0 /\ i - 1 \in 1 .. n
      BY <1>1, <2>4
    <3>2. c[i - 1] \in Int
      BY <3>1 DEF n
    <3>3. d[i] = c[i] - c[i - 1] /\ Upto(d, i - 1) = c[i - 1]
      BY <1>1, <1>5, <2>4, <3>1
    <3> QED
      BY <2>1, <2>2, <3>2, <3>3
  <2> QED
    BY <2>3, <2>4
<1> HIDE DEF Done
<1>6. 0 .. n \subseteq Done
  BY <1>1, <1>4, <1>5, BoundedInduction
<1>7. \A i \in 1 .. n : Upto(d, i) = c[i]
  BY <1>6 DEF Done
<1> DEFINE e == Counts(d)
<1>8. e \in Seq(Int) /\ Len(e) = n /\ \A i \in 1 .. n : e[i] = Upto(d, i)
  BY <1>1, CountsSteps
<1> HIDE DEF e
<1>9. \A i \in 1 .. Len(e) : e[i] = c[i]
  BY <1>7, <1>8
<1>10. e = c
  BY <1>8, <1>9, SameElements DEF n
<1> QED
  BY <1>10 DEF d, e

\* A part of a sum of counts is no greater than the sum.
LEMMA PartOfSum ==
  ASSUME NEW c \in Seq(Int), \A i \in 1 .. Len(c) : c[i] >= 0, NEW k \in 1 .. Len(c)
  PROVE  c[k] <= Sum(c)
<1> DEFINE n == Len(c)
<1>1. /\ n \in Nat /\ c \in [1 .. n -> Int] /\ k \in 1 .. n
      /\ \A i \in 1 .. n : c[i] \in Int /\ c[i] >= 0
  OBVIOUS
<1> HIDE DEF n
<1>2. /\ \A i \in 0 .. n : Upto(c, i) \in Int
      /\ Upto(c, 0) = 0 /\ Upto(c, n) = Sum(c)
      /\ \A i \in 1 .. n : Upto(c, i) = Upto(c, i - 1) + c[i]
  BY <1>1, UptoSteps
<1> DEFINE Done == {i \in 0 .. n : Upto(c, i) >= 0 /\ (i >= k => Upto(c, i) >= c[k])}
<1>3. 0 \in Done
  BY <1>1, <1>2
<1>4. ASSUME NEW i \in 1 .. n, i - 1 \in Done PROVE i \in Done
  <2>1. /\ Upto(c, i) = Upto(c, i - 1) + c[i] /\ c[i] \in Int /\ c[i] >= 0
        /\ i \in 0 .. n /\ i - 1 \in 0 .. n
    <3>1. i \in 0 .. n /\ i - 1 \in 0 .. n
      BY <1>1
    <3>2. c[i] \in Int /\ c[i] >= 0
      BY <1>1
    <3> QED
      BY <1>2, <3>1, <3>2
  <2>2. /\ Upto(c, i - 1) >= 0 /\ Upto(c, i - 1) \in Int
        /\ i - 1 >= k => Upto(c, i - 1) >= c[k]
    BY <1>2, <1>4, <2>1
  <2>3. c[k] \in Int /\ k \in 1 .. n
    BY <1>1
  <2>4. Upto(c, i) >= 0
    BY <2>1, <2>2
  <2>5. ASSUME i >= k PROVE Upto(c, i) >= c[k]
    <3>1. CASE i = k
      BY <2>1, <2>2, <3>1
    <3>2. CASE i # k
      <4>1. i - 1 >= k
        BY <2>3, <2>5, <3>2
      <4> QED
        BY <2>1, <2>2, <2>3, <4>1
    <3> QED
      BY <3>1, <3>2
  <2> QED
    BY <2>1, <2>4, <2>5
<1> HIDE DEF Done
<1>5. 0 .. n \subseteq Done
  BY <1>1, <1>3, <1>4, BoundedInduction
<1>6. n \in Done /\ n >= k
  BY <1>1, <1>5
<1> QED
  BY <1>1, <1>2, <1>6 DEF Done

-----------------------------------------------------------------------------

SideTyped(side) == side.spans \in Seq(Span) /\ side.buckets \in Seq(Int)

\* Whole counts of a side are what an i64 holds.
CountsFit(side, float) ==
  ~float => \A i \in 1 .. Len(side.buckets) : Counts(side.buckets)[i] \in 0 .. CountLimit - 1

\* A side is valid when it is laid out and its counts fit.
LEMMA ValidInParts ==
  ASSUME NEW side, SideTyped(side), NEW float
  PROVE  ValidSide(side, float) <=> LaidOut(side) /\ CountsFit(side, float)
<1> DEFINE spans == side.spans
           buckets == side.buckets
<1>1. DOMAIN spans = 1 .. Len(spans) /\ DOMAIN buckets = 1 .. Len(buckets)
  BY DEF SideTyped
<1> QED
  BY <1>1, Zenon DEF ValidSide, LaidOut, SpansInRange, CountsFit

\* There is a count for every bucket.
LEMMA CountsOfTyped ==
  ASSUME NEW side, SideTyped(side), NEW float
  PROVE  CountsOf(side, float) \in Seq(Int) /\ Len(CountsOf(side, float)) = Len(side.buckets)
<1> DEFINE buckets == side.buckets
<1>1. buckets \in Seq(Int)
  BY DEF SideTyped
<1> HIDE DEF buckets
<1>2. Counts(buckets) \in Seq(Int) /\ Len(Counts(buckets)) = Len(buckets)
  BY <1>1, CountsSteps
<1>3. CASE float
  <2>1. CountsOf(side, float) = buckets
    BY <1>3 DEF CountsOf, buckets
  <2> QED
    BY <1>1, <2>1 DEF buckets
<1>4. CASE ~float
  <2>1. CountsOf(side, float) = Counts(buckets)
    BY <1>4 DEF CountsOf, buckets
  <2> QED
    BY <1>2, <2>1 DEF buckets
<1> QED
  BY <1>3, <1>4

\* The buckets of a side that is laid out.
LEMMA SideIndices ==
  ASSUME NEW side, SideTyped(side), LaidOut(side)
  PROVE  /\ Indices(side.spans) \in Seq(Int) /\ Increasing(Indices(side.spans))
         /\ Len(Indices(side.spans)) = Len(side.buckets)
         /\ \A i \in 1 .. Len(Indices(side.spans)) : Indices(side.spans)[i] \in IndexRange
<1> DEFINE spans == side.spans
<1>1. spans \in Seq(Span) /\ SpansInRange(spans) /\ Covered(spans) = Len(side.buckets)
  BY DEF SideTyped, LaidOut
<1> HIDE DEF spans
<1>2. /\ Indices(spans) \in Seq(Int) /\ Increasing(Indices(spans))
      /\ Len(Indices(spans)) = Covered(spans)
      /\ \A i \in 1 .. Len(Indices(spans)) : Indices(spans)[i] \in IndexRange
  BY <1>1, IndicesOfSpans
<1> QED
  BY <1>1, <1>2 DEF spans

\* What a reader counts between two indices.
LEMMA CountedWithin ==
  ASSUME NEW side, SideTyped(side), Len(Indices(side.spans)) = Len(side.buckets),
         Indices(side.spans) \in Seq(Int), NEW float, NEW a, NEW b
  PROVE  CountWithin(side, float, a, b)
           = TotalWithin(Indices(side.spans), CountsOf(side, float), a, b)
<1> DEFINE s == Indices(side.spans)
           c == CountsOf(side, float)
           n == Len(side.buckets)
           f == Kept(s, c, a, b)
<1>1. /\ s \in Seq(Int) /\ Len(s) = n /\ c \in Seq(Int) /\ Len(c) = n /\ n \in Nat
      /\ DOMAIN side.buckets = 1 .. n
  BY CountsOfTyped DEF SideTyped
<1>2. f = [i \in 1 .. n |-> IF a < s[i] /\ s[i] <= b THEN c[i] ELSE 0]
  BY <1>1 DEF Kept
<1>3. CountWithin(side, float, a, b) = Sum(f)
  BY <1>1, <1>2, Zenon DEF CountWithin
<1>4. f \in [1 .. n -> Int] /\ TotalWithin(s, c, a, b) = Upto(f, n)
  <2> HIDE DEF s, c, n
  <2> QED
    BY <1>1, KeptTyped DEF TotalWithin
<1> HIDE DEF f, n
<1>5. Upto(f, n) = Sum(f)
  BY <1>1, <1>4, UptoSteps
<1> QED
  BY <1>3, <1>4, <1>5

\* The buckets of a side that was reduced, as ReduceResolution writes them.
ReducedSide(merged, float) ==
  [spans |-> merged.spans,
   buckets |-> IF float THEN merged.counts
               ELSE EachWrapped(Deltas(EachWrapped(merged.counts)))]

\* MergeSide places the counts, as wide as they are kept.
LEMMA MergedSide ==
  ASSUME PowersOfTwo, NEW side, SideTyped(side), LaidOut(side), NEW float, NEW shift
  PROVE  LET c == IF float THEN side.buckets ELSE EachWrapped(Counts(side.buckets))
         IN /\ c \in Seq(Int) /\ Len(c) = Len(side.buckets)
            /\ MergeSide(side, float, shift) = PlacedBuckets(Indices(side.spans), c, shift)
<1> DEFINE buckets == side.buckets
           c == IF float THEN buckets ELSE EachWrapped(Counts(buckets))
           s == Indices(side.spans)
<1>1. c \in Seq(Int) /\ Len(c) = Len(buckets)
  <2>1. buckets \in Seq(Int)
    BY DEF SideTyped
  <2> HIDE DEF buckets
  <2>2. Counts(buckets) \in Seq(Int) /\ Len(Counts(buckets)) = Len(buckets)
    BY <2>1, CountsSteps
  <2>3. /\ EachWrapped(Counts(buckets)) \in Seq(Int)
        /\ Len(EachWrapped(Counts(buckets))) = Len(Counts(buckets))
    BY <2>2, EachWrappedTyped
  <2> QED
    BY <2>1, <2>2, <2>3
<1>2. Len(s) = Len(c) /\ Len(s) \in Nat
  BY <1>1, SideIndices
<1> HIDE DEF c, s
<1>3. ~(Len(s) > Len(c))
  BY <1>2
<1>4. MergeBuckets(side.spans, c, shift) = PlacedBuckets(s, c, shift)
  BY <1>3 DEF MergeBuckets, PlacedBuckets, PlacesOf, s
<1>5. MergeSide(side, float, shift) = MergeBuckets(side.spans, c, shift)
  BY DEF MergeSide, c, buckets
<1> QED
  BY <1>1, <1>4, <1>5 DEF c, s, buckets

-----------------------------------------------------------------------------

\* A side at a coarser schema: laid out as the exposed one, in the buckets its
\* buckets are part of, without an error; and with their counts, when they fit.
Reduction(side, merged, reduced, float, width) ==
  /\ merged.ok = TRUE /\ SideTyped(reduced) /\ LaidOut(reduced)
  /\ ToSet(Indices(reduced.spans)) = {Up(j, width) : j \in ToSet(Indices(side.spans))}
  /\ CountsFit(side, float) /\ Holds(side, float) =>
       /\ CountsFit(reduced, float) /\ Holds(reduced, float)
       /\ \A a, b \in Int :
            CountWithin(reduced, float, a, b) = CountWithin(side, float, a * width, b * width)

\* That is what merge_buckets makes of a side that is laid out.
LEMMA SideReduced ==
  ASSUME PowersOfTwo, NEW side, SideTyped(side), LaidOut(side), NEW float,
         NEW shift \in Nat, shift > 0, shift < IndexBits
  PROVE  LET m == MergeSide(side, float, shift)
         IN Reduction(side, m, ReducedSide(m, float), float, 2 ^ shift)
<1> DEFINE m == MergeSide(side, float, shift)
           r == ReducedSide(m, float)
           w == 2 ^ shift
           s == Indices(side.spans)
           c == IF float THEN side.buckets ELSE EachWrapped(Counts(side.buckets))
           u == Indices(r.spans)
<1>1. c \in Seq(Int) /\ Len(c) = Len(side.buckets) /\ m = PlacedBuckets(s, c, shift)
  BY MergedSide
<1>2. /\ s \in Seq(Int) /\ Increasing(s) /\ Len(s) = Len(side.buckets)
      /\ \A i \in 1 .. Len(s) : s[i] \in IndexRange
  BY SideIndices
<1> HIDE DEF c, s, m, w
<1>3. Len(s) = Len(c)
  BY <1>1, <1>2
<1>4. /\ m \in MergedBuckets /\ m.ok = TRUE /\ SpansInRange(m.spans)
      /\ Len(Indices(m.spans)) = Len(m.counts)
      /\ ToSet(Indices(m.spans)) = {Up(j, w) : j \in ToSet(s)}
      /\ \A a, b \in Int : TotalWithin(Indices(m.spans), m.counts, a, b)
                             = TotalWithin(s, c, a * w, b * w)
      /\ Sum(m.counts) = Sum(c)
      /\ (\A j \in 1 .. Len(c) : c[j] >= 0) =>
           \A k \in 1 .. Len(m.counts) : m.counts[k] >= 0
  <2>1. MergedInto(m, s, c, w)
    BY <1>1, <1>2, <1>3, PlacedAgrees DEF w
  <2> QED
    BY <2>1 DEF MergedInto
<1> DEFINE spans == m.spans
           counts == m.counts
           n == Len(counts)
<1>5. spans \in Seq(Span) /\ counts \in Seq(Int) /\ n \in Nat
  BY <1>4 DEF MergedBuckets
<1> HIDE DEF spans, counts
<1> DEFINE buckets == IF float THEN counts ELSE EachWrapped(Deltas(EachWrapped(counts)))
<1>6. r.spans = spans /\ r.buckets = buckets
  BY DEF ReducedSide, spans, counts
<1>7. buckets \in Seq(Int) /\ Len(buckets) = n
  <2> DEFINE e == EachWrapped(counts)
             d == Deltas(e)
  <2>1. e \in Seq(Int) /\ Len(e) = n
    BY <1>5, EachWrappedTyped
  <2> HIDE DEF e
  <2>2. d \in Seq(Int) /\ Len(d) = n
    BY <2>1, DeltasTyped
  <2> HIDE DEF d
  <2>3. EachWrapped(d) \in Seq(Int) /\ Len(EachWrapped(d)) = n
    BY <2>2, EachWrappedTyped
  <2> QED
    BY <1>5, <2>3 DEF d, e
<1> HIDE DEF r, buckets
<1>8. SideTyped(r)
  BY <1>5, <1>6, <1>7 DEF SideTyped
<1>9. LaidOut(r)
  <2>1. Len(Indices(spans)) = Covered(spans)
    BY <1>4, <1>5, IndicesOfSpans DEF spans
  <2>2. Covered(spans) = n /\ SpansInRange(spans)
    BY <1>4, <2>1 DEF spans, counts
  <2> QED
    BY <1>6, <1>7, <2>2 DEF LaidOut
<1>10. ToSet(Indices(r.spans)) = {Up(j, w) : j \in ToSet(s)}
  BY <1>4, <1>6 DEF spans
<1>11. ASSUME CountsFit(side, float), Holds(side, float)
       PROVE  /\ CountsFit(r, float) /\ Holds(r, float)
              /\ \A a, b \in Int :
                   CountWithin(r, float, a, b) = CountWithin(side, float, a * w, b * w)
  <2>1. c = CountsOf(side, float) /\ (~float => \A i \in 1 .. Len(c) : c[i] \in 0 .. CountLimit - 1)
    <3>1. CASE float
      BY <3>1 DEF c, CountsOf
    <3>2. CASE ~float
      <4> DEFINE e == Counts(side.buckets)
      <4>1. e \in Seq(Int) /\ Len(e) = Len(side.buckets)
        BY CountsSteps DEF SideTyped
      <4>2. \A i \in 1 .. Len(side.buckets) : e[i] \in 0 .. CountLimit - 1
        BY <1>11, <3>2 DEF CountsFit
      <4> HIDE DEF e
      <4>3. \A i \in 1 .. Len(e) : -CountLimit <= e[i] /\ e[i] < CountLimit
        <5>1. CountLimit \in Nat \ {0}
          BY WrappedFits
        <5> TAKE i \in 1 .. Len(e)
        <5>2. e[i] \in 0 .. CountLimit - 1
          BY <4>1, <4>2
        <5> QED
          BY <5>1, <5>2
      <4>4. EachWrapped(e) = e
        BY <4>1, <4>3, EachWrappedFits
      <4>5. c = EachWrapped(e) /\ CountsOf(side, float) = e
        BY <3>2 DEF c, e, CountsOf
      <4>6. c = e
        BY <4>4, <4>5
      <4> QED
        BY <4>1, <4>2, <4>5, <4>6
    <3> QED
      BY <3>1, <3>2
  <2>2. CountsOf(r, float) = counts /\ CountsFit(r, float) /\ Holds(r, float)
    <3>1. CASE float
      BY <1>6, <3>1 DEF CountsOf, CountsFit, Holds, buckets
    <3>2. CASE ~float
      <4>1. \A i \in 1 .. Len(c) : c[i] \in 0 .. CountLimit - 1
        BY <2>1, <3>2
      <4>2. \A j \in 1 .. Len(c) : c[j] >= 0
        BY <4>1
      <4>3. \A k \in 1 .. n : counts[k] >= 0
        BY <1>4, <4>2 DEF counts
      <4>4. Sum(counts) < CountLimit
        <5>1. Sum(counts) = Sum(c)
          BY <1>4 DEF counts
        <5>2. Sum(c) < CountLimit
          BY <1>11, <2>1, <3>2 DEF Holds
        <5> QED
          BY <5>1, <5>2
      <4>5. CountLimit \in Nat \ {0}
        BY WrappedFits
      <4>6. Sum(counts) \in Int
        <5>1. counts \in [1 .. n -> Int]
          BY <1>5
        <5> HIDE DEF n
        <5>2. Upto(counts, n) = Sum(counts) /\ \A i \in 0 .. n : Upto(counts, i) \in Int
          BY <1>5, <5>1, UptoSteps
        <5> QED
          BY <1>5, <5>2
      <4>7. ASSUME NEW k \in 1 .. n
            PROVE  counts[k] \in 0 .. CountLimit - 1
        <5>1. counts[k] <= Sum(counts)
          BY <1>5, <4>3, PartOfSum
        <5>2. counts[k] \in Int /\ counts[k] >= 0
          BY <1>5, <4>3
        <5> QED
          BY <4>4, <4>5, <4>6, <5>1, <5>2
      <4>8. EachWrapped(counts) = counts
        <5>1. \A i \in 1 .. Len(counts) : -CountLimit <= counts[i] /\ counts[i] < CountLimit
          BY <4>5, <4>7
        <5> QED
          BY <1>5, <5>1, EachWrappedFits
      <4> DEFINE d == Deltas(counts)
      <4>9. /\ d \in Seq(Int) /\ Len(d) = n
            /\ \A i \in 1 .. n : d[i] = IF i = 1 THEN counts[1] ELSE counts[i] - counts[i - 1]
        BY <1>5, DeltasTyped
      <4> HIDE DEF d
      <4>10. \A i \in 1 .. Len(d) : -CountLimit <= d[i] /\ d[i] < CountLimit
        <5> TAKE i \in 1 .. Len(d)
        <5>1. i \in 1 .. n
          BY <4>9
        <5>2. CASE i = 1
          <6>1. d[i] = counts[i]
            BY <4>9, <5>1, <5>2
          <6> QED
            BY <4>5, <4>7, <5>1, <6>1
        <5>3. CASE i # 1
          <6>1. i - 1 \in 1 .. n
            BY <1>5, <5>1, <5>3
          <6>2. d[i] = counts[i] - counts[i - 1]
            BY <4>9, <5>1, <5>3
          <6>3. counts[i] \in 0 .. CountLimit - 1 /\ counts[i - 1] \in 0 .. CountLimit - 1
            BY <4>7, <5>1, <6>1
          <6> QED
            BY <4>5, <6>2, <6>3
        <5> QED
          BY <5>2, <5>3
      <4>11. EachWrapped(d) = d
        BY <4>9, <4>10, EachWrappedFits
      <4>12. r.buckets = d
        BY <1>6, <3>2, <4>8, <4>11 DEF buckets, d
      <4>13. Counts(d) = counts
        BY <1>5, CountsOfDeltas DEF d
      <4>14. CountsOf(r, float) = counts
        BY <3>2, <4>12, <4>13 DEF CountsOf
      <4>15. CountsFit(r, float)
        BY <4>7, <4>9, <4>12, <4>13 DEF CountsFit
      <4>16. Holds(r, float)
        BY <4>4, <4>14 DEF Holds
      <4> QED
        BY <4>14, <4>15, <4>16
    <3> QED
      BY <3>1, <3>2
  <2>3. ASSUME NEW a \in Int, NEW b \in Int
        PROVE  CountWithin(r, float, a, b) = CountWithin(side, float, a * w, b * w)
    <3>1. Len(Indices(r.spans)) = Len(r.buckets) /\ Indices(r.spans) \in Seq(Int)
      BY <1>8, <1>9, SideIndices
    <3>2. CountWithin(r, float, a, b) = TotalWithin(Indices(r.spans), CountsOf(r, float), a, b)
      BY <1>8, <3>1, CountedWithin
    <3>3. CountWithin(side, float, a * w, b * w)
            = TotalWithin(s, CountsOf(side, float), a * w, b * w)
      <4>1. Len(Indices(side.spans)) = Len(side.buckets) /\ Indices(side.spans) \in Seq(Int)
        BY <1>2 DEF s
      <4> QED
        BY <4>1, CountedWithin DEF s
    <3>4. TotalWithin(Indices(spans), counts, a, b) = TotalWithin(s, c, a * w, b * w)
      BY <1>4 DEF spans, counts
    <3> QED
      BY <1>6, <2>1, <2>2, <3>2, <3>3, <3>4
  <2> QED
    BY <2>2, <2>3
<1>12. Reduction(side, m, r, float, w)
  BY <1>4, <1>8, <1>9, <1>10, <1>11 DEF Reduction, s
<1> QED
  BY <1>12 DEF r, m, w

-----------------------------------------------------------------------------

\* There are as many elements in order as positions.
LEMMA CardinalityOfIncreasing ==
  ASSUME NEW s \in Seq(Int), Increasing(s)
  PROVE  Cardinality(ToSet(s)) = Len(s)
<1> DEFINE n == Len(s)
           S == 1 .. n
           T == ToSet(s)
<1>1. n \in Nat /\ DOMAIN s = S /\ s \in [S -> Int] /\ \A i \in S : i \in Int /\ s[i] \in Int
  OBVIOUS
<1>2. T = {s[i] : i \in S}
  BY <1>1 DEF ToSet
<1>3. IsFiniteSet(S) /\ Cardinality(S) = n
  <2>1. /\ IsFiniteSet(1 .. n)
        /\ Cardinality(1 .. n) = IF 1 > n THEN 0 ELSE n - 1 + 1
    BY <1>1, FS_Interval
  <2> QED
    BY <1>1, <2>1
<1>4. \A i, j \in S : s[i] = s[j] => i = j
  <2> SUFFICES ASSUME NEW i \in S, NEW j \in S, i # j PROVE s[i] # s[j]
    OBVIOUS
  <2>1. i < j \/ j < i
    BY <1>1
  <2>2. (i < j => s[i] < s[j]) /\ (j < i => s[j] < s[i])
    BY DEF Increasing
  <2> QED
    BY <1>1, <2>1, <2>2
<1> HIDE DEF S, T, n
<1>5. s \in [S -> T]
  BY <1>1, <1>2
<1>6. s \in Bijection(S, T)
  <2>1. s \in Injection(S, T)
    BY <1>4, <1>5 DEF Injection, IsInjective
  <2>2. s \in Surjection(S, T)
    BY <1>2, <1>5 DEF Surjection
  <2> QED
    BY <2>1, <2>2 DEF Bijection
<1>7. ExistsBijection(S, T)
  BY <1>6 DEF ExistsBijection
<1>8. Cardinality(T) = Cardinality(S)
  BY <1>3, <1>7, FS_Bijection
<1> QED
  BY <1>3, <1>8 DEF T, n

\* A side has what the exposed one has, in buckets wider by a factor.
SideFollows(side, exposed, float, width) ==
  /\ SideTyped(side) /\ LaidOut(side)
  /\ ToSet(Indices(side.spans)) = {Up(i, width) : i \in ToSet(Indices(exposed.spans))}
  /\ CountsFit(exposed, float) /\ Holds(exposed, float) =>
       /\ CountsFit(side, float) /\ Holds(side, float)
       /\ \A a, b \in Int :
            CountWithin(side, float, a, b) = CountWithin(exposed, float, a * width, b * width)

\* What is exposed has it.
LEMMA FollowsItself ==
  ASSUME NEW side, SideTyped(side), LaidOut(side), NEW float
  PROVE  SideFollows(side, side, float, 1)
<1> DEFINE S == ToSet(Indices(side.spans))
<1>1. \A i \in S : i \in Int
  <2>1. Indices(side.spans) \in Seq(Int)
    BY SideIndices
  <2> QED
    BY <2>1 DEF ToSet
<1>2. \A i \in S : Up(i, 1) = i
  BY <1>1 DEF Up
<1> HIDE DEF S
<1>3. S = {Up(i, 1) : i \in S}
  BY <1>2
<1>4. \A a \in Int : a * 1 = a
  OBVIOUS
<1> QED
  BY <1>3, <1>4 DEF SideFollows, S

\* What is reduced from one that has it has it, in buckets wider still.
LEMMA FollowsReduced ==
  ASSUME PowersOfTwo, NEW side, NEW exposed, NEW float, NEW v \in Nat \ {0},
         SideTyped(exposed), LaidOut(exposed), SideFollows(side, exposed, float, v),
         NEW shift \in Nat, shift > 0, shift < IndexBits
  PROVE  /\ MergeSide(side, float, shift).ok = TRUE
         /\ SideFollows(ReducedSide(MergeSide(side, float, shift), float), exposed, float,
                        2 ^ shift * v)
<1> DEFINE m == MergeSide(side, float, shift)
           r == ReducedSide(m, float)
           w == 2 ^ shift
           S == ToSet(Indices(exposed.spans))
<1>1. w \in Nat \ {0}
  BY PowerBounds
<1>2. SideTyped(side) /\ LaidOut(side)
  BY DEF SideFollows
<1>3. Reduction(side, m, r, float, w)
  BY <1>2, SideReduced
<1>4. \A i \in S : i \in Int
  <2>1. Indices(exposed.spans) \in Seq(Int)
    BY SideIndices
  <2> QED
    BY <2>1 DEF ToSet
<1> HIDE DEF m, r, w
<1>5. ToSet(Indices(r.spans)) = {Up(i, w * v) : i \in S}
  <2>1. ToSet(Indices(side.spans)) = {Up(i, v) : i \in S}
    BY DEF SideFollows
  <2>2. ToSet(Indices(r.spans)) = {Up(Up(i, v), w) : i \in S}
    BY <1>3, <2>1 DEF Reduction
  <2>3. \A i \in S : Up(Up(i, v), w) = Up(i, w * v)
    BY <1>1, <1>4, UpTwice
  <2> HIDE DEF S
  <2> QED
    BY <2>2, <2>3
<1>6. ASSUME CountsFit(exposed, float), Holds(exposed, float)
      PROVE  /\ CountsFit(r, float) /\ Holds(r, float)
             /\ \A a, b \in Int :
                  CountWithin(r, float, a, b)
                    = CountWithin(exposed, float, a * (w * v), b * (w * v))
  <2>1. /\ CountsFit(side, float) /\ Holds(side, float)
        /\ \A a, b \in Int :
             CountWithin(side, float, a, b) = CountWithin(exposed, float, a * v, b * v)
    BY <1>6 DEF SideFollows
  <2>2. ASSUME NEW a \in Int, NEW b \in Int
        PROVE  CountWithin(r, float, a, b)
                 = CountWithin(exposed, float, a * (w * v), b * (w * v))
    <3>1. a * w \in Int /\ b * w \in Int /\ (a * w) * v = a * (w * v) /\ (b * w) * v = b * (w * v)
      BY <1>1
    <3>2. CountWithin(r, float, a, b) = CountWithin(side, float, a * w, b * w)
      BY <1>3, <2>1 DEF Reduction
    <3>3. CountWithin(side, float, a * w, b * w)
            = CountWithin(exposed, float, (a * w) * v, (b * w) * v)
      BY <2>1, <3>1
    <3> QED
      BY <3>1, <3>2, <3>3
  <2> QED
    BY <1>3, <2>1, <2>2 DEF Reduction
<1>7. SideFollows(r, exposed, float, w * v)
  BY <1>3, <1>5, <1>6 DEF SideFollows, Reduction, S
<1> QED
  BY <1>3, <1>7 DEF Reduction, m, r, w

-----------------------------------------------------------------------------

Histograms == [schema : Int, float : BOOLEAN, negative : Side, positive : Side]

\* The parts of an exposed histogram.
LEMMA HistogramParts ==
  ASSUME NEW h \in Histograms
  PROVE  /\ h.schema \in Int /\ SideTyped(h.negative) /\ SideTyped(h.positive)
         /\ h.negative \in Side /\ h.positive \in Side
BY DEF Histograms, Side, SideTyped

\* How many times wider the buckets are.
Factor(exposed, schema) == 2 ^ (exposed.schema - schema)

\* A histogram has what the exposed one has.
HistogramFollows(h, exposed) ==
  /\ h \in Histograms /\ h.float = exposed.float /\ h.schema <= exposed.schema
  /\ SideFollows(h.negative, exposed.negative, exposed.float, Factor(exposed, h.schema))
  /\ SideFollows(h.positive, exposed.positive, exposed.float, Factor(exposed, h.schema))

\* What Validate accepts is laid out and counted as the reduction needs.
LEMMA AcceptedFollows ==
  ASSUME PowersOfTwo, NEW exposed \in Histograms, Accepted(exposed)
  PROVE  /\ HistogramFollows(exposed, exposed) /\ exposed.schema >= SchemaMin
         /\ LaidOut(exposed.negative) /\ CountsFit(exposed.negative, exposed.float)
         /\ LaidOut(exposed.positive) /\ CountsFit(exposed.positive, exposed.float)
<1>1. /\ exposed.schema \in Int /\ SideTyped(exposed.negative) /\ SideTyped(exposed.positive)
  BY HistogramParts
<1>2. /\ exposed.schema >= SchemaMin
      /\ ValidSide(exposed.negative, exposed.float) /\ ValidSide(exposed.positive, exposed.float)
  BY DEF Accepted
<1>3. /\ LaidOut(exposed.negative) /\ CountsFit(exposed.negative, exposed.float)
      /\ LaidOut(exposed.positive) /\ CountsFit(exposed.positive, exposed.float)
  BY <1>1, <1>2, ValidInParts
<1>4. /\ SideFollows(exposed.negative, exposed.negative, exposed.float, 1)
      /\ SideFollows(exposed.positive, exposed.positive, exposed.float, 1)
  BY <1>1, <1>3, FollowsItself
<1>5. Factor(exposed, exposed.schema) = 1 /\ exposed.schema <= exposed.schema
  <2>1. exposed.schema - exposed.schema = 0
    BY <1>1
  <2>2. 2 ^ 0 = 1
    BY DEF PowersOfTwo
  <2>3. Factor(exposed, exposed.schema) = 2 ^ 0
    BY <2>1 DEF Factor
  <2> QED
    BY <1>1, <2>2, <2>3
<1> QED
  BY <1>2, <1>3, <1>4, <1>5 DEF HistogramFollows

\* A histogram with another schema and other sides.
Remade(r, h, schema, n, p) ==
  /\ r \in Histograms /\ r.schema = schema /\ r.float = h.float
  /\ r.negative = n /\ r.positive = p

\* The histogram that reduce_resolution makes of one, unless a side fails.
LEMMA ReducedHistogram ==
  ASSUME NEW h \in Histograms, NEW schema \in Int,
         MergeSide(h.negative, h.float, h.schema - schema).ok = TRUE,
         MergeSide(h.positive, h.float, h.schema - schema).ok = TRUE,
         NEW n \in Side,
         n = ReducedSide(MergeSide(h.negative, h.float, h.schema - schema), h.float),
         NEW p \in Side,
         p = ReducedSide(MergeSide(h.positive, h.float, h.schema - schema), h.float)
  PROVE  Remade(ReduceResolution(h, schema), h, schema, n, p)
<1> DEFINE r == ReduceResolution(h, schema)
<1>1. r = [h EXCEPT !.schema = schema, !.negative = n, !.positive = p]
  BY Zenon DEF ReduceResolution, ReducedSide
<1> HIDE DEF r
<1>2. Remade(r, h, schema, n, p)
  BY <1>1 DEF Histograms, Remade
<1> QED
  BY <1>2 DEF r

\* One that is reduced has what the exposed one has, in wider buckets.
LEMMA ReduceFollows ==
  ASSUME PowersOfTwo, NEW exposed \in Histograms, LaidOut(exposed.negative),
         LaidOut(exposed.positive), NEW h, HistogramFollows(h, exposed),
         NEW schema \in Int, schema < h.schema, h.schema - schema < IndexBits,
         2 ^ (h.schema - schema) * Factor(exposed, h.schema) = Factor(exposed, schema)
  PROVE  /\ HistogramFollows(ReduceResolution(h, schema), exposed)
         /\ ReduceResolution(h, schema).schema = schema
<1> DEFINE r == ReduceResolution(h, schema)
           shift == h.schema - schema
           v == Factor(exposed, h.schema)
           float == exposed.float
           n == ReducedSide(MergeSide(h.negative, float, shift), float)
           p == ReducedSide(MergeSide(h.positive, float, shift), float)
<1>1. /\ h \in Histograms /\ h.float = float /\ h.schema \in Int /\ h.schema <= exposed.schema
      /\ exposed.schema \in Int /\ SideTyped(exposed.negative) /\ SideTyped(exposed.positive)
      /\ SideFollows(h.negative, exposed.negative, float, v)
      /\ SideFollows(h.positive, exposed.positive, float, v)
  BY HistogramParts DEF HistogramFollows
<1>2. shift \in Nat /\ shift > 0 /\ shift < IndexBits
  BY <1>1
<1>3. v \in Nat \ {0}
  <2>1. exposed.schema - h.schema \in Nat
    BY <1>1
  <2> QED
    BY <2>1 DEF Factor, PowersOfTwo
<1>4. 2 ^ shift * v = Factor(exposed, schema)
  OBVIOUS
<1> HIDE DEF shift, v, float
<1>5. /\ MergeSide(h.negative, float, shift).ok = TRUE
      /\ SideFollows(n, exposed.negative, float, 2 ^ shift * v)
  BY <1>1, <1>2, <1>3, FollowsReduced
<1>6. /\ MergeSide(h.positive, float, shift).ok = TRUE
      /\ SideFollows(p, exposed.positive, float, 2 ^ shift * v)
  BY <1>1, <1>2, <1>3, FollowsReduced
<1>7. n \in Side /\ p \in Side
  <2>1. SideTyped(n) /\ SideTyped(p)
    BY <1>5, <1>6 DEF SideFollows
  <2>2. /\ n = [spans |-> n.spans, buckets |-> n.buckets]
        /\ p = [spans |-> p.spans, buckets |-> p.buckets]
    BY DEF ReducedSide
  <2> HIDE DEF n, p
  <2> QED
    BY <2>1, <2>2 DEF Side, SideTyped
<1>8. /\ n = ReducedSide(MergeSide(h.negative, h.float, h.schema - schema), h.float)
      /\ p = ReducedSide(MergeSide(h.positive, h.float, h.schema - schema), h.float)
      /\ MergeSide(h.negative, h.float, h.schema - schema).ok = TRUE
      /\ MergeSide(h.positive, h.float, h.schema - schema).ok = TRUE
  BY <1>1, <1>5, <1>6 DEF shift
<1> HIDE DEF n, p
<1>9. Remade(r, h, schema, n, p)
  BY <1>1, <1>7, <1>8, ReducedHistogram
<1> HIDE DEF r
<1>10. r.schema <= exposed.schema
  BY <1>1, <1>9 DEF Remade
<1>11. HistogramFollows(r, exposed)
  BY <1>1, <1>4, <1>5, <1>6, <1>9, <1>10 DEF HistogramFollows, Remade, float
<1> QED
  BY <1>9, <1>11 DEF Remade, r

\* It has as many buckets as the exposed one has at its schema.
LEMMA BucketsCounted ==
  ASSUME PowersOfTwo, NEW exposed \in Histograms, NEW h, HistogramFollows(h, exposed)
  PROVE  /\ BucketLen(h) = BucketsAt(exposed, h.schema)
         /\ BucketLen(h) \in Nat
<1> DEFINE w == Factor(exposed, h.schema)
           At(side) == Cardinality({(i + w - 1) \div w : i \in ToSet(Indices(side.spans))})
<1>1. ASSUME NEW side, NEW from, NEW float, SideFollows(side, from, float, w)
      PROVE  Len(side.buckets) = At(from) /\ Len(side.buckets) \in Nat
  <2>1. SideTyped(side) /\ LaidOut(side)
    BY <1>1 DEF SideFollows
  <2>2. /\ Indices(side.spans) \in Seq(Int) /\ Increasing(Indices(side.spans))
        /\ Len(Indices(side.spans)) = Len(side.buckets)
    BY <2>1, SideIndices
  <2>3. Cardinality(ToSet(Indices(side.spans))) = Len(side.buckets)
    BY <2>2, CardinalityOfIncreasing
  <2>4. ToSet(Indices(side.spans))
          = {(i + w - 1) \div w : i \in ToSet(Indices(from.spans))}
    BY <1>1, Zenon DEF SideFollows, Up
  <2>5. Len(side.buckets) \in Nat
    BY <2>1 DEF SideTyped
  <2> QED
    BY <2>3, <2>4, <2>5
<1>2. /\ Len(h.negative.buckets) = At(exposed.negative) /\ Len(h.negative.buckets) \in Nat
      /\ Len(h.positive.buckets) = At(exposed.positive) /\ Len(h.positive.buckets) \in Nat
  BY <1>1 DEF HistogramFollows
<1>3. BucketsAt(exposed, h.schema) = At(exposed.negative) + At(exposed.positive)
  BY DEF BucketsAt, Factor
<1> HIDE DEF At
<1> QED
  BY <1>2, <1>3 DEF BucketLen

-----------------------------------------------------------------------------

\* The powers of a sum are the products.
LEMMA PowerOfSum ==
  ASSUME PowersOfTwo, NEW a \in Nat, NEW b \in Nat
  PROVE  2 ^ a * 2 ^ b = 2 ^ (a + b)
<1> DEFINE D == {i \in 0 .. a : 2 ^ i * 2 ^ b = 2 ^ (i + b)}
<1>1. 0 \in D
  <2>1. 0 + b = b /\ 2 ^ 0 = 1 /\ 2 ^ b \in Nat /\ 0 \in 0 .. a
    BY DEF PowersOfTwo
  <2> QED
    BY <2>1
<1>2. ASSUME NEW i \in 1 .. a, i - 1 \in D PROVE i \in D
  <2> DEFINE j == i - 1
  <2>1. j \in Nat /\ j + 1 = i /\ j + b \in Nat /\ (j + b) + 1 = i + b /\ i \in 0 .. a
    OBVIOUS
  <2>2. 2 ^ j * 2 ^ b = 2 ^ (j + b)
    BY <1>2
  <2> HIDE DEF j
  <2> DEFINE x == 2 ^ j
             y == 2 ^ b
             z == 2 ^ (j + b)
  <2>3. /\ x \in Nat /\ y \in Nat /\ z \in Nat /\ x * y = z
    BY <2>1, <2>2 DEF PowersOfTwo
  <2>4. 2 ^ (j + 1) = 2 * x /\ 2 ^ ((j + b) + 1) = 2 * z
    BY <2>1 DEF PowersOfTwo
  <2>5. 2 ^ i = 2 * x /\ 2 ^ (i + b) = 2 * z
    BY <2>1, <2>4
  <2>6. (2 * x) * y = 2 * z
    <3> HIDE DEF x, y, z
    <3>1. (2 * x) * y = 2 * (x * y)
      BY <2>3
    <3> QED
      BY <2>3, <3>1
  <2> QED
    BY <2>1, <2>5, <2>6
<1> HIDE DEF D
<1>3. 0 .. a \subseteq D
  BY <1>1, <1>2, BoundedInduction
<1>4. a \in D
  BY <1>3
<1> QED
  BY <1>4 DEF D

\* The stages a histogram goes through while it loses resolution.
Stages(exposed) == {h \in Histograms : HistogramFollows(h, exposed) /\ h.schema <= SchemaMax}

\* What an exposed histogram has to be for every step to be one.
Sound(exposed) ==
  /\ exposed \in Histograms /\ LaidOut(exposed.negative) /\ LaidOut(exposed.positive)
  /\ SchemaMax - SchemaMin < IndexBits
  /\ exposed.schema - SchemaMax < IndexBits
  /\ Failed \notin Histograms

\* A reduction from any stage on is a stage at its schema.
LEMMA ReducedStage ==
  ASSUME PowersOfTwo, NEW exposed, Sound(exposed), NEW h, HistogramFollows(h, exposed),
         NEW schema \in Int, schema < h.schema, h.schema - schema < IndexBits,
         schema <= SchemaMax
  PROVE  /\ ReduceResolution(h, schema) \in Stages(exposed)
         /\ ReduceResolution(h, schema).schema = schema
<1> DEFINE r == ReduceResolution(h, schema)
<1>1. /\ h.schema \in Int /\ exposed.schema \in Int /\ h.schema <= exposed.schema
      /\ exposed \in Histograms /\ LaidOut(exposed.negative) /\ LaidOut(exposed.positive)
  BY HistogramParts DEF Sound, HistogramFollows
<1>2. 2 ^ (h.schema - schema) * Factor(exposed, h.schema) = Factor(exposed, schema)
  <2> DEFINE a == h.schema - schema
             b == exposed.schema - h.schema
  <2>1. a \in Nat /\ b \in Nat /\ a + b = exposed.schema - schema
    BY <1>1
  <2> HIDE DEF a, b
  <2>2. 2 ^ a * 2 ^ b = 2 ^ (a + b)
    BY <2>1, PowerOfSum
  <2>3. 2 ^ a * 2 ^ b = 2 ^ (exposed.schema - schema)
    BY <2>1, <2>2
  <2> QED
    BY <2>3 DEF Factor, a, b
<1>3. HistogramFollows(r, exposed) /\ r.schema = schema
  BY <1>1, <1>2, ReduceFollows
<1> HIDE DEF r
<1>4. r \in Histograms /\ r.schema <= SchemaMax
  BY <1>3 DEF HistogramFollows
<1> QED
  BY <1>3, <1>4 DEF Stages, r

\* What Convert starts from: the exposed histogram, or the finest it keeps of it.
Ingested(exposed) ==
  IF exposed.schema > SchemaMax THEN ReduceResolution(exposed, SchemaMax) ELSE exposed

\* The schema is first brought down to the finest one that is stored.
LEMMA IngestedStage ==
  ASSUME PowersOfTwo, NEW exposed, Sound(exposed), Accepted(exposed)
  PROVE  /\ Ingested(exposed) \in Stages(exposed)
         /\ Ingested(exposed).schema
              = IF exposed.schema > SchemaMax THEN SchemaMax ELSE exposed.schema
<1>1. exposed \in Histograms /\ exposed.schema - SchemaMax < IndexBits /\ SchemaMax \in Int
  BY HistogramAssumption DEF Sound, HistogramAssumption
<1>2. exposed.schema \in Int /\ HistogramFollows(exposed, exposed)
  BY <1>1, HistogramParts, AcceptedFollows
<1>3. CASE exposed.schema > SchemaMax
  <2>1. SchemaMax < exposed.schema /\ SchemaMax <= SchemaMax
    BY <1>1, <1>2, <1>3
  <2>2. /\ ReduceResolution(exposed, SchemaMax) \in Stages(exposed)
        /\ ReduceResolution(exposed, SchemaMax).schema = SchemaMax
    BY <1>1, <1>2, <2>1, ReducedStage
  <2> QED
    BY <1>3, <2>2 DEF Ingested
<1>4. CASE ~(exposed.schema > SchemaMax)
  <2>1. exposed.schema <= SchemaMax
    BY <1>1, <1>2, <1>4
  <2>2. exposed \in Stages(exposed)
    BY <1>1, <1>2, <2>1 DEF Stages
  <2> QED
    BY <1>4, <2>2 DEF Ingested
<1> QED
  BY <1>3, <1>4

\* One step is a stage again, at the schema of the step when it is taken.
LEMMA CoarsenedStage ==
  ASSUME PowersOfTwo, NEW exposed, Sound(exposed), NEW h \in Stages(exposed), NEW limit,
         NEW schema \in SchemaMin .. SchemaMax
  PROVE  /\ Coarsen(h, schema, limit) \in Stages(exposed)
         /\ IF Fits(h, limit) \/ schema >= h.schema
            THEN Coarsen(h, schema, limit) = h
            ELSE Coarsen(h, schema, limit).schema = schema
<1>1. /\ SchemaMin \in Int /\ SchemaMax \in Int /\ schema \in Int /\ SchemaMin <= schema
      /\ schema <= SchemaMax /\ IndexBits \in Nat
  BY HistogramAssumption DEF HistogramAssumption
<1>2. /\ h \in Histograms /\ HistogramFollows(h, exposed)
      /\ h.schema <= SchemaMax /\ h.schema \in Int
      /\ h # Failed /\ SchemaMax - SchemaMin < IndexBits
  BY HistogramParts DEF Stages, Sound
<1>3. CASE Fits(h, limit) \/ schema >= h.schema
  BY <1>2, <1>3 DEF Coarsen
<1>4. CASE ~(Fits(h, limit) \/ schema >= h.schema)
  <2>1. schema < h.schema /\ h.schema - schema < IndexBits
    BY <1>1, <1>2, <1>4
  <2>2. Coarsen(h, schema, limit) = ReduceResolution(h, schema)
    BY <1>2, <1>4 DEF Coarsen
  <2>3. /\ ReduceResolution(h, schema) \in Stages(exposed)
        /\ ReduceResolution(h, schema).schema = schema
    BY <1>1, <1>2, <2>1, ReducedStage
  <2> QED
    BY <1>4, <2>2, <2>3
<1> QED
  BY <1>3, <1>4

\* The schemas Convert tries, from fine to coarse.
Tried == [i \in 1 .. SchemaMax - SchemaMin |-> SchemaMax - i]

Coarsest(ingested, limit) ==
  FoldLeft(LAMBDA h, s : Coarsen(h, s, limit), ingested, Tried)

\* The schemas tried are those below the finest, one after the other.
LEMMA TriedTyped ==
  /\ SchemaMax - SchemaMin \in Nat /\ Tried \in Seq(SchemaMin .. SchemaMax)
  /\ Len(Tried) = SchemaMax - SchemaMin
  /\ \A i \in 1 .. SchemaMax - SchemaMin :
       Tried[i] = SchemaMax - i /\ Tried[i] \in SchemaMin .. SchemaMax
<1> DEFINE n == SchemaMax - SchemaMin
<1>1. n \in Nat /\ SchemaMin \in Int /\ SchemaMax \in Int
  BY HistogramAssumption DEF HistogramAssumption
<1>2. \A i \in 1 .. n : SchemaMax - i \in SchemaMin .. SchemaMax
  BY <1>1
<1>3. Tried = [i \in 1 .. n |-> SchemaMax - i]
  BY DEF Tried
<1> HIDE DEF n
<1>4. Tried \in [1 .. n -> SchemaMin .. SchemaMax]
  BY <1>2, <1>3
<1>5. Tried \in Seq(SchemaMin .. SchemaMax) /\ Len(Tried) = n
  BY <1>1, <1>4
<1> QED
  BY <1>1, <1>2, <1>3, <1>5 DEF n

-----------------------------------------------------------------------------

\* The stages that are gone through as the schemas are tried.
CoarseningRun(h, exposed, ingested, limit) ==
  /\ h \in [0 .. Len(Tried) -> Stages(exposed)]
  /\ h[0] = ingested
  /\ \A i \in 1 .. Len(Tried) : h[i] = Coarsen(h[i - 1], Tried[i], limit)
  /\ h[Len(Tried)] = Coarsest(ingested, limit)

\* The schemas are tried one after the other.
LEMMA CoarsestSteps ==
  ASSUME PowersOfTwo, NEW exposed, Sound(exposed), NEW ingested \in Stages(exposed), NEW limit,
         Tried \in Seq(SchemaMin .. SchemaMax)
  PROVE  \E h : CoarseningRun(h, exposed, ingested, limit)
<1> DEFINE n == Len(Tried)
           LS == Stages(exposed)
           Op(acc, x) == Coarsen(acc, x, limit)
           Goes(f) == f = [s \in SUBSET (1 .. n) |->
                                IF s = {} THEN ingested
                                ELSE Op(f[s \ {Max(s)}], Tried[Max(s)])]
           f == CHOOSE f : Goes(f)
           h == [i \in 0 .. n |-> f[1 .. i]]
<1>1. n \in Nat /\ DOMAIN Tried = 1 .. n /\ \A i \in 1 .. n : Tried[i] \in SchemaMin .. SchemaMax
  <2> DEFINE E == SchemaMin .. SchemaMax
  <2>1. Tried \in Seq(E)
    OBVIOUS
  <2> HIDE DEF E
  <2>2. /\ Len(Tried) \in Nat /\ DOMAIN Tried = 1 .. Len(Tried)
        /\ \A i \in 1 .. Len(Tried) : Tried[i] \in E
    BY <2>1
  <2> QED
    BY <2>2 DEF E, n
<1>2. Coarsest(ingested, limit) = f[1 .. n]
  BY <1>1 DEF Coarsest, FoldLeft, MapThenFoldSet
<1> HIDE DEF n
<1>3. ingested \in LS
  OBVIOUS
<1>4. ASSUME NEW acc \in LS, NEW i \in 1 .. n
      PROVE  Op(acc, Tried[i]) \in LS
  BY <1>1, CoarsenedStage
<1> HIDE DEF LS, Op
<1>5. PICK g \in [SUBSET (1 .. n) -> LS] : Goes(g)
  <2> DEFINE step == [i \in 1 .. n |-> [acc \in LS |-> Op(acc, Tried[i])]]
  <2>1. step \in [1 .. n -> [LS -> LS]]
    BY <1>4
  <2> HIDE DEF step
  <2>2. PICK g \in [SUBSET (1 .. n) -> LS] : GoesBy(g, n, ingested, step)
    <3> HIDE DEF f, h, Goes
    <3> QED
      BY <1>1, <1>3, <2>1, FoldIsDefined
  <2>3. ASSUME NEW s \in SUBSET (1 .. n)
        PROVE  g[s] = IF s = {} THEN ingested ELSE Op(g[s \ {Max(s)}], Tried[Max(s)])
    <3>1. CASE s = {}
      BY <2>2, <3>1 DEF GoesBy
    <3>2. CASE s # {}
      <4>1. Max(s) \in s /\ g[s] = step[Max(s)][g[s \ {Max(s)}]]
        BY <2>2, <3>2 DEF GoesBy
      <4>2. g[s \ {Max(s)}] \in LS /\ Max(s) \in 1 .. n
        BY <4>1
      <4> QED
        BY <3>2, <4>1, <4>2 DEF step
    <3> QED
      BY <3>1, <3>2
  <2>4. g = [s \in SUBSET (1 .. n) |-> g[s]]
    OBVIOUS
  <2>5. Goes(g)
    BY <2>3, <2>4
  <2> HIDE DEF Goes
  <2> QED
    BY <2>5
<1>6. Goes(f)
  <2> HIDE DEF Goes
  <2> QED
    BY <1>5
<1> HIDE DEF f
<1>7. h[0] = ingested
  <2>1. 1 .. 0 = {} /\ 0 \in 0 .. n /\ f[{}] = ingested
    BY <1>1, <1>6
  <2> QED
    BY <2>1
<1>8. ASSUME NEW i \in 1 .. n
      PROVE  h[i] = Op(h[i - 1], Tried[i])
  <2>1. /\ 1 .. i \in SUBSET (1 .. n) /\ 1 .. i # {}
        /\ Max(1 .. i) = i /\ (1 .. i) \ {i} = 1 .. i - 1
    BY <1>1, UpTo
  <2>2. f[1 .. i] = Op(f[(1 .. i) \ {Max(1 .. i)}], Tried[Max(1 .. i)])
    BY <1>6, <2>1
  <2>3. i \in 0 .. n /\ i - 1 \in 0 .. n
    BY <1>1
  <2> QED
    BY <2>1, <2>2, <2>3
<1> HIDE DEF Goes
<1>9. h[n] = Coarsest(ingested, limit)
  BY <1>1, <1>2
<1>10. \A i \in 0 .. n : h[i] \in LS
  <2> DEFINE Done == {i \in 0 .. n : h[i] \in LS}
  <2>1. 0 \in Done
    BY <1>1, <1>3, <1>7
  <2>2. \A i \in 1 .. n : i - 1 \in Done => i \in Done
    <3> HIDE DEF h
    <3> QED
      BY <1>1, <1>4, <1>8
  <2> HIDE DEF Done
  <2>3. 0 .. n \subseteq Done
    BY <1>1, <2>1, <2>2, BoundedInduction
  <2> QED
    BY <2>3 DEF Done
<1>11. h \in [0 .. n -> LS]
  BY <1>10
<1> HIDE DEF h
<1>12. CoarseningRun(h, exposed, ingested, limit)
  BY <1>7, <1>8, <1>9, <1>11 DEF CoarseningRun, n, LS, Op
<1> QED
  BY <1>12

-----------------------------------------------------------------------------

\* At no schema finer than this one, of those that were tried, the buckets fit.
NoFiner(exposed, limit, schema) ==
  /\ schema >= SchemaMin
  /\ \A t \in SchemaMin .. SchemaMax :
       t <= exposed.schema /\ t > schema => ~(limit = 0 \/ BucketsAt(exposed, t) <= limit)

\* At a schema where the buckets do not fit, either.
LEMMA NoFinerStep ==
  ASSUME PowersOfTwo, NEW exposed, Sound(exposed), NEW h \in Stages(exposed),
         NEW limit \in Nat, NEW schema \in SchemaMin .. SchemaMax, schema = h.schema - 1,
         ~Fits(h, limit), NoFiner(exposed, limit, h.schema)
  PROVE  NoFiner(exposed, limit, schema)
<1>1. /\ h \in Histograms /\ HistogramFollows(h, exposed) /\ h.schema \in Int
      /\ exposed \in Histograms /\ exposed.schema \in Int
  BY HistogramParts DEF Stages, Sound
<1>2. /\ SchemaMin \in Int /\ SchemaMax \in Int
  BY HistogramAssumption DEF HistogramAssumption
<1>3. BucketLen(h) = BucketsAt(exposed, h.schema) /\ BucketLen(h) \in Nat
  BY <1>1, BucketsCounted
<1>4. ~(limit = 0 \/ BucketsAt(exposed, h.schema) <= limit)
  BY <1>3 DEF Fits
<1>5. ASSUME NEW t \in SchemaMin .. SchemaMax, t <= exposed.schema, t > schema
      PROVE  ~(limit = 0 \/ BucketsAt(exposed, t) <= limit)
  <2>1. t = h.schema \/ t > h.schema
    BY <1>1, <1>2, <1>5
  <2>2. CASE t = h.schema
    BY <1>4, <2>2
  <2>3. CASE t > h.schema
    BY <1>5, <2>3 DEF NoFiner
  <2> QED
    BY <2>1, <2>2, <2>3
<1>6. schema >= SchemaMin
  BY <1>2
<1> QED
  BY <1>5, <1>6 DEF NoFiner

\* No resolution is given up that the limit would allow.
LEMMA CoarsestFound ==
  ASSUME PowersOfTwo, NEW exposed, Sound(exposed), Accepted(exposed), NEW limit \in Nat
  PROVE  /\ Coarsest(Ingested(exposed), limit) \in Stages(exposed)
         /\ NoFiner(exposed, limit, Coarsest(Ingested(exposed), limit).schema)
         /\ \/ Fits(Coarsest(Ingested(exposed), limit), limit)
            \/ Coarsest(Ingested(exposed), limit).schema = SchemaMin
<1> DEFINE n == SchemaMax - SchemaMin
           ingested == Ingested(exposed)
           last == Coarsest(ingested, limit)
<1>1. /\ n \in Nat /\ Len(Tried) = n /\ Tried \in Seq(SchemaMin .. SchemaMax)
      /\ \A i \in 1 .. n : Tried[i] = SchemaMax - i /\ Tried[i] \in SchemaMin .. SchemaMax
  BY TriedTyped
<1>2. /\ SchemaMin \in Int /\ SchemaMax \in Int /\ SchemaMin <= SchemaMax
  BY HistogramAssumption DEF HistogramAssumption
<1>3. /\ ingested \in Stages(exposed)
      /\ ingested.schema = IF exposed.schema > SchemaMax THEN SchemaMax ELSE exposed.schema
  BY IngestedStage
<1>4. exposed \in Histograms /\ exposed.schema \in Int /\ exposed.schema >= SchemaMin
  <2>1. exposed \in Histograms
    BY DEF Sound
  <2> QED
    BY <2>1, HistogramParts, AcceptedFollows
<1> HIDE DEF n, ingested
<1>5. PICK g : CoarseningRun(g, exposed, ingested, limit)
  BY <1>1, <1>3, CoarsestSteps
<1>6. /\ g \in [0 .. n -> Stages(exposed)] /\ g[0] = ingested /\ g[n] = last
      /\ \A i \in 1 .. n : g[i] = Coarsen(g[i - 1], Tried[i], limit)
  BY <1>1, <1>5 DEF CoarseningRun
<1> HIDE DEF last
<1> DEFINE Good(i) == /\ NoFiner(exposed, limit, g[i].schema)
                      /\ Fits(g[i], limit) \/ g[i].schema <= SchemaMax - i
           D == {i \in 0 .. n : Good(i)}
<1>7. \A i \in 0 .. n : g[i] \in Stages(exposed) /\ g[i].schema \in Int /\ g[i].schema <= SchemaMax
  <2> TAKE i \in 0 .. n
  <2>1. g[i] \in Stages(exposed)
    BY <1>6
  <2>2. g[i] \in Histograms /\ g[i].schema <= SchemaMax
    BY <2>1 DEF Stages
  <2> QED
    BY <2>1, <2>2, HistogramParts
<1>8. 0 \in D
  <2>1. NoFiner(exposed, limit, ingested.schema)
    <3>1. ingested.schema >= SchemaMin
      BY <1>2, <1>3, <1>4
    <3>2. \A t \in SchemaMin .. SchemaMax : ~(t <= exposed.schema /\ t > ingested.schema)
      BY <1>2, <1>3, <1>4
    <3> QED
      BY <3>1, <3>2 DEF NoFiner
  <2>2. ingested.schema <= SchemaMax - 0
    BY <1>2, <1>3, <1>4
  <2>3. 0 \in 0 .. n
    BY <1>1
  <2> QED
    BY <1>6, <2>1, <2>2, <2>3
<1>9. ASSUME NEW i \in 1 .. n, i - 1 \in D
      PROVE  i \in D
  <2> DEFINE h == g[i - 1]
             schema == Tried[i]
  <2>1. i \in 0 .. n /\ i - 1 \in 0 .. n
    BY <1>1
  <2>2. /\ h \in Stages(exposed) /\ h.schema \in Int
    BY <1>7, <2>1
  <2>3. /\ NoFiner(exposed, limit, h.schema) /\ (Fits(h, limit) \/ h.schema <= SchemaMax - (i - 1))
    BY <1>9
  <2>4. /\ g[i] = Coarsen(h, schema, limit) /\ schema = SchemaMax - i
        /\ schema \in SchemaMin .. SchemaMax
    BY <1>1, <1>6
  <2> HIDE DEF h, schema
  <2>5. IF Fits(h, limit) \/ schema >= h.schema THEN g[i] = h ELSE g[i].schema = schema
    BY <2>2, <2>4, CoarsenedStage
  <2>6. Good(i)
    <3>1. CASE Fits(h, limit)
      BY <2>3, <2>5, <3>1
    <3>2. CASE ~Fits(h, limit) /\ schema >= h.schema
      <4>1. g[i] = h /\ h.schema <= SchemaMax - i
        BY <2>4, <2>5, <3>2
      <4> QED
        BY <2>3, <4>1
    <3>3. CASE ~Fits(h, limit) /\ ~(schema >= h.schema)
      <4>1. g[i].schema = schema
        BY <2>5, <3>3
      <4>2. schema = h.schema - 1
        BY <1>2, <2>1, <2>2, <2>3, <2>4, <3>3
      <4>3. NoFiner(exposed, limit, schema)
        BY <2>2, <2>3, <2>4, <3>3, <4>2, NoFinerStep
      <4>4. schema <= SchemaMax - i
        BY <1>2, <2>1, <2>4
      <4> QED
        BY <4>1, <4>3, <4>4
    <3> QED
      BY <3>1, <3>2, <3>3
  <2> QED
    BY <2>1, <2>6
<1> HIDE DEF D
<1>10. 0 .. n \subseteq D
  BY <1>1, <1>8, <1>9, BoundedInduction
<1>11. n \in D /\ n \in 0 .. n
  BY <1>1, <1>10
<1>12. /\ NoFiner(exposed, limit, last.schema) /\ last \in Stages(exposed)
       /\ (Fits(last, limit) \/ last.schema <= SchemaMax - n) /\ last.schema \in Int
  BY <1>6, <1>7, <1>11 DEF D
<1>13. last.schema >= SchemaMin /\ SchemaMax - n = SchemaMin
  BY <1>2, <1>12 DEF NoFiner, n
<1>14. Fits(last, limit) \/ last.schema = SchemaMin
  BY <1>2, <1>12, <1>13
<1> QED
  BY <1>12, <1>14 DEF last, ingested

\* What Convert makes of an accepted histogram.
LEMMA ConvertedFrom ==
  ASSUME NEW exposed, Accepted(exposed), NEW limit
  PROVE  LET coarsest == Coarsest(Ingested(exposed), limit)
         IN Convert(exposed, limit)
              = IF coarsest = Failed THEN Failed
                ELSE IF Fits(coarsest, limit) THEN coarsest ELSE Failed
BY Zenon DEF Convert, Coarsest, Ingested, Tried

\* The greatest of a set of schemas.
LEMMA GreatestIs ==
  ASSUME NEW S \in SUBSET Int, NEW m \in S, \A t \in S : m >= t
  PROVE  Max(S) = m
<1>1. \E x \in S : \A y \in S : x >= y
  OBVIOUS
<1>2. Max(S) \in S /\ \A y \in S : Max(S) >= y
  BY <1>1 DEF Max
<1>3. Max(S) >= m /\ m >= Max(S) /\ Max(S) \in Int /\ m \in Int
  BY <1>2
<1> QED
  BY <1>3

-----------------------------------------------------------------------------

\* What a reader of a side counts in one bucket, all that is at its index.
LEMMA CountedAt ==
  ASSUME NEW side, SideTyped(side), LaidOut(side), NEW float, NEW index \in Int
  PROVE  CountAt(side, float, index) = CountWithin(side, float, index - 1, index)
<1> DEFINE n == Len(side.buckets)
           s == Indices(side.spans)
<1>1. /\ DOMAIN side.buckets = 1 .. n /\ Len(s) = n /\ \A i \in 1 .. Len(s) : s[i] \in Int
  <2>1. Indices(side.spans) \in Seq(Int) /\ Len(Indices(side.spans)) = Len(side.buckets)
    BY SideIndices
  <2>2. side.buckets \in Seq(Int)
    BY DEF SideTyped
  <2> QED
    BY <2>1, <2>2
<1> HIDE DEF n, s
<1>2. \A i \in 1 .. n : s[i] = index <=> index - 1 < s[i] /\ s[i] <= index
  <2> TAKE i \in 1 .. n
  <2>1. s[i] \in Int
    BY <1>1
  <2> QED
    BY <2>1
<1>3. [i \in 1 .. n |-> IF s[i] = index THEN CountsOf(side, float)[i] ELSE 0]
        = [i \in 1 .. n |-> IF index - 1 < s[i] /\ s[i] <= index
                            THEN CountsOf(side, float)[i] ELSE 0]
  <2> DEFINE c == CountsOf(side, float)
  <2> HIDE DEF c
  <2> SUFFICES [i \in 1 .. n |-> IF s[i] = index THEN c[i] ELSE 0]
                 = [i \in 1 .. n |-> IF index - 1 < s[i] /\ s[i] <= index THEN c[i] ELSE 0]
    BY DEF c
  <2> QED
    BY <1>2
<1> QED
  BY <1>1, <1>3, Zenon DEF CountAt, CountWithin, s

\* A side of a stage agrees with the exposed one.
LEMMA SideOfStageAgrees ==
  ASSUME PowersOfTwo, NEW side, NEW exposed, NEW float, NEW finer \in Nat,
         SideFollows(side, exposed, float, 2 ^ finer),
         CountsFit(exposed, float), Holds(exposed, float)
  PROVE  SideAgrees(side, exposed, float, finer)
<1> DEFINE w == 2 ^ finer
<1>1. w \in Nat \ {0} /\ IndexRange \subseteq Int
  BY RangeIsConvex DEF PowersOfTwo
<1>2. /\ SideTyped(side) /\ LaidOut(side) /\ CountsFit(side, float)
      /\ \A a, b \in Int :
           CountWithin(side, float, a, b) = CountWithin(exposed, float, a * w, b * w)
  BY DEF SideFollows
<1> HIDE DEF w
<1>3. ValidSide(side, float)
  BY <1>2, ValidInParts
<1>4. ASSUME NEW index \in IndexRange
      PROVE  CountAt(side, float, index)
               = CountWithin(exposed, float, (index - 1) * w, index * w)
  <2>1. index \in Int /\ index - 1 \in Int
    BY <1>1
  <2>2. CountAt(side, float, index) = CountWithin(side, float, index - 1, index)
    BY <1>2, <2>1, CountedAt
  <2> QED
    BY <1>2, <2>1, <2>2
<1> QED
  BY <1>3, <1>4 DEF SideAgrees, w

\* Every histogram that is kept counts in each bucket what was exposed within
\* its bounds, at a schema no finer than the finest, and is laid out as well as
\* it had to be: however many spans, buckets and schemas it has and however many
\* are given up.  The exposed schema is at most IndexBits finer than the finest.
THEOREM ReductionAgrees ==
  ASSUME PowersOfTwo, NEW exposed \in Histograms, NEW limit \in Nat, Failed \notin Histograms,
         SchemaMax - SchemaMin < IndexBits, exposed.schema - SchemaMax < IndexBits,
         Convert(exposed, limit) # Failed
  PROVE  AgreesWithExposed(exposed, Convert(exposed, limit))
<1> DEFINE result == Convert(exposed, limit)
           finer == exposed.schema - result.schema
<1>1. Accepted(exposed)
  BY DEF Convert
<1>2. LaidOut(exposed.negative) /\ CountsFit(exposed.negative, exposed.float)
      /\ LaidOut(exposed.positive) /\ CountsFit(exposed.positive, exposed.float)
  BY <1>1, AcceptedFollows
<1>3. Sound(exposed)
  BY <1>2 DEF Sound
<1>4. Coarsest(Ingested(exposed), limit) \in Stages(exposed)
  BY <1>1, <1>3, CoarsestFound
<1>5. result = Coarsest(Ingested(exposed), limit)
  BY <1>1, ConvertedFrom
<1> HIDE DEF result
<1>6. /\ result \in Histograms /\ HistogramFollows(result, exposed) /\ result.schema <= SchemaMax
  BY <1>4, <1>5 DEF Stages
<1>7. finer \in Nat /\ Factor(exposed, result.schema) = 2 ^ finer
  <2>1. /\ exposed.schema \in Int /\ result.schema \in Int /\ result.schema <= exposed.schema
    BY <1>6, HistogramParts DEF HistogramFollows
  <2> QED
    BY <2>1 DEF Factor
<1>8. /\ SideFollows(result.negative, exposed.negative, exposed.float, 2 ^ finer)
      /\ SideFollows(result.positive, exposed.positive, exposed.float, 2 ^ finer)
  BY <1>6, <1>7 DEF HistogramFollows
<1>9. ASSUME Holds(exposed.negative, exposed.float), Holds(exposed.positive, exposed.float)
      PROVE  /\ SideAgrees(result.negative, exposed.negative, exposed.float, finer)
             /\ SideAgrees(result.positive, exposed.positive, exposed.float, finer)
  BY <1>2, <1>7, <1>8, <1>9, SideOfStageAgrees
<1>10. AgreesWithExposed(exposed, result)
  BY <1>6, <1>9 DEF AgreesWithExposed
<1> QED
  BY <1>10 DEF result

\* The resolution that is kept is the finest the limit allows, and a histogram
\* fails the scrape only when it is malformed or has too many buckets at every
\* schema: no offset that merge_buckets computes is ever out of range.
THEOREM FinestIsKept ==
  ASSUME PowersOfTwo, NEW exposed \in Histograms, NEW limit \in Nat, Failed \notin Histograms,
         SchemaMax - SchemaMin < IndexBits, exposed.schema - SchemaMax < IndexBits
  PROVE  FinestWithinLimit(exposed, limit, Convert(exposed, limit))
<1> DEFINE result == Convert(exposed, limit)
           coarsest == Coarsest(Ingested(exposed), limit)
           schema == coarsest.schema
<1>1. CASE ~Accepted(exposed)
  <2>1. result = Failed
    BY <1>1 DEF Convert
  <2> QED
    BY <1>1, <2>1 DEF FinestWithinLimit
<1>2. CASE Accepted(exposed)
  <2>1. Sound(exposed)
    BY <1>2, AcceptedFollows DEF Sound
  <2>2. /\ coarsest \in Stages(exposed) /\ NoFiner(exposed, limit, schema)
        /\ Fits(coarsest, limit) \/ schema = SchemaMin
    BY <1>2, <2>1, CoarsestFound
  <2>3. result = IF coarsest = Failed THEN Failed
                 ELSE IF Fits(coarsest, limit) THEN coarsest ELSE Failed
    BY <1>2, ConvertedFrom
  <2> HIDE DEF coarsest, result
  <2>4. /\ coarsest # Failed /\ coarsest \in Histograms /\ HistogramFollows(coarsest, exposed)
        /\ schema \in Int /\ schema <= SchemaMax /\ schema <= exposed.schema
        /\ exposed.schema \in Int /\ schema >= SchemaMin
        /\ SchemaMin \in Int /\ SchemaMax \in Int
    BY <2>2, HistogramParts, HistogramAssumption
    DEF Stages, HistogramFollows, NoFiner, HistogramAssumption
  <2>5. BucketLen(coarsest) = BucketsAt(exposed, schema) /\ BucketLen(coarsest) \in Nat
    BY <2>4, BucketsCounted
  <2> HIDE DEF schema
  <2>6. schema \in SchemaMin .. SchemaMax
    BY <2>4
  <2>7. Affordable(exposed, limit) \subseteq Int
    BY <2>4 DEF Affordable
  <2>8. ASSUME NEW t \in Affordable(exposed, limit) PROVE t <= schema
    <3>1. /\ t \in SchemaMin .. SchemaMax /\ t <= exposed.schema
          /\ (limit = 0 \/ BucketsAt(exposed, t) <= limit)
      BY DEF Affordable
    <3>2. CASE t > schema
      BY <2>2, <3>1, <3>2 DEF NoFiner
    <3> QED
      BY <2>4, <3>1, <3>2
  <2>9. CASE Fits(coarsest, limit)
    <3>1. result = coarsest
      BY <2>3, <2>4, <2>9
    <3>2. schema \in Affordable(exposed, limit)
      BY <2>4, <2>5, <2>6, <2>9 DEF Affordable, Fits
    <3>3. Max(Affordable(exposed, limit)) = schema
      <4>1. \A t \in Affordable(exposed, limit) : schema >= t
        BY <2>4, <2>7, <2>8
      <4> QED
        BY <2>7, <3>2, <4>1, GreatestIs
    <3>4. result # Failed /\ result.schema = schema
      BY <2>4, <3>1 DEF schema
    <3> QED
      BY <3>3, <3>4 DEF FinestWithinLimit, result
  <2>10. CASE ~Fits(coarsest, limit)
    <3>1. result = Failed /\ schema = SchemaMin
      BY <2>2, <2>3, <2>4, <2>10
    <3>2. ~(limit = 0 \/ BucketsAt(exposed, schema) <= limit)
      BY <2>5, <2>10 DEF Fits
    <3>3. ASSUME NEW t \in Affordable(exposed, limit) PROVE FALSE
      <4>1. t \in SchemaMin .. SchemaMax /\ (limit = 0 \/ BucketsAt(exposed, t) <= limit)
        BY DEF Affordable
      <4>2. t = schema
        BY <2>4, <2>8, <3>1, <4>1
      <4> QED
        BY <3>2, <4>1, <4>2
    <3> QED
      BY <3>1, <3>3 DEF FinestWithinLimit, result
  <2> QED
    BY <2>9, <2>10
<1> QED
  BY <1>1, <1>2

-----------------------------------------------------------------------------

\* The sides the runs of the module expose are of the types of one.
LEMMA SidesOfRuns == MCSides \subseteq Side /\ MCFew \subseteq Side
<1>1. IndexLimit \in Int
  BY HistogramAssumption DEF HistogramAssumption
<1>2. MCFirst \subseteq Span /\ MCSecond \subseteq Span
  BY <1>1 DEF MCFirst, MCSecond, Span
<1>3. MCSpans \subseteq Seq(Span)
  <2>1. \A f \in MCFirst : <<f>> \in Seq(Span)
    BY <1>2
  <2>2. \A f \in MCFirst, g \in MCSecond : <<f, g>> \in Seq(Span)
    BY <1>2
  <2>3. <<>> \in Seq(Span)
    OBVIOUS
  <2>4. ASSUME NEW spans \in MCSpans PROVE spans \in Seq(Span)
    <3>1. /\ MCSpans = {<<>>} \cup {<<f>> : f \in MCFirst}
                         \cup {<<f, g>> : f \in MCFirst, g \in MCSecond}
      BY DEF MCSpans
    <3>2. \/ spans = <<>> \/ (\E f \in MCFirst : spans = <<f>>)
          \/ \E f \in MCFirst, g \in MCSecond : spans = <<f, g>>
      BY <3>1
    <3> QED
      BY <2>1, <2>2, <2>3, <3>2
  <2> QED
    BY <2>4
<1>4. MCBuckets \subseteq Seq(Int)
  BY DEF MCBuckets
<1>5. MCSides \subseteq Side
  BY <1>3, <1>4 DEF MCSides, Side
<1>6. MCFew \subseteq Side
  <2> DEFINE spans == <<[offset |-> -1, length |-> 3]>>
             buckets == <<1, 0, 0>>
  <2>1. spans \in Seq(Span) /\ buckets \in Seq(Int)
    <3>1. [offset |-> -1, length |-> 3] \in Span
      BY DEF Span
    <3> QED
      BY <3>1
  <2>2. <<>> \in Seq(Span) /\ <<>> \in Seq(Int)
    OBVIOUS
  <2>3. MCFew = {[spans |-> <<>>, buckets |-> <<>>], [spans |-> spans, buckets |-> buckets]}
    BY DEF MCFew
  <2> HIDE DEF spans, buckets
  <2> QED
    BY <2>1, <2>2, <2>3 DEF Side
<1> QED
  BY <1>5, <1>6

\* Schemas that are finer than the finest that is kept, by less than the shift of
\* an index can tell.
SchemasAssumption ==
  /\ SchemaMax - SchemaMin < IndexBits
  /\ FineSchemas \subseteq Int /\ \A s \in FineSchemas : s - SchemaMax < IndexBits

\* A conversion goes on with its own steps: what the work is of does not change
\* once it is of something.
LEMMA ConversionSteps ==
  ASSUME "of" \in DOMAIN work, [Next]_work
  PROVE  /\ "of" \in DOMAIN work'
         /\ work'.of = "histogram" => HistogramStart \/ HistogramStep \/ UNCHANGED work
         /\ work'.of = "family" => FamilyStart \/ FamilyStep \/ UNCHANGED work
<1> DEFINE Other == "of" \in DOMAIN work' /\ work'.of \notin {"histogram", "family"}
           Histogram == "of" \in DOMAIN work' /\ work'.of = "histogram"
           Family == "of" \in DOMAIN work' /\ work'.of = "family"
<1>1. HistogramStart \/ HistogramStep => Histogram
  BY DEF HistogramStart, HistogramStep
<1>2. RelabelStart => Other
  BY DEF RelabelStart
<1>3. RelabelStep => Other
  BY DEF RelabelStep
<1>4. ClusterStart => Other
  BY DEF ClusterStart
<1>5. ClusterStep => Other
  BY DEF ClusterStep
<1>6. LengthStart => Other
  BY DEF LengthStart
<1>7. EncodeStart => Other
  BY DEF EncodeStart
<1>8. EncodeStep => Other
  BY DEF EncodeStep
<1>9. TextStart => Other
  BY DEF TextStart
<1>10. TextStep => Other
  BY DEF TextStep
<1>11. TextEdit => Other
  BY DEF TextEdit
<1>12. FamilyStart => Family
  BY DEF FamilyStart
<1>13. FamilyStep => Family
  BY DEF FamilyStep
<1>14. QuantityStart => Other
  BY DEF QuantityStart
<1>15. QuantityGrow => Other
  BY DEF QuantityGrow
<1>16. ConfigStart => Other
  BY DEF ConfigStart
<1>17. ConfigChange => Other
  <2>1. SUFFICES ASSUME ConfigChange PROVE Other
    OBVIOUS
  <2>2. work.of = "config"
    BY <2>1 DEF ConfigChange
  <2>3. CASE \E job \in JobChanges(work.config.jobs[1]) :
               work' = [work EXCEPT !.left = @ - 1, !.config.jobs[1] = job]
    BY <2>2, <2>3
  <2>4. CASE \E remote \in RemoteChanges(work.config.remotes[1]) :
               work' = [work EXCEPT !.left = @ - 1, !.config.remotes[1] = remote]
    BY <2>2, <2>4
  <2>5. CASE \E global \in GlobalChanges(work.config.global) :
               work' = [work EXCEPT !.left = @ - 1, !.config.global = global]
    BY <2>2, <2>5
  <2>6. CASE work' = [work EXCEPT !.left = @ - 1, !.config.server = {"alerting"}]
    BY <2>2, <2>6
  <2> QED
    BY <2>1, <2>3, <2>4, <2>5, <2>6 DEF ConfigChange
<1>18. ScrapeTargetsStart => Other
  BY DEF ScrapeTargetsStart
<1>19. ScrapeTargetsStep => Other
  BY DEF ScrapeTargetsStep
<1>20. ScrapeBodyStart => Other
  BY DEF ScrapeBodyStart
<1>21. ScrapeBodyStep => Other
  BY DEF ScrapeBodyStep
<1>22. ScrapeBatchStart => Other
  BY DEF ScrapeBatchStart
<1>23. ScrapeBatchStep => Other
  BY DEF ScrapeBatchStep
<1>24. Next => HistogramStart \/ HistogramStep \/ FamilyStart \/ FamilyStep \/ Other
  <2> HIDE DEF Other
  <2> QED
    BY <1>2, <1>3, <1>4, <1>5, <1>6, <1>7, <1>8, <1>9,
       <1>10, <1>11, <1>14, <1>15, <1>16, <1>17,
       <1>18, <1>19, <1>20, <1>21, <1>22, <1>23 DEF Next
<1> QED
  BY <1>1, <1>12, <1>13, <1>24

\* Histograms: what is converted is a histogram, and its result what Convert says.
HistogramTyped ==
  /\ "of" \in DOMAIN work
  /\ work.of = "histogram" =>
       /\ {"exposed", "limit", "result"} \subseteq DOMAIN work
       /\ work.exposed \in Histograms /\ work.limit \in Nat
       /\ work.exposed.schema - SchemaMax < IndexBits
       /\ work.result = <<>> \/ work.result = Convert(work.exposed, work.limit)

\* The types of a conversion are kept.
LEMMA HistogramInvariant ==
  ASSUME SchemasAssumption
  PROVE  Spec => []HistogramTyped
<1>1. Init => HistogramTyped
  BY DEF Init, HistogramTyped
<1>2. HistogramTyped /\ [Next]_work => HistogramTyped'
  <2> SUFFICES ASSUME HistogramTyped, [Next]_work PROVE HistogramTyped'
    OBVIOUS
  <2>1. /\ "of" \in DOMAIN work'
        /\ work'.of = "histogram" => HistogramStart \/ HistogramStep \/ UNCHANGED work
    BY ConversionSteps DEF HistogramTyped
  <2>2. CASE HistogramStart
    <3>1. PICK positive \in MCSides, negative \in MCFew, float \in BOOLEAN,
               schema \in {SchemaMin - 1, SchemaMin, SchemaMax} \cup FineSchemas,
               limit \in {0, 1, 3} :
            work' = [of |-> "histogram", limit |-> limit, result |-> <<>>,
                     exposed |-> [schema |-> schema, float |-> float,
                                  negative |-> negative, positive |-> positive]]
      BY <2>2 DEF HistogramStart
    <3> DEFINE exposed == [schema |-> schema, float |-> float,
                           negative |-> negative, positive |-> positive]
    <3>2. schema \in Int /\ schema - SchemaMax < IndexBits
      BY HistogramAssumption DEF HistogramAssumption, SchemasAssumption
    <3>3. negative \in Side /\ positive \in Side
      BY SidesOfRuns
    <3>4. exposed \in Histograms /\ exposed.schema = schema
      BY <3>2, <3>3 DEF Histograms
    <3> HIDE DEF exposed
    <3>5. /\ DOMAIN work' = {"of", "limit", "result", "exposed"}
          /\ work'.exposed = exposed /\ work'.limit = limit /\ work'.result = <<>>
      BY <3>1 DEF exposed
    <3>6. limit \in Nat
      OBVIOUS
    <3> QED
      BY <2>1, <3>2, <3>4, <3>5, <3>6 DEF HistogramTyped
  <2>3. CASE HistogramStep
    <3>1. /\ work.of = "histogram"
          /\ work' = [work EXCEPT !.result = Convert(work.exposed, work.limit)]
      BY <2>3 DEF HistogramStep
    <3>2. /\ {"exposed", "limit", "result"} \subseteq DOMAIN work
          /\ work.exposed \in Histograms /\ work.limit \in Nat
          /\ work.exposed.schema - SchemaMax < IndexBits
      BY <3>1 DEF HistogramTyped
    <3>3. /\ DOMAIN work' = DOMAIN work /\ work'.exposed = work.exposed
          /\ work'.limit = work.limit /\ work'.result = Convert(work.exposed, work.limit)
      BY <3>1, <3>2
    <3> QED
      BY <2>1, <3>2, <3>3 DEF HistogramTyped
  <2>4. CASE UNCHANGED work
    BY <2>4 DEF HistogramTyped
  <2> QED
    BY <2>1, <2>2, <2>3, <2>4 DEF HistogramTyped
<1> QED
  BY <1>1, <1>2, PTL DEF Spec

\* Every conversion of the runs of the module counts in each bucket what was exposed
\* within its bounds, at the finest schema its limit allows, and fails only what is
\* malformed or too large at every schema, over any schemas and any widths of indices
\* and counts.
THEOREM HistogramsAreReduced ==
  ASSUME PowersOfTwo, SchemasAssumption, Failed \notin Histograms
  PROVE  Spec => []HistogramsReduced
<1>1. HistogramTyped => HistogramsReduced
  <2> SUFFICES ASSUME HistogramTyped, Converted
               PROVE  /\ work.result # Failed => AgreesWithExposed(work.exposed, work.result)
                      /\ FinestWithinLimit(work.exposed, work.limit, work.result)
    BY DEF HistogramsReduced, BucketsAgree, LimitMet
  <2> DEFINE exposed == work.exposed
             limit == work.limit
  <2>1. /\ exposed \in Histograms /\ limit \in Nat /\ exposed.schema - SchemaMax < IndexBits
        /\ work.result = Convert(exposed, limit)
    BY DEF HistogramTyped, Converted
  <2>2. SchemaMax - SchemaMin < IndexBits
    BY DEF SchemasAssumption
  <2> HIDE DEF exposed, limit
  <2>3. Convert(exposed, limit) # Failed => AgreesWithExposed(exposed, Convert(exposed, limit))
    BY <2>1, <2>2, ReductionAgrees
  <2>4. FinestWithinLimit(exposed, limit, Convert(exposed, limit))
    BY <2>1, <2>2, FinestIsKept
  <2> QED
    BY <2>1, <2>3, <2>4 DEF exposed, limit
<1> QED
  BY <1>1, HistogramInvariant, PTL

-----------------------------------------------------------------------------

\* The numbers a float is shown as, in their canonical form: d.ddd * 10^exponent without
\* zeros at either end, or zero itself.
Numerals == {"0", "1", "2", "3", "4", "5", "6", "7", "8", "9"}

Normal(d, e) ==
  /\ d \in Seq(Numerals) /\ Len(d) >= 1 /\ e \in Int
  /\ \/ Len(d) = 1 /\ d[1] = "0" /\ e = 0
     \/ d[1] # "0" /\ d[Len(d)] # "0"

\* What a number is shown as without its sign.
Unsigned(d, e) ==
  IF e \in -4 .. 5
  THEN IF e >= 0 /\ Len(d) <= e + 1 THEN Plain(d, e) \o <<".", "0">> ELSE Plain(d, e)
  ELSE Scientific(d, e)

\* The characters of numbers, where an exponent counts as one.
Shown == Numerals \cup {".", "e", "+", "-"} \cup {ToString(n) : n \in Nat}

\* The forms of a number: below one, whole, with digits on both sides of the point, and
\* with an exponent.
BelowOne(u, d, e) ==
  /\ e \in -4 .. -1 /\ Len(u) = 1 - e + Len(d)
  /\ u[1] = "0" /\ u[2] = "."
  /\ \A i \in 3 .. 1 - e : u[i] = "0"
  /\ \A i \in 1 .. Len(d) : u[1 - e + i] = d[i]

WholeNumber(u, d, e) ==
  /\ e \in 0 .. 5 /\ Len(d) <= e + 1 /\ Len(u) = e + 3
  /\ \A i \in 1 .. Len(d) : u[i] = d[i]
  /\ \A i \in Len(d) + 1 .. e + 1 : u[i] = "0"
  /\ u[e + 2] = "." /\ u[e + 3] = "0"

AroundPoint(u, d, e) ==
  /\ e \in 0 .. 5 /\ Len(d) > e + 1 /\ Len(u) = Len(d) + 1
  /\ \A i \in 1 .. e + 1 : u[i] = d[i]
  /\ u[e + 2] = "."
  /\ \A i \in e + 2 .. Len(d) : u[i + 1] = d[i]

\* m is the length of the mantissa.
WithExponent(u, d, e, m) ==
  LET size == IF e < 0 THEN -e ELSE e
  IN /\ e \in Int \ (-4 .. 5)
     /\ m = IF Len(d) = 1 THEN 1 ELSE Len(d) + 1
     /\ u[1] = d[1]
     /\ Len(d) > 1 => u[2] = "." /\ \A i \in 2 .. Len(d) : u[i + 1] = d[i]
     /\ u[m + 1] = "e" /\ u[m + 2] = IF e < 0 THEN "-" ELSE "+"
     /\ Len(u) = m + 3 + IF size < 10 THEN 1 ELSE 0
     /\ u[Len(u)] = ToString(size)

\* u is s with t behind it.
Following(u, s, t) ==
  /\ Len(u) = Len(s) + Len(t)
  /\ \A i \in 1 .. Len(s) : u[i] = s[i]
  /\ \A i \in 1 .. Len(t) : u[Len(s) + i] = t[i]

\* What joining does to two sequences.
LEMMA JoinedFollowing ==
  ASSUME NEW S, NEW s \in Seq(S), NEW t \in Seq(S)
  PROVE  s \o t \in Seq(S) /\ Following(s \o t, s, t)
  BY Joined DEF Following

\* As many zeros as are asked for.
LEMMA ZerosAre ==
  ASSUME NEW n \in Nat
  PROVE  /\ Zeros(n) \in Seq(Shown) /\ Len(Zeros(n)) = n
         /\ \A i \in 1 .. n : Zeros(n)[i] = "0"
<1>1. "0" \in Shown
  BY DEF Shown, Numerals
<1> HIDE DEF Shown
<1> QED
  BY <1>1 DEF Zeros

\* The first of two joined sequences is where it was.
LEMMA BelowOneShown ==
  ASSUME NEW d, NEW e, Normal(d, e), e \in -4 .. -1
  PROVE  Unsigned(d, e) \in Seq(Shown) /\ BelowOne(Unsigned(d, e), d, e)
<1> DEFINE z == Zeros(-e - 1)
           p == <<"0", ".">>
           n == Len(d)
<1>1. Unsigned(d, e) = (p \o z) \o d
  <2>1. e \in -4 .. 5 /\ e < 0 /\ ~(e >= 0)
    OBVIOUS
  <2>2. Unsigned(d, e) = Plain(d, e)
    BY <2>1 DEF Unsigned
  <2>3. Plain(d, e) = <<"0", ".">> \o Zeros(-e - 1) \o d
    BY <2>1 DEF Plain
  <2> QED
    BY <2>2, <2>3
<1>2. /\ z \in Seq(Shown) /\ Len(z) = -e - 1
      /\ \A i \in 1 .. -e - 1 : z[i] = "0"
  <2>1. -e - 1 \in Nat
    OBVIOUS
  <2> QED
    BY <2>1, ZerosAre
<1>3. d \in Seq(Shown) /\ n \in Nat
  BY DEF Normal, Shown
<1>4. p \in Seq(Shown) /\ Len(p) = 2 /\ p[1] = "0" /\ p[2] = "."
  <2>1. "0" \in Shown /\ "." \in Shown
    BY DEF Shown, Numerals
  <2> HIDE DEF Shown
  <2> QED
    BY <2>1
<1> HIDE DEF z, p, n
<1>5. /\ p \o z \in Seq(Shown) /\ Len(p \o z) = Len(p) + Len(z)
      /\ \A i \in 1 .. Len(p) : (p \o z)[i] = p[i]
      /\ \A i \in 1 .. Len(z) : (p \o z)[Len(p) + i] = z[i]
  <2>1. p \in Seq(Shown)
    BY <1>2, <1>4
  <2>2. z \in Seq(Shown)
    BY <1>2, <1>4
  <2>3. p \o z \in Seq(Shown) /\ Following(p \o z, p, z)
    BY <2>1, <2>2, JoinedFollowing
  <2> QED
    BY <2>3 DEF Following
<1> DEFINE q == p \o z
<1>6. /\ q \in Seq(Shown) /\ Len(q) = 1 - e
      /\ q[1] = "0" /\ q[2] = "." /\ \A i \in 3 .. 1 - e : q[i] = "0"
  <2>1. Len(q) = 1 - e
    BY <1>2, <1>4, <1>5
  <2>2. \A i \in 3 .. 1 - e : i - 2 \in 1 .. -e - 1 /\ 2 + (i - 2) = i
    OBVIOUS
  <2>3. \A i \in 3 .. 1 - e : q[i] = "0"
    BY <1>2, <1>4, <1>5, <2>2
  <2> QED
    BY <1>4, <1>5, <2>1, <2>3
<1> HIDE DEF q
<1>7. /\ q \o d \in Seq(Shown) /\ Len(q \o d) = Len(q) + Len(d)
      /\ \A i \in 1 .. Len(q) : (q \o d)[i] = q[i]
      /\ \A i \in 1 .. Len(d) : (q \o d)[Len(q) + i] = d[i]
  <2>1. q \in Seq(Shown)
    BY <1>3, <1>6
  <2>2. d \in Seq(Shown)
    BY <1>3, <1>6
  <2>3. q \o d \in Seq(Shown) /\ Following(q \o d, q, d)
    BY <2>1, <2>2, JoinedFollowing
  <2> QED
    BY <2>3 DEF Following
<1> DEFINE u == q \o d
<1>8. Unsigned(d, e) = u
  BY <1>1 DEF q
<1>9. /\ u \in Seq(Shown) /\ Len(u) = 1 - e + Len(d)
      /\ \A i \in 1 .. 1 - e : u[i] = q[i]
      /\ \A i \in 1 .. Len(d) : u[1 - e + i] = d[i]
  BY <1>6, <1>7
<1> HIDE DEF u
<1>10. BelowOne(u, d, e)
  <2>1. 1 \in 1 .. 1 - e /\ 2 \in 1 .. 1 - e /\ 3 .. 1 - e \subseteq 1 .. 1 - e
    OBVIOUS
  <2> QED
    BY <1>6, <1>9, <2>1 DEF BelowOne
<1> QED
  BY <1>8, <1>9, <1>10

\* A number of no more digits than its exponent gives has zeros behind them.
LEMMA WholeNumberShown ==
  ASSUME NEW d, NEW e, Normal(d, e), e \in 0 .. 5, Len(d) <= e + 1
  PROVE  Unsigned(d, e) \in Seq(Shown) /\ WholeNumber(Unsigned(d, e), d, e)
<1> DEFINE z == Zeros(e + 1 - Len(d))
           p == <<".", "0">>
<1>1. Unsigned(d, e) = (d \o z) \o p
  <2>1. e \in -4 .. 5 /\ e >= 0 /\ ~(e < 0)
    OBVIOUS
  <2> QED
    BY <2>1 DEF Unsigned, Plain
<1>2. d \in Seq(Shown) /\ Len(d) \in Nat
  BY DEF Normal, Shown
<1>3. /\ z \in Seq(Shown) /\ Len(z) = e + 1 - Len(d)
      /\ \A i \in 1 .. e + 1 - Len(d) : z[i] = "0"
  <2>1. e + 1 - Len(d) \in Nat
    BY <1>2
  <2> QED
    BY <2>1, ZerosAre
<1>4. p \in Seq(Shown) /\ Len(p) = 2 /\ p[1] = "." /\ p[2] = "0"
  <2>1. "0" \in Shown /\ "." \in Shown
    BY DEF Shown, Numerals
  <2> HIDE DEF Shown
  <2> QED
    BY <2>1
<1> HIDE DEF z, p
<1>5. /\ d \o z \in Seq(Shown) /\ Len(d \o z) = Len(d) + Len(z)
      /\ \A i \in 1 .. Len(d) : (d \o z)[i] = d[i]
      /\ \A i \in 1 .. Len(z) : (d \o z)[Len(d) + i] = z[i]
  <2>1. d \in Seq(Shown)
    BY <1>2, <1>3
  <2>2. z \in Seq(Shown)
    BY <1>2, <1>3
  <2>3. d \o z \in Seq(Shown) /\ Following(d \o z, d, z)
    BY <2>1, <2>2, JoinedFollowing
  <2> QED
    BY <2>3 DEF Following
<1> DEFINE q == d \o z
<1>6. /\ q \in Seq(Shown) /\ Len(q) = e + 1
      /\ \A i \in 1 .. Len(d) : q[i] = d[i]
      /\ \A i \in Len(d) + 1 .. e + 1 : q[i] = "0"
  <2>1. Len(q) = e + 1
    BY <1>2, <1>3, <1>5
  <2>2. \A i \in Len(d) + 1 .. e + 1 : i - Len(d) \in 1 .. e + 1 - Len(d) /\ Len(d) + (i - Len(d)) = i
    BY <1>2
  <2>3. \A i \in Len(d) + 1 .. e + 1 : q[i] = "0"
    BY <1>3, <1>5, <2>2
  <2> QED
    BY <1>5, <2>1, <2>3
<1> HIDE DEF q
<1>7. /\ q \o p \in Seq(Shown) /\ Len(q \o p) = Len(q) + Len(p)
      /\ \A i \in 1 .. Len(q) : (q \o p)[i] = q[i]
      /\ \A i \in 1 .. Len(p) : (q \o p)[Len(q) + i] = p[i]
  <2>1. q \in Seq(Shown)
    BY <1>4, <1>6
  <2>2. p \in Seq(Shown)
    BY <1>4, <1>6
  <2>3. q \o p \in Seq(Shown) /\ Following(q \o p, q, p)
    BY <2>1, <2>2, JoinedFollowing
  <2> QED
    BY <2>3 DEF Following
<1> DEFINE u == q \o p
<1>8. Unsigned(d, e) = u
  BY <1>1 DEF q
<1>9. /\ u \in Seq(Shown) /\ Len(u) = e + 3
      /\ \A i \in 1 .. e + 1 : u[i] = q[i]
      /\ u[e + 2] = "." /\ u[e + 3] = "0"
  <2>1. 1 \in 1 .. Len(p) /\ 2 \in 1 .. Len(p) /\ Len(q) + 1 = e + 2 /\ Len(q) + 2 = e + 3
    BY <1>4, <1>6
  <2> QED
    BY <1>4, <1>6, <1>7, <2>1
<1> HIDE DEF u
<1>10. WholeNumber(u, d, e)
  <2>1. \A i \in 1 .. Len(d) : i \in 1 .. e + 1
    BY <1>2
  <2>2. \A i \in Len(d) + 1 .. e + 1 : i \in 1 .. e + 1
    BY <1>2
  <2> QED
    BY <1>6, <1>9, <2>1, <2>2 DEF WholeNumber
<1> QED
  BY <1>8, <1>9, <1>10

\* A number of more digits has the point among them.
LEMMA AroundPointShown ==
  ASSUME NEW d, NEW e, Normal(d, e), e \in 0 .. 5, Len(d) > e + 1
  PROVE  Unsigned(d, e) \in Seq(Shown) /\ AroundPoint(Unsigned(d, e), d, e)
<1> DEFINE a == SubSeq(d, 1, e + 1)
           b == SubSeq(d, e + 2, Len(d))
           p == <<".">>
<1>2. d \in Seq(Shown) /\ Len(d) \in Nat
  BY DEF Normal, Shown
<1>1. Unsigned(d, e) = (a \o p) \o b
  <2>1. e \in -4 .. 5 /\ e >= 0 /\ ~(e < 0) /\ ~(Len(d) <= e + 1)
    BY <1>2
  <2> QED
    BY <2>1 DEF Unsigned, Plain
<1>3. a \in Seq(Shown) /\ Len(a) = e + 1 /\ \A i \in 1 .. e + 1 : a[i] = d[i]
  BY <1>2
<1>4. /\ b \in Seq(Shown) /\ Len(b) = Len(d) - e - 1
      /\ \A i \in 1 .. Len(d) - e - 1 : b[i] = d[e + 1 + i]
  BY <1>2
<1>5. p \in Seq(Shown) /\ Len(p) = 1 /\ p[1] = "."
  <2>1. "." \in Shown
    BY DEF Shown
  <2> HIDE DEF Shown
  <2> QED
    BY <2>1
<1> HIDE DEF a, b, p
<1>6. /\ a \o p \in Seq(Shown) /\ Len(a \o p) = Len(a) + Len(p)
      /\ \A i \in 1 .. Len(a) : (a \o p)[i] = a[i]
      /\ \A i \in 1 .. Len(p) : (a \o p)[Len(a) + i] = p[i]
  <2>1. a \in Seq(Shown)
    BY <1>3, <1>5
  <2>2. p \in Seq(Shown)
    BY <1>3, <1>5
  <2>3. a \o p \in Seq(Shown) /\ Following(a \o p, a, p)
    BY <2>1, <2>2, JoinedFollowing
  <2> QED
    BY <2>3 DEF Following
<1> DEFINE q == a \o p
<1>7. /\ q \in Seq(Shown) /\ Len(q) = e + 2
      /\ \A i \in 1 .. e + 1 : q[i] = d[i]
      /\ q[e + 2] = "."
  <2>1. 1 \in 1 .. Len(p) /\ Len(a) + 1 = e + 2
    BY <1>3, <1>5
  <2> QED
    BY <1>3, <1>5, <1>6, <2>1
<1> HIDE DEF q
<1>8. /\ q \o b \in Seq(Shown) /\ Len(q \o b) = Len(q) + Len(b)
      /\ \A i \in 1 .. Len(q) : (q \o b)[i] = q[i]
      /\ \A i \in 1 .. Len(b) : (q \o b)[Len(q) + i] = b[i]
  <2>1. q \in Seq(Shown)
    BY <1>4, <1>7
  <2>2. b \in Seq(Shown)
    BY <1>4, <1>7
  <2>3. q \o b \in Seq(Shown) /\ Following(q \o b, q, b)
    BY <2>1, <2>2, JoinedFollowing
  <2> QED
    BY <2>3 DEF Following
<1> DEFINE u == q \o b
<1>9. Unsigned(d, e) = u
  BY <1>1 DEF q
<1>10. /\ u \in Seq(Shown) /\ Len(u) = Len(d) + 1
       /\ \A i \in 1 .. e + 2 : u[i] = q[i]
       /\ \A i \in 1 .. Len(d) - e - 1 : u[e + 2 + i] = b[i]
  BY <1>2, <1>4, <1>7, <1>8
<1> HIDE DEF u
<1>11. AroundPoint(u, d, e)
  <2>1. \A i \in e + 2 .. Len(d) :
          /\ i - e - 1 \in 1 .. Len(d) - e - 1
          /\ e + 2 + (i - e - 1) = i + 1 /\ e + 1 + (i - e - 1) = i
    BY <1>2
  <2>2. \A i \in e + 2 .. Len(d) : u[i + 1] = d[i]
    <3> TAKE i \in e + 2 .. Len(d)
    <3> DEFINE k == i - e - 1
    <3>1. k \in 1 .. Len(d) - e - 1 /\ e + 2 + k = i + 1 /\ e + 1 + k = i
      BY <2>1
    <3> HIDE DEF k
    <3>2. u[e + 2 + k] = b[k] /\ b[k] = d[e + 1 + k]
      BY <1>4, <1>10, <3>1
    <3> QED
      BY <3>1, <3>2
  <2>3. \A i \in 1 .. e + 1 : u[i] = d[i]
    BY <1>7, <1>10
  <2>4. u[e + 2] = "."
    BY <1>7, <1>10
  <2> QED
    BY <1>10, <2>2, <2>3, <2>4 DEF AroundPoint
<1> QED
  BY <1>9, <1>10, <1>11

\* The mantissa, the sign of the exponent and its size, with a zero if it is of one digit.
LEMMA WithExponentShown ==
  ASSUME NEW d, NEW e, Normal(d, e), e \notin -4 .. 5
  PROVE  /\ Unsigned(d, e) \in Seq(Shown)
         /\ \E m \in Nat : /\ WithExponent(Unsigned(d, e), d, e, m)
                           /\ \A i \in 1 .. m : Unsigned(d, e)[i] # "e"
<1> DEFINE size == IF e < 0 THEN -e ELSE e
           s == IF e < 0 THEN "-" ELSE "+"
           a == Mantissa(d)
           b == <<"e", s>>
           z == IF size < 10 THEN <<"0">> ELSE <<>>
           t == <<ToString(size)>>
           m == IF Len(d) = 1 THEN 1 ELSE Len(d) + 1
<1>1. Unsigned(d, e) = ((a \o b) \o z) \o t
  BY DEF Unsigned, Scientific
<1>2. /\ d \in Seq(Shown) /\ d \in Seq(Numerals) /\ Len(d) \in Nat /\ Len(d) >= 1 /\ e \in Int
      /\ m \in Nat /\ m >= 1 /\ size \in Nat
  BY DEF Normal, Shown
<1>3. /\ a \in Seq(Shown) /\ Len(a) = m /\ a[1] = d[1]
      /\ Len(d) > 1 => a[2] = "." /\ \A i \in 2 .. Len(d) : a[i + 1] = d[i]
      /\ \A i \in 1 .. m : a[i] # "e"
  <2>1. \A i \in 1 .. Len(d) : d[i] \in Numerals /\ d[i] # "e"
    BY <1>2 DEF Numerals
  <2>2. CASE Len(d) = 1
    <3>1. a = d
      BY <2>2 DEF Mantissa
    <3> HIDE DEF a
    <3> QED
      BY <1>2, <2>1, <2>2, <3>1
  <2>3. CASE Len(d) # 1
    <3> DEFINE p == <<d[1], ".">>
               r == Tail(d)
    <3>1. a = p \o r
      BY <2>3 DEF Mantissa
    <3>2. r \in Seq(Shown) /\ Len(r) = Len(d) - 1 /\ \A i \in 1 .. Len(d) - 1 : r[i] = d[i + 1]
      BY <1>2
    <3>3. p \in Seq(Shown) /\ Len(p) = 2 /\ p[1] = d[1] /\ p[2] = "."
      <4>1. "." \in Shown /\ d[1] \in Shown
        BY <1>2 DEF Shown
      <4> HIDE DEF Shown
      <4> QED
        BY <4>1
    <3> HIDE DEF a, p, r
    <3>4. /\ p \o r \in Seq(Shown) /\ Len(p \o r) = Len(p) + Len(r)
          /\ \A i \in 1 .. Len(p) : (p \o r)[i] = p[i]
          /\ \A i \in 1 .. Len(r) : (p \o r)[Len(p) + i] = r[i]
      <4>1. p \in Seq(Shown)
        BY <3>2, <3>3
      <4>2. r \in Seq(Shown)
        BY <3>2, <3>3
      <4>3. p \o r \in Seq(Shown) /\ Following(p \o r, p, r)
        BY <4>1, <4>2, JoinedFollowing
      <4> QED
        BY <4>3 DEF Following
    <3>5. /\ Len(a) = m /\ a[1] = d[1] /\ a[2] = "."
          /\ \A i \in 1 .. Len(d) - 1 : a[2 + i] = d[i + 1]
      BY <1>2, <2>3, <3>1, <3>2, <3>3, <3>4
    <3>6. \A i \in 2 .. Len(d) : a[i + 1] = d[i]
      <4>1. \A i \in 2 .. Len(d) : i - 1 \in 1 .. Len(d) - 1 /\ 2 + (i - 1) = i + 1 /\ (i - 1) + 1 = i
        BY <1>2
      <4> QED
        BY <3>5, <4>1
    <3>7. \A i \in 1 .. m : a[i] # "e"
      <4> TAKE i \in 1 .. m
      <4>1. CASE i = 1
        BY <1>2, <2>1, <3>5, <4>1
      <4>2. CASE i = 2
        BY <3>5, <4>2
      <4>3. CASE i > 2
        <5>1. i - 1 \in 2 .. Len(d) /\ (i - 1) + 1 = i
          BY <1>2, <2>3, <4>3
        <5>2. a[i] = d[i - 1] /\ i - 1 \in 1 .. Len(d)
          BY <1>2, <3>6, <5>1
        <5> QED
          BY <2>1, <5>2
      <4> QED
        BY <4>1, <4>2, <4>3
    <3> QED
      BY <3>1, <3>4, <3>5, <3>6, <3>7
  <2> QED
    BY <2>2, <2>3
<1>4. /\ b \in Seq(Shown) /\ Len(b) = 2 /\ b[1] = "e" /\ b[2] = s
  <2>1. "e" \in Shown /\ s \in Shown
    BY DEF Shown
  <2> HIDE DEF Shown, s
  <2> QED
    BY <2>1
<1>5. z \in Seq(Shown) /\ Len(z) = IF size < 10 THEN 1 ELSE 0
  <2>1. "0" \in Shown
    BY DEF Shown, Numerals
  <2> HIDE DEF Shown, size
  <2> QED
    BY <2>1
<1>6. t \in Seq(Shown) /\ Len(t) = 1 /\ t[1] = ToString(size)
  <2>1. ToString(size) \in Shown
    BY <1>2 DEF Shown
  <2> HIDE DEF Shown, size
  <2> QED
    BY <2>1
<1> DEFINE pad == IF size < 10 THEN 1 ELSE 0
<1>7. pad \in Nat
  OBVIOUS
<1> HIDE DEF a, b, z, t, s, m, pad
<1>8. /\ a \o b \in Seq(Shown) /\ Len(a \o b) = Len(a) + Len(b)
      /\ \A i \in 1 .. Len(a) : (a \o b)[i] = a[i]
      /\ \A i \in 1 .. Len(b) : (a \o b)[Len(a) + i] = b[i]
  <2>1. a \in Seq(Shown)
    BY <1>3, <1>4
  <2>2. b \in Seq(Shown)
    BY <1>3, <1>4
  <2>3. a \o b \in Seq(Shown) /\ Following(a \o b, a, b)
    BY <2>1, <2>2, JoinedFollowing
  <2> QED
    BY <2>3 DEF Following
<1> DEFINE v == a \o b
<1>9. /\ v \in Seq(Shown) /\ Len(v) = m + 2 /\ \A i \in 1 .. m : v[i] = a[i]
      /\ v[m + 1] = "e" /\ v[m + 2] = s
  <2>1. 1 \in 1 .. Len(b) /\ 2 \in 1 .. Len(b)
    BY <1>4
  <2> QED
    BY <1>3, <1>4, <1>8, <2>1
<1> HIDE DEF v
<1>10. /\ v \o z \in Seq(Shown) /\ Len(v \o z) = Len(v) + Len(z)
       /\ \A i \in 1 .. Len(v) : (v \o z)[i] = v[i]
       /\ \A i \in 1 .. Len(z) : (v \o z)[Len(v) + i] = z[i]
  <2>1. v \in Seq(Shown)
    BY <1>5, <1>9
  <2>2. z \in Seq(Shown)
    BY <1>5, <1>9
  <2>3. v \o z \in Seq(Shown) /\ Following(v \o z, v, z)
    BY <2>1, <2>2, JoinedFollowing
  <2> QED
    BY <2>3 DEF Following
<1> DEFINE w == v \o z
<1>11. /\ w \in Seq(Shown) /\ Len(w) = m + 2 + pad /\ \A i \in 1 .. m + 2 : w[i] = v[i]
  BY <1>5, <1>9, <1>10 DEF pad
<1> HIDE DEF w
<1>12. /\ w \o t \in Seq(Shown) /\ Len(w \o t) = Len(w) + Len(t)
       /\ \A i \in 1 .. Len(w) : (w \o t)[i] = w[i]
       /\ \A i \in 1 .. Len(t) : (w \o t)[Len(w) + i] = t[i]
  <2>1. w \in Seq(Shown)
    BY <1>6, <1>11
  <2>2. t \in Seq(Shown)
    BY <1>6, <1>11
  <2>3. w \o t \in Seq(Shown) /\ Following(w \o t, w, t)
    BY <2>1, <2>2, JoinedFollowing
  <2> QED
    BY <2>3 DEF Following
<1> DEFINE u == w \o t
<1>13. /\ u \in Seq(Shown) /\ Len(u) = m + 3 + pad /\ \A i \in 1 .. m + 2 + pad : u[i] = w[i]
       /\ u[Len(u)] = ToString(size)
  <2>1. Len(u) = m + 3 + pad /\ Len(w) = m + 2 + pad
    <3>1. Len(w) = m + 2 + pad /\ Len(t) = 1 /\ m \in Nat
      BY <1>2, <1>6, <1>11
    <3>2. Len(u) = Len(w) + Len(t)
      BY <1>12
    <3> HIDE DEF u
    <3> QED
      BY <1>7, <3>1, <3>2
  <2>2. 1 \in 1 .. Len(t) /\ Len(w) + 1 = m + 3 + pad
    <3>1. Len(t) = 1 /\ m \in Nat
      BY <1>2, <1>6
    <3> QED
      BY <1>7, <2>1, <3>1
  <2>3. u[m + 3 + pad] = t[1]
    BY <1>12, <2>2
  <2> QED
    BY <1>6, <1>12, <2>1, <2>3
<1>14. Unsigned(d, e) = u
  BY <1>1 DEF v, w
<1> HIDE DEF u
<1>15. \A i \in 1 .. m : u[i] = a[i]
  <2>1. \A i \in 1 .. m : i \in 1 .. m + 2 + pad /\ i \in 1 .. m + 2
    BY <1>2, <1>7
  <2> QED
    BY <1>9, <1>11, <1>13, <2>1
<1>16. u[m + 1] = "e" /\ u[m + 2] = s
  <2>1. /\ m + 1 \in 1 .. m + 2 + pad /\ m + 1 \in 1 .. m + 2
        /\ m + 2 \in 1 .. m + 2 + pad /\ m + 2 \in 1 .. m + 2
    BY <1>2, <1>7
  <2> QED
    BY <1>9, <1>11, <1>13, <2>1
<1>17. u[1] = d[1] /\ (Len(d) > 1 => u[2] = "." /\ \A i \in 2 .. Len(d) : u[i + 1] = d[i])
  <2>1. 1 \in 1 .. m
    BY <1>2
  <2>2. ASSUME Len(d) > 1
        PROVE  2 \in 1 .. m /\ \A i \in 2 .. Len(d) : i + 1 \in 1 .. m
    <3>1. Len(d) # 1
      <4> DEFINE n == Len(d)
      <4>1. n > 1
        BY <2>2
      <4> HIDE DEF n
      <4>2. n # 1
        BY <4>1
      <4> QED
        BY <4>2 DEF n
    <3>2. m = Len(d) + 1
      BY <3>1 DEF m
    <3> QED
      BY <1>2, <2>2, <3>2
  <2> QED
    BY <1>3, <1>15, <2>1, <2>2
<1>18. WithExponent(u, d, e, m)
  BY <1>2, <1>13, <1>16, <1>17 DEF WithExponent, m, s, pad
<1>19. \A i \in 1 .. m : u[i] # "e"
  BY <1>3, <1>15
<1> QED
  BY <1>2, <1>13, <1>14, <1>18, <1>19

-----------------------------------------------------------------------------

\* A number below one is told by how it is shown.
LEMMA BelowOneTells ==
  ASSUME NEW u, NEW d, NEW e, NEW c, NEW f, Normal(d, e), Normal(c, f),
         BelowOne(u, d, e), BelowOne(u, c, f)
  PROVE  d = c /\ e = f
<1>1. Len(d) \in Nat /\ Len(c) \in Nat /\ e \in -4 .. -1 /\ f \in -4 .. -1
  BY DEF Normal, BelowOne
<1>2. ASSUME NEW a, NEW g, NEW b, NEW h, Normal(b, h),
             BelowOne(u, a, g), BelowOne(u, b, h), g < h
      PROVE  FALSE
  <2>1. g \in -4 .. -1 /\ h \in -4 .. -1 /\ b[1] # "0" /\ Len(b) >= 1 /\ Len(b) \in Nat
    <3>1. g \in -4 .. -1 /\ h \in -4 .. -1
      BY <1>2 DEF BelowOne
    <3>2. h # 0
      BY <3>1
    <3>3. b[1] # "0" /\ Len(b) >= 1 /\ Len(b) \in Nat
      BY <1>2, <3>2 DEF Normal
    <3> QED
      BY <3>1, <3>3
  <2>2. 2 - h \in 3 .. 1 - g /\ 1 \in 1 .. Len(b) /\ 1 - h + 1 = 2 - h
    BY <1>2, <2>1
  <2>3. u[2 - h] = "0"
    BY <1>2, <2>2 DEF BelowOne
  <2>4. u[1 - h + 1] = b[1]
    BY <1>2, <2>2 DEF BelowOne
  <2> QED
    BY <2>1, <2>2, <2>3, <2>4
<1>3. e = f
  <2>1. ~(e < f)
    BY <1>2
  <2>2. ~(f < e)
    BY <1>2
  <2> QED
    BY <1>1, <2>1, <2>2
<1>4. Len(d) = Len(c)
  BY <1>1, <1>3 DEF BelowOne
<1>5. \A i \in 1 .. Len(d) : d[i] = c[i]
  BY <1>3, <1>4 DEF BelowOne
<1>6. d \in Seq(Numerals) /\ c \in Seq(Numerals)
  BY DEF Normal
<1> QED
  BY <1>3, <1>4, <1>5, <1>6, SameElements

\* A whole number, too.
LEMMA WholeNumberTells ==
  ASSUME NEW u, NEW d, NEW e, NEW c, NEW f, Normal(d, e), Normal(c, f),
         WholeNumber(u, d, e), WholeNumber(u, c, f)
  PROVE  d = c /\ e = f
<1>1. /\ Len(d) \in Nat /\ Len(c) \in Nat /\ e \in 0 .. 5 /\ f \in 0 .. 5
      /\ Len(d) >= 1 /\ Len(c) >= 1
  BY DEF Normal, WholeNumber
<1>2. e = f
  BY <1>1 DEF WholeNumber
<1>3. ASSUME NEW a, NEW b, Normal(b, e),
             WholeNumber(u, a, e), WholeNumber(u, b, e), Len(a) < Len(b),
             Len(a) \in Nat, Len(a) >= 1
      PROVE  FALSE
  <2>1. Len(b) \in Nat /\ Len(b) <= e + 1
    BY <1>3 DEF Normal, WholeNumber
  <2>2. Len(b) \in Len(a) + 1 .. e + 1 /\ Len(b) \in 1 .. Len(b)
    BY <1>3, <2>1
  <2>3. u[Len(b)] = "0"
    BY <1>3, <2>2 DEF WholeNumber
  <2>4. u[Len(b)] = b[Len(b)]
    BY <1>3, <2>2 DEF WholeNumber
  <2>5. Len(b) # 1
    BY <1>3, <2>1
  <2>6. b[Len(b)] # "0"
    BY <1>3, <2>5 DEF Normal
  <2> QED
    BY <2>3, <2>4, <2>6
<1>4. Len(d) = Len(c)
  <2>1. ~(Len(d) < Len(c))
    BY <1>1, <1>2, <1>3
  <2>2. ~(Len(c) < Len(d))
    BY <1>1, <1>2, <1>3
  <2> QED
    BY <1>1, <2>1, <2>2
<1>5. \A i \in 1 .. Len(d) : d[i] = c[i]
  BY <1>4 DEF WholeNumber
<1>6. d \in Seq(Numerals) /\ c \in Seq(Numerals)
  BY DEF Normal
<1> QED
  BY <1>2, <1>4, <1>5, <1>6, SameElements

\* The point is the only one.
LEMMA OnePoint ==
  ASSUME NEW u, NEW d, NEW e, Normal(d, e),
         WholeNumber(u, d, e) \/ AroundPoint(u, d, e)
  PROVE  /\ e \in 0 .. 5 /\ Len(u) \in Nat /\ e + 2 <= Len(u)
         /\ \A i \in 1 .. Len(u) : u[i] = "." <=> i = e + 2
<1>1. /\ e \in 0 .. 5 /\ Len(d) \in Nat /\ \A i \in 1 .. Len(d) : d[i] # "."
  <2>1. d \in Seq(Numerals) /\ "." \notin Numerals
    BY DEF Normal, Numerals
  <2>2. \A i \in 1 .. Len(d) : d[i] \in Numerals
    BY <2>1
  <2> HIDE DEF Numerals
  <2> QED
    BY <2>1, <2>2 DEF WholeNumber, AroundPoint
<1>2. CASE WholeNumber(u, d, e)
  <2>1. Len(u) = e + 3 /\ u[e + 2] = "." /\ u[e + 3] = "0"
    BY <1>2 DEF WholeNumber
  <2>2. ASSUME NEW i \in 1 .. e + 1
        PROVE  u[i] # "."
    <3>1. CASE i \in 1 .. Len(d)
      BY <1>1, <1>2, <3>1 DEF WholeNumber
    <3>2. CASE i \in Len(d) + 1 .. e + 1
      BY <1>2, <3>2 DEF WholeNumber
    <3> QED
      BY <1>1, <3>1, <3>2
  <2> QED
    BY <1>1, <2>1, <2>2
<1>3. CASE AroundPoint(u, d, e)
  <2>1. Len(u) = Len(d) + 1 /\ u[e + 2] = "." /\ Len(d) > e + 1
    BY <1>3 DEF AroundPoint
  <2>2. ASSUME NEW i \in 1 .. e + 1
        PROVE  u[i] # "."
    <3>1. i \in 1 .. Len(d)
      BY <1>1, <2>1
    <3> QED
      BY <1>1, <1>3, <3>1 DEF AroundPoint
  <2>3. ASSUME NEW i \in e + 3 .. Len(u)
        PROVE  u[i] # "."
    <3>1. i - 1 \in e + 2 .. Len(d) /\ i - 1 \in 1 .. Len(d) /\ (i - 1) + 1 = i
      BY <1>1, <2>1
    <3>2. u[(i - 1) + 1] = d[i - 1]
      BY <1>3, <3>1 DEF AroundPoint
    <3> QED
      BY <1>1, <3>1, <3>2
  <2> QED
    BY <1>1, <2>1, <2>2, <2>3
<1> QED
  BY <1>2, <1>3

\* And one with digits on both sides of the point.
LEMMA AroundPointTells ==
  ASSUME NEW u, NEW d, NEW e, NEW c, NEW f, Normal(d, e), Normal(c, f),
         AroundPoint(u, d, e), AroundPoint(u, c, f)
  PROVE  d = c /\ e = f
<1>1. Len(d) \in Nat /\ Len(c) \in Nat
  BY DEF Normal
<1>2. e = f
  <2>1. /\ e \in 0 .. 5 /\ Len(u) \in Nat /\ e + 2 <= Len(u)
        /\ \A i \in 1 .. Len(u) : u[i] = "." <=> i = e + 2
    BY OnePoint
  <2>2. f \in 0 .. 5 /\ f + 2 <= Len(u) /\ u[f + 2] = "."
    <3>1. f \in 0 .. 5 /\ f + 2 <= Len(u)
      BY OnePoint
    <3> QED
      BY <3>1 DEF AroundPoint
  <2>3. f + 2 \in 1 .. Len(u)
    BY <2>1, <2>2
  <2> QED
    BY <2>1, <2>2, <2>3
<1>3. Len(d) = Len(c)
  BY <1>1 DEF AroundPoint
<1>4. \A i \in 1 .. Len(d) : d[i] = c[i]
  <2> TAKE i \in 1 .. Len(d)
  <2>1. CASE i <= e + 1
    <3>1. i \in 1 .. e + 1
      BY <2>1
    <3> QED
      BY <1>2, <3>1 DEF AroundPoint
  <2>2. CASE i > e + 1
    <3>1. i \in e + 2 .. Len(d)
      BY <1>1, <2>2 DEF AroundPoint
    <3> QED
      BY <1>2, <1>3, <3>1 DEF AroundPoint
  <2>3. e \in 0 .. 5
    BY DEF AroundPoint
  <2> QED
    BY <1>1, <2>1, <2>2, <2>3
<1>5. d \in Seq(Numerals) /\ c \in Seq(Numerals)
  BY DEF Normal
<1> QED
  BY <1>2, <1>3, <1>4, <1>5, SameElements

\* A number is shown with a point among others or with one that ends it, not both.
LEMMA WholeOrAround ==
  ASSUME NEW u, NEW d, NEW e, NEW c, NEW f, Normal(d, e), Normal(c, f),
         WholeNumber(u, d, e), AroundPoint(u, c, f)
  PROVE  FALSE
<1>1. e = f
  <2>1. /\ e \in 0 .. 5 /\ Len(u) \in Nat /\ e + 2 <= Len(u)
        /\ \A i \in 1 .. Len(u) : u[i] = "." <=> i = e + 2
    BY OnePoint
  <2>2. f \in 0 .. 5 /\ f + 2 <= Len(u) /\ u[f + 2] = "."
    <3>1. f \in 0 .. 5 /\ f + 2 <= Len(u)
      BY OnePoint
    <3> QED
      BY <3>1 DEF AroundPoint
  <2>3. f + 2 \in 1 .. Len(u)
    BY <2>1, <2>2
  <2> QED
    BY <2>1, <2>2, <2>3
<1>2. Len(u) = e + 3 /\ u[e + 3] = "0" /\ e \in 0 .. 5
  BY DEF WholeNumber
<1>3. Len(c) = e + 2 /\ Len(c) # 1 /\ Len(c) \in Nat
  <2>1. Len(c) \in Nat
    BY DEF Normal
  <2> QED
    BY <1>2, <2>1 DEF AroundPoint
<1>4. u[Len(c) + 1] = c[Len(c)]
  <2>1. Len(c) \in f + 2 .. Len(c)
    BY <1>1, <1>2, <1>3
  <2> QED
    BY <2>1 DEF AroundPoint
<1>5. c[Len(c)] # "0"
  BY <1>3 DEF Normal
<1> QED
  BY <1>2, <1>3, <1>4, <1>5

\* Nor is one that has an integer part but zero shown as below one.
LEMMA BelowOrNot ==
  ASSUME NEW u, NEW d, NEW e, NEW c, NEW f, Normal(d, e), Normal(c, f),
         BelowOne(u, d, e), WholeNumber(u, c, f) \/ AroundPoint(u, c, f)
  PROVE  FALSE
<1>1. /\ Len(d) \in Nat /\ Len(c) \in Nat /\ Len(d) >= 1 /\ Len(c) >= 1
      /\ e \in -4 .. -1 /\ f \in 0 .. 5
  BY DEF Normal, BelowOne, WholeNumber, AroundPoint
<1>2. u[1] = "0" /\ u[1] = c[1]
  <2>1. 1 \in 1 .. Len(c) /\ 1 \in 1 .. f + 1
    BY <1>1
  <2> QED
    BY <2>1 DEF BelowOne, WholeNumber, AroundPoint
<1>3. Len(c) = 1 /\ f = 0
  BY <1>2 DEF Normal
<1>4. Len(u) = 3 /\ u[3] = "0"
  BY <1>3 DEF WholeNumber, AroundPoint
<1>5. Len(u) = 1 - e + Len(d) /\ u[1 - e + Len(d)] = d[Len(d)]
  <2>1. Len(d) \in 1 .. Len(d)
    BY <1>1
  <2> QED
    BY <2>1 DEF BelowOne
<1>6. d[Len(d)] # "0"
  BY <1>1 DEF Normal
<1> QED
  BY <1>4, <1>5, <1>6

\* The number that an exponent is shown as tells it.
NumbersPrintApart == \A m, n \in Nat : ToString(m) = ToString(n) => m = n

\* A number is told by its mantissa and its exponent.
LEMMA WithExponentTells ==
  ASSUME NumbersPrintApart,
         NEW u, NEW d, NEW e, NEW c, NEW f, Normal(d, e), Normal(c, f),
         NEW m \in Nat, WithExponent(u, d, e, m), WithExponent(u, c, f, m)
  PROVE  d = c /\ e = f
<1>1. /\ Len(d) \in Nat /\ Len(c) \in Nat /\ Len(d) >= 1 /\ Len(c) >= 1
      /\ e \in Int /\ f \in Int
  BY DEF Normal
<1>2. Len(d) = Len(c)
  <2>1. /\ m = IF Len(d) = 1 THEN 1 ELSE Len(d) + 1
        /\ m = IF Len(c) = 1 THEN 1 ELSE Len(c) + 1
    BY DEF WithExponent
  <2> QED
    BY <1>1, <2>1
<1>3. \A i \in 1 .. Len(d) : d[i] = c[i]
  <2> TAKE i \in 1 .. Len(d)
  <2>1. CASE i = 1
    BY <2>1 DEF WithExponent
  <2>2. CASE i # 1
    <3>1. i \in 2 .. Len(d) /\ Len(d) > 1
      BY <1>1, <2>2
    <3> QED
      BY <1>2, <3>1 DEF WithExponent
  <2> QED
    BY <2>1, <2>2
<1>4. d = c
  <2>1. d \in Seq(Numerals) /\ c \in Seq(Numerals)
    BY DEF Normal
  <2> QED
    BY <1>2, <1>3, <2>1, SameElements
<1>5. e < 0 <=> f < 0
  <2>1. /\ u[m + 2] = IF e < 0 THEN "-" ELSE "+"
        /\ u[m + 2] = IF f < 0 THEN "-" ELSE "+"
    BY DEF WithExponent
  <2> QED
    BY <2>1
<1> DEFINE s == IF e < 0 THEN -e ELSE e
           t == IF f < 0 THEN -f ELSE f
<1>6. s \in Nat /\ t \in Nat
  BY <1>1
<1>7. ToString(s) = ToString(t)
  BY DEF WithExponent
<1> HIDE DEF s, t
<1>8. s = t
  BY <1>6, <1>7 DEF NumbersPrintApart
<1>9. e = f
  BY <1>1, <1>5, <1>8 DEF s, t
<1> QED
  BY <1>4, <1>9

-----------------------------------------------------------------------------

\* What is shown without an exponent has no letter.
LEMMA NoLetter ==
  ASSUME NEW u, NEW d, NEW e, Normal(d, e),
         BelowOne(u, d, e) \/ WholeNumber(u, d, e) \/ AroundPoint(u, d, e)
  PROVE  \A i \in 1 .. Len(u) : u[i] # "e"
<1>1. Len(d) \in Nat /\ \A i \in 1 .. Len(d) : d[i] # "e"
  <2>1. d \in Seq(Numerals) /\ "e" \notin Numerals
    BY DEF Normal, Numerals
  <2>2. \A i \in 1 .. Len(d) : d[i] \in Numerals
    BY <2>1
  <2> HIDE DEF Numerals
  <2> QED
    BY <2>1, <2>2
<1>2. SUFFICES ASSUME NEW i \in 1 .. Len(u) PROVE u[i] # "e"
  OBVIOUS
<1>3. CASE BelowOne(u, d, e)
  <2>1. e \in -4 .. -1 /\ Len(u) = 1 - e + Len(d)
    BY <1>3 DEF BelowOne
  <2>2. CASE i \in 1 .. 2
    BY <1>3, <2>2 DEF BelowOne
  <2>3. CASE i \in 3 .. 1 - e
    BY <1>3, <2>3 DEF BelowOne
  <2>4. CASE i > 1 - e
    <3> DEFINE k == i - (1 - e)
    <3>1. k \in 1 .. Len(d) /\ 1 - e + k = i
      BY <1>1, <2>1, <2>4
    <3> HIDE DEF k
    <3>2. u[1 - e + k] = d[k]
      BY <1>3, <3>1 DEF BelowOne
    <3> QED
      BY <1>1, <3>1, <3>2
  <2> QED
    BY <1>1, <2>1, <2>2, <2>3, <2>4
<1>4. CASE WholeNumber(u, d, e)
  <2>1. e \in 0 .. 5 /\ Len(u) = e + 3
    BY <1>4 DEF WholeNumber
  <2>2. CASE i \in 1 .. Len(d)
    BY <1>1, <1>4, <2>2 DEF WholeNumber
  <2>3. CASE i \in Len(d) + 1 .. e + 1
    BY <1>4, <2>3 DEF WholeNumber
  <2>4. CASE i = e + 2 \/ i = e + 3
    BY <1>4, <2>4 DEF WholeNumber
  <2> QED
    BY <1>1, <2>1, <2>2, <2>3, <2>4
<1>5. CASE AroundPoint(u, d, e)
  <2>1. e \in 0 .. 5 /\ Len(u) = Len(d) + 1 /\ Len(d) > e + 1
    BY <1>5 DEF AroundPoint
  <2>2. CASE i \in 1 .. e + 1
    <3>1. i \in 1 .. Len(d)
      BY <1>1, <2>1, <2>2
    <3> QED
      BY <1>1, <1>5, <2>2, <3>1 DEF AroundPoint
  <2>3. CASE i = e + 2
    BY <1>5, <2>3 DEF AroundPoint
  <2>4. CASE i > e + 2
    <3>1. i - 1 \in e + 2 .. Len(d) /\ i - 1 \in 1 .. Len(d) /\ (i - 1) + 1 = i
      BY <1>1, <2>1, <2>4
    <3>2. u[(i - 1) + 1] = d[i - 1]
      BY <1>5, <3>1 DEF AroundPoint
    <3> QED
      BY <1>1, <3>1, <3>2
  <2> QED
    BY <1>1, <2>1, <2>2, <2>3, <2>4
<1> QED
  BY <1>3, <1>4, <1>5

\* Whatever its exponent, a number is shown in one of the four forms.
Plainly(u, d, e) == BelowOne(u, d, e) \/ WholeNumber(u, d, e) \/ AroundPoint(u, d, e)

\* A float without its sign is printed plainly, or with an exponent.
LEMMA UnsignedForms ==
  ASSUME NEW d, NEW e, Normal(d, e)
  PROVE  /\ Unsigned(d, e) \in Seq(Shown)
         /\ \/ e \in -4 .. 5 /\ Plainly(Unsigned(d, e), d, e)
            \/ /\ e \notin -4 .. 5
               /\ \E m \in Nat : /\ WithExponent(Unsigned(d, e), d, e, m)
                                 /\ \A i \in 1 .. m : Unsigned(d, e)[i] # "e"
<1>1. e \in Int /\ Len(d) \in Nat
  BY DEF Normal
<1>2. CASE e \notin -4 .. 5
  BY <1>2, WithExponentShown
<1>3. CASE e \in -4 .. -1
  <2>1. Unsigned(d, e) \in Seq(Shown) /\ BelowOne(Unsigned(d, e), d, e)
    BY <1>3, BelowOneShown
  <2> QED
    BY <1>3, <2>1 DEF Plainly
<1>4. CASE e \in 0 .. 5
  <2>1. CASE Len(d) <= e + 1
    <3>1. Unsigned(d, e) \in Seq(Shown) /\ WholeNumber(Unsigned(d, e), d, e)
      BY <1>4, <2>1, WholeNumberShown
    <3> QED
      BY <1>4, <3>1 DEF Plainly
  <2>2. CASE Len(d) > e + 1
    <3>1. Unsigned(d, e) \in Seq(Shown) /\ AroundPoint(Unsigned(d, e), d, e)
      BY <1>4, <2>2, AroundPointShown
    <3> QED
      BY <1>4, <3>1 DEF Plainly
  <2> QED
    BY <1>1, <1>4, <2>1, <2>2
<1> QED
  BY <1>1, <1>2, <1>3, <1>4

\* Numbers that are shown alike without their signs have the same digits and exponent.
LEMMA UnsignedTells ==
  ASSUME NumbersPrintApart,
         NEW d, NEW e, NEW c, NEW f, Normal(d, e), Normal(c, f),
         Unsigned(d, e) = Unsigned(c, f)
  PROVE  d = c /\ e = f
<1> DEFINE u == Unsigned(d, e)
<1>1. /\ u \in Seq(Shown)
      /\ \/ e \in -4 .. 5 /\ Plainly(u, d, e)
         \/ /\ e \notin -4 .. 5
            /\ \E m \in Nat : WithExponent(u, d, e, m) /\ \A i \in 1 .. m : u[i] # "e"
  BY UnsignedForms
<1>2. /\ \/ f \in -4 .. 5 /\ Plainly(Unsigned(c, f), c, f)
         \/ /\ f \notin -4 .. 5
            /\ \E m \in Nat : /\ WithExponent(Unsigned(c, f), c, f, m)
                              /\ \A i \in 1 .. m : Unsigned(c, f)[i] # "e"
  BY UnsignedForms
<1>3. \/ f \in -4 .. 5 /\ Plainly(u, c, f)
      \/ /\ f \notin -4 .. 5
         /\ \E m \in Nat : WithExponent(u, c, f, m) /\ \A i \in 1 .. m : u[i] # "e"
  BY <1>2
<1> HIDE DEF u
<1>4. ASSUME NEW a, NEW g, NEW b, NEW h, Normal(b, h), Plainly(u, b, h),
             NEW m \in Nat, WithExponent(u, a, g, m)
      PROVE  FALSE
  <2>1. u[m + 1] = "e" /\ m + 1 \in 1 .. Len(u)
    <3>1. u[m + 1] = "e" /\ (Len(u) = m + 3 + 1 \/ Len(u) = m + 3 + 0)
      BY <1>4 DEF WithExponent
    <3> QED
      BY <3>1
  <2>2. \A i \in 1 .. Len(u) : u[i] # "e"
    BY <1>4, NoLetter DEF Plainly
  <2> QED
    BY <2>1, <2>2
<1>5. CASE Plainly(u, d, e) /\ Plainly(u, c, f)
  <2>1. CASE BelowOne(u, d, e) /\ BelowOne(u, c, f)
    BY <2>1, BelowOneTells
  <2>2. CASE WholeNumber(u, d, e) /\ WholeNumber(u, c, f)
    BY <2>2, WholeNumberTells
  <2>3. CASE AroundPoint(u, d, e) /\ AroundPoint(u, c, f)
    BY <2>3, AroundPointTells
  <2>4. CASE WholeNumber(u, d, e) /\ AroundPoint(u, c, f)
    BY <2>4, WholeOrAround
  <2>5. CASE WholeNumber(u, c, f) /\ AroundPoint(u, d, e)
    BY <2>5, WholeOrAround
  <2>6. CASE BelowOne(u, d, e) /\ (WholeNumber(u, c, f) \/ AroundPoint(u, c, f))
    BY <2>6, BelowOrNot
  <2>7. CASE BelowOne(u, c, f) /\ (WholeNumber(u, d, e) \/ AroundPoint(u, d, e))
    BY <2>7, BelowOrNot
  <2> QED
    BY <1>5, <2>1, <2>2, <2>3, <2>4, <2>5, <2>6, <2>7 DEF Plainly
<1>6. CASE /\ \E m \in Nat : WithExponent(u, d, e, m) /\ \A i \in 1 .. m : u[i] # "e"
           /\ \E m \in Nat : WithExponent(u, c, f, m) /\ \A i \in 1 .. m : u[i] # "e"
  <2>1. PICK m \in Nat : WithExponent(u, d, e, m) /\ \A i \in 1 .. m : u[i] # "e"
    BY <1>6
  <2>2. PICK n \in Nat : WithExponent(u, c, f, n) /\ \A i \in 1 .. n : u[i] # "e"
    BY <1>6
  <2>3. u[m + 1] = "e" /\ u[n + 1] = "e"
    BY <2>1, <2>2 DEF WithExponent
  <2>4. m = n
    <3>1. ~(m < n)
      <4>1. SUFFICES ASSUME m < n PROVE FALSE
        OBVIOUS
      <4>2. m + 1 \in 1 .. n
        BY <4>1
      <4> QED
        BY <2>2, <2>3, <4>2
    <3>2. ~(n < m)
      <4>1. SUFFICES ASSUME n < m PROVE FALSE
        OBVIOUS
      <4>2. n + 1 \in 1 .. m
        BY <4>1
      <4> QED
        BY <2>1, <2>3, <4>2
    <3> QED
      BY <3>1, <3>2
  <2> QED
    BY <2>1, <2>2, <2>4, WithExponentTells
<1> QED
  BY <1>1, <1>3, <1>4, <1>5, <1>6

\* Joining three sequences, in whichever order.
LEMMA JoinedThrice ==
  ASSUME NEW S, NEW s \in Seq(S), NEW t \in Seq(S), NEW u \in Seq(S)
  PROVE  (s \o t) \o u = s \o (t \o u)
  OBVIOUS

\* What is behind the same sequence is the same.
LEMMA SameRest ==
  ASSUME NEW S, NEW s \in Seq(S), NEW t \in Seq(S), NEW u \in Seq(S), s \o t = s \o u
  PROVE  t = u
<1>1. Following(s \o t, s, t) /\ Following(s \o u, s, u)
  BY JoinedFollowing
<1> DEFINE v == s \o t
<1>2. Following(v, s, t) /\ Following(v, s, u)
  BY <1>1
<1> HIDE DEF v
<1>3. Len(t) = Len(u) /\ Len(t) \in Nat
  BY <1>2 DEF Following
<1>4. \A i \in 1 .. Len(t) : t[i] = u[i]
  BY <1>2, <1>3 DEF Following
<1> QED
  BY <1>3, <1>4, SameElements

-----------------------------------------------------------------------------

\* The floats of an exposition, each in its one form: what is shown alike is alike.
NotANumber == [kind |-> "nan", minus |-> FALSE, digits |-> <<>>, exponent |-> 0]

PlainNumbers ==
  {x \in [kind : {"number"}, minus : BOOLEAN, digits : Seq(Numerals), exponent : Int] :
     Normal(x.digits, x.exponent)}

Floats == {Infinity, [Infinity EXCEPT !.minus = TRUE], NotANumber} \cup PlainNumbers

SignOf(x) == IF x.minus THEN <<"-">> ELSE <<>>

\* A number is shown with its sign and then as one without.
LEMMA NumberShown ==
  ASSUME NEW x \in PlainNumbers
  PROVE  FormatFloat(x) = SignOf(x) \o Unsigned(x.digits, x.exponent)
<1> DEFINE d == x.digits
           e == x.exponent
           body == IF e \in -4 .. 5 THEN Plain(d, e) ELSE Scientific(d, e)
           sign == SignOf(x)
           text == sign \o body
           dot == <<".", "0">>
           u == Unsigned(d, e)
<1>1. x.kind = "number" /\ Normal(d, e)
  BY DEF PlainNumbers
<1>2. FormatFloat(x) = IF \E i \in DOMAIN text : text[i] \in {".", "e"} THEN text
                       ELSE text \o dot
  BY <1>1 DEF FormatFloat, SignOf
<1>3. u \in Seq(Shown)
  BY <1>1, UnsignedForms
<1>4. sign \in Seq(Shown) /\ Len(sign) \in Nat /\ \A i \in 1 .. Len(sign) : sign[i] \notin {".", "e"}
  <2>1. "-" \in Shown
    BY DEF Shown
  <2> HIDE DEF Shown
  <2>2. <<"-">> \in Seq(Shown) /\ Len(<<"-">>) = 1 /\ <<"-">>[1] = "-"
    BY <2>1
  <2>3. <<>> \in Seq(Shown) /\ Len(<<>>) = 0
    OBVIOUS
  <2>4. sign = <<"-">> \/ sign = <<>>
    BY DEF SignOf
  <2> HIDE DEF sign
  <2>5. CASE sign = <<"-">>
    <3> DEFINE one == <<"-">>
    <3>1. one \in Seq(Shown) /\ Len(one) = 1 /\ one[1] = "-" /\ sign = one
      BY <2>2, <2>5
    <3> HIDE DEF one
    <3> QED
      BY <3>1
  <2>6. CASE sign = <<>>
    <3> DEFINE none == <<>>
    <3>1. none \in Seq(Shown) /\ Len(none) = 0 /\ sign = none
      BY <2>3, <2>6
    <3> HIDE DEF none
    <3> QED
      BY <3>1
  <2> QED
    BY <2>4, <2>5, <2>6
<1>5. e \in Int /\ Len(d) \in Nat /\ Len(d) >= 1
  BY <1>1 DEF Normal
<1> HIDE DEF sign, d, e
<1>6. CASE e \in 0 .. 5 /\ Len(d) <= e + 1
  <2>1. WholeNumber(u, d, e)
    BY <1>1, <1>6, WholeNumberShown
  <2>2. body = d \o Zeros(e + 1 - Len(d)) /\ u = body \o dot
    <3>1. e \in -4 .. 5 /\ e >= 0 /\ ~(e < 0)
      BY <1>6
    <3>2. body = Plain(d, e) /\ u = Plain(d, e) \o dot
      BY <1>6, <3>1 DEF Unsigned
    <3>3. Plain(d, e) = d \o Zeros(e + 1 - Len(d))
      BY <1>6, <3>1 DEF Plain
    <3> HIDE DEF body, u, dot
    <3> QED
      BY <3>2, <3>3
  <2>3. body \in Seq(Shown) /\ Len(body) = e + 1
    <3> DEFINE z == Zeros(e + 1 - Len(d))
    <3>1. z \in Seq(Shown) /\ Len(z) = e + 1 - Len(d)
      <4>1. e + 1 - Len(d) \in Nat
        BY <1>5, <1>6
      <4> QED
        BY <4>1, ZerosAre
    <3>2. d \in Seq(Shown)
      BY <1>1 DEF Normal, Shown
    <3> HIDE DEF z
    <3>3. d \o z \in Seq(Shown) /\ Following(d \o z, d, z)
      BY <3>1, <3>2, JoinedFollowing
    <3>4. Len(d \o z) = e + 1
      BY <1>5, <1>6, <3>1, <3>3 DEF Following
    <3>5. body = d \o z
      BY <2>2 DEF z
    <3> HIDE DEF body
    <3> QED
      BY <3>3, <3>4, <3>5
  <2>4. dot \in Seq(Shown)
    <3>1. "." \in Shown /\ "0" \in Shown
      BY DEF Shown, Numerals
    <3> HIDE DEF Shown
    <3> QED
      BY <3>1
  <2> HIDE DEF body, dot, u
  <2>5. Following(u, body, dot) /\ text \in Seq(Shown) /\ Following(text, sign, body)
    BY <1>4, <2>2, <2>3, <2>4, JoinedFollowing
  <2>6. \A i \in 1 .. Len(body) : body[i] \notin {".", "e"}
    <3> TAKE i \in 1 .. Len(body)
    <3>1. i \in 1 .. e + 1 /\ Len(u) = e + 3
      BY <2>1, <2>3 DEF WholeNumber
    <3>2. u[i] = body[i] /\ i \in 1 .. Len(u)
      BY <1>5, <1>6, <2>5, <3>1 DEF Following
    <3>3. u[i] # "e"
      BY <1>1, <2>1, <3>2, NoLetter
    <3>4. u[i] # "."
      <4>1. \A j \in 1 .. Len(u) : u[j] = "." <=> j = e + 2
        BY <1>1, <2>1, OnePoint
      <4> QED
        BY <1>5, <3>1, <3>2, <4>1
    <3> QED
      BY <3>2, <3>3, <3>4
  <2>7. \A i \in 1 .. Len(text) : text[i] \notin {".", "e"}
    <3> TAKE i \in 1 .. Len(text)
    <3>1. Len(text) = Len(sign) + Len(body) /\ Len(body) \in Nat
      BY <1>5, <1>6, <2>3, <2>5 DEF Following
    <3>2. CASE i \in 1 .. Len(sign)
      <4>1. text[i] = sign[i]
        BY <2>5, <3>2 DEF Following
      <4> QED
        BY <1>4, <3>2, <4>1
    <3>3. CASE i > Len(sign)
      <4> DEFINE k == i - Len(sign)
      <4>1. k \in 1 .. Len(body) /\ Len(sign) + k = i
        BY <1>4, <3>1, <3>3
      <4> HIDE DEF k
      <4>2. text[Len(sign) + k] = body[k]
        BY <2>5, <4>1 DEF Following
      <4> QED
        BY <2>6, <4>1, <4>2
    <3> QED
      BY <1>4, <3>1, <3>2, <3>3
  <2>8. DOMAIN text = 1 .. Len(text)
    BY <2>5
  <2>9. FormatFloat(x) = text \o dot
    <3> HIDE DEF text
    <3> QED
      BY <1>2, <2>7, <2>8
  <2>10. (sign \o body) \o dot = sign \o (body \o dot)
    BY <1>4, <2>3, <2>4, JoinedThrice
  <2>11. u = Unsigned(x.digits, x.exponent)
    BY DEF u, d, e
  <2>12. FormatFloat(x) = sign \o u
    BY <2>2, <2>9, <2>10
  <2> QED
    BY <2>11, <2>12 DEF sign
<1>7. CASE ~(e \in 0 .. 5 /\ Len(d) <= e + 1)
  <2>1. u = body
    <3>1. ~(e \in -4 .. 5 /\ e >= 0 /\ Len(d) <= e + 1)
      BY <1>5, <1>7
    <3> QED
      BY <3>1 DEF Unsigned
  <2>2. \E k \in 1 .. Len(u) : u[k] \in {".", "e"}
    <3>1. \/ e \in -4 .. -1 /\ BelowOne(u, d, e)
          \/ e \in 0 .. 5 /\ Len(d) > e + 1 /\ AroundPoint(u, d, e)
          \/ \E m \in Nat : WithExponent(u, d, e, m)
      <4>1. CASE e \in -4 .. -1
        BY <1>1, <4>1, BelowOneShown
      <4>2. CASE e \in 0 .. 5
        <5>1. Len(d) > e + 1
          BY <1>5, <1>7, <4>2
        <5> QED
          BY <1>1, <4>2, <5>1, AroundPointShown
      <4>3. CASE e \notin -4 .. 5
        BY <1>1, <4>3, WithExponentShown
      <4> QED
        BY <1>5, <4>1, <4>2, <4>3
    <3> HIDE DEF u
    <3>2. CASE BelowOne(u, d, e)
      <4>1. 2 \in 1 .. Len(u) /\ u[2] = "."
        BY <1>5, <3>2 DEF BelowOne
      <4> QED
        BY <4>1
    <3>3. CASE e \in 0 .. 5 /\ Len(d) > e + 1 /\ AroundPoint(u, d, e)
      <4>1. e + 2 \in 1 .. Len(u) /\ u[e + 2] = "."
        BY <1>5, <3>3 DEF AroundPoint
      <4> QED
        BY <4>1
    <3>4. ASSUME NEW m \in Nat, WithExponent(u, d, e, m)
          PROVE  \E k \in 1 .. Len(u) : u[k] \in {".", "e"}
      <4>1. u[m + 1] = "e" /\ (Len(u) = m + 3 + 1 \/ Len(u) = m + 3 + 0)
        BY <3>4 DEF WithExponent
      <4>2. m + 1 \in 1 .. Len(u)
        BY <4>1
      <4> QED
        BY <4>1, <4>2
    <3> QED
      BY <3>1, <3>2, <3>3, <3>4
  <2> HIDE DEF u, body
  <2>3. Following(text, sign, u) /\ text \in Seq(Shown)
    BY <1>3, <1>4, <2>1, JoinedFollowing
  <2>4. PICK k \in 1 .. Len(u) : u[k] \in {".", "e"}
    BY <2>2
  <2>5. text[Len(sign) + k] = u[k] /\ Len(text) = Len(sign) + Len(u)
    BY <2>3, <2>4 DEF Following
  <2>6. Len(sign) + k \in DOMAIN text
    <3>1. DOMAIN text = 1 .. Len(text) /\ Len(u) \in Nat
      BY <1>3, <2>3
    <3> QED
      BY <1>4, <2>4, <2>5, <3>1
  <2>7. FormatFloat(x) = text
    <3> HIDE DEF text
    <3> QED
      BY <1>2, <2>4, <2>5, <2>6
  <2>8. u = Unsigned(x.digits, x.exponent)
    BY DEF u, d, e
  <2> QED
    BY <2>1, <2>7, <2>8 DEF sign
<1> QED
  BY <1>6, <1>7

\* What a number begins with.
LEMMA NumberBegins ==
  ASSUME NEW d, NEW e, Normal(d, e)
  PROVE  /\ Unsigned(d, e) \in Seq(Shown) /\ Len(Unsigned(d, e)) >= 1
         /\ Unsigned(d, e)[1] \in Numerals
<1> DEFINE u == Unsigned(d, e)
<1>1. /\ u \in Seq(Shown)
      /\ \/ e \in -4 .. 5 /\ Plainly(u, d, e)
         \/ \E m \in Nat : WithExponent(u, d, e, m)
  <2>1. /\ u \in Seq(Shown)
        /\ \/ e \in -4 .. 5 /\ Plainly(u, d, e)
           \/ /\ e \notin -4 .. 5
              /\ \E m \in Nat : WithExponent(u, d, e, m) /\ \A i \in 1 .. m : u[i] # "e"
    BY UnsignedForms
  <2> HIDE DEF u
  <2> QED
    BY <2>1
<1> HIDE DEF u
<1>2. Len(d) \in Nat /\ Len(d) >= 1 /\ d[1] \in Numerals /\ "0" \in Numerals
  BY DEF Normal, Numerals
<1>3. Len(u) >= 1 /\ (u[1] = "0" \/ u[1] = d[1])
  <2>1. CASE BelowOne(u, d, e)
    BY <1>2, <2>1 DEF BelowOne
  <2>2. CASE WholeNumber(u, d, e)
    <3>1. 1 \in 1 .. Len(d)
      BY <1>2
    <3> QED
      BY <2>2, <3>1 DEF WholeNumber
  <2>3. CASE AroundPoint(u, d, e)
    <3>1. e \in 0 .. 5 /\ 1 \in 1 .. e + 1
      BY <2>3 DEF AroundPoint
    <3> QED
      BY <1>2, <2>3, <3>1 DEF AroundPoint
  <2>4. ASSUME NEW m \in Nat, WithExponent(u, d, e, m)
        PROVE  Len(u) >= 1 /\ u[1] = d[1]
    <3>1. u[1] = d[1] /\ (Len(u) = m + 3 + 1 \/ Len(u) = m + 3 + 0)
      BY <2>4 DEF WithExponent
    <3> QED
      BY <3>1
  <2> QED
    BY <1>1, <2>1, <2>2, <2>3, <2>4 DEF Plainly
<1> QED
  BY <1>1, <1>2, <1>3 DEF u

\* Two floats that are shown alike are one (format_float), whatever their digits and
\* exponents, provided that the exponents are.
THEOREM FloatsTell ==
  ASSUME NumbersPrintApart, NEW x \in Floats, NEW y \in Floats,
         FormatFloat(x) = FormatFloat(y)
  PROVE  x = y
<1> DEFINE minus == [Infinity EXCEPT !.minus = TRUE]
<1>1. /\ FormatFloat(Infinity) = <<"+", "I">> /\ FormatFloat(minus) = <<"-", "I">>
      /\ FormatFloat(NotANumber) = <<"NaN">>
  BY DEF FormatFloat, Infinity, NotANumber
<1>2. ASSUME NEW z \in PlainNumbers
      PROVE  \/ z.minus = FALSE /\ FormatFloat(z)[1] \in Numerals
             \/ z.minus = TRUE /\ FormatFloat(z)[1] = "-" /\ FormatFloat(z)[2] \in Numerals
  <2> DEFINE u == Unsigned(z.digits, z.exponent)
  <2>1. Normal(z.digits, z.exponent) /\ z.minus \in BOOLEAN
    BY DEF PlainNumbers
  <2>2. u \in Seq(Shown) /\ Len(u) >= 1 /\ u[1] \in Numerals
    BY <2>1, NumberBegins
  <2>3. FormatFloat(z) = SignOf(z) \o u
    BY NumberShown
  <2> HIDE DEF u
  <2>4. CASE z.minus = TRUE
    <3>1. SignOf(z) = <<"-">>
      BY <2>4 DEF SignOf
    <3>2. "-" \in Shown
      BY DEF Shown
    <3> HIDE DEF Shown
    <3>3. (<<"-">> \o u)[1] = "-" /\ \A i \in 1 .. Len(u) : (<<"-">> \o u)[1 + i] = u[i]
      BY <2>2, <3>2, WithFirst
    <3>4. 1 \in 1 .. Len(u)
      BY <2>2
    <3>5. (<<"-">> \o u)[2] = u[1]
      BY <3>3, <3>4
    <3> QED
      BY <2>2, <2>3, <2>4, <3>1, <3>3, <3>5
  <2>5. CASE z.minus = FALSE
    <3>1. SignOf(z) = <<>>
      BY <2>5 DEF SignOf
    <3>2. <<>> \o u = u
      BY <2>2, NothingBefore
    <3> QED
      BY <2>2, <2>3, <2>5, <3>1, <3>2
  <2> QED
    BY <2>1, <2>4, <2>5
<1>3. "+" \notin Numerals /\ "-" \notin Numerals /\ "I" \notin Numerals /\ "NaN" \notin Numerals
  BY DEF Numerals
<1>4. x \in PlainNumbers \/ x = Infinity \/ x = minus \/ x = NotANumber
  BY DEF Floats
<1>5. y \in PlainNumbers \/ y = Infinity \/ y = minus \/ y = NotANumber
  BY DEF Floats
<1> HIDE DEF minus
<1>6. ASSUME NEW a, NEW b, FormatFloat(a) = FormatFloat(b), a \in PlainNumbers,
             b = Infinity \/ b = minus \/ b = NotANumber
      PROVE  FALSE
  <2>1. CASE b = Infinity
    <3>1. FormatFloat(a)[1] = "+"
      BY <1>1, <1>6, <2>1
    <3> QED
      BY <1>2, <1>3, <1>6, <3>1
  <2>2. CASE b = minus
    <3>1. FormatFloat(a)[1] = "-" /\ FormatFloat(a)[2] = "I"
      BY <1>1, <1>6, <2>2
    <3> QED
      BY <1>2, <1>3, <1>6, <3>1
  <2>3. CASE b = NotANumber
    <3>1. FormatFloat(a)[1] = "NaN"
      BY <1>1, <1>6, <2>3
    <3> QED
      BY <1>2, <1>3, <1>6, <3>1
  <2> QED
    BY <1>6, <2>1, <2>2, <2>3
<1>7. CASE x \in PlainNumbers /\ y \in PlainNumbers
  <2> DEFINE u == Unsigned(x.digits, x.exponent)
             v == Unsigned(y.digits, y.exponent)
  <2>1. /\ Normal(x.digits, x.exponent) /\ Normal(y.digits, y.exponent)
        /\ x = [kind |-> "number", minus |-> x.minus, digits |-> x.digits, exponent |-> x.exponent]
        /\ y = [kind |-> "number", minus |-> y.minus, digits |-> y.digits, exponent |-> y.exponent]
    BY <1>7 DEF PlainNumbers
  <2>2. x.minus = y.minus
    BY <1>2, <1>3, <1>7
  <2>3. SignOf(x) \o u = SignOf(y) \o v
    BY <1>7, NumberShown
  <2>4. SignOf(x) = SignOf(y) /\ SignOf(x) \in Seq(Shown)
    <3>1. "-" \in Shown
      BY DEF Shown
    <3> HIDE DEF Shown
    <3>2. <<"-">> \in Seq(Shown) /\ <<>> \in Seq(Shown)
      BY <3>1
    <3>3. SignOf(x) = <<"-">> \/ SignOf(x) = <<>>
      BY DEF SignOf
    <3> QED
      BY <2>2, <3>2, <3>3 DEF SignOf
  <2>5. u \in Seq(Shown) /\ v \in Seq(Shown)
    BY <2>1, NumberBegins
  <2>6. u = v
    <3> DEFINE s == SignOf(x)
    <3>1. s \o u = s \o v /\ s \in Seq(Shown)
      BY <2>3, <2>4
    <3> HIDE DEF s, u, v
    <3> QED
      BY <2>5, <3>1, SameRest
  <2>7. x.digits = y.digits /\ x.exponent = y.exponent
    BY <2>1, <2>6, UnsignedTells
  <2> QED
    BY <2>1, <2>2, <2>7
<1>8. CASE x \notin PlainNumbers /\ y \notin PlainNumbers
  <2>1. /\ <<"+", "I">> # <<"-", "I">> /\ <<"+", "I">> # <<"NaN">> /\ <<"-", "I">> # <<"NaN">>
    OBVIOUS
  <2> QED
    BY <1>1, <1>4, <1>5, <1>8, <2>1
<1> QED
  BY <1>4, <1>5, <1>6, <1>7, <1>8

-----------------------------------------------------------------------------

\* Texts of characters, as which the suffixes count.  Those named are strings as well.
Characters == STRING \cup {"_count", "_sum", "_bucket", "+", "I", "m", "a", "0", "1", "."}
Wordings == Seq(Characters)

\* The texts of labels, those of floats among them.
Texts ==
  Wordings \cup {FormatFloat(x) : x \in Floats} \cup {MetricNameLabel, LeLabel, QuantileLabel}

TextLabels == [name : Texts, value : Texts]

\* The labels of a series: the family's name with a suffix, the pairs of the metric and
\* one that is derived, if any, under different names.
LabelledAs(l, name, pairs, suffix, extra) ==
  /\ l \in Seq(TextLabels) /\ Len(l) = 1 + Len(pairs) + Len(extra)
  /\ l[1] = TextLabel(MetricNameLabel, name \o suffix)
  /\ \A i \in 1 .. Len(pairs) : l[1 + i] = pairs[i]
  /\ Len(extra) = 1 => l[Len(l)] = extra[1]
  /\ \A i, j \in 1 .. Len(l) : l[i].name = l[j].name => i = j

\* What a label is made of.
LEMMA LabelParts ==
  ASSUME NEW n, NEW v, NEW w
  PROVE  /\ TextLabel(n, v).name = n /\ TextLabel(n, v).value = v
         /\ [TextLabel(n, v) EXCEPT !.value = w] = TextLabel(n, w)
  BY DEF TextLabel

\* The element of a sequence of one.
LEMMA FirstOfOne ==
  ASSUME NEW S, NEW s \in Seq(S), Len(s) = 1
  PROVE  s[1] \in S
  OBVIOUS

\* What a series may be derived with.
Extras == {x \in Seq(TextLabels) : Len(x) \in {0, 1}}

\* The labels a metric begins with.
LEMMA BaseIs ==
  ASSUME NEW name \in Wordings, NEW pairs \in Seq(TextLabels),
         BaseLabels(name, pairs) # Malformed
  PROVE  LabelledAs(BaseLabels(name, pairs), name, pairs, <<>>, <<>>)
<1> DEFINE first == TextLabel(MetricNameLabel, name)
           l == <<first>> \o pairs
<1>1. /\ BaseLabels(name, pairs) = l
      /\ IsInjective([i \in DOMAIN l |-> l[i].name])
  BY DEF BaseLabels
<1>2. first \in TextLabels
  BY DEF TextLabels, TextLabel, Texts
<1>3. name \o <<>> = name
  BY DEF Wordings
<1>4. Len(pairs) \in Nat
  OBVIOUS
<1> HIDE DEF first
<1>5. /\ l \in Seq(TextLabels) /\ Len(l) = 1 + Len(pairs)
      /\ l[1] = first /\ \A i \in 1 .. Len(pairs) : l[1 + i] = pairs[i]
  BY <1>2, WithFirst
<1>6. \A i, j \in 1 .. Len(l) : l[i].name = l[j].name => i = j
  <2>1. DOMAIN l = 1 .. Len(l)
    BY <1>5
  <2> HIDE DEF l
  <2> QED
    BY <1>1, <2>1 DEF IsInjective
<1> DEFINE none == <<>>
<1>7. Len(none) = 0
  OBVIOUS
<1>8. l[1] = TextLabel(MetricNameLabel, name \o none)
  BY <1>3, <1>5 DEF first
<1> HIDE DEF l, none
<1>9. LabelledAs(l, name, pairs, none, none)
  BY <1>4, <1>5, <1>6, <1>7, <1>8 DEF LabelledAs
<1> QED
  BY <1>1, <1>9 DEF none

\* Those of a series derived of it.
LEMMA DerivedIs ==
  ASSUME NEW name \in Wordings, NEW suffix \in Wordings, NEW pairs \in Seq(TextLabels),
         NEW extra \in Extras, NEW base, LabelledAs(base, name, pairs, <<>>, <<>>),
         DerivedLabels(base, suffix, extra) # Malformed
  PROVE  LabelledAs(DerivedLabels(base, suffix, extra), name, pairs, suffix, extra)
<1> DEFINE named == [base EXCEPT ![1].value = @ \o suffix]
           n == Len(base)
<1>1. /\ base \in Seq(TextLabels) /\ n = 1 + Len(pairs)
      /\ base[1] = TextLabel(MetricNameLabel, name \o <<>>)
      /\ \A i \in 1 .. Len(pairs) : base[1 + i] = pairs[i]
      /\ \A i, j \in 1 .. n : base[i].name = base[j].name => i = j
  BY DEF LabelledAs
<1>2. n \in Nat /\ n >= 1 /\ Len(pairs) \in Nat
  BY <1>1
<1>3. base[1] = [name |-> MetricNameLabel, value |-> name]
  <2>1. name \o <<>> = name
    BY DEF Wordings
  <2> QED
    BY <1>1, <2>1 DEF TextLabel
<1>4. /\ named \in Seq(TextLabels) /\ Len(named) = n
      /\ named[1] = TextLabel(MetricNameLabel, name \o suffix)
      /\ \A i \in 2 .. n : named[i] = base[i]
  <2> DEFINE x == TextLabel(MetricNameLabel, name \o suffix)
  <2>1. x \in TextLabels
    <3>1. name \o suffix \in Wordings
      BY DEF Wordings
    <3> QED
      BY <3>1 DEF TextLabels, TextLabel, Texts
  <2>2. named = [base EXCEPT ![1] = x]
    <3>1. [base[1] EXCEPT !.value = @ \o suffix] = x
      <4> DEFINE v == name \o suffix
      <4>1. base[1] = TextLabel(MetricNameLabel, name)
        BY <1>3 DEF TextLabel
      <4>2. TextLabel(MetricNameLabel, name).value = name
        BY LabelParts
      <4>3. base[1].value \o suffix = v
        BY <4>1, <4>2
      <4> HIDE DEF v
      <4>4. [TextLabel(MetricNameLabel, name) EXCEPT !.value = v] = TextLabel(MetricNameLabel, v)
        BY LabelParts
      <4> QED
        BY <4>1, <4>3, <4>4 DEF v
    <3> HIDE DEF x
    <3> QED
      BY <3>1
  <2> HIDE DEF x, named
  <2>3. /\ [base EXCEPT ![1] = x] \in Seq(TextLabels) /\ Len([base EXCEPT ![1] = x]) = n
        /\ [base EXCEPT ![1] = x][1] = x
        /\ \A i \in 2 .. n : [base EXCEPT ![1] = x][i] = base[i]
    BY <1>1, <1>2, <2>1
  <2> QED
    BY <2>2, <2>3 DEF x
<1>5. \A i \in 1 .. n : named[i].name = base[i].name
  <2> TAKE i \in 1 .. n
  <2>1. CASE i = 1
    BY <1>3, <1>4, <2>1 DEF TextLabel
  <2>2. CASE i # 1
    <3>1. i \in 2 .. n
      BY <1>2, <2>2
    <3> QED
      BY <1>4, <3>1
  <2> QED
    BY <2>1, <2>2
<1>6. \A i \in 1 .. Len(pairs) : named[1 + i] = pairs[i]
  <2> TAKE i \in 1 .. Len(pairs)
  <2>1. 1 + i \in 2 .. n
    BY <1>1, <1>2
  <2> QED
    BY <1>1, <1>4, <2>1
<1>7. DerivedLabels(base, suffix, extra) =
        IF extra = <<>> THEN named
        ELSE IF extra[1].name \in NamesOf(base) THEN Malformed ELSE Append(named, extra[1])
  BY DEF DerivedLabels
<1> HIDE DEF named
<1>8. CASE Len(extra) = 0
  <2>1. extra = <<>>
    BY <1>8 DEF Extras
  <2>2. DerivedLabels(base, suffix, extra) = named
    BY <1>7, <2>1
  <2>3. \A i, j \in 1 .. Len(named) : named[i].name = named[j].name => i = j
    BY <1>1, <1>4, <1>5
  <2>4. LabelledAs(named, name, pairs, suffix, extra)
    BY <1>1, <1>2, <1>4, <1>6, <1>8, <2>3 DEF LabelledAs
  <2> QED
    BY <2>2, <2>4
<1>9. CASE Len(extra) = 1
  <2>1. extra # <<>> /\ extra[1] \in TextLabels
    <3>1. extra \in Seq(TextLabels) /\ Len(extra) = 1
      BY <1>9 DEF Extras
    <3>2. extra[1] \in TextLabels
      BY <3>1, FirstOfOne
    <3>3. extra # <<>>
      <4>1. SUFFICES ASSUME extra = <<>> PROVE FALSE
        OBVIOUS
      <4>2. Len(extra) = 0
        BY <4>1
      <4> QED
        BY <1>9, <4>2
    <3> QED
      BY <3>2, <3>3
  <2> DEFINE l == Append(named, extra[1])
  <2>2. DerivedLabels(base, suffix, extra) = l /\ extra[1].name \notin NamesOf(base)
    BY <1>7, <2>1
  <2>3. \A i \in 1 .. n : base[i].name # extra[1].name
    <3>1. DOMAIN base = 1 .. n
      BY <1>1
    <3> QED
      BY <2>2, <3>1 DEF NamesOf
  <2>4. /\ l \in Seq(TextLabels) /\ Len(l) = n + 1 /\ l[n + 1] = extra[1]
        /\ \A i \in 1 .. n : l[i] = named[i]
    BY <1>4, <2>1, Appended
  <2> HIDE DEF l
  <2>5. \A i, j \in 1 .. Len(l) : l[i].name = l[j].name => i = j
    <3> TAKE i, j \in 1 .. Len(l)
    <3>1. \A k \in 1 .. n : l[k].name = base[k].name
      BY <1>5, <2>4
    <3>2. (i \in 1 .. n \/ i = n + 1) /\ (j \in 1 .. n \/ j = n + 1)
      BY <1>2, <2>4
    <3> QED
      BY <1>1, <2>3, <2>4, <3>1, <3>2
  <2>6. \A i \in 1 .. Len(pairs) : l[1 + i] = pairs[i]
    <3> TAKE i \in 1 .. Len(pairs)
    <3>1. 1 + i \in 1 .. n
      BY <1>1, <1>2
    <3> QED
      BY <1>6, <2>4, <3>1
  <2>7. l[1] = TextLabel(MetricNameLabel, name \o suffix)
    <3>1. 1 \in 1 .. n
      BY <1>2
    <3> QED
      BY <1>4, <2>4, <3>1
  <2>8. LabelledAs(l, name, pairs, suffix, extra)
    BY <1>1, <1>2, <1>9, <2>4, <2>5, <2>6, <2>7 DEF LabelledAs
  <2> QED
    BY <2>2, <2>8
<1> QED
  BY <1>8, <1>9 DEF Extras

\* Labels with one suffix, one label that is derived, if it has one name, and one set of pairs.
Alike(s, t, x, y, p, q) ==
  /\ s = t
  /\ Len(x) = Len(y) /\ (Len(x) = 1 => x[1].name = y[1].name)
       => x = y /\ ToSet(p) = ToSet(q)

\* The labels of two series of a family are alike if they are one set.
LEMMA LabelsTell ==
  ASSUME NEW name \in Wordings,
         NEW l, NEW p \in Seq(TextLabels), NEW s \in Wordings, NEW x \in Extras,
         LabelledAs(l, name, p, s, x),
         NEW m, NEW q \in Seq(TextLabels), NEW t \in Wordings, NEW y \in Extras,
         LabelledAs(m, name, q, t, y),
         ToSet(l) = ToSet(m)
  PROVE  Alike(s, t, x, y, p, q)
<1> DEFINE Same(a, b) == \A i \in 1 .. Len(a) : \E j \in 1 .. Len(b) : a[i] = b[j]
<1>1. Same(l, m) /\ Same(m, l)
  <2>1. DOMAIN l = 1 .. Len(l) /\ DOMAIN m = 1 .. Len(m)
    BY DEF LabelledAs
  <2>2. {l[i] : i \in 1 .. Len(l)} = {m[j] : j \in 1 .. Len(m)}
    BY <2>1 DEF ToSet
  <2> QED
    BY <2>2
<1>2. /\ Len(p) \in Nat /\ Len(q) \in Nat /\ Len(x) \in {0, 1} /\ Len(y) \in {0, 1}
      /\ Len(l) = 1 + Len(p) + Len(x) /\ Len(m) = 1 + Len(q) + Len(y)
  BY DEF LabelledAs, Extras
<1>3. l[1] = m[1]
  <2>1. 1 \in 1 .. Len(l) /\ 1 \in 1 .. Len(m)
    BY <1>2
  <2>2. PICK j \in 1 .. Len(m) : l[1] = m[j]
    BY <1>1, <2>1
  <2>3. l[1].name = MetricNameLabel /\ m[1].name = MetricNameLabel
    BY DEF LabelledAs, TextLabel
  <2>4. m[j].name = m[1].name
    BY <2>2, <2>3
  <2>5. j = 1
    BY <2>1, <2>4 DEF LabelledAs
  <2> QED
    BY <2>2, <2>5
<1>4. s = t
  <2>1. name \o s = name \o t
    <3> DEFINE a == name \o s
               b == name \o t
    <3>1. l[1] = TextLabel(MetricNameLabel, a) /\ m[1] = TextLabel(MetricNameLabel, b)
      BY DEF LabelledAs
    <3> HIDE DEF a, b
    <3>2. a = b
      <4>1. TextLabel(MetricNameLabel, a).value = a /\ TextLabel(MetricNameLabel, b).value = b
        BY LabelParts
      <4> QED
        BY <1>3, <3>1, <4>1
    <3> QED
      BY <3>2 DEF a, b
  <2>2. name \in Seq(Characters) /\ s \in Seq(Characters) /\ t \in Seq(Characters)
    BY DEF Wordings
  <2> QED
    BY <2>1, <2>2, SameRest
<1>5. ASSUME Len(x) = Len(y), Len(x) = 1 => x[1].name = y[1].name
      PROVE  x = y /\ ToSet(p) = ToSet(q)
  <2>1. x = y
    <3>0. x \in Seq(TextLabels) /\ y \in Seq(TextLabels)
      BY DEF Extras
    <3>1. CASE Len(x) = 0
      <4>1. \A i \in 1 .. Len(x) : x[i] = y[i]
        BY <3>1
      <4> QED
        BY <1>5, <3>0, <4>1, SameElements
    <3>2. CASE Len(x) = 1
      <4>1. Len(l) \in 1 .. Len(l) /\ Len(m) \in 1 .. Len(m)
        BY <1>2
      <4>2. l[Len(l)] = x[1] /\ m[Len(m)] = y[1]
        BY <1>5, <3>2 DEF LabelledAs
      <4>3. PICK j \in 1 .. Len(m) : l[Len(l)] = m[j]
        BY <1>1, <4>1
      <4>4. m[j].name = m[Len(m)].name
        BY <1>5, <3>2, <4>2, <4>3
      <4>5. j = Len(m)
        BY <4>1, <4>4 DEF LabelledAs
      <4>6. x[1] = y[1]
        BY <4>2, <4>3, <4>5
      <4>7. \A i \in 1 .. Len(x) : x[i] = y[i]
        BY <3>2, <4>6
      <4> QED
        BY <1>5, <3>0, <4>7, SameElements
    <3> QED
      BY <1>2, <3>1, <3>2
  <2>2. ASSUME NEW a, NEW b, NEW f \in Seq(TextLabels), NEW g \in Seq(TextLabels),
               NEW u, NEW v,
               LabelledAs(a, name, f, u, x), LabelledAs(b, name, g, v, x), Same(a, b),
               NEW i \in 1 .. Len(f)
        PROVE  \E j \in 1 .. Len(g) : f[i] = g[j]
    <3>1. /\ Len(f) \in Nat /\ Len(g) \in Nat /\ Len(x) \in {0, 1}
          /\ Len(a) = 1 + Len(f) + Len(x) /\ Len(b) = 1 + Len(g) + Len(x)
      BY <1>2, <2>2 DEF LabelledAs
    <3>2. 1 + i \in 1 .. Len(a) /\ a[1 + i] = f[i]
      <4>1. a[1 + i] = f[i]
        BY <2>2 DEF LabelledAs
      <4>2. 1 + i \in 1 .. Len(a)
        BY <3>1
      <4> QED
        BY <4>1, <4>2
    <3>3. PICK j \in 1 .. Len(b) : a[1 + i] = b[j]
      BY <2>2, <3>2
    <3>4. j # 1
      <4>1. SUFFICES ASSUME j = 1 PROVE FALSE
        OBVIOUS
      <4>2. a[1].name = b[1].name /\ 1 \in 1 .. Len(a)
        BY <2>2, <3>1 DEF LabelledAs, TextLabel
      <4>3. a[1 + i].name = a[1].name
        BY <3>3, <4>1, <4>2
      <4>4. 1 + i = 1
        BY <2>2, <3>2, <4>2, <4>3 DEF LabelledAs
      <4> QED
        BY <4>4
    <3>5. j <= 1 + Len(g)
      <4>1. SUFFICES ASSUME j > 1 + Len(g) PROVE FALSE
        BY <3>1
      <4>2. Len(x) = 1 /\ j = Len(b)
        <5>1. j \in Nat /\ j <= 1 + Len(g) + Len(x)
          BY <3>1
        <5>2. Len(x) # 0
          BY <3>1, <4>1, <5>1
        <5>3. Len(x) = 1
          BY <3>1, <5>2
        <5> QED
          BY <3>1, <4>1, <5>1, <5>3
      <4>3. b[Len(b)] = x[1] /\ a[Len(a)] = x[1]
        BY <2>2, <4>2 DEF LabelledAs
      <4>4. a[1 + i].name = a[Len(a)].name
        BY <3>3, <4>2, <4>3
      <4>5. Len(a) \in 1 .. Len(a)
        BY <3>1
      <4>6. 1 + i = Len(a)
        BY <2>2, <3>2, <4>4, <4>5 DEF LabelledAs
      <4> QED
        BY <3>1, <4>2, <4>6
    <3>6. j - 1 \in 1 .. Len(g) /\ 1 + (j - 1) = j
      BY <3>1, <3>4, <3>5
    <3>7. b[1 + (j - 1)] = g[j - 1]
      BY <2>2, <3>6 DEF LabelledAs
    <3> QED
      BY <3>2, <3>3, <3>6, <3>7
  <2> HIDE DEF Same
  <2>3. \A i \in 1 .. Len(p) : \E j \in 1 .. Len(q) : p[i] = q[j]
    BY <1>1, <2>1, <2>2
  <2>4. \A i \in 1 .. Len(q) : \E j \in 1 .. Len(p) : q[i] = p[j]
    BY <1>1, <2>1, <2>2
  <2>5. DOMAIN p = 1 .. Len(p) /\ DOMAIN q = 1 .. Len(q)
    OBVIOUS
  <2>6. ToSet(p) = ToSet(q)
    <3>1. ASSUME NEW e \in ToSet(p) PROVE e \in ToSet(q)
      <4>1. PICK i \in 1 .. Len(p) : e = p[i]
        BY <2>5 DEF ToSet
      <4>2. PICK j \in 1 .. Len(q) : p[i] = q[j]
        BY <2>3
      <4> QED
        BY <2>5, <4>1, <4>2 DEF ToSet
    <3>2. ASSUME NEW e \in ToSet(q) PROVE e \in ToSet(p)
      <4>1. PICK i \in 1 .. Len(q) : e = q[i]
        BY <2>5 DEF ToSet
      <4>2. PICK j \in 1 .. Len(p) : q[i] = p[j]
        BY <2>4
      <4> QED
        BY <2>5, <4>1, <4>2 DEF ToSet
    <3> QED
      BY <3>1, <3>2
  <2> QED
    BY <2>1, <2>6
<1> QED
  BY <1>4, <1>5 DEF Alike

-----------------------------------------------------------------------------

\* What the exporters of metrics give, over any values.
Amounts == [int : Nat, float : Nat]
Summaries(V) ==
  [count : V, sum : V, quantiles : Seq([quantile : Floats, value : V])]
ExposedSides ==
  [spans : Seq([offset : Int, length : Nat]), deltas : Seq(Int), counts : Seq(Nat)]
ExposedHistograms(V) ==
  [schema : Int, count : Amounts, sum : V, zero_threshold : Int, zero_count : Amounts,
   negative : ExposedSides, positive : ExposedSides,
   buckets : Seq([bound : Floats, count : Amounts])]
Metrics(V) ==
  [labels : Seq(TextLabels), timestamp : Int, value : V, summary : Summaries(V),
   histogram : ExposedHistograms(V)]

\* What series are derived with.
Marks(V) == [suffix : Wordings, extra : Extras, value : V \cup Nat]

\* In a family of a type, the suffix that comes with a label of its own, and its name.
ExtendedSuffix(type) == IF type = "summary" THEN <<>> ELSE <<"_bucket">>
ExtendedBy(type) == IF type = "summary" THEN QuantileLabel ELSE LeLabel

\* A series has that label if it has that suffix.
MarkOf(type, mark) ==
  /\ Len(mark.extra) = IF mark.suffix = ExtendedSuffix(type) THEN 1 ELSE 0
  /\ Len(mark.extra) = 1 => mark.extra[1].name = ExtendedBy(type)

\* The series of a metric differ in the suffix or the label.
Marked(floats, type, V) ==
  /\ floats \in Seq(Marks(V))
  /\ \A i \in 1 .. Len(floats) : MarkOf(type, floats[i])
  /\ \A i, j \in 1 .. Len(floats) :
       floats[i].suffix = floats[j].suffix /\ floats[i].extra = floats[j].extra => i = j

\* Series without a label of their own, and with one.
PlainMark(suffix, value) == Derived(suffix, <<>>, value)
LabelMark(suffix, name, text, value) == Derived(suffix, <<TextLabel(name, text)>>, value)

\* What has no label of its own is a series to be marked.
LEMMA PlainIsMark ==
  ASSUME NEW V, NEW value \in V \cup Nat, NEW suffix \in Wordings
  PROVE  /\ PlainMark(suffix, value) \in Marks(V)
         /\ PlainMark(suffix, value).suffix = suffix /\ PlainMark(suffix, value).value = value
         /\ PlainMark(suffix, value).extra = <<>> /\ Len(PlainMark(suffix, value).extra) = 0
<1> DEFINE none == <<>>
<1>1. none \in Extras /\ Len(none) = 0
  BY DEF Extras
<1>2. PlainMark(suffix, value) = [suffix |-> suffix, extra |-> none, value |-> value]
  BY DEF PlainMark, Derived
<1> HIDE DEF none
<1>3. /\ PlainMark(suffix, value) \in Marks(V)
      /\ PlainMark(suffix, value).suffix = suffix /\ PlainMark(suffix, value).value = value
      /\ PlainMark(suffix, value).extra = none
  BY <1>1, <1>2 DEF Marks
<1> QED
  BY <1>1, <1>3 DEF none

\* What the latter are made of.
MadeOf(mark, suffix, name, text, value) ==
  /\ mark.suffix = suffix /\ mark.value = value /\ Len(mark.extra) = 1
  /\ mark.extra[1].name = name /\ mark.extra[1].value = text

\* So is what has one label of its own.
LEMMA LabelIsMark ==
  ASSUME NEW V, NEW value \in V \cup Nat, NEW suffix \in Wordings, NEW name \in Texts,
         NEW text \in Texts
  PROVE  /\ LabelMark(suffix, name, text, value) \in Marks(V)
         /\ MadeOf(LabelMark(suffix, name, text, value), suffix, name, text, value)
<1> DEFINE l == TextLabel(name, text)
           one == <<l>>
<1>1. l \in TextLabels
  BY DEF TextLabels, TextLabel
<1>2. l.name = name /\ l.value = text
  BY DEF TextLabel
<1> HIDE DEF l
<1>3. one \in Extras /\ Len(one) = 1 /\ one[1] = l
  BY <1>1 DEF Extras
<1>4. LabelMark(suffix, name, text, value) = [suffix |-> suffix, extra |-> one, value |-> value]
  BY DEF LabelMark, Derived, l
<1> HIDE DEF one
<1>5. /\ LabelMark(suffix, name, text, value) \in Marks(V)
      /\ LabelMark(suffix, name, text, value).suffix = suffix
      /\ LabelMark(suffix, name, text, value).value = value
      /\ LabelMark(suffix, name, text, value).extra = one
  BY <1>3, <1>4 DEF Marks
<1> QED
  BY <1>2, <1>3, <1>5 DEF MadeOf

\* The suffixes are texts, and differ.
LEMMA SuffixesDiffer ==
  /\ <<>> \in Wordings /\ <<"_count">> \in Wordings /\ <<"_sum">> \in Wordings
  /\ <<"_bucket">> \in Wordings
  /\ <<"_count">> # <<"_sum">> /\ <<"_count">> # <<"_bucket">> /\ <<"_sum">> # <<"_bucket">>
  /\ <<>> # <<"_count">> /\ <<>> # <<"_sum">> /\ <<>> # <<"_bucket">>
<1>1. <<"_count">> # <<"_sum">> /\ <<"_count">> # <<"_bucket">> /\ <<"_sum">> # <<"_bucket">>
  OBVIOUS
<1>2. <<>> # <<"_count">> /\ <<>> # <<"_sum">> /\ <<>> # <<"_bucket">>
  OBVIOUS
<1>3. "_count" \in Characters /\ "_sum" \in Characters /\ "_bucket" \in Characters
  BY DEF Characters
<1>4. <<>> \in Wordings /\ \A c \in Characters : <<c>> \in Wordings
  BY DEF Wordings
<1> QED
  BY <1>1, <1>2, <1>3, <1>4

\* The series of a summary.
SummaryIs(s, summary, V) ==
  /\ s \in Seq(Marks(V)) /\ Len(s) = 2 + Len(summary.quantiles)
  /\ s[1] = PlainMark(<<"_count">>, summary.count)
  /\ s[2] = PlainMark(<<"_sum">>, summary.sum)
  /\ \A i \in 1 .. Len(summary.quantiles) :
       s[2 + i] = LabelMark(<<>>, QuantileLabel, FormatFloat(summary.quantiles[i].quantile),
                            summary.quantiles[i].value)

\* A summary has a series per quantile, its sum and its count.
LEMMA SummaryShape ==
  ASSUME NEW V, NEW summary \in Summaries(V)
  PROVE  SummaryIs(SummarySeries(summary), summary, V)
<1> DEFINE q == summary.quantiles
           n == Len(q)
           c == PlainMark(<<"_count">>, summary.count)
           t == PlainMark(<<"_sum">>, summary.sum)
           a == <<c, t>>
           M(i) == LabelMark(<<>>, QuantileLabel, FormatFloat(q[i].quantile), q[i].value)
           b == [i \in 1 .. n |-> M(i)]
<1>1. /\ q \in Seq([quantile : Floats, value : V]) /\ n \in Nat /\ DOMAIN q = 1 .. n
      /\ summary.count \in V /\ summary.sum \in V
  BY DEF Summaries
<1>2. SummarySeries(summary) = a \o b
  BY <1>1 DEF SummarySeries, PlainMark, LabelMark
<1>3. c \in Marks(V) /\ t \in Marks(V)
  BY <1>1, SuffixesDiffer, PlainIsMark
<1>4. ASSUME NEW i \in 1 .. n PROVE M(i) \in Marks(V)
  <2>1. q[i] \in [quantile : Floats, value : V]
    <3> DEFINE R == [quantile : Floats, value : V]
    <3>1. q \in Seq(R)
      BY <1>1
    <3> HIDE DEF R, q
    <3>2. q[i] \in R
      BY <3>1
    <3> QED
      BY <3>2 DEF R
  <2>2. FormatFloat(q[i].quantile) \in Texts /\ q[i].value \in V \cup Nat /\ QuantileLabel \in Texts
    BY <2>1 DEF Texts
  <2>3. <<>> \in Wordings
    BY SuffixesDiffer
  <2> DEFINE text == FormatFloat(q[i].quantile)
             value == q[i].value
  <2>4. text \in Texts /\ value \in V \cup Nat /\ QuantileLabel \in Texts
    BY <2>2
  <2> HIDE DEF text, value
  <2>5. LabelMark(<<>>, QuantileLabel, text, value) \in Marks(V)
    BY <2>3, <2>4, LabelIsMark
  <2> QED
    BY <2>5 DEF text, value
<1> HIDE DEF q, n, c, t, M
<1>5. a \in Seq(Marks(V)) /\ Len(a) = 2 /\ a[1] = c /\ a[2] = t
  BY <1>3
<1>6. b \in Seq(Marks(V)) /\ Len(b) = n /\ \A i \in 1 .. n : b[i] = M(i)
  BY <1>1, <1>4
<1> HIDE DEF a, b
<1>7. a \o b \in Seq(Marks(V)) /\ Following(a \o b, a, b)
  BY <1>5, <1>6, JoinedFollowing
<1> DEFINE s == a \o b
<1>8. s \in Seq(Marks(V)) /\ Following(s, a, b)
  BY <1>7
<1> HIDE DEF s
<1>9. /\ s \in Seq(Marks(V)) /\ Len(s) = 2 + n /\ s[1] = c /\ s[2] = t
      /\ \A i \in 1 .. n : s[2 + i] = M(i)
  <2>1. 1 \in 1 .. Len(a) /\ 2 \in 1 .. Len(a)
    BY <1>5
  <2> QED
    BY <1>5, <1>6, <1>8, <2>1 DEF Following
<1> QED
  BY <1>2, <1>9 DEF s, SummaryIs, M, q, n, c, t

\* The classic series of a histogram.
ExplicitInf(h) == h.buckets # <<>> /\ Last(h.buckets).bound = Infinity

ClassicIs(s, h, V) ==
  LET n == Len(h.buckets)
  IN /\ s \in Seq(Marks(V)) /\ Len(s) = 2 + n + IF ExplicitInf(h) THEN 0 ELSE 1
     /\ s[1] = PlainMark(<<"_count">>, Preferred(h.count))
     /\ s[2] = PlainMark(<<"_sum">>, h.sum)
     /\ \A i \in 1 .. n :
          s[2 + i] = LabelMark(<<"_bucket">>, LeLabel, FormatFloat(h.buckets[i].bound),
                               Preferred(h.buckets[i].count))
     /\ ~ExplicitInf(h) =>
          s[3 + n] = LabelMark(<<"_bucket">>, LeLabel, <<"+", "I">>, Preferred(h.count))

\* A classic histogram has a series per bucket, its sum and its count.
LEMMA ClassicShape ==
  ASSUME NEW V, NEW h \in ExposedHistograms(V)
  PROVE  ClassicIs(ClassicSeries(h), h, V)
<1> DEFINE q == h.buckets
           n == Len(q)
           count == Preferred(h.count)
           c == PlainMark(<<"_count">>, count)
           t == PlainMark(<<"_sum">>, h.sum)
           a == <<c, t>>
           M(i) == LabelMark(<<"_bucket">>, LeLabel, FormatFloat(q[i].bound),
                             Preferred(q[i].count))
           b == [i \in 1 .. n |-> M(i)]
           z == LabelMark(<<"_bucket">>, LeLabel, <<"+", "I">>, count)
           x == ExplicitInf(h)
           e == IF x THEN <<>> ELSE <<z>>
<1>1. /\ q \in Seq([bound : Floats, count : Amounts]) /\ n \in Nat /\ DOMAIN q = 1 .. n
      /\ h.count \in Amounts /\ h.sum \in V
  BY DEF ExposedHistograms
<1>2. ClassicSeries(h) = (a \o b) \o e
  BY <1>1 DEF ClassicSeries, PlainMark, LabelMark, ExplicitInf
<1>3. \A amount \in Amounts : Preferred(amount) \in Nat
  BY DEF Amounts, Preferred
<1>4. c \in Marks(V) /\ t \in Marks(V)
  <2>1. count \in V \cup Nat /\ h.sum \in V \cup Nat
    BY <1>1, <1>3
  <2> HIDE DEF count
  <2> QED
    BY <2>1, SuffixesDiffer, PlainIsMark
<1>5. LeLabel \in Texts
  BY DEF Texts
<1>6. ASSUME NEW i \in 1 .. n PROVE M(i) \in Marks(V)
  <2>1. q[i] \in [bound : Floats, count : Amounts]
    <3> DEFINE R == [bound : Floats, count : Amounts]
    <3>1. q \in Seq(R)
      BY <1>1
    <3> HIDE DEF R, q
    <3>2. q[i] \in R
      BY <3>1
    <3> QED
      BY <3>2 DEF R
  <2>2. FormatFloat(q[i].bound) \in Texts /\ Preferred(q[i].count) \in V \cup Nat
    BY <1>3, <2>1 DEF Texts
  <2> QED
    BY <1>5, <2>2, SuffixesDiffer, LabelIsMark
<1>7. z \in Marks(V)
  <2>1. <<"+", "I">> \in Wordings
    <3>1. "+" \in Characters /\ "I" \in Characters
      BY DEF Characters
    <3> QED
      BY <3>1 DEF Wordings
  <2>2. <<"+", "I">> \in Texts
    BY <2>1 DEF Texts
  <2>3. count \in V \cup Nat
    BY <1>1, <1>3
  <2>4. <<"_bucket">> \in Wordings
    BY SuffixesDiffer
  <2> HIDE DEF count
  <2> QED
    BY <1>5, <2>2, <2>3, <2>4, LabelIsMark
<1> HIDE DEF q, n, c, t, M, count, z, x
<1>8. a \in Seq(Marks(V)) /\ Len(a) = 2 /\ a[1] = c /\ a[2] = t
  BY <1>4
<1>9. b \in Seq(Marks(V)) /\ Len(b) = n /\ \A i \in 1 .. n : b[i] = M(i)
  BY <1>1, <1>6
<1>10. /\ e \in Seq(Marks(V))
       /\ x => Len(e) = 0
       /\ ~x => Len(e) = 1 /\ e[1] = z
  BY <1>7
<1> HIDE DEF a, b, e
<1>11. a \o b \in Seq(Marks(V)) /\ Following(a \o b, a, b)
  BY <1>8, <1>9, JoinedFollowing
<1> DEFINE u == a \o b
<1>12. u \in Seq(Marks(V)) /\ Following(u, a, b)
  BY <1>11
<1> HIDE DEF u
<1>13. /\ Len(u) = 2 + n /\ u[1] = c /\ u[2] = t /\ \A i \in 1 .. n : u[2 + i] = M(i)
  <2>1. 1 \in 1 .. Len(a) /\ 2 \in 1 .. Len(a)
    BY <1>8
  <2> QED
    BY <1>8, <1>9, <1>12, <2>1 DEF Following
<1>14. u \o e \in Seq(Marks(V)) /\ Following(u \o e, u, e)
  <2>1. e \in Seq(Marks(V))
    BY <1>10
  <2> QED
    BY <1>12, <2>1, JoinedFollowing
<1> DEFINE s == u \o e
<1>15. s \in Seq(Marks(V)) /\ Following(s, u, e)
  BY <1>14
<1> HIDE DEF s
<1>16. Len(s) = 2 + n + IF x THEN 0 ELSE 1
  <2>1. Len(s) = 2 + n + Len(e)
    BY <1>13, <1>15 DEF Following
  <2> QED
    BY <1>10, <2>1
<1>17. s[1] = c /\ s[2] = t /\ \A i \in 1 .. n : s[2 + i] = M(i)
  <2>1. \A i \in 1 .. 2 + n : s[i] = u[i]
    BY <1>13, <1>15 DEF Following
  <2>2. 1 \in 1 .. 2 + n /\ 2 \in 1 .. 2 + n /\ \A i \in 1 .. n : 2 + i \in 1 .. 2 + n
    BY <1>1 DEF n
  <2> QED
    BY <1>13, <2>1, <2>2
<1>18. ~x => s[3 + n] = z
  <2>1. SUFFICES ASSUME ~x PROVE s[3 + n] = z
    OBVIOUS
  <2>2. 1 \in 1 .. Len(e) /\ Len(u) + 1 = 3 + n /\ e[1] = z
    <3>1. Len(e) = 1 /\ e[1] = z
      BY <1>10, <2>1
    <3>2. Len(u) = 2 + n /\ n \in Nat
      BY <1>1, <1>13 DEF n
    <3> QED
      BY <3>1, <3>2
  <2>3. s[Len(u) + 1] = e[1]
    BY <1>15, <2>2 DEF Following
  <2> QED
    BY <2>2, <2>3
<1>19. ClassicIs(s, h, V)
  BY <1>15, <1>16, <1>17, <1>18 DEF ClassicIs, M, q, n, c, t, x, z, count
<1> QED
  BY <1>2, <1>19 DEF s, u

-----------------------------------------------------------------------------

\* A count, a sum and series with a label of their own are marked if those labels differ.
LEMMA MarksApart ==
  ASSUME NEW V, NEW s \in Seq(Marks(V)), NEW type, NEW m \in Nat, Len(s) = 2 + m,
         NEW c \in V \cup Nat, NEW t \in V \cup Nat,
         s[1] = PlainMark(<<"_count">>, c), s[2] = PlainMark(<<"_sum">>, t),
         \A i \in 1 .. m : /\ s[2 + i].suffix = ExtendedSuffix(type)
                           /\ Len(s[2 + i].extra) = 1
                           /\ s[2 + i].extra[1].name = ExtendedBy(type),
         \A i, j \in 1 .. m : s[2 + i].extra[1].value = s[2 + j].extra[1].value => i = j
  PROVE  Marked(s, type, V)
<1>1. /\ s[1].suffix = <<"_count">> /\ Len(s[1].extra) = 0
      /\ s[2].suffix = <<"_sum">> /\ Len(s[2].extra) = 0
  <2>1. <<"_count">> \in Wordings /\ <<"_sum">> \in Wordings
    BY SuffixesDiffer
  <2>2. /\ PlainMark(<<"_count">>, c).suffix = <<"_count">>
        /\ Len(PlainMark(<<"_count">>, c).extra) = 0
    BY <2>1, PlainIsMark
  <2>3. /\ PlainMark(<<"_sum">>, t).suffix = <<"_sum">>
        /\ Len(PlainMark(<<"_sum">>, t).extra) = 0
    BY <2>1, PlainIsMark
  <2> QED
    BY <2>2, <2>3
<1>2. /\ <<"_count">> # ExtendedSuffix(type) /\ <<"_sum">> # ExtendedSuffix(type)
      /\ <<"_count">> # <<"_sum">>
  BY SuffixesDiffer DEF ExtendedSuffix
<1>3. \A i \in 1 .. Len(s) : i = 1 \/ i = 2 \/ (i - 2 \in 1 .. m /\ 2 + (i - 2) = i)
  OBVIOUS
<1>4. ASSUME NEW i \in 1 .. Len(s) PROVE MarkOf(type, s[i])
  <2>1. CASE i = 1
    BY <1>1, <1>2, <2>1 DEF MarkOf
  <2>2. CASE i = 2
    BY <1>1, <1>2, <2>2 DEF MarkOf
  <2>3. CASE i - 2 \in 1 .. m /\ 2 + (i - 2) = i
    <3>1. s[i].suffix = ExtendedSuffix(type) /\ Len(s[i].extra) = 1 /\ s[i].extra[1].name = ExtendedBy(type)
      BY <2>3
    <3> QED
      BY <3>1 DEF MarkOf
  <2> QED
    BY <1>3, <2>1, <2>2, <2>3
<1>5. ASSUME NEW i \in 1 .. Len(s), NEW j \in 1 .. Len(s),
             s[i].suffix = s[j].suffix, s[i].extra = s[j].extra
      PROVE  i = j
  <2>1. \A k \in 1 .. Len(s) :
          \/ k = 1 /\ s[k].suffix = <<"_count">>
          \/ k = 2 /\ s[k].suffix = <<"_sum">>
          \/ k - 2 \in 1 .. m /\ 2 + (k - 2) = k /\ s[k].suffix = ExtendedSuffix(type)
    <3> TAKE k \in 1 .. Len(s)
    <3>1. CASE k = 1
      BY <1>1, <3>1
    <3>2. CASE k = 2
      BY <1>1, <3>2
    <3>3. CASE k - 2 \in 1 .. m /\ 2 + (k - 2) = k
      <4>1. s[2 + (k - 2)].suffix = ExtendedSuffix(type)
        BY <3>3
      <4> QED
        BY <3>3, <4>1
    <3> QED
      BY <1>3, <3>1, <3>2, <3>3
  <2>2. ASSUME i - 2 \in 1 .. m, 2 + (i - 2) = i, j - 2 \in 1 .. m, 2 + (j - 2) = j
        PROVE  i = j
    <3>1. s[2 + (i - 2)].extra[1].value = s[2 + (j - 2)].extra[1].value
      BY <1>5, <2>2
    <3>2. i - 2 = j - 2
      BY <2>2, <3>1
    <3> QED
      BY <3>2
  <2> QED
    BY <1>2, <1>5, <2>1, <2>2
<1> QED
  BY <1>4, <1>5 DEF Marked

\* The series of a summary differ in their suffixes or quantiles.
LEMMA SummaryMarked ==
  ASSUME NumbersPrintApart, NEW V, NEW summary \in Summaries(V),
         \A i, j \in 1 .. Len(summary.quantiles) :
           summary.quantiles[i].quantile = summary.quantiles[j].quantile => i = j
  PROVE  Marked(SummarySeries(summary), "summary", V)
<1> DEFINE q == summary.quantiles
           n == Len(q)
           s == SummarySeries(summary)
<1>1. SummaryIs(s, summary, V)
  BY SummaryShape
<1>2. /\ n \in Nat /\ summary.count \in V \cup Nat /\ summary.sum \in V \cup Nat
      /\ q \in Seq([quantile : Floats, value : V])
  BY DEF Summaries
<1>3. ASSUME NEW i \in 1 .. n
      PROVE  /\ q[i].quantile \in Floats
             /\ s[2 + i].suffix = <<>> /\ Len(s[2 + i].extra) = 1
             /\ s[2 + i].extra[1].name = QuantileLabel
             /\ s[2 + i].extra[1].value = FormatFloat(q[i].quantile)
  <2>1. q[i] \in [quantile : Floats, value : V]
    <3> DEFINE R == [quantile : Floats, value : V]
    <3>1. q \in Seq(R)
      BY <1>2
    <3> HIDE DEF R, q
    <3>2. q[i] \in R
      BY <3>1
    <3> QED
      BY <3>2 DEF R
  <2> DEFINE text == FormatFloat(q[i].quantile)
             value == q[i].value
             mark == s[2 + i]
  <2>2. text \in Texts /\ value \in V \cup Nat /\ QuantileLabel \in Texts
    BY <2>1 DEF Texts
  <2>3. mark = LabelMark(<<>>, QuantileLabel, text, value)
    BY <1>1 DEF SummaryIs
  <2>4. <<>> \in Wordings
    BY SuffixesDiffer
  <2> HIDE DEF text, value, mark
  <2>5. MadeOf(mark, <<>>, QuantileLabel, text, value)
    BY <2>2, <2>3, <2>4, LabelIsMark
  <2> QED
    BY <2>1, <2>5 DEF MadeOf, text, mark
<1>4. /\ s \in Seq(Marks(V)) /\ Len(s) = 2 + n
      /\ s[1] = PlainMark(<<"_count">>, summary.count) /\ s[2] = PlainMark(<<"_sum">>, summary.sum)
  BY <1>1 DEF SummaryIs
<1>5. \A i, j \in 1 .. n : q[i].quantile = q[j].quantile => i = j
  OBVIOUS
<1> HIDE DEF s, n, q
<1>6. \A i, j \in 1 .. n : s[2 + i].extra[1].value = s[2 + j].extra[1].value => i = j
  <2> TAKE i, j \in 1 .. n
  <2> HAVE s[2 + i].extra[1].value = s[2 + j].extra[1].value
  <2>1. FormatFloat(q[i].quantile) = FormatFloat(q[j].quantile)
    BY <1>3
  <2>2. q[i].quantile \in Floats /\ q[j].quantile \in Floats
    BY <1>3
  <2>3. q[i].quantile = q[j].quantile
    BY <2>1, <2>2, FloatsTell
  <2> QED
    BY <1>5, <2>3
<1>7. \A i \in 1 .. n : /\ s[2 + i].suffix = ExtendedSuffix("summary")
                        /\ Len(s[2 + i].extra) = 1
                        /\ s[2 + i].extra[1].name = ExtendedBy("summary")
  BY <1>3 DEF ExtendedSuffix, ExtendedBy
<1> DEFINE c == summary.count
           t == summary.sum
<1>8. /\ c \in V \cup Nat /\ t \in V \cup Nat
      /\ s[1] = PlainMark(<<"_count">>, c) /\ s[2] = PlainMark(<<"_sum">>, t)
  BY <1>2, <1>4
<1> HIDE DEF c, t
<1>9. Marked(s, "summary", V)
  BY <1>2, <1>4, <1>6, <1>7, <1>8, MarksApart
<1> QED
  BY <1>9 DEF s

\* The bounds of a histogram's buckets differ, and the one without a bound is the last.
BoundsApart(h) ==
  /\ \A i, j \in 1 .. Len(h.buckets) : h.buckets[i].bound = h.buckets[j].bound => i = j
  /\ \A i \in 1 .. Len(h.buckets) : h.buckets[i].bound = Infinity => i = Len(h.buckets)

\* What its classic series are, one by one.
BucketsAre(s, h) ==
  /\ \A i \in 1 .. Len(s) - 2 :
       s[2 + i].suffix = <<"_bucket">> /\ Len(s[2 + i].extra) = 1 /\ s[2 + i].extra[1].name = LeLabel
  /\ \A i \in 1 .. Len(h.buckets) :
       /\ s[2 + i].extra[1].value = FormatFloat(h.buckets[i].bound)
       /\ s[2 + i].value = Preferred(h.buckets[i].count)
  /\ ~ExplicitInf(h) =>
       /\ s[3 + Len(h.buckets)].extra[1].value = <<"+", "I">>
       /\ s[3 + Len(h.buckets)].value = Preferred(h.count)

\* The buckets shown are those exposed and, where it is missing, the last.
LEMMA BucketsShown ==
  ASSUME NEW V, NEW h \in ExposedHistograms(V), NEW s, ClassicIs(s, h, V)
  PROVE  BucketsAre(s, h)
<1> DEFINE q == h.buckets
           n == Len(q)
           m == n + IF ExplicitInf(h) THEN 0 ELSE 1
<1>1. /\ n \in Nat /\ q \in Seq([bound : Floats, count : Amounts]) /\ h.count \in Amounts
  BY DEF ExposedHistograms
<1>2. \A amount \in Amounts : Preferred(amount) \in Nat
  BY DEF Amounts, Preferred
<1>3. LeLabel \in Texts /\ <<"_bucket">> \in Wordings
  BY SuffixesDiffer DEF Texts
<1>4. ASSUME NEW i \in 1 .. n
      PROVE  /\ s[2 + i].suffix = <<"_bucket">> /\ Len(s[2 + i].extra) = 1
             /\ s[2 + i].extra[1].name = LeLabel
             /\ s[2 + i].extra[1].value = FormatFloat(q[i].bound)
             /\ s[2 + i].value = Preferred(q[i].count)
  <2>1. q[i] \in [bound : Floats, count : Amounts]
    <3> DEFINE R == [bound : Floats, count : Amounts]
    <3>1. q \in Seq(R)
      BY <1>1
    <3> HIDE DEF R, q
    <3>2. q[i] \in R
      BY <3>1
    <3> QED
      BY <3>2 DEF R
  <2> DEFINE text == FormatFloat(q[i].bound)
             value == Preferred(q[i].count)
             mark == s[2 + i]
  <2>2. text \in Texts /\ value \in V \cup Nat
    BY <1>2, <2>1 DEF Texts
  <2>3. mark = LabelMark(<<"_bucket">>, LeLabel, text, value)
    BY DEF ClassicIs
  <2> HIDE DEF text, value, mark
  <2>4. MadeOf(mark, <<"_bucket">>, LeLabel, text, value)
    BY <1>3, <2>2, <2>3, LabelIsMark
  <2> QED
    BY <2>4 DEF MadeOf, text, mark, value
<1>5. ASSUME ~ExplicitInf(h)
      PROVE  /\ s[3 + n].suffix = <<"_bucket">> /\ Len(s[3 + n].extra) = 1
             /\ s[3 + n].extra[1].name = LeLabel /\ s[3 + n].extra[1].value = <<"+", "I">>
             /\ s[3 + n].value = Preferred(h.count)
  <2> DEFINE text == <<"+", "I">>
             value == Preferred(h.count)
             mark == s[3 + n]
  <2>1. text \in Texts
    <3>1. "+" \in Characters /\ "I" \in Characters
      BY DEF Characters
    <3>2. text \in Wordings
      BY <3>1 DEF Wordings
    <3> QED
      BY <3>2 DEF Texts
  <2>2. value \in V \cup Nat
    BY <1>1, <1>2
  <2>3. mark = LabelMark(<<"_bucket">>, LeLabel, text, value)
    BY <1>5 DEF ClassicIs
  <2> HIDE DEF text, value, mark
  <2>4. MadeOf(mark, <<"_bucket">>, LeLabel, text, value)
    BY <1>3, <2>1, <2>2, <2>3, LabelIsMark
  <2> QED
    BY <2>4 DEF MadeOf, text, mark, value
<1>6. Len(s) - 2 = m
  <2> DEFINE k == IF ExplicitInf(h) THEN 0 ELSE 1
  <2>1. Len(s) = 2 + n + k /\ m = n + k
    BY DEF ClassicIs
  <2>2. k \in Nat
    OBVIOUS
  <2> HIDE DEF k, m
  <2> QED
    BY <1>1, <2>1, <2>2
<1>7. \A i \in 1 .. m : i \in 1 .. n \/ (i = n + 1 /\ ~ExplicitInf(h))
  <2> DEFINE x == ExplicitInf(h)
  <2>1. CASE x
    BY <1>1, <2>1
  <2>2. CASE ~x
    BY <1>1, <2>2
  <2> QED
    BY <2>1, <2>2
<1>8. \A i \in 1 .. m : /\ s[2 + i].suffix = <<"_bucket">> /\ Len(s[2 + i].extra) = 1
                        /\ s[2 + i].extra[1].name = LeLabel
  <2> TAKE i \in 1 .. m
  <2>1. CASE i \in 1 .. n
    BY <1>4, <2>1
  <2>2. CASE i = n + 1 /\ ~ExplicitInf(h)
    <3>1. 2 + i = 3 + n
      BY <1>1, <2>2
    <3> QED
      BY <1>5, <2>2, <3>1
  <2> QED
    BY <1>7, <2>1, <2>2
<1> HIDE DEF m, n, q
<1> QED
  BY <1>4, <1>5, <1>6, <1>8 DEF BucketsAre, n, q

\* The classic series of a histogram differ in their suffixes or bounds.
LEMMA ClassicMarked ==
  ASSUME NumbersPrintApart, NEW V, NEW h \in ExposedHistograms(V), BoundsApart(h)
  PROVE  Marked(ClassicSeries(h), "histogram", V)
<1> DEFINE q == h.buckets
           n == Len(q)
           s == ClassicSeries(h)
           x == ExplicitInf(h)
           m == n + IF x THEN 0 ELSE 1
<1>1. ClassicIs(s, h, V)
  BY ClassicShape
<1>2. BucketsAre(s, h)
  BY <1>1, BucketsShown
<1>3. /\ n \in Nat /\ q \in Seq([bound : Floats, count : Amounts])
      /\ h.count \in Amounts /\ h.sum \in V
  BY DEF ExposedHistograms
<1>4. Preferred(h.count) \in V \cup Nat /\ h.sum \in V \cup Nat
  BY <1>3 DEF Amounts, Preferred
<1>5. \A i \in 1 .. n : q[i].bound \in Floats
  <2> DEFINE R == [bound : Floats, count : Amounts]
  <2>1. q \in Seq(R)
    BY <1>3
  <2> HIDE DEF R, q
  <2>2. \A i \in 1 .. n : q[i] \in R
    BY <2>1
  <2> QED
    BY <2>2 DEF R
<1>6. /\ s \in Seq(Marks(V)) /\ Len(s) = 2 + m
      /\ s[1] = PlainMark(<<"_count">>, Preferred(h.count)) /\ s[2] = PlainMark(<<"_sum">>, h.sum)
  <2> DEFINE k == IF x THEN 0 ELSE 1
  <2>1. Len(s) = 2 + n + k /\ m = n + k
    BY <1>1 DEF ClassicIs
  <2>2. k \in Nat
    OBVIOUS
  <2> HIDE DEF k, m
  <2>3. Len(s) = 2 + m
    BY <1>3, <2>1, <2>2
  <2> QED
    BY <1>1, <2>3 DEF ClassicIs
<1>7. /\ \A i, j \in 1 .. n : q[i].bound = q[j].bound => i = j
      /\ \A i \in 1 .. n : q[i].bound = Infinity => i = n
  BY DEF BoundsApart
<1>8. ~x => \A i \in 1 .. n : q[i].bound # Infinity
  <2> SUFFICES ASSUME ~x, NEW i \in 1 .. n, q[i].bound = Infinity PROVE FALSE
    OBVIOUS
  <2>1. i = n
    BY <1>7
  <2>2. q # <<>>
    <3>1. SUFFICES ASSUME q = <<>> PROVE FALSE
      OBVIOUS
    <3>2. n = 0
      BY <3>1
    <3> QED
      BY <3>2
  <2> QED
    BY <2>1, <2>2 DEF ExplicitInf, Last
<1>9. /\ \A i \in 1 .. m : s[2 + i].suffix = <<"_bucket">> /\ Len(s[2 + i].extra) = 1
                           /\ s[2 + i].extra[1].name = LeLabel
      /\ \A i \in 1 .. n : s[2 + i].extra[1].value = FormatFloat(q[i].bound)
      /\ ~x => s[3 + n].extra[1].value = <<"+", "I">>
  <2>1. Len(s) - 2 = m
    BY <1>3, <1>6
  <2> QED
    BY <1>2, <2>1 DEF BucketsAre
<1>10. FormatFloat(Infinity) = <<"+", "I">> /\ Infinity \in Floats
  BY DEF FormatFloat, Infinity, Floats
<1>11. m \in Nat /\ \A i \in 1 .. m : i \in 1 .. n \/ (i = n + 1 /\ ~x)
  <2> HIDE DEF n, x
  <2>1. CASE x
    BY <1>3, <2>1
  <2>2. CASE ~x
    BY <1>3, <2>2
  <2> QED
    BY <2>1, <2>2
<1> HIDE DEF s, n, q, x, m
<1>12. \A i, j \in 1 .. m : s[2 + i].extra[1].value = s[2 + j].extra[1].value => i = j
  <2>1. ASSUME NEW i \in 1 .. n, NEW j \in 1 .. n,
               s[2 + i].extra[1].value = s[2 + j].extra[1].value
        PROVE  i = j
    <3>1. FormatFloat(q[i].bound) = FormatFloat(q[j].bound)
      BY <1>9, <2>1
    <3>2. q[i].bound \in Floats /\ q[j].bound \in Floats
      BY <1>5
    <3>3. q[i].bound = q[j].bound
      BY <3>1, <3>2, FloatsTell
    <3> QED
      BY <1>7, <3>3
  <2>2. ASSUME NEW i \in 1 .. n, ~x, s[2 + i].extra[1].value = s[3 + n].extra[1].value
        PROVE  FALSE
    <3>1. FormatFloat(q[i].bound) = FormatFloat(Infinity)
      BY <1>9, <1>10, <2>2
    <3>2. q[i].bound = Infinity
      BY <1>5, <1>10, <3>1, FloatsTell
    <3> QED
      BY <1>8, <2>2, <3>2
  <2> TAKE i, j \in 1 .. m
  <2> HAVE s[2 + i].extra[1].value = s[2 + j].extra[1].value
  <2>3. \A k \in 1 .. m : k \in 1 .. n \/ (k = n + 1 /\ 2 + k = 3 + n /\ ~x)
    BY <1>3, <1>11
  <2>4. CASE i \in 1 .. n /\ j \in 1 .. n
    BY <2>1, <2>4
  <2>5. CASE i \in 1 .. n /\ j = n + 1 /\ 2 + j = 3 + n /\ ~x
    BY <2>2, <2>5
  <2>6. CASE j \in 1 .. n /\ i = n + 1 /\ 2 + i = 3 + n /\ ~x
    <3>1. s[2 + j].extra[1].value = s[3 + n].extra[1].value
      BY <2>6
    <3> QED
      BY <2>2, <2>6, <3>1
  <2> QED
    BY <2>3, <2>4, <2>5, <2>6
<1>13. \A i \in 1 .. m : /\ s[2 + i].suffix = ExtendedSuffix("histogram")
                         /\ Len(s[2 + i].extra) = 1
                         /\ s[2 + i].extra[1].name = ExtendedBy("histogram")
  BY <1>9 DEF ExtendedSuffix, ExtendedBy
<1> DEFINE c == Preferred(h.count)
           t == h.sum
<1>14. /\ c \in V \cup Nat /\ t \in V \cup Nat
       /\ s[1] = PlainMark(<<"_count">>, c) /\ s[2] = PlainMark(<<"_sum">>, t)
  BY <1>4, <1>6
<1> HIDE DEF c, t
<1>15. Marked(s, "histogram", V)
  BY <1>6, <1>11, <1>12, <1>13, <1>14, MarksApart
<1> QED
  BY <1>15 DEF s

-----------------------------------------------------------------------------

\* The marks of a metric's series, that of its native histogram first.
MarksOf(type, metric, options) ==
  [i \in DOMAIN NativeOf(type, metric, options) |-> PlainMark(<<>>, 0)]
    \o FloatsOf(type, metric, options)

\* A series as it is marked.
SeriesIs(r, mark, name, pairs, stamp) ==
  /\ LabelledAs(r.labels, name, pairs, mark.suffix, mark.extra)
  /\ r.value = mark.value /\ r.timestamp = stamp

ConvertedAs(cm, marks, name, pairs, stamp) ==
  /\ \E S : cm \in Seq(S)
  /\ Len(cm) = Len(marks)
  /\ \A k \in 1 .. Len(cm) : SeriesIs(cm[k], marks[k], name, pairs, stamp)

\* A metric that is not malformed has the series of its marks, one for one.
LEMMA MetricConverted ==
  ASSUME NEW V, NEW family, family.name \in Wordings,
         NEW metric, metric.labels \in Seq(TextLabels), NEW default, NEW options,
         FloatsOf(family.type, metric, options) \in Seq(Marks(V)),
         ConvertMetric(family, metric, default, options) # Malformed
  PROVE  ConvertedAs(ConvertMetric(family, metric, default, options),
                     MarksOf(family.type, metric, options), family.name, metric.labels,
                     StampOf(metric, default, options))
<1> DEFINE name == family.name
           pairs == metric.labels
           stamp == StampOf(metric, default, options)
           floats == FloatsOf(family.type, metric, options)
           native == NativeOf(family.type, metric, options)
           base == BaseLabels(name, pairs)
           L(i) == DerivedLabels(base, floats[i].suffix, floats[i].extra)
           labels == [i \in DOMAIN floats |-> L(i)]
           Series(l, value, histogram) ==
             [labels |-> l, value |-> value, histogram |-> histogram, timestamp |-> stamp]
           a == [i \in DOMAIN native |-> Series(base, 0, native[i])]
           b == [i \in DOMAIN floats |-> Series(labels[i], floats[i].value, <<>>)]
           none == [i \in DOMAIN native |-> PlainMark(<<>>, 0)]
           n == Len(native)
           m == Len(floats)
           cm == ConvertMetric(family, metric, default, options)
<1>1. /\ base # Malformed /\ ~(\E i \in DOMAIN labels : labels[i] = Malformed)
      /\ cm = a \o b
  <2>1. cm = IF base = Malformed THEN Malformed
             ELSE IF native = <<Failed>> \/ \E i \in DOMAIN labels : labels[i] = Malformed
             THEN Malformed ELSE a \o b
    BY DEF ConvertMetric
  <2> HIDE DEF cm, a, b, native, labels, base
  <2> QED
    BY <2>1 DEF cm
<1>2. MarksOf(family.type, metric, options) = none \o floats
  BY DEF MarksOf
<1>3. n \in Nat /\ DOMAIN native = 1 .. n
  <2> DEFINE x == Convert(Exposed(metric.histogram), options.bucket_limit)
  <2>1. native = <<x>> \/ native = <<>>
    BY DEF NativeOf
  <2> HIDE DEF x, native
  <2> QED
    BY <2>1
<1>4. floats \in Seq(Marks(V)) /\ m \in Nat /\ DOMAIN floats = 1 .. m
  OBVIOUS
<1>5. LabelledAs(base, name, pairs, <<>>, <<>>)
  BY <1>1, BaseIs
<1>6. \A i \in 1 .. m : LabelledAs(labels[i], name, pairs, floats[i].suffix, floats[i].extra)
  <2> TAKE i \in 1 .. m
  <2>1. labels[i] = L(i) /\ labels[i] # Malformed
    BY <1>1, <1>4
  <2>2. floats[i].suffix \in Wordings /\ floats[i].extra \in Extras
    <3>1. floats[i] \in Marks(V)
      BY <1>4
    <3> QED
      BY <3>1 DEF Marks
  <2> DEFINE suffix == floats[i].suffix
             extra == floats[i].extra
  <2>3. /\ suffix \in Wordings /\ extra \in Extras /\ DerivedLabels(base, suffix, extra) # Malformed
        /\ labels[i] = DerivedLabels(base, suffix, extra) /\ name \in Wordings
        /\ pairs \in Seq(TextLabels)
    BY <2>1, <2>2
  <2> HIDE DEF suffix, extra, base, labels, name, pairs
  <2>4. LabelledAs(DerivedLabels(base, suffix, extra), name, pairs, suffix, extra)
    BY <1>5, <2>3, DerivedIs
  <2> QED
    BY <2>3, <2>4 DEF suffix, extra
<1>7. PlainMark(<<>>, 0) \in Marks(V) /\ PlainMark(<<>>, 0).suffix = <<>>
      /\ PlainMark(<<>>, 0).extra = <<>> /\ PlainMark(<<>>, 0).value = 0
  <2>1. 0 \in V \cup Nat /\ <<>> \in Wordings
    BY SuffixesDiffer
  <2> QED
    BY <2>1, PlainIsMark
<1> DEFINE S == {Series(base, 0, native[i]) : i \in 1 .. n}
                  \cup {Series(labels[i], floats[i].value, <<>>) : i \in 1 .. m}
<1>8. a \in Seq(S) /\ Len(a) = n /\ \A i \in 1 .. n : a[i] = Series(base, 0, native[i])
  <2>1. \A i \in 1 .. n : Series(base, 0, native[i]) \in S
    OBVIOUS
  <2> HIDE DEF S, Series
  <2>2. a = [i \in 1 .. n |-> Series(base, 0, native[i])]
    BY <1>3
  <2> HIDE DEF a, native, n, base
  <2> QED
    BY <1>3, <2>1, <2>2
<1>9. b \in Seq(S) /\ Len(b) = m
      /\ \A i \in 1 .. m : b[i] = Series(labels[i], floats[i].value, <<>>)
  <2>1. \A i \in 1 .. m : Series(labels[i], floats[i].value, <<>>) \in S
    OBVIOUS
  <2> HIDE DEF S, Series
  <2>2. b = [i \in 1 .. m |-> Series(labels[i], floats[i].value, <<>>)]
    BY <1>4
  <2> HIDE DEF b, floats, m, labels
  <2> QED
    BY <1>4, <2>1, <2>2
<1>10. none \in Seq(Marks(V)) /\ Len(none) = n /\ \A i \in 1 .. n : none[i] = PlainMark(<<>>, 0)
  <2> DEFINE p == PlainMark(<<>>, 0)
  <2>1. none = [i \in 1 .. n |-> p] /\ p \in Marks(V)
    BY <1>3, <1>7
  <2> HIDE DEF none, p, n
  <2>2. none \in Seq(Marks(V)) /\ Len(none) = n /\ \A i \in 1 .. n : none[i] = p
    BY <1>3, <2>1
  <2> QED
    BY <2>2 DEF p
<1> HIDE DEF S, a, b, none, native, labels, base, cm, floats
<1>11. cm \in Seq(S) /\ Following(cm, a, b)
  BY <1>1, <1>8, <1>9, JoinedFollowing
<1> DEFINE marks == MarksOf(family.type, metric, options)
<1>12. marks \in Seq(Marks(V)) /\ Following(marks, none, floats)
  BY <1>2, <1>4, <1>10, JoinedFollowing
<1> HIDE DEF n, m, marks
<1>13. Len(cm) = n + m /\ Len(marks) = n + m
  BY <1>8, <1>9, <1>10, <1>11, <1>12 DEF Following, m
<1>14. ASSUME NEW k \in 1 .. Len(cm) PROVE SeriesIs(cm[k], marks[k], name, pairs, stamp)
  <2>1. CASE k <= n
    <3>1. k \in 1 .. n
      BY <1>3, <1>4, <1>13, <2>1
    <3>2. cm[k] = a[k] /\ marks[k] = none[k]
      BY <1>8, <1>10, <1>11, <1>12, <3>1 DEF Following
    <3>3. cm[k] = Series(base, 0, native[k]) /\ marks[k] = PlainMark(<<>>, 0)
      BY <1>8, <1>10, <3>1, <3>2
    <3>4. cm[k].labels = base /\ cm[k].value = 0 /\ cm[k].timestamp = stamp
      BY <3>3
    <3> QED
      BY <1>5, <1>7, <3>3, <3>4 DEF SeriesIs
  <2>2. CASE k > n
    <3> DEFINE j == k - n
    <3>1. j \in 1 .. m /\ n + j = k
      BY <1>3, <1>4, <1>13, <2>2
    <3> HIDE DEF j
    <3>2. cm[k] = b[j] /\ marks[k] = floats[j]
      <4>1. cm[Len(a) + j] = b[j] /\ marks[Len(none) + j] = floats[j]
        BY <1>8, <1>9, <1>10, <1>11, <1>12, <3>1 DEF Following, m
      <4> QED
        BY <1>8, <1>10, <3>1, <4>1
    <3>3. cm[k] = Series(labels[j], floats[j].value, <<>>)
      BY <1>9, <3>1, <3>2
    <3>4. cm[k].labels = labels[j] /\ cm[k].value = floats[j].value /\ cm[k].timestamp = stamp
      BY <3>3
    <3> QED
      BY <1>6, <3>1, <3>2, <3>4 DEF SeriesIs
  <2> QED
    BY <1>3, <1>4, <1>13, <2>1, <2>2
<1>15. ConvertedAs(cm, marks, name, pairs, stamp)
  BY <1>11, <1>13, <1>14 DEF ConvertedAs
<1> QED
  BY <1>15 DEF cm, marks

\* Whether the quantiles of a metric and the bounds of its histogram differ.
Ordered(metric) ==
  /\ \A i, j \in 1 .. Len(metric.summary.quantiles) :
       metric.summary.quantiles[i].quantile = metric.summary.quantiles[j].quantile => i = j
  /\ BoundsApart(metric.histogram)

\* The suffixes of a histogram's classic series.
LEMMA ClassicSuffixes ==
  ASSUME NEW V, NEW h \in ExposedHistograms(V)
  PROVE  /\ Len(ClassicSeries(h)) >= 2 /\ Len(ClassicSeries(h)) \in Nat
         /\ ClassicSeries(h)[1].suffix = <<"_count">> /\ ClassicSeries(h)[2].suffix = <<"_sum">>
         /\ \A i \in 3 .. Len(ClassicSeries(h)) : ClassicSeries(h)[i].suffix = <<"_bucket">>
<1> DEFINE s == ClassicSeries(h)
<1>1. ClassicIs(s, h, V)
  BY ClassicShape
<1>2. BucketsAre(s, h)
  BY <1>1, BucketsShown
<1>3. Len(h.buckets) \in Nat /\ h.count \in Amounts /\ h.sum \in V
  BY DEF ExposedHistograms
<1> HIDE DEF s
<1>4. Len(s) \in Nat /\ Len(s) >= 2
  <2> DEFINE k == IF ExplicitInf(h) THEN 0 ELSE 1
  <2>1. Len(s) = 2 + Len(h.buckets) + k /\ k \in Nat
    BY <1>1 DEF ClassicIs
  <2> HIDE DEF k
  <2> QED
    BY <1>3, <2>1
<1>5. s[1].suffix = <<"_count">>
  <2>1. s[1] = PlainMark(<<"_count">>, Preferred(h.count))
    BY <1>1 DEF ClassicIs
  <2>2. Preferred(h.count) \in V \cup Nat
    BY <1>3 DEF Amounts, Preferred
  <2> QED
    <3>1. <<"_count">> \in Wordings
      BY SuffixesDiffer
    <3>2. PlainMark(<<"_count">>, Preferred(h.count)).suffix = <<"_count">>
      BY <2>2, <3>1, PlainIsMark
    <3> QED
      BY <2>1, <3>2
<1>6. s[2].suffix = <<"_sum">>
  <2>1. s[2] = PlainMark(<<"_sum">>, h.sum)
    BY <1>1 DEF ClassicIs
  <2>2. h.sum \in V \cup Nat
    BY <1>3
  <2> QED
    <3>1. <<"_sum">> \in Wordings
      BY SuffixesDiffer
    <3>2. PlainMark(<<"_sum">>, h.sum).suffix = <<"_sum">>
      BY <2>2, <3>1, PlainIsMark
    <3> QED
      BY <2>1, <3>2
<1>7. \A i \in 3 .. Len(s) : s[i].suffix = <<"_bucket">>
  <2> TAKE i \in 3 .. Len(s)
  <2>1. i - 2 \in 1 .. Len(s) - 2 /\ 2 + (i - 2) = i
    BY <1>4
  <2>2. s[2 + (i - 2)].suffix = <<"_bucket">>
    BY <1>2, <2>1 DEF BucketsAre
  <2> QED
    BY <2>1, <2>2
<1> QED
  BY <1>4, <1>5, <1>6, <1>7 DEF s

-----------------------------------------------------------------------------

\* Nothing in front of marked series, or one that none of them is.
LEMMA MarkedFollowing ==
  ASSUME NEW V, NEW s, NEW type, Marked(s, type, V), ExtendedSuffix(type) # <<>>,
         \A i \in 1 .. Len(s) : s[i].suffix # <<>>
  PROVE  Marked(<<PlainMark(<<>>, 0)>> \o s, type, V)
<1> DEFINE x == PlainMark(<<>>, 0)
           t == <<x>> \o s
<1>1. x \in Marks(V) /\ x.suffix = <<>> /\ Len(x.extra) = 0
  <2>1. 0 \in V \cup Nat /\ <<>> \in Wordings
    BY SuffixesDiffer
  <2> QED
    BY <2>1, PlainIsMark
<1>2. s \in Seq(Marks(V))
  BY DEF Marked
<1> HIDE DEF x
<1>3. /\ t \in Seq(Marks(V)) /\ Len(t) = 1 + Len(s)
      /\ t[1] = x /\ \A i \in 1 .. Len(s) : t[1 + i] = s[i]
  BY <1>1, <1>2, WithFirst
<1> HIDE DEF t
<1>4. Len(s) \in Nat
  BY <1>2
<1>5. \A i \in 1 .. Len(t) : i = 1 \/ (i - 1 \in 1 .. Len(s) /\ t[i] = s[i - 1])
  <2> TAKE i \in 1 .. Len(t)
  <2>1. CASE i # 1
    <3>1. i - 1 \in 1 .. Len(s) /\ 1 + (i - 1) = i
      BY <1>3, <1>4, <2>1
    <3>2. t[1 + (i - 1)] = s[i - 1]
      BY <1>3, <3>1
    <3> QED
      BY <3>1, <3>2
  <2> QED
    BY <2>1
<1>6. \A i \in 1 .. Len(t) : MarkOf(type, t[i])
  <2> TAKE i \in 1 .. Len(t)
  <2>1. CASE i = 1
    BY <1>1, <1>3, <2>1 DEF MarkOf
  <2>2. CASE i - 1 \in 1 .. Len(s) /\ t[i] = s[i - 1]
    BY <2>2 DEF Marked
  <2> QED
    BY <1>5, <2>1, <2>2
<1>7. \A i, j \in 1 .. Len(t) : t[i].suffix = t[j].suffix /\ t[i].extra = t[j].extra => i = j
  <2> TAKE i, j \in 1 .. Len(t)
  <2> HAVE t[i].suffix = t[j].suffix /\ t[i].extra = t[j].extra
  <2>1. CASE i = 1 /\ j - 1 \in 1 .. Len(s) /\ t[j] = s[j - 1]
    BY <1>1, <1>3, <2>1
  <2>2. CASE j = 1 /\ i - 1 \in 1 .. Len(s) /\ t[i] = s[i - 1]
    BY <1>1, <1>3, <2>2
  <2>3. CASE i - 1 \in 1 .. Len(s) /\ t[i] = s[i - 1] /\ j - 1 \in 1 .. Len(s) /\ t[j] = s[j - 1]
    <3>1. i - 1 = j - 1
      BY <2>3 DEF Marked
    <3> QED
      BY <3>1
  <2> QED
    BY <1>5, <2>1, <2>2, <2>3
<1> QED
  BY <1>3, <1>6, <1>7 DEF Marked, t, x

Histogrammic(type) == type \in {"histogram", "gauge histogram"}

\* The series of a metric differ in their suffixes or the labels of their own.
LEMMA MetricMarked ==
  ASSUME NumbersPrintApart, NEW V, NEW metric \in Metrics(V), Ordered(metric),
         NEW type, NEW options
  PROVE  /\ FloatsOf(type, metric, options) \in Seq(Marks(V))
         /\ Marked(MarksOf(type, metric, options), type, V)
<1> DEFINE floats == FloatsOf(type, metric, options)
           native == NativeOf(type, metric, options)
           h == metric.histogram
           none == [i \in DOMAIN native |-> PlainMark(<<>>, 0)]
           marks == MarksOf(type, metric, options)
<1>1. h \in ExposedHistograms(V) /\ metric.summary \in Summaries(V) /\ metric.value \in V
  BY DEF Metrics
<1>2. marks = none \o floats
  BY DEF MarksOf
<1>3. ASSUME ~(Histogrammic(type) /\ WantsNative(h, options)), floats \in Seq(Marks(V))
      PROVE  marks = floats
  <2>1. native = <<>>
    BY <1>3 DEF NativeOf, Histogrammic
  <2>2. none = <<>>
    <3>1. DOMAIN native = {}
      BY <2>1
    <3> HIDE DEF native
    <3> QED
      BY <3>1
  <2> HIDE DEF none, floats, marks
  <2>3. <<>> \o floats = floats
    BY <1>3, NothingBefore
  <2> QED
    BY <1>2, <2>2, <2>3
<1>4. CASE type = "summary"
  <2>1. floats = SummarySeries(metric.summary)
    BY <1>4 DEF FloatsOf
  <2>2. Marked(floats, "summary", V)
    BY <1>1, <2>1, SummaryMarked DEF Ordered
  <2>3. floats \in Seq(Marks(V))
    BY <2>2 DEF Marked
  <2>4. marks = floats
    BY <1>3, <1>4, <2>3 DEF Histogrammic
  <2> QED
    BY <1>4, <2>2, <2>3, <2>4
<1>5. CASE Histogrammic(type)
  <2> DEFINE s == ClassicSeries(h)
  <2>1. floats = IF WantsClassic(h, options) THEN s ELSE <<>>
    BY <1>5 DEF FloatsOf, Histogrammic
  <2>2. Marked(s, type, V) /\ \A i \in 1 .. Len(s) : s[i].suffix # <<>>
    <3>1. Marked(s, "histogram", V)
      BY <1>1, ClassicMarked DEF Ordered
    <3>2. \A mark : MarkOf("histogram", mark) => MarkOf(type, mark)
      BY <1>5 DEF MarkOf, ExtendedSuffix, ExtendedBy, Histogrammic
    <3>3. Marked(s, type, V)
      <4> HIDE DEF s
      <4> QED
        BY <3>1, <3>2 DEF Marked
    <3>4. /\ Len(s) \in Nat /\ s[1].suffix = <<"_count">> /\ s[2].suffix = <<"_sum">>
          /\ \A i \in 3 .. Len(s) : s[i].suffix = <<"_bucket">>
      BY <1>1, ClassicSuffixes
    <3> HIDE DEF s
    <3>5. \A i \in 1 .. Len(s) : i = 1 \/ i = 2 \/ i \in 3 .. Len(s)
      BY <3>4
    <3>6. <<"_count">> # <<>> /\ <<"_sum">> # <<>> /\ <<"_bucket">> # <<>>
      BY SuffixesDiffer
    <3> QED
      BY <3>3, <3>4, <3>5, <3>6
  <2>3. ExtendedSuffix(type) # <<>>
    BY <1>5, SuffixesDiffer DEF ExtendedSuffix, Histogrammic
  <2> HIDE DEF s
  <2>4. /\ Marked(floats, type, V)
        /\ \A i \in 1 .. Len(floats) : floats[i].suffix # <<>>
    <3>1. CASE WantsClassic(h, options)
      BY <2>1, <2>2, <3>1
    <3>2. CASE ~WantsClassic(h, options)
      <4>1. floats = <<>>
        BY <2>1, <3>2
      <4> HIDE DEF floats
      <4> DEFINE e == <<>>
      <4>2. e \in Seq(Marks(V)) /\ Len(e) = 0
        OBVIOUS
      <4>3. floats = e
        BY <4>1
      <4> HIDE DEF e
      <4> QED
        BY <4>2, <4>3 DEF Marked
    <3> QED
      BY <3>1, <3>2
  <2>5. floats \in Seq(Marks(V))
    BY <2>4 DEF Marked
  <2>6. CASE WantsNative(h, options)
    <3> DEFINE x == Convert(Exposed(h), options.bucket_limit)
    <3>1. native = <<x>>
      BY <1>5, <2>6 DEF NativeOf, Histogrammic
    <3>2. none = <<PlainMark(<<>>, 0)>>
      <4> DEFINE p == PlainMark(<<>>, 0)
      <4> HIDE DEF x, p
      <4>1. DOMAIN native = {1}
        BY <3>1
      <4> HIDE DEF native
      <4>2. [i \in DOMAIN native |-> p] = <<p>>
        BY <4>1
      <4> QED
        BY <4>2 DEF p
    <3> HIDE DEF floats, none, marks
    <3>3. Marked(<<PlainMark(<<>>, 0)>> \o floats, type, V)
      BY <2>3, <2>4, MarkedFollowing
    <3>4. Marked(marks, type, V)
      BY <1>2, <3>2, <3>3
    <3> QED
      BY <2>5, <3>4 DEF floats, marks
  <2>7. CASE ~WantsNative(h, options)
    BY <1>3, <2>4, <2>5, <2>7
  <2> QED
    BY <2>6, <2>7
<1>6. CASE type # "summary" /\ ~Histogrammic(type)
  <2> DEFINE p == PlainMark(<<>>, metric.value)
             one == <<p>>
  <2>1. floats = one
    BY <1>6 DEF FloatsOf, Histogrammic, PlainMark
  <2>2. p \in Marks(V) /\ p.suffix = <<>> /\ Len(p.extra) = 0
    <3> DEFINE v == metric.value
    <3>1. v \in V \cup Nat /\ <<>> \in Wordings
      BY <1>1, SuffixesDiffer
    <3> HIDE DEF v
    <3>2. /\ PlainMark(<<>>, v) \in Marks(V) /\ PlainMark(<<>>, v).suffix = <<>>
          /\ Len(PlainMark(<<>>, v).extra) = 0
      BY <3>1, PlainIsMark
    <3> QED
      BY <3>2 DEF v
  <2>3. MarkOf(type, p)
    BY <1>6, <2>2, SuffixesDiffer DEF MarkOf, ExtendedSuffix
  <2> HIDE DEF p
  <2>4. one \in Seq(Marks(V)) /\ Len(one) = 1 /\ one[1] = p
    BY <2>2
  <2> HIDE DEF one
  <2>5. Marked(one, type, V)
    BY <2>3, <2>4 DEF Marked
  <2>6. marks = floats
    BY <1>3, <1>6, <2>1, <2>4
  <2> QED
    BY <2>1, <2>4, <2>5, <2>6
<1> QED
  BY <1>4, <1>5, <1>6

-----------------------------------------------------------------------------

\* Gathering gives a sequence of series, or Malformed.
LEMMA GatherTyped ==
  ASSUME NEW R, NEW out \in Seq(R) \cup {Malformed}, NEW series \in Seq(R) \cup {Malformed}
  PROVE  Gather(out, series) \in Seq(R) \cup {Malformed}
<1>1. CASE out = Malformed \/ series = Malformed
  BY <1>1 DEF Gather
<1>2. CASE out # Malformed /\ series # Malformed
  <2>1. out \in Seq(R) /\ series \in Seq(R) /\ Gather(out, series) = out \o series
    BY <1>2 DEF Gather
  <2> QED
    BY <2>1
<1> QED
  BY <1>1, <1>2

\* The series of the metrics of a family.
Folded(family, metrics, default, options) ==
  FoldLeft(LAMBDA out, metric : Gather(out, ConvertMetric(family, metric, default, options)),
           <<>>, metrics)

\* How they are gathered, metric by metric.
GatheredBy(h, family, metrics, default, options) ==
  /\ h[0] = <<>>
  /\ \A i \in 1 .. Len(metrics) :
       h[i] = Gather(h[i - 1], ConvertMetric(family, metrics[i], default, options))
  /\ h[Len(metrics)] = Folded(family, metrics, default, options)

\* A family is converted metric by metric.
LEMMA FamilySteps ==
  ASSUME NEW M, NEW family, NEW metrics \in Seq(M), NEW default, NEW options, NEW R,
         \A x \in M : ConvertMetric(family, x, default, options) \in Seq(R) \cup {Malformed}
  PROVE  \E h \in [0 .. Len(metrics) -> Seq(R) \cup {Malformed}] :
           GatheredBy(h, family, metrics, default, options)
<1> DEFINE n == Len(metrics)
           LS == Seq(R) \cup {Malformed}
           Op(acc, x) == Gather(acc, ConvertMetric(family, x, default, options))
           Follows(f) == f = [s \in SUBSET (1 .. n) |->
                                IF s = {} THEN <<>>
                                ELSE Op(f[s \ {Max(s)}], metrics[Max(s)])]
           f == CHOOSE f : Follows(f)
           h == [i \in 0 .. n |-> f[1 .. i]]
           folded == Folded(family, metrics, default, options)
<1>1. n \in Nat /\ DOMAIN metrics = 1 .. n /\ \A i \in 1 .. n : metrics[i] \in M
  OBVIOUS
<1>2. folded = f[1 .. n]
  BY <1>1 DEF Folded, FoldLeft, MapThenFoldSet
<1> HIDE DEF n, folded
<1>3. <<>> \in LS
  OBVIOUS
<1>4. ASSUME NEW acc \in LS, NEW i \in 1 .. n
      PROVE  Op(acc, metrics[i]) \in LS
  BY <1>1, GatherTyped
<1> HIDE DEF LS, Op
<1>5. PICK g \in [SUBSET (1 .. n) -> LS] : Follows(g)
  <2> DEFINE step == [i \in 1 .. n |-> [acc \in LS |-> Op(acc, metrics[i])]]
  <2>1. step \in [1 .. n -> [LS -> LS]]
    BY <1>4
  <2> HIDE DEF step
  <2>2. PICK g \in [SUBSET (1 .. n) -> LS] : GoesBy(g, n, <<>>, step)
    <3> HIDE DEF f, h, Follows
    <3> QED
      BY <1>1, <1>3, <2>1, FoldIsDefined
  <2>3. ASSUME NEW s \in SUBSET (1 .. n)
        PROVE  g[s] = IF s = {} THEN <<>> ELSE Op(g[s \ {Max(s)}], metrics[Max(s)])
    <3>1. CASE s = {}
      BY <2>2, <3>1 DEF GoesBy
    <3>2. CASE s # {}
      <4>1. Max(s) \in s /\ g[s] = step[Max(s)][g[s \ {Max(s)}]]
        BY <2>2, <3>2 DEF GoesBy
      <4>2. g[s \ {Max(s)}] \in LS /\ Max(s) \in 1 .. n
        BY <4>1
      <4> QED
        BY <3>2, <4>1, <4>2 DEF step
    <3> QED
      BY <3>1, <3>2
  <2>4. g = [s \in SUBSET (1 .. n) |-> g[s]]
    OBVIOUS
  <2>5. Follows(g)
    BY <2>3, <2>4
  <2> HIDE DEF Follows
  <2> QED
    BY <2>5
<1>6. Follows(f)
  <2> HIDE DEF Follows
  <2> QED
    BY <1>5
<1> HIDE DEF f
<1>7. h[0] = <<>>
  <2>1. 1 .. 0 = {} /\ 0 \in 0 .. n /\ f[{}] = <<>>
    BY <1>1, <1>6
  <2> QED
    BY <2>1
<1>8. ASSUME NEW i \in 1 .. n
      PROVE  h[i] = Op(h[i - 1], metrics[i])
  <2>1. /\ 1 .. i \in SUBSET (1 .. n) /\ 1 .. i # {}
        /\ Max(1 .. i) = i /\ (1 .. i) \ {i} = 1 .. i - 1
    BY <1>1, UpTo
  <2>2. f[1 .. i] = Op(f[(1 .. i) \ {Max(1 .. i)}], metrics[Max(1 .. i)])
    BY <1>6, <2>1
  <2>3. i \in 0 .. n /\ i - 1 \in 0 .. n
    BY <1>1
  <2> QED
    BY <2>1, <2>2, <2>3
<1> HIDE DEF Follows
<1>9. h[n] = folded
  <2>1. n \in 0 .. n
    BY <1>1
  <2> HIDE DEF f
  <2> QED
    BY <1>2, <2>1
<1>10. \A i \in 0 .. n : h[i] \in LS
  <2> DEFINE Done == {i \in 0 .. n : h[i] \in LS}
  <2>1. 0 \in Done
    BY <1>1, <1>3, <1>7
  <2>2. \A i \in 1 .. n : i - 1 \in Done => i \in Done
    <3> HIDE DEF h
    <3> QED
      BY <1>1, <1>4, <1>8
  <2> HIDE DEF Done
  <2>3. 0 .. n \subseteq Done
    BY <1>1, <2>1, <2>2, BoundedInduction
  <2> QED
    BY <2>3 DEF Done
<1>11. h \in [0 .. n -> LS]
  BY <1>10
<1> HIDE DEF h
<1>12. GatheredBy(h, family, metrics, default, options)
  BY <1>7, <1>8, <1>9 DEF n, Op, folded, GatheredBy
<1> QED
  BY <1>11, <1>12 DEF n, LS

-----------------------------------------------------------------------------

\* A sequence of what its elements are.
LEMMA NarrowedSeq ==
  ASSUME NEW S, NEW s \in Seq(S), NEW R, \A i \in 1 .. Len(s) : s[i] \in R
  PROVE  s \in Seq(R)
<1>1. s = [i \in 1 .. Len(s) |-> s[i]] /\ Len(s) \in Nat
  OBVIOUS
<1> QED
  BY <1>1

\* Two series of a family with one set of labels are marked alike, and come from metrics
\* with one set of labels.
LEMMA SeriesTell ==
  ASSUME NEW V, NEW type, NEW name \in Wordings,
         NEW f \in Marks(V), MarkOf(type, f), NEW g \in Marks(V), MarkOf(type, g),
         NEW p \in Seq(TextLabels), NEW q \in Seq(TextLabels), NEW u, NEW v,
         NEW r, SeriesIs(r, f, name, p, u), NEW s, SeriesIs(s, g, name, q, v),
         ToSet(r.labels) = ToSet(s.labels)
  PROVE  f.suffix = g.suffix /\ f.extra = g.extra /\ ToSet(p) = ToSet(q)
<1> DEFINE a == f.suffix
           b == g.suffix
           x == f.extra
           y == g.extra
           c == r.labels
           d == s.labels
<1>1. a \in Wordings /\ b \in Wordings /\ x \in Extras /\ y \in Extras
  BY DEF Marks
<1>2. /\ Len(x) = IF a = ExtendedSuffix(type) THEN 1 ELSE 0
      /\ Len(x) = 1 => x[1].name = ExtendedBy(type)
  BY DEF MarkOf
<1>3. /\ Len(y) = IF b = ExtendedSuffix(type) THEN 1 ELSE 0
      /\ Len(y) = 1 => y[1].name = ExtendedBy(type)
  BY DEF MarkOf
<1>4. LabelledAs(c, name, p, a, x)
  BY DEF SeriesIs
<1>5. LabelledAs(d, name, q, b, y)
  BY DEF SeriesIs
<1>6. ToSet(c) = ToSet(d)
  OBVIOUS
<1> HIDE DEF a, b, x, y, c, d
<1>7. Alike(a, b, x, y, p, q)
  BY <1>1, <1>4, <1>5, <1>6, LabelsTell
<1>8. Len(x) = Len(y) /\ (Len(x) = 1 => x[1].name = y[1].name)
  BY <1>2, <1>3, <1>7 DEF Alike
<1> QED
  BY <1>7, <1>8 DEF Alike, a, b, x, y

\* The marks of the i-th metric of a family.
MarksAt(family, options, i) == MarksOf(family.type, family.metrics[i], options)

\* A series that comes from the p-th metric of a family.
Comes(r, family, default, options, p) ==
  \E k \in 1 .. Len(MarksAt(family, options, p)) :
    SeriesIs(r, MarksAt(family, options, p)[k], family.name, family.metrics[p].labels,
             StampOf(family.metrics[p], default, options))

\* Series of the first i metrics of a family, told apart by their labels.
GatheredAs(out, family, default, options, i) ==
  /\ \E S : out \in Seq(S)
  /\ \A a \in 1 .. Len(out) : \E p \in 1 .. i : Comes(out[a], family, default, options, p)
  /\ \A a, b \in 1 .. Len(out) : ToSet(out[a].labels) = ToSet(out[b].labels) => a = b

\* What the values of a family are, over any that metrics have.
Families(V) == [name : Wordings, type : {"unknown"} \cup KnownTypes, metrics : Seq(Metrics(V))]

\* One metric more.
LEMMA GatheredNext ==
  ASSUME NumbersPrintApart, NEW V, NEW family \in Families(V), NEW default, NEW options,
         \A i, j \in 1 .. Len(family.metrics) :
           ToSet(family.metrics[i].labels) = ToSet(family.metrics[j].labels) => i = j,
         \A i \in 1 .. Len(family.metrics) : Ordered(family.metrics[i]),
         NEW i \in 1 .. Len(family.metrics), NEW out,
         GatheredAs(out, family, default, options, i - 1),
         ConvertMetric(family, family.metrics[i], default, options) # Malformed
  PROVE  GatheredAs(out \o ConvertMetric(family, family.metrics[i], default, options),
                    family, default, options, i)
<1> DEFINE name == family.name
           type == family.type
           metrics == family.metrics
           n == Len(metrics)
           cm == ConvertMetric(family, metrics[i], default, options)
           mk(p) == MarksAt(family, options, p)
           pairs(p) == metrics[p].labels
           stamp(p) == StampOf(metrics[p], default, options)
<1>1. name \in Wordings /\ metrics \in Seq(Metrics(V)) /\ n \in Nat
  BY DEF Families
<1>2. ASSUME NEW p \in 1 .. n
      PROVE  /\ metrics[p] \in Metrics(V) /\ pairs(p) \in Seq(TextLabels)
             /\ FloatsOf(type, metrics[p], options) \in Seq(Marks(V))
             /\ Marked(mk(p), type, V)
  <2> DEFINE metric == metrics[p]
  <2>1. metric \in Metrics(V)
    <3> DEFINE R == Metrics(V)
    <3>1. metrics \in Seq(R)
      BY <1>1
    <3> HIDE DEF R, metrics
    <3> QED
      BY <3>1 DEF R
  <2>2. Ordered(metric) /\ metric.labels \in Seq(TextLabels)
    BY <2>1 DEF Metrics
  <2>3. mk(p) = MarksOf(type, metric, options)
    BY DEF MarksAt
  <2> HIDE DEF metric, mk
  <2>4. /\ FloatsOf(type, metric, options) \in Seq(Marks(V))
        /\ Marked(MarksOf(type, metric, options), type, V)
    BY <2>1, <2>2, MetricMarked
  <2> QED
    BY <2>1, <2>2, <2>3, <2>4 DEF metric
<1>3. ConvertedAs(cm, mk(i), name, pairs(i), stamp(i))
  <2> DEFINE metric == metrics[i]
  <2>1. /\ metric.labels \in Seq(TextLabels)
        /\ FloatsOf(type, metric, options) \in Seq(Marks(V))
        /\ mk(i) = MarksOf(type, metric, options)
    BY <1>2 DEF MarksAt
  <2>2. ConvertMetric(family, metric, default, options) # Malformed
    OBVIOUS
  <2>3. cm = ConvertMetric(family, metric, default, options)
    OBVIOUS
  <2> HIDE DEF metric, mk, cm
  <2>4. ConvertedAs(ConvertMetric(family, metric, default, options),
                    MarksOf(type, metric, options), name, metric.labels,
                    StampOf(metric, default, options))
    BY <1>1, <2>1, <2>2, MetricConverted
  <2> QED
    BY <2>1, <2>3, <2>4 DEF metric
<1> HIDE DEF cm, mk, stamp, name, type
<1>4. PICK S : out \in Seq(S)
  BY DEF GatheredAs
<1>5. PICK T : cm \in Seq(T)
  BY <1>3 DEF ConvertedAs
<1> DEFINE u == out \o cm
<1>6. u \in Seq(S \cup T) /\ Following(u, out, cm)
  <2>1. out \in Seq(S \cup T) /\ cm \in Seq(S \cup T)
    BY <1>4, <1>5
  <2> QED
    BY <2>1, JoinedFollowing
<1> HIDE DEF u
<1>7. Len(out) \in Nat /\ Len(cm) \in Nat /\ Len(u) = Len(out) + Len(cm)
  BY <1>4, <1>5, <1>6 DEF Following
<1>8. \A a \in 1 .. Len(u) :
        \/ a \in 1 .. Len(out) /\ u[a] = out[a]
        \/ a - Len(out) \in 1 .. Len(cm) /\ u[a] = cm[a - Len(out)]
  <2> TAKE a \in 1 .. Len(u)
  <2>1. CASE a <= Len(out)
    <3>1. a \in 1 .. Len(out)
      BY <1>7, <2>1
    <3> QED
      BY <1>6, <3>1 DEF Following
  <2>2. CASE a > Len(out)
    <3>1. a - Len(out) \in 1 .. Len(cm) /\ Len(out) + (a - Len(out)) = a
      BY <1>7, <2>2
    <3>2. u[Len(out) + (a - Len(out))] = cm[a - Len(out)]
      BY <1>6, <3>1 DEF Following
    <3> QED
      BY <3>1, <3>2
  <2> QED
    BY <1>7, <2>1, <2>2
<1>9. \A k \in 1 .. Len(cm) : SeriesIs(cm[k], mk(i)[k], name, pairs(i), stamp(i))
  BY <1>3 DEF ConvertedAs
<1>10. Len(cm) = Len(mk(i))
  BY <1>3 DEF ConvertedAs
<1>11. ASSUME NEW a \in 1 .. Len(u) PROVE \E p \in 1 .. i : Comes(u[a], family, default, options, p)
  <2>1. CASE a \in 1 .. Len(out) /\ u[a] = out[a]
    <3>1. PICK p \in 1 .. i - 1 : Comes(out[a], family, default, options, p)
      BY <2>1 DEF GatheredAs
    <3>2. p \in 1 .. i
      OBVIOUS
    <3> QED
      BY <2>1, <3>1, <3>2
  <2>2. CASE a - Len(out) \in 1 .. Len(cm) /\ u[a] = cm[a - Len(out)]
    <3> DEFINE k == a - Len(out)
    <3>1. k \in 1 .. Len(mk(i)) /\ SeriesIs(u[a], mk(i)[k], name, pairs(i), stamp(i))
      BY <1>9, <1>10, <2>2
    <3> HIDE DEF k
    <3>2. Comes(u[a], family, default, options, i)
      BY <3>1 DEF Comes, mk, name, stamp
    <3>3. i \in 1 .. i
      OBVIOUS
    <3> QED
      BY <3>2, <3>3
  <2> QED
    BY <1>8, <2>1, <2>2
<1>12. ASSUME NEW p \in 1 .. n, NEW q \in 1 .. n, NEW k \in 1 .. Len(mk(p)),
              NEW l \in 1 .. Len(mk(q)), NEW r, NEW s,
              SeriesIs(r, mk(p)[k], name, pairs(p), stamp(p)),
              SeriesIs(s, mk(q)[l], name, pairs(q), stamp(q)),
              ToSet(r.labels) = ToSet(s.labels)
       PROVE  p = q /\ k = l
  <2> DEFINE f == mk(p)[k]
             g == mk(q)[l]
             x == pairs(p)
             y == pairs(q)
             ux == stamp(p)
             uy == stamp(q)
  <2>1. f \in Marks(V) /\ g \in Marks(V) /\ MarkOf(type, f) /\ MarkOf(type, g)
    <3>1. Marked(mk(p), type, V) /\ Marked(mk(q), type, V)
      BY <1>2
    <3> QED
      BY <3>1 DEF Marked
  <2>2. x \in Seq(TextLabels) /\ y \in Seq(TextLabels)
    BY <1>2
  <2>3. SeriesIs(r, f, name, x, ux) /\ SeriesIs(s, g, name, y, uy)
    BY <1>12
  <2>4. ToSet(r.labels) = ToSet(s.labels)
    BY <1>12
  <2> HIDE DEF f, g, x, y, ux, uy
  <2>5. f.suffix = g.suffix /\ f.extra = g.extra /\ ToSet(x) = ToSet(y)
    BY <1>1, <2>1, <2>2, <2>3, <2>4, SeriesTell
  <2>6. p = q
    BY <2>5 DEF x, y
  <2>7. mk(p)[k].suffix = mk(p)[l].suffix /\ mk(p)[k].extra = mk(p)[l].extra
    BY <2>5, <2>6 DEF f, g
  <2>8. k = l
    BY <1>2, <2>6, <2>7 DEF Marked
  <2> QED
    BY <2>6, <2>8
<1>13. ASSUME NEW a \in 1 .. Len(out), NEW k \in 1 .. Len(cm)
       PROVE  ToSet(out[a].labels) # ToSet(cm[k].labels)
  <2>1. SUFFICES ASSUME ToSet(out[a].labels) = ToSet(cm[k].labels) PROVE FALSE
    OBVIOUS
  <2>2. PICK p \in 1 .. i - 1 : Comes(out[a], family, default, options, p)
    BY DEF GatheredAs
  <2>3. PICK l \in 1 .. Len(mk(p)) : SeriesIs(out[a], mk(p)[l], name, pairs(p), stamp(p))
    BY <2>2 DEF Comes, mk, name, stamp
  <2>4. p \in 1 .. n /\ i \in 1 .. n /\ p # i
    BY <1>1
  <2>5. k \in 1 .. Len(mk(i)) /\ SeriesIs(cm[k], mk(i)[k], name, pairs(i), stamp(i))
    BY <1>9, <1>10
  <2>6. p = i
    BY <1>12, <2>1, <2>3, <2>4, <2>5
  <2> QED
    BY <2>4, <2>6
<1>14. ASSUME NEW a \in 1 .. Len(u), NEW b \in 1 .. Len(u), ToSet(u[a].labels) = ToSet(u[b].labels)
       PROVE  a = b
  <2>1. CASE a \in 1 .. Len(out) /\ u[a] = out[a] /\ b \in 1 .. Len(out) /\ u[b] = out[b]
    BY <1>14, <2>1 DEF GatheredAs
  <2>2. CASE /\ a \in 1 .. Len(out) /\ u[a] = out[a]
             /\ b - Len(out) \in 1 .. Len(cm) /\ u[b] = cm[b - Len(out)]
    BY <1>13, <1>14, <2>2
  <2>3. CASE /\ b \in 1 .. Len(out) /\ u[b] = out[b]
             /\ a - Len(out) \in 1 .. Len(cm) /\ u[a] = cm[a - Len(out)]
    BY <1>13, <1>14, <2>3
  <2>4. CASE /\ a - Len(out) \in 1 .. Len(cm) /\ u[a] = cm[a - Len(out)]
             /\ b - Len(out) \in 1 .. Len(cm) /\ u[b] = cm[b - Len(out)]
    <3> DEFINE k == a - Len(out)
               l == b - Len(out)
    <3>1. /\ k \in 1 .. Len(cm) /\ l \in 1 .. Len(cm)
          /\ ToSet(cm[k].labels) = ToSet(cm[l].labels)
      BY <1>14, <2>4
    <3>2. /\ k \in 1 .. Len(mk(i)) /\ SeriesIs(cm[k], mk(i)[k], name, pairs(i), stamp(i))
          /\ l \in 1 .. Len(mk(i)) /\ SeriesIs(cm[l], mk(i)[l], name, pairs(i), stamp(i))
      BY <1>9, <1>10, <3>1
    <3>3. i \in 1 .. n
      OBVIOUS
    <3>4. k - l = a - b
      BY <1>7
    <3> HIDE DEF k, l
    <3>5. k = l
      BY <1>12, <3>1, <3>2, <3>3
    <3>6. k - l = 0
      BY <3>1, <3>5
    <3> QED
      BY <1>7, <3>4, <3>6
  <2> QED
    BY <1>8, <2>1, <2>2, <2>3, <2>4
<1>15. GatheredAs(u, family, default, options, i)
  BY <1>6, <1>11, <1>14 DEF GatheredAs
<1> QED
  BY <1>15 DEF u, cm

-----------------------------------------------------------------------------

\* What a client library's family fulfils, metric by metric.
LEMMA WellFormedMetrics ==
  ASSUME NEW V, NEW family \in Families(V), WellFormed(family)
  PROVE  /\ \A i, j \in 1 .. Len(family.metrics) :
              ToSet(family.metrics[i].labels) = ToSet(family.metrics[j].labels) => i = j
         /\ \A i \in 1 .. Len(family.metrics) : Ordered(family.metrics[i])
<1> DEFINE metrics == family.metrics
           n == Len(metrics)
<1>1. metrics \in Seq(Metrics(V)) /\ DOMAIN metrics = 1 .. n
  BY DEF Families
<1>2. \A i, j \in 1 .. n : ToSet(metrics[i].labels) = ToSet(metrics[j].labels) => i = j
  BY <1>1 DEF WellFormed
<1>3. ASSUME NEW i \in 1 .. n PROVE Ordered(metrics[i])
  <2> DEFINE buckets == metrics[i].histogram.buckets
             quantiles == metrics[i].summary.quantiles
  <2>1. /\ IsInjective([k \in DOMAIN buckets |-> buckets[k].bound])
        /\ \A k \in DOMAIN buckets : buckets[k].bound = Infinity => k = Len(buckets)
        /\ IsInjective([k \in DOMAIN quantiles |-> quantiles[k].quantile])
    BY <1>1 DEF WellFormed
  <2>2. DOMAIN buckets = 1 .. Len(buckets) /\ DOMAIN quantiles = 1 .. Len(quantiles)
    <3> DEFINE metric == metrics[i]
    <3>1. metric \in Metrics(V)
      <4> DEFINE R == Metrics(V)
      <4>1. metrics \in Seq(R)
        BY <1>1
      <4> HIDE DEF R, metrics
      <4> QED
        BY <4>1 DEF R
    <3> HIDE DEF metric
    <3>2. metric.summary \in Summaries(V) /\ metric.histogram \in ExposedHistograms(V)
      BY <3>1 DEF Metrics
    <3>3. /\ \E S : metric.summary.quantiles \in Seq(S)
          /\ \E S : metric.histogram.buckets \in Seq(S)
      BY <3>2 DEF Summaries, ExposedHistograms
    <3>4. /\ DOMAIN metric.summary.quantiles = 1 .. Len(metric.summary.quantiles)
          /\ DOMAIN metric.histogram.buckets = 1 .. Len(metric.histogram.buckets)
      BY <3>3
    <3> QED
      BY <3>4 DEF metric
  <2> HIDE DEF buckets, quantiles
  <2>3. \A k, l \in 1 .. Len(buckets) : buckets[k].bound = buckets[l].bound => k = l
    BY <2>1, <2>2 DEF IsInjective
  <2>4. \A k, l \in 1 .. Len(quantiles) : quantiles[k].quantile = quantiles[l].quantile => k = l
    BY <2>1, <2>2 DEF IsInjective
  <2>5. \A k \in 1 .. Len(buckets) : buckets[k].bound = Infinity => k = Len(buckets)
    BY <2>1, <2>2
  <2> QED
    BY <2>3, <2>4, <2>5 DEF Ordered, BoundsApart, buckets, quantiles
<1> QED
  BY <1>2, <1>3

\* What a family is converted to comes from its metrics, and its labels tell the series
\* apart.
LEMMA FamilyGathered ==
  ASSUME NumbersPrintApart, NEW V, NEW family \in Families(V), NEW default, NEW options,
         WellFormed(family), ConvertFamily(family, default, options) # Malformed
  PROVE  GatheredAs(ConvertFamily(family, default, options), family, default, options,
                    Len(family.metrics))
<1> DEFINE metrics == family.metrics
           n == Len(metrics)
           C(x) == ConvertMetric(family, x, default, options)
           M == {metrics[p] : p \in 1 .. n}
           R == {C(metrics[p])[k] : p \in 1 .. n, k \in Nat}
           folded == Folded(family, metrics, default, options)
<1>1. ConvertFamily(family, default, options) = folded
  BY DEF ConvertFamily, Folded
<1>2. metrics \in Seq(M) /\ metrics \in Seq(Metrics(V)) /\ n \in Nat
  <2>1. metrics \in Seq(Metrics(V))
    BY DEF Families
  <2>2. \A i \in 1 .. Len(metrics) : metrics[i] \in M
    OBVIOUS
  <2> HIDE DEF metrics, M
  <2>3. metrics \in Seq(M)
    BY <2>1, <2>2, NarrowedSeq
  <2> QED
    BY <2>1, <2>3
<1>3. /\ \A i, j \in 1 .. n : ToSet(metrics[i].labels) = ToSet(metrics[j].labels) => i = j
      /\ \A i \in 1 .. n : Ordered(metrics[i])
  BY WellFormedMetrics
<1>4. ASSUME NEW x \in M PROVE C(x) \in Seq(R) \cup {Malformed}
  <2>1. SUFFICES ASSUME C(x) # Malformed PROVE C(x) \in Seq(R)
    OBVIOUS
  <2>2. PICK p \in 1 .. n : x = metrics[p]
    OBVIOUS
  <2>3. x \in Metrics(V) /\ Ordered(x)
    <3> DEFINE Q == Metrics(V)
    <3>1. metrics \in Seq(Q)
      BY <1>2
    <3> HIDE DEF Q, metrics
    <3>2. metrics[p] \in Q
      BY <2>2, <3>1 DEF n
    <3> QED
      BY <1>3, <2>2, <3>2 DEF Q
  <2>4. x.labels \in Seq(TextLabels) /\ family.name \in Wordings
    BY <2>3 DEF Metrics, Families
  <2>5. FloatsOf(family.type, x, options) \in Seq(Marks(V))
    BY <2>3, MetricMarked
  <2>6. ConvertMetric(family, x, default, options) # Malformed
    BY <2>1
  <2>7. ConvertedAs(C(x), MarksOf(family.type, x, options), family.name, x.labels,
                    StampOf(x, default, options))
    BY <2>4, <2>5, <2>6, MetricConverted
  <2>8. PICK S : C(x) \in Seq(S)
    BY <2>7 DEF ConvertedAs
  <2>9. ASSUME NEW k \in 1 .. Len(C(x)) PROVE C(x)[k] \in R
    <3>1. k \in Nat /\ C(x)[k] = C(metrics[p])[k]
      BY <2>2, <2>8
    <3> HIDE DEF C
    <3> QED
      BY <3>1
  <2> HIDE DEF C, R
  <2> QED
    BY <2>8, <2>9, NarrowedSeq
<1>5. PICK h \in [0 .. n -> Seq(R) \cup {Malformed}] :
        /\ h[0] = <<>>
        /\ \A i \in 1 .. n : h[i] = Gather(h[i - 1], C(metrics[i]))
        /\ h[n] = folded
  <2> HIDE DEF R, M
  <2>1. \A x \in M : ConvertMetric(family, x, default, options) \in Seq(R) \cup {Malformed}
    BY <1>4
  <2>2. PICK h \in [0 .. n -> Seq(R) \cup {Malformed}] :
          GatheredBy(h, family, metrics, default, options)
    <3> HIDE DEF metrics
    <3> QED
      BY <1>2, <2>1, FamilySteps
  <2> QED
    BY <2>2 DEF GatheredBy
<1> HIDE DEF R, M, folded
<1> DEFINE Done == {i \in 0 .. n : h[i] # Malformed
                                     => GatheredAs(h[i], family, default, options, i)}
<1>6. 0 \in Done
  <2> DEFINE none == <<>>
  <2>1. none \in Seq({}) /\ Len(none) = 0
    OBVIOUS
  <2>2. h[0] = none
    BY <1>5
  <2> HIDE DEF none
  <2>3. GatheredAs(none, family, default, options, 0)
    BY <2>1 DEF GatheredAs
  <2>4. 0 \in 0 .. n
    BY <1>2
  <2> QED
    BY <2>2, <2>3, <2>4
<1>7. ASSUME NEW i \in 1 .. n, i - 1 \in Done PROVE i \in Done
  <2>1. i \in 0 .. n
    OBVIOUS
  <2>2. SUFFICES ASSUME h[i] # Malformed
                 PROVE  GatheredAs(h[i], family, default, options, i)
    BY <2>1
  <2>3. h[i] = Gather(h[i - 1], C(metrics[i]))
    BY <1>5
  <2>4. h[i - 1] # Malformed /\ C(metrics[i]) # Malformed /\ h[i] = h[i - 1] \o C(metrics[i])
    BY <2>2, <2>3 DEF Gather
  <2> DEFINE out == h[i - 1]
  <2>5. GatheredAs(out, family, default, options, i - 1)
    BY <1>7, <2>4
  <2>6. ConvertMetric(family, family.metrics[i], default, options) # Malformed
    BY <2>4
  <2>7. /\ \A k, l \in 1 .. Len(family.metrics) :
             ToSet(family.metrics[k].labels) = ToSet(family.metrics[l].labels) => k = l
        /\ \A k \in 1 .. Len(family.metrics) : Ordered(family.metrics[k])
        /\ i \in 1 .. Len(family.metrics)
    BY <1>3
  <2>8. h[i] = out \o ConvertMetric(family, family.metrics[i], default, options)
    BY <2>4
  <2> HIDE DEF out
  <2> QED
    BY <2>5, <2>6, <2>7, <2>8, GatheredNext
<1> HIDE DEF Done
<1>8. 0 .. n \subseteq Done
  BY <1>2, <1>6, <1>7, BoundedInduction
<1>9. n \in Done /\ h[n] # Malformed
  BY <1>1, <1>2, <1>5, <1>8
<1>10. GatheredAs(h[n], family, default, options, n)
  BY <1>9 DEF Done
<1> QED
  BY <1>1, <1>5, <1>10

\* A family a client library exposes never gives two series of one identity, whatever the
\* labels of its metrics, their bounds and quantiles: convert_family.
THEOREM SeriesAreDistinct ==
  ASSUME NumbersPrintApart, NEW V, NEW family \in Families(V), NEW default, NEW options
  PROVE  SeriesDistinct(family, default, options)
<1> DEFINE parsed == ConvertFamily(family, default, options)
<1>1. SUFFICES ASSUME WellFormed(family), parsed # Malformed
               PROVE  /\ \A i, j \in DOMAIN parsed :
                           ToSet(parsed[i].labels) = ToSet(parsed[j].labels) => i = j
                      /\ \A i \in DOMAIN parsed :
                           IsInjective([k \in DOMAIN parsed[i].labels |-> parsed[i].labels[k].name])
  BY DEF SeriesDistinct
<1>2. GatheredAs(parsed, family, default, options, Len(family.metrics))
  BY <1>1, FamilyGathered
<1> HIDE DEF parsed
<1>3. DOMAIN parsed = 1 .. Len(parsed)
  BY <1>2 DEF GatheredAs
<1>4. \A i, j \in DOMAIN parsed : ToSet(parsed[i].labels) = ToSet(parsed[j].labels) => i = j
  BY <1>2, <1>3 DEF GatheredAs
<1>5. ASSUME NEW i \in DOMAIN parsed
      PROVE  IsInjective([k \in DOMAIN parsed[i].labels |-> parsed[i].labels[k].name])
  <2> DEFINE labels == parsed[i].labels
  <2>1. PICK p \in 1 .. Len(family.metrics) : Comes(parsed[i], family, default, options, p)
    BY <1>2, <1>3 DEF GatheredAs
  <2>2. PICK k \in 1 .. Len(MarksAt(family, options, p)) :
          SeriesIs(parsed[i], MarksAt(family, options, p)[k], family.name,
                   family.metrics[p].labels, StampOf(family.metrics[p], default, options))
    BY <2>1 DEF Comes
  <2>3. /\ labels \in Seq(TextLabels)
        /\ \A a, b \in 1 .. Len(labels) : labels[a].name = labels[b].name => a = b
    BY <2>2 DEF SeriesIs, LabelledAs
  <2> HIDE DEF labels
  <2>4. DOMAIN labels = 1 .. Len(labels)
    BY <2>3
  <2>5. IsInjective([a \in DOMAIN labels |-> labels[a].name])
    BY <2>3, <2>4 DEF IsInjective
  <2> QED
    BY <2>5 DEF labels
<1> QED
  BY <1>4, <1>5

-----------------------------------------------------------------------------

\* How many buckets the classic series of a histogram are.
BucketsOf(h) == Len(h.buckets) + IF ExplicitInf(h) THEN 0 ELSE 1

\* The text of the bucket without a bound, and no other, is +I.
LEMMA UnboundedShown ==
  ASSUME NumbersPrintApart, NEW x \in Floats
  PROVE  FormatFloat(x) = <<"+", "I">> <=> x = Infinity
<1>1. FormatFloat(Infinity) = <<"+", "I">>
  BY DEF FormatFloat, Infinity
<1>2. Infinity \in Floats
  BY DEF Floats
<1>3. FormatFloat(x) = FormatFloat(Infinity) => x = Infinity
  BY <1>2, FloatsTell
<1> QED
  BY <1>1, <1>3

\* The classic series of a histogram: its last bucket has no bound, and counts everything
\* if it is an added one.
ClassicForms(s, h, V) ==
  /\ s \in Seq(Marks(V)) /\ Len(s) = 2 + BucketsOf(h)
  /\ s[1].suffix = <<"_count">> /\ s[1].value = Preferred(h.count)
  /\ s[2].suffix = <<"_sum">>
  /\ \A i \in 1 .. BucketsOf(h) :
       /\ s[2 + i].suffix = <<"_bucket">> /\ Len(s[2 + i].extra) = 1
       /\ s[2 + i].extra[1].value = <<"+", "I">> <=> i = BucketsOf(h)
  /\ ~ExplicitInf(h) => s[2 + BucketsOf(h)].value = Preferred(h.count)

\* There is one bucket more than exposed where none is unbounded.
LEMMA CountedIs ==
  ASSUME NEW V, NEW h \in ExposedHistograms(V)
  PROVE  /\ BucketsOf(h) \in Nat /\ BucketsOf(h) >= 1 /\ Len(h.buckets) \in Nat
         /\ ExplicitInf(h) => BucketsOf(h) = Len(h.buckets) /\ h.buckets[Len(h.buckets)].bound = Infinity
         /\ ~ExplicitInf(h) => BucketsOf(h) = Len(h.buckets) + 1
<1> DEFINE q == h.buckets
           n == Len(q)
<1>1. q \in Seq([bound : Floats, count : Amounts])
  BY DEF ExposedHistograms
<1>2. n \in Nat
  BY <1>1
<1>3. CASE ExplicitInf(h)
  <2>1. q # <<>> /\ q[n].bound = Infinity
    BY <1>3 DEF ExplicitInf, Last
  <2>2. n >= 1
    <3> HIDE DEF q
    <3> QED
      BY <1>1, <2>1
  <2>3. BucketsOf(h) = n
    BY <1>2, <1>3 DEF BucketsOf
  <2> QED
    BY <1>2, <1>3, <2>1, <2>2, <2>3
<1>4. CASE ~ExplicitInf(h)
  <2>1. BucketsOf(h) = n + 1
    BY <1>4 DEF BucketsOf
  <2> QED
    BY <1>2, <1>4, <2>1
<1> QED
  BY <1>3, <1>4

\* The buckets of a classic histogram have labels of their own.
LEMMA ClassicFormed ==
  ASSUME NumbersPrintApart, NEW V, NEW h \in ExposedHistograms(V), BoundsApart(h)
  PROVE  ClassicForms(ClassicSeries(h), h, V)
<1> DEFINE q == h.buckets
           n == Len(q)
           m == BucketsOf(h)
           s == ClassicSeries(h)
           x == ExplicitInf(h)
<1>1. ClassicIs(s, h, V)
  BY ClassicShape
<1>2. BucketsAre(s, h)
  BY <1>1, BucketsShown
<1>3. /\ Len(s) \in Nat /\ s[1].suffix = <<"_count">> /\ s[2].suffix = <<"_sum">>
  BY ClassicSuffixes
<1>4. /\ m \in Nat /\ m >= 1 /\ n \in Nat
      /\ x => m = n /\ q[n].bound = Infinity
      /\ ~x => m = n + 1
  BY CountedIs
<1>5. \A i \in 1 .. n : q[i].bound \in Floats
  <2> TAKE i \in 1 .. n
  <2> DEFINE R == [bound : Floats, count : Amounts]
  <2>1. q \in Seq(R)
    BY DEF ExposedHistograms
  <2> HIDE DEF R, q
  <2>2. q[i] \in R
    BY <2>1
  <2> QED
    BY <2>2 DEF R
<1>6. \A i \in 1 .. n : q[i].bound = Infinity => i = n
  BY DEF BoundsApart
<1>7. s \in Seq(Marks(V)) /\ Len(s) = 2 + m
  <2> DEFINE k == IF x THEN 0 ELSE 1
  <2>1. s \in Seq(Marks(V)) /\ Len(s) = 2 + n + k
    BY <1>1 DEF ClassicIs
  <2>2. m = n + k
    <3> HIDE DEF m, n, x
    <3>1. CASE x
      BY <1>4, <3>1
    <3>2. CASE ~x
      BY <1>4, <3>2
    <3> QED
      BY <3>1, <3>2
  <2>3. k \in Nat
    OBVIOUS
  <2> HIDE DEF k, s, n, m
  <2> QED
    BY <1>4, <2>1, <2>2, <2>3
<1>8. s[1].value = Preferred(h.count)
  <2> DEFINE v == Preferred(h.count)
  <2>1. s[1] = PlainMark(<<"_count">>, v)
    BY <1>1 DEF ClassicIs
  <2>2. v \in V \cup Nat
    BY DEF ExposedHistograms, Amounts, Preferred
  <2>3. <<"_count">> \in Wordings
    BY SuffixesDiffer
  <2> HIDE DEF v, s
  <2>4. PlainMark(<<"_count">>, v).value = v
    BY <2>2, <2>3, PlainIsMark
  <2> QED
    BY <2>1, <2>4 DEF v
<1> HIDE DEF s
<1>9. /\ \A i \in 1 .. Len(s) - 2 : s[2 + i].suffix = <<"_bucket">> /\ Len(s[2 + i].extra) = 1
      /\ \A i \in 1 .. n : s[2 + i].extra[1].value = FormatFloat(q[i].bound)
      /\ ~x => s[3 + n].extra[1].value = <<"+", "I">> /\ s[3 + n].value = Preferred(h.count)
  BY <1>2 DEF BucketsAre
<1> HIDE DEF q, n, m, x
<1>10. \A i \in 1 .. m : s[2 + i].suffix = <<"_bucket">> /\ Len(s[2 + i].extra) = 1
  <2>1. Len(s) - 2 = m
    BY <1>4, <1>7
  <2> QED
    BY <1>9, <2>1
<1>11. ASSUME NEW i \in 1 .. n
       PROVE  s[2 + i].extra[1].value = <<"+", "I">> <=> q[i].bound = Infinity
  <2> DEFINE b == q[i].bound
  <2>1. b \in Floats /\ s[2 + i].extra[1].value = FormatFloat(b)
    BY <1>5, <1>9
  <2> HIDE DEF b
  <2>2. FormatFloat(b) = <<"+", "I">> <=> b = Infinity
    BY <2>1, UnboundedShown
  <2> QED
    BY <2>1, <2>2 DEF b
<1>12. ASSUME NEW i \in 1 .. m PROVE s[2 + i].extra[1].value = <<"+", "I">> <=> i = m
  <2>1. CASE x
    <3>1. i \in 1 .. n /\ m = n
      BY <1>4, <2>1
    <3>2. q[i].bound = Infinity <=> i = n
      BY <1>4, <1>6, <2>1, <3>1
    <3> QED
      BY <1>11, <3>1, <3>2
  <2>2. CASE ~x
    <3>1. CASE i = m
      <4>1. 2 + i = 3 + n
        BY <1>4, <2>2, <3>1
      <4> QED
        BY <1>9, <2>2, <3>1, <4>1
    <3>2. CASE i # m
      <4>1. i \in 1 .. n
        BY <1>4, <2>2, <3>2
      <4>2. q[i].bound # Infinity
        <5>1. SUFFICES ASSUME q[i].bound = Infinity PROVE FALSE
          OBVIOUS
        <5>2. i = n /\ q[n].bound = Infinity
          BY <1>6, <4>1, <5>1
        <5>3. q # <<>>
          <6>1. SUFFICES ASSUME q = <<>> PROVE FALSE
            OBVIOUS
          <6>2. n = 0
            BY <6>1 DEF n
          <6> QED
            BY <4>1, <6>2
        <5>4. x
          BY <5>2, <5>3 DEF x, q, n, ExplicitInf, Last
        <5> QED
          BY <2>2, <5>4
      <4> QED
        BY <1>11, <3>2, <4>1, <4>2
    <3> QED
      BY <3>1, <3>2
  <2> QED
    BY <2>1, <2>2
<1>13. ~x => s[2 + m].value = Preferred(h.count)
  <2>1. SUFFICES ASSUME ~x PROVE s[2 + m].value = Preferred(h.count)
    OBVIOUS
  <2>2. 2 + m = 3 + n
    BY <1>4, <2>1
  <2> QED
    BY <1>9, <2>1, <2>2
<1> QED
  BY <1>3, <1>7, <1>8, <1>10, <1>12, <1>13 DEF ClassicForms, s, m, x

-----------------------------------------------------------------------------

\* The marks of a histogram: that of its native series, if there is one, and those of its
\* classic series, if they are wanted.
MarksForm(marks, h, native, classic, V) ==
  /\ native \in {0, 1} /\ classic \in {0, 1}
  /\ classic = 0 => Len(marks) = native
  /\ classic = 1 => Len(marks) = native + 2 + BucketsOf(h)
  /\ \A i \in 1 .. native : marks[i].suffix = <<>>
  /\ classic = 1 => \E s : /\ ClassicForms(s, h, V)
                           /\ \A i \in 1 .. Len(s) : marks[native + i] = s[i]

\* The series of a metric have the forms that are wanted.
LEMMA MarksFormed ==
  ASSUME NumbersPrintApart, NEW V, NEW metric \in Metrics(V), Ordered(metric), NEW options
  PROVE  MarksForm(MarksOf("histogram", metric, options), metric.histogram,
                   IF WantsNative(metric.histogram, options) THEN 1 ELSE 0,
                   IF WantsClassic(metric.histogram, options) THEN 1 ELSE 0, V)
<1> DEFINE h == metric.histogram
           W == WantsNative(h, options)
           C == WantsClassic(h, options)
           native == IF W THEN 1 ELSE 0
           classic == IF C THEN 1 ELSE 0
           p == PlainMark(<<>>, 0)
           nh == NativeOf("histogram", metric, options)
           none == [i \in DOMAIN nh |-> p]
           s == ClassicSeries(h)
           floats == FloatsOf("histogram", metric, options)
           marks == MarksOf("histogram", metric, options)
<1>1. marks = none \o floats
  BY DEF MarksOf
<1>2. floats = IF C THEN s ELSE <<>>
  BY DEF FloatsOf
<1>3. h \in ExposedHistograms(V) /\ BoundsApart(h)
  BY DEF Metrics, Ordered
<1>4. ClassicForms(s, h, V)
  BY <1>3, ClassicFormed
<1>5. p \in Marks(V) /\ p.suffix = <<>>
  <2>1. 0 \in V \cup Nat /\ <<>> \in Wordings
    BY SuffixesDiffer
  <2> QED
    BY <2>1, PlainIsMark
<1>6. native \in {0, 1} /\ classic \in {0, 1}
  OBVIOUS
<1>7. none \in Seq(Marks(V)) /\ Len(none) = native /\ \A i \in 1 .. native : none[i].suffix = <<>>
  <2>1. DOMAIN nh = 1 .. native
    <3>1. CASE W
      <4> DEFINE x == Convert(Exposed(metric.histogram), options.bucket_limit)
      <4>1. nh = <<x>> /\ native = 1
        BY <3>1 DEF NativeOf
      <4> HIDE DEF x, nh
      <4> QED
        BY <4>1
    <3>2. CASE ~W
      <4>1. nh = <<>> /\ native = 0
        BY <3>2 DEF NativeOf
      <4> HIDE DEF nh
      <4> QED
        BY <4>1
    <3> QED
      BY <3>1, <3>2
  <2> HIDE DEF nh, p, native
  <2>2. none = [i \in 1 .. native |-> p] /\ native \in Nat
    BY <1>6, <2>1
  <2> HIDE DEF none
  <2> QED
    BY <1>5, <2>2
<1>8. floats \in Seq(Marks(V))
  <2>1. s \in Seq(Marks(V))
    BY <1>4 DEF ClassicForms
  <2> HIDE DEF s, floats
  <2> QED
    BY <1>2, <2>1
<1>9. BucketsOf(h) \in Nat
  BY <1>3, CountedIs
<1> HIDE DEF native, classic, none, s, floats, h, p, marks
<1>10. marks \in Seq(Marks(V)) /\ Following(marks, none, floats)
  BY <1>1, <1>7, <1>8, JoinedFollowing
<1>11. \A i \in 1 .. native : marks[i].suffix = <<>>
  BY <1>7, <1>10 DEF Following
<1>12. ASSUME classic = 0 PROVE Len(marks) = native
  <2>1. floats = <<>>
    BY <1>2, <1>12 DEF classic
  <2>2. Len(floats) = 0
    BY <2>1
  <2> QED
    BY <1>6, <1>7, <1>10, <2>2 DEF Following
<1>13. ASSUME classic = 1
       PROVE  /\ Len(marks) = native + 2 + BucketsOf(h)
              /\ \A i \in 1 .. Len(s) : marks[native + i] = s[i]
  <2>1. floats = s
    BY <1>2, <1>13 DEF classic
  <2>2. Len(s) = 2 + BucketsOf(h)
    BY <1>4 DEF ClassicForms
  <2> QED
    BY <1>6, <1>7, <1>9, <1>10, <2>1, <2>2 DEF Following
<1>14. MarksForm(marks, h, native, classic, V)
  BY <1>4, <1>6, <1>11, <1>12, <1>13 DEF MarksForm
<1> QED
  BY <1>14 DEF marks, h, native, classic

\* The marks with a suffix.
With(marks, suffix) == {i \in 1 .. Len(marks) : marks[i].suffix = suffix}

\* Where they are.
MarksCounted(marks, h, native, classic) ==
  /\ With(marks, <<>>) = 1 .. native
  /\ With(marks, <<"_count">>) = native + 1 .. native + classic
  /\ With(marks, <<"_sum">>) = native + 2 .. native + 1 + classic
  /\ classic = 0 => With(marks, <<"_bucket">>) = {}
  /\ classic = 1 => With(marks, <<"_bucket">>) = native + 3 .. native + 2 + BucketsOf(h)

\* The forms tell how many series there are of each kind.
LEMMA MarksAreCounted ==
  ASSUME NEW V, NEW h \in ExposedHistograms(V), NEW marks, NEW native, NEW classic,
         MarksForm(marks, h, native, classic, V)
  PROVE  MarksCounted(marks, h, native, classic)
<1> DEFINE m == BucketsOf(h)
<1>1. m \in Nat /\ m >= 1
  BY CountedIs
<1> HIDE DEF m
<1>2. /\ native \in {0, 1} /\ classic \in {0, 1}
      /\ classic = 0 => Len(marks) = native
      /\ classic = 1 => Len(marks) = native + 2 + m
      /\ \A i \in 1 .. native : marks[i].suffix = <<>>
  BY DEF MarksForm, m
<1>3. /\ <<"_count">> # <<"_sum">> /\ <<"_count">> # <<"_bucket">> /\ <<"_sum">> # <<"_bucket">>
      /\ <<>> # <<"_count">> /\ <<>> # <<"_sum">> /\ <<>> # <<"_bucket">>
  BY SuffixesDiffer
<1> DEFINE z == <<>>
           c == <<"_count">>
           t == <<"_sum">>
           b == <<"_bucket">>
<1>4. /\ c # t /\ c # b /\ t # b /\ z # c /\ z # t /\ z # b
      /\ \A i \in 1 .. native : marks[i].suffix = z
  BY <1>2, <1>3
<1>5. CASE classic = 0
  <2> HIDE DEF z, c, t, b
  <2>1. /\ With(marks, z) = 1 .. native
        /\ With(marks, c) = {} /\ With(marks, t) = {} /\ With(marks, b) = {}
    BY <1>2, <1>4, <1>5 DEF With
  <2>2. native + 1 .. native + classic = {} /\ native + 2 .. native + 1 + classic = {}
    BY <1>2, <1>5
  <2>3. /\ With(marks, z) = 1 .. native
        /\ With(marks, c) = native + 1 .. native + classic
        /\ With(marks, t) = native + 2 .. native + 1 + classic
        /\ With(marks, b) = {}
    BY <2>1, <2>2
  <2> QED
    BY <1>5, <2>3 DEF MarksCounted, z, c, t, b
<1>6. CASE classic = 1
  <2>1. PICK s : /\ ClassicForms(s, h, V)
                 /\ \A i \in 1 .. Len(s) : marks[native + i] = s[i]
    BY <1>6 DEF MarksForm
  <2>2. /\ Len(s) = 2 + m /\ s[1].suffix = c /\ s[2].suffix = t
        /\ \A i \in 1 .. m : s[2 + i].suffix = b
    BY <2>1 DEF ClassicForms, m
  <2> HIDE DEF z, c, t, b
  <2>3. marks[native + 1].suffix = c /\ marks[native + 2].suffix = t
    <3>1. 1 \in 1 .. Len(s) /\ 2 \in 1 .. Len(s)
      BY <1>1, <2>2
    <3> QED
      BY <2>1, <2>2, <3>1
  <2>4. \A i \in 1 .. m : marks[native + 2 + i].suffix = b
    <3> TAKE i \in 1 .. m
    <3>1. 2 + i \in 1 .. Len(s) /\ native + 2 + i = native + (2 + i)
      BY <1>1, <1>2, <2>2
    <3>2. marks[native + (2 + i)] = s[2 + i]
      BY <2>1, <3>1
    <3> QED
      BY <2>2, <3>1, <3>2
  <2>5. Len(marks) = native + 2 + m
    BY <1>2, <1>6
  <2>6. \A i \in 1 .. Len(marks) :
          \/ i \in 1 .. native /\ marks[i].suffix = z
          \/ i = native + 1 /\ marks[i].suffix = c
          \/ i = native + 2 /\ marks[i].suffix = t
          \/ i \in native + 3 .. native + 2 + m /\ marks[i].suffix = b
    <3> TAKE i \in 1 .. Len(marks)
    <3>1. CASE i <= native
      BY <1>2, <1>4, <3>1
    <3>2. CASE i = native + 1 \/ i = native + 2
      BY <2>3, <3>2
    <3>3. CASE i > native + 2
      <4>1. i - native - 2 \in 1 .. m /\ native + 2 + (i - native - 2) = i
        BY <1>1, <1>2, <2>5, <3>3
      <4>2. marks[native + 2 + (i - native - 2)].suffix = b
        BY <2>4, <4>1
      <4>3. i \in native + 3 .. native + 2 + m
        BY <1>1, <1>2, <2>5, <3>3
      <4> QED
        BY <4>1, <4>2, <4>3
    <3> QED
      BY <1>2, <3>1, <3>2, <3>3
  <2>7. /\ 1 .. native \subseteq 1 .. Len(marks) /\ native + 1 \in 1 .. Len(marks)
        /\ native + 2 \in 1 .. Len(marks)
        /\ native + 3 .. native + 2 + m \subseteq 1 .. Len(marks)
    BY <1>1, <1>2, <2>5
  <2>8. /\ native + 1 \notin 1 .. native /\ native + 2 \notin 1 .. native
        /\ \A i \in native + 3 .. native + 2 + m :
             i \notin 1 .. native /\ i # native + 1 /\ i # native + 2
    BY <1>2
  <2>9. With(marks, z) = 1 .. native
    BY <1>4, <2>6, <2>7 DEF With
  <2>10. With(marks, c) = {native + 1}
    BY <1>4, <2>6, <2>3, <2>7 DEF With
  <2>11. With(marks, t) = {native + 2}
    BY <1>4, <2>6, <2>3, <2>7 DEF With
  <2>12. With(marks, b) = native + 3 .. native + 2 + m
    <3>1. \A i \in native + 3 .. native + 2 + m : marks[i].suffix = b
      <4> TAKE i \in native + 3 .. native + 2 + m
      <4>1. i \in 1 .. Len(marks)
        BY <2>7
      <4> QED
        BY <2>6, <2>8, <4>1
    <3> QED
      BY <1>4, <2>6, <2>7, <3>1 DEF With
  <2>13. {native + 1} = native + 1 .. native + classic
    BY <1>2, <1>6
  <2>14. {native + 2} = native + 2 .. native + 1 + classic
    BY <1>2, <1>6
  <2>15. /\ With(marks, z) = 1 .. native
         /\ With(marks, c) = native + 1 .. native + classic
         /\ With(marks, t) = native + 2 .. native + 1 + classic
         /\ With(marks, b) = native + 3 .. native + 2 + m
    BY <2>9, <2>10, <2>11, <2>12, <2>13, <2>14
  <2> QED
    BY <1>6, <2>15 DEF MarksCounted, z, c, t, b, m
<1> QED
  BY <1>2, <1>5, <1>6

-----------------------------------------------------------------------------

\* The series of a histogram with a suffix, and its buckets without a bound.
NamedBy(parsed, name, suffix) ==
  {i \in DOMAIN parsed : parsed[i].labels[1].value = name \o suffix}
UnboundedOf(parsed, name) ==
  {i \in NamedBy(parsed, name, <<"_bucket">>) :
     Last(parsed[i].labels).value = <<"+", "I">>}

\* The series with a suffix are those whose marks have it.
LEMMA NamedAsMarked ==
  ASSUME NEW V, NEW marks \in Seq(Marks(V)), NEW name \in Wordings, NEW pairs, NEW stamp,
         NEW parsed, ConvertedAs(parsed, marks, name, pairs, stamp),
         NEW suffix \in Wordings
  PROVE  NamedBy(parsed, name, suffix) = With(marks, suffix)
<1>1. DOMAIN parsed = 1 .. Len(marks)
  BY DEF ConvertedAs
<1>2. ASSUME NEW i \in 1 .. Len(marks)
      PROVE  parsed[i].labels[1].value = name \o suffix <=> marks[i].suffix = suffix
  <2> DEFINE s == marks[i].suffix
             a == name \o s
             x == marks[i].extra
             l == parsed[i].labels
  <2>1. s \in Wordings
    <3>1. marks[i] \in Marks(V)
      OBVIOUS
    <3> QED
      BY <3>1 DEF Marks
  <2>2. SeriesIs(parsed[i], marks[i], name, pairs, stamp)
    BY DEF ConvertedAs
  <2>3. LabelledAs(l, name, pairs, s, x)
    BY <2>2 DEF SeriesIs
  <2> HIDE DEF s, x, l
  <2>4. l[1] = TextLabel(MetricNameLabel, a)
    BY <2>3 DEF LabelledAs
  <2> HIDE DEF a
  <2>5. l[1].value = a
    <3>1. TextLabel(MetricNameLabel, a).value = a
      BY LabelParts
    <3> QED
      BY <2>4, <3>1
  <2>6. a = name \o suffix => s = suffix
    <3>1. name \in Seq(Characters) /\ s \in Seq(Characters) /\ suffix \in Seq(Characters)
      BY <2>1 DEF Wordings
    <3> QED
      BY <3>1, SameRest DEF a
  <2>7. s = suffix => a = name \o suffix
    BY DEF a
  <2> QED
    BY <2>5, <2>6, <2>7 DEF l, s
<1> QED
  BY <1>1, <1>2 DEF NamedBy, With

\* The bucket without a bound, if there are classic series, is the last.
LEMMA UnboundedIsLast ==
  ASSUME NEW V, NEW h \in ExposedHistograms(V), NEW marks \in Seq(Marks(V)),
         NEW native, NEW classic, MarksForm(marks, h, native, classic, V),
         NEW name \in Wordings, NEW pairs, NEW stamp,
         NEW parsed, ConvertedAs(parsed, marks, name, pairs, stamp)
  PROVE  /\ classic = 0 => UnboundedOf(parsed, name) = {}
         /\ classic = 1 => UnboundedOf(parsed, name) = {native + 2 + BucketsOf(h)}
<1> DEFINE m == BucketsOf(h)
           b == <<"_bucket">>
<1>1. MarksCounted(marks, h, native, classic)
  BY MarksAreCounted
<1>2. NamedBy(parsed, name, b) = With(marks, b)
  <2>1. b \in Wordings
    BY SuffixesDiffer
  <2> HIDE DEF b
  <2> QED
    BY <2>1, NamedAsMarked
<1>3. CASE classic = 0
  <2>1. With(marks, b) = {}
    BY <1>1, <1>3 DEF MarksCounted
  <2> QED
    BY <1>2, <1>3, <2>1 DEF UnboundedOf
<1>4. CASE classic = 1
  <2>1. With(marks, b) = native + 3 .. native + 2 + m
    BY <1>1, <1>4 DEF MarksCounted
  <2>2. m \in Nat /\ m >= 1
    BY CountedIs
  <2>3. native \in {0, 1}
    BY DEF MarksForm
  <2>4. PICK s : /\ ClassicForms(s, h, V)
                 /\ \A i \in 1 .. Len(s) : marks[native + i] = s[i]
    BY <1>4 DEF MarksForm
  <2>5. ASSUME NEW i \in 1 .. m
        PROVE  /\ Len(marks[native + 2 + i].extra) = 1
               /\ marks[native + 2 + i].extra[1].value = <<"+", "I">> <=> i = m
    <3>1. /\ Len(s) = 2 + m /\ Len(s[2 + i].extra) = 1
          /\ s[2 + i].extra[1].value = <<"+", "I">> <=> i = m
      BY <2>4 DEF ClassicForms
    <3> HIDE DEF m
    <3>2. 2 + i \in 1 .. Len(s) /\ native + (2 + i) = native + 2 + i
      BY <2>2, <2>3, <3>1
    <3>3. marks[native + (2 + i)] = s[2 + i]
      BY <2>4, <3>2
    <3> QED
      BY <3>1, <3>2, <3>3
  <2>6. ASSUME NEW j \in native + 3 .. native + 2 + m
        PROVE  Last(parsed[j].labels).value = <<"+", "I">> <=> j = native + 2 + m
    <3> DEFINE i == j - native - 2
               mark == marks[j]
               l == parsed[j].labels
    <3> HIDE DEF m
    <3>1. i \in 1 .. m /\ native + 2 + i = j
      BY <2>2, <2>3
    <3>2. Len(mark.extra) = 1 /\ (mark.extra[1].value = <<"+", "I">> <=> i = m)
      BY <2>5, <3>1
    <3>3. i = m <=> j = native + 2 + m
      BY <2>2, <2>3
    <3>4. j \in 1 .. Len(marks)
      BY <1>4, <2>2, <2>3 DEF MarksForm, m
    <3>5. SeriesIs(parsed[j], mark, name, pairs, stamp)
      BY <3>4 DEF ConvertedAs
    <3> HIDE DEF i, mark
    <3>6. l[Len(l)] = mark.extra[1]
      BY <3>2, <3>5 DEF SeriesIs, LabelledAs
    <3> QED
      BY <3>2, <3>3, <3>6 DEF Last
  <2> HIDE DEF m, b
  <2>7. native + 2 + m \in native + 3 .. native + 2 + m
    BY <2>2, <2>3
  <2>8. UnboundedOf(parsed, name) = {native + 2 + m}
    <3>1. UnboundedOf(parsed, name) =
            {j \in native + 3 .. native + 2 + m : Last(parsed[j].labels).value = <<"+", "I">>}
      BY <1>2, <2>1 DEF UnboundedOf, b
    <3> QED
      BY <2>6, <2>7, <3>1
  <2> QED
    BY <1>4, <2>8 DEF m
<1> QED
  BY <1>3, <1>4 DEF MarksForm

\* A histogram is native if anything tells of native buckets.
LEMMA NativeIs ==
  ASSUME NEW V, NEW h \in ExposedHistograms(V)
  PROVE  IsNative(h) <=> \/ h.positive.spans # <<>> \/ h.negative.spans # <<>>
                         \/ h.zero_threshold > 0
                         \/ h.zero_count.int + h.zero_count.float > 0
<1>1. h.zero_count.int \in Nat /\ h.zero_count.float \in Nat
  BY DEF ExposedHistograms, Amounts
<1>2. h.zero_count.int > 0 \/ h.zero_count.float > 0
        <=> h.zero_count.int + h.zero_count.float > 0
  BY <1>1
<1> QED
  BY <1>2 DEF IsNative

\* A family of one metric gives what that metric is converted to.
LEMMA OneConverted ==
  ASSUME NumbersPrintApart, NEW V, NEW family \in Families(V), NEW metric,
         family.metrics = <<metric>>, NEW default, NEW options, WellFormed(family),
         ConvertFamily(family, default, options) # Malformed
  PROVE  /\ Ordered(metric) /\ metric \in Metrics(V)
         /\ MarksOf(family.type, metric, options) \in Seq(Marks(V))
         /\ ConvertedAs(ConvertFamily(family, default, options),
                        MarksOf(family.type, metric, options), family.name, metric.labels,
                        StampOf(metric, default, options))
<1> DEFINE metrics == family.metrics
           C(x) == ConvertMetric(family, x, default, options)
           cm == C(metric)
           parsed == ConvertFamily(family, default, options)
<1>1. parsed = Folded(family, metrics, default, options)
  BY DEF ConvertFamily, Folded
<1>2. metrics \in Seq({metric}) /\ metrics \in Seq(Metrics(V)) /\ Len(metrics) = 1 /\ metrics[1] = metric
  <2>1. metrics \in Seq(Metrics(V))
    BY DEF Families
  <2> QED
    BY <2>1
<1>3. Ordered(metric)
  <2>1. \A i \in 1 .. Len(metrics) : Ordered(metrics[i])
    BY WellFormedMetrics
  <2> HIDE DEF metrics
  <2> QED
    BY <1>2, <2>1
<1>4. metric \in Metrics(V)
  <2> DEFINE R == Metrics(V)
  <2>1. metrics \in Seq(R)
    BY <1>2
  <2> HIDE DEF R
  <2> QED
    BY <1>2, <2>1 DEF R
<1>5. /\ FloatsOf(family.type, metric, options) \in Seq(Marks(V))
      /\ Marked(MarksOf(family.type, metric, options), family.type, V)
  BY <1>3, <1>4, MetricMarked
<1>6. metric.labels \in Seq(TextLabels) /\ family.name \in Wordings
  BY <1>4 DEF Metrics, Families
<1>7. cm # Malformed =>
        ConvertedAs(cm, MarksOf(family.type, metric, options), family.name, metric.labels,
                    StampOf(metric, default, options))
  BY <1>5, <1>6, MetricConverted
<1> DEFINE R == {cm[k] : k \in Nat}
<1>8. cm \in Seq(R) \cup {Malformed}
  <2>1. SUFFICES ASSUME cm # Malformed PROVE cm \in Seq(R)
    OBVIOUS
  <2> HIDE DEF cm
  <2>2. PICK S : cm \in Seq(S)
    BY <1>7, <2>1 DEF ConvertedAs
  <2>3. \A k \in 1 .. Len(cm) : cm[k] \in R
    BY <2>2
  <2> HIDE DEF R
  <2> QED
    BY <2>2, <2>3, NarrowedSeq
<1> HIDE DEF R
<1>9. PICK h \in [0 .. Len(metrics) -> Seq(R) \cup {Malformed}] :
        GatheredBy(h, family, metrics, default, options)
  <2> DEFINE M == {metric}
  <2>1. \A x \in M : ConvertMetric(family, x, default, options) \in Seq(R) \cup {Malformed}
    BY <1>8
  <2>2. metrics \in Seq(M)
    BY <1>2
  <2> HIDE DEF metrics, M
  <2> QED
    BY <2>1, <2>2, FamilySteps
<1>10. h[0] = <<>> /\ h[1] = Gather(h[0], cm) /\ h[1] = parsed
  <2>1. /\ h[0] = <<>>
        /\ \A i \in 1 .. Len(metrics) :
             h[i] = Gather(h[i - 1], ConvertMetric(family, metrics[i], default, options))
        /\ h[Len(metrics)] = Folded(family, metrics, default, options)
    BY <1>9 DEF GatheredBy
  <2>2. 1 \in 1 .. Len(metrics) /\ 1 - 1 = 0
    BY <1>2
  <2> HIDE DEF parsed, metrics
  <2> QED
    BY <1>1, <1>2, <2>1, <2>2
<1> HIDE DEF cm, parsed
<1>11. parsed # Malformed
  BY DEF parsed
<1>12. cm # Malformed /\ parsed = <<>> \o cm
  <2>1. parsed = IF h[0] = Malformed \/ cm = Malformed THEN Malformed ELSE h[0] \o cm
    BY <1>10 DEF Gather
  <2> QED
    BY <1>10, <1>11, <2>1
<1>13. parsed = cm
  <2>1. cm \in Seq(R)
    BY <1>8, <1>12
  <2> QED
    BY <1>12, <2>1, NothingBefore
<1> QED
  BY <1>3, <1>4, <1>5, <1>7, <1>12, <1>13 DEF Marked, parsed

-----------------------------------------------------------------------------

\* The exporter leaves the bucket without a bound out if none of its buckets is one.
LEMMA ImplicitIs ==
  ASSUME NEW V, NEW h \in ExposedHistograms(V), BoundsApart(h)
  PROVE  (\A k \in DOMAIN h.buckets : h.buckets[k].bound # Infinity) <=> ~ExplicitInf(h)
<1> DEFINE q == h.buckets
           n == Len(q)
<1>1. DOMAIN q = 1 .. n /\ n \in Nat
  <2>1. \E S : q \in Seq(S)
    BY DEF ExposedHistograms
  <2> QED
    BY <2>1
<1>2. CASE ExplicitInf(h)
  <2>1. q # <<>> /\ q[n].bound = Infinity
    BY <1>2 DEF ExplicitInf, Last
  <2>2. n >= 1
    <3>1. n = BucketsOf(h) /\ BucketsOf(h) >= 1
      BY <1>2, CountedIs
    <3> QED
      BY <3>1
  <2>3. n \in DOMAIN q
    BY <1>1, <2>2
  <2> QED
    BY <1>2, <2>1, <2>3
<1>3. CASE ~ExplicitInf(h)
  <2>1. SUFFICES ASSUME NEW k \in DOMAIN q, q[k].bound = Infinity PROVE FALSE
    BY <1>3
  <2>2. k = n /\ n # 0
    BY <1>1, <2>1 DEF BoundsApart
  <2>3. q # <<>>
    <3>1. SUFFICES ASSUME q = <<>> PROVE FALSE
      OBVIOUS
    <3>2. n = 0
      BY <3>1
    <3> QED
      BY <2>2, <3>2
  <2> QED
    BY <1>3, <2>1, <2>2, <2>3 DEF ExplicitInf, Last
<1> QED
  BY <1>2, <1>3

\* Every histogram is ingested in the forms the options promise, over any labels, bounds
\* and counts: native_histogram and classic_histogram.
THEOREM HistogramsAreIngested ==
  ASSUME NumbersPrintApart, NEW V, NEW metric \in Metrics(V), NEW default, NEW options
  PROVE  HistogramIngested(metric, default, options)
<1> DEFINE name == <<"m">>
           family == [name |-> name, type |-> "histogram", metrics |-> <<metric>>]
           parsed == ConvertFamily(family, default, options)
           h == metric.histogram
           observed == h.positive.spans # <<>> \/ h.negative.spans # <<>> \/ h.zero_threshold > 0
                         \/ h.zero_count.int + h.zero_count.float > 0
           native == IF observed /\ options.native_histograms THEN 1 ELSE 0
           classic == IF native = 1 /\ ~(options.classic_histograms /\ h.buckets # <<>>)
                      THEN 0 ELSE 1
           implicit == \A k \in DOMAIN h.buckets : h.buckets[k].bound # Infinity
           N(suffix) == NamedBy(parsed, name, suffix)
           U == UnboundedOf(parsed, name)
           n == Len(h.buckets)
           m == BucketsOf(h)
           marks == MarksOf("histogram", metric, options)
           stamp == StampOf(metric, default, options)
<1>1. SUFFICES ASSUME WellFormed(family), parsed # Malformed
               PROVE  /\ Cardinality(N(<<>>)) = native
                      /\ \A part \in {<<"_count">>, <<"_sum">>} : Cardinality(N(part)) = classic
                      /\ Cardinality(N(<<"_bucket">>)) =
                           classic * (n + IF implicit THEN 1 ELSE 0)
                      /\ Cardinality(U) = classic
                      /\ implicit => \A i \in U, j \in N(<<"_count">>) :
                                       parsed[i].value = parsed[j].value
                      /\ \A i \in DOMAIN parsed :
                           parsed[i].timestamp =
                             IF options.honor_timestamps /\ metric.timestamp # 0
                             THEN metric.timestamp ELSE default
  BY DEF HistogramIngested, NamedBy, UnboundedOf
<1>2. name \in Wordings
  <2>1. "m" \in Characters
    BY DEF Characters
  <2> QED
    BY <2>1 DEF Wordings
<1>3. family \in Families(V) /\ family.metrics = <<metric>>
  <2>1. <<metric>> \in Seq(Metrics(V))
    OBVIOUS
  <2> DEFINE ms == <<metric>>
  <2> HIDE DEF name, ms
  <2>2. [name |-> name, type |-> "histogram", metrics |-> ms] \in Families(V)
    BY <1>2, <2>1 DEF Families, KnownTypes, ms
  <2> QED
    BY <2>2 DEF ms
<1>4. /\ Ordered(metric) /\ marks \in Seq(Marks(V))
      /\ ConvertedAs(parsed, marks, name, metric.labels, stamp)
  <2>1. family.type = "histogram" /\ family.name = name
    OBVIOUS
  <2>2. WellFormed(family) /\ ConvertFamily(family, default, options) # Malformed
    BY <1>1
  <2> HIDE DEF family, name
  <2> QED
    BY <1>3, <2>1, <2>2, OneConverted
<1>5. h \in ExposedHistograms(V) /\ BoundsApart(h)
  BY <1>4 DEF Metrics, Ordered
<1>6. IsNative(h) <=> observed
  BY <1>5, NativeIs
<1>7. /\ native = IF WantsNative(h, options) THEN 1 ELSE 0
      /\ classic = IF WantsClassic(h, options) THEN 1 ELSE 0
  BY <1>6 DEF WantsNative, WantsClassic
<1>8. MarksForm(marks, h, native, classic, V)
  <2> HIDE DEF native, classic
  <2>1. MarksForm(marks, h, IF WantsNative(h, options) THEN 1 ELSE 0,
                  IF WantsClassic(h, options) THEN 1 ELSE 0, V)
    BY <1>4, MarksFormed
  <2> QED
    BY <1>7, <2>1
<1>9. /\ m \in Nat /\ m >= 1 /\ n \in Nat /\ m = n + IF implicit THEN 1 ELSE 0
  <2>1. implicit <=> ~ExplicitInf(h)
    BY <1>5, ImplicitIs
  <2>2. /\ m \in Nat /\ m >= 1 /\ n \in Nat
        /\ ExplicitInf(h) => m = n
        /\ ~ExplicitInf(h) => m = n + 1
    BY <1>5, CountedIs
  <2> HIDE DEF m, n, implicit
  <2>3. CASE implicit
    BY <2>1, <2>2, <2>3
  <2>4. CASE ~implicit
    BY <2>1, <2>2, <2>4
  <2> QED
    BY <2>2, <2>3, <2>4
<1>10. implicit <=> ~ExplicitInf(h)
  BY <1>5, ImplicitIs
<1>11. native \in {0, 1} /\ classic \in {0, 1}
  OBVIOUS
<1> HIDE DEF name, parsed, h, native, classic, implicit, n, m, marks, stamp
<1>12. MarksCounted(marks, h, native, classic)
  BY <1>5, <1>8, MarksAreCounted
<1>13. \A suffix \in Wordings : N(suffix) = With(marks, suffix)
  BY <1>2, <1>4, NamedAsMarked
<1>14. N(<<>>) = With(marks, <<>>)
  <2>1. <<>> \in Wordings
    BY SuffixesDiffer
  <2> QED
    BY <1>13, <2>1
<1>15. N(<<"_count">>) = With(marks, <<"_count">>)
  <2>1. <<"_count">> \in Wordings
    BY SuffixesDiffer
  <2> QED
    BY <1>13, <2>1
<1>16. N(<<"_sum">>) = With(marks, <<"_sum">>)
  <2>1. <<"_sum">> \in Wordings
    BY SuffixesDiffer
  <2> QED
    BY <1>13, <2>1
<1>17. N(<<"_bucket">>) = With(marks, <<"_bucket">>)
  <2>1. <<"_bucket">> \in Wordings
    BY SuffixesDiffer
  <2> QED
    BY <1>13, <2>1
<1>18. /\ classic = 0 => U = {}
       /\ classic = 1 => U = {native + 2 + m}
  BY <1>2, <1>4, <1>5, <1>8, UnboundedIsLast DEF m
<1> HIDE DEF N, U
<1>19. Cardinality(N(<<>>)) = native
  <2>1. N(<<>>) = 1 .. native
    BY <1>12, <1>14 DEF MarksCounted
  <2>2. Cardinality(1 .. native) = IF 1 > native THEN 0 ELSE native - 1 + 1
    BY <1>11, FS_Interval
  <2> QED
    BY <1>11, <2>1, <2>2
<1>20. Cardinality(N(<<"_count">>)) = classic
  <2> DEFINE a == native + 1
             b == native + classic
  <2>1. N(<<"_count">>) = a .. b
    BY <1>12, <1>15 DEF MarksCounted
  <2>2. a \in Int /\ b \in Int
    BY <1>11
  <2> HIDE DEF a, b
  <2>3. Cardinality(a .. b) = IF a > b THEN 0 ELSE b - a + 1
    BY <2>2, FS_Interval
  <2>4. (IF a > b THEN 0 ELSE b - a + 1) = classic
    BY <1>11 DEF a, b
  <2> QED
    BY <2>1, <2>3, <2>4
<1>21. Cardinality(N(<<"_sum">>)) = classic
  <2> DEFINE a == native + 2
             b == native + 1 + classic
  <2>1. N(<<"_sum">>) = a .. b
    BY <1>12, <1>16 DEF MarksCounted
  <2>2. a \in Int /\ b \in Int
    BY <1>11
  <2> HIDE DEF a, b
  <2>3. Cardinality(a .. b) = IF a > b THEN 0 ELSE b - a + 1
    BY <2>2, FS_Interval
  <2>4. (IF a > b THEN 0 ELSE b - a + 1) = classic
    BY <1>11 DEF a, b
  <2> QED
    BY <2>1, <2>3, <2>4
<1>22. Cardinality(N(<<"_bucket">>)) = classic * (n + IF implicit THEN 1 ELSE 0)
  <2>1. CASE classic = 0
    <3>1. N(<<"_bucket">>) = {}
      BY <1>12, <1>17, <2>1 DEF MarksCounted
    <3>2. Cardinality({}) = 0
      BY FS_EmptySet
    <3>3. 0 * m = 0
      BY <1>9
    <3> QED
      BY <1>9, <2>1, <3>1, <3>2, <3>3
  <2>2. CASE classic = 1
    <3> DEFINE a == native + 3
               b == native + 2 + m
    <3>1. N(<<"_bucket">>) = a .. b
      BY <1>12, <1>17, <2>2 DEF MarksCounted, m
    <3>2. a \in Int /\ b \in Int
      BY <1>9, <1>11
    <3> HIDE DEF a, b
    <3>3. Cardinality(a .. b) = IF a > b THEN 0 ELSE b - a + 1
      BY <3>2, FS_Interval
    <3>4. (IF a > b THEN 0 ELSE b - a + 1) = m
      BY <1>9, <1>11 DEF a, b
    <3>5. 1 * m = m
      BY <1>9
    <3> QED
      BY <1>9, <2>2, <3>1, <3>3, <3>4, <3>5
  <2> QED
    BY <1>11, <2>1, <2>2
<1>23. Cardinality(U) = classic
  <2>1. CASE classic = 0
    BY <1>18, <2>1, FS_EmptySet
  <2>2. CASE classic = 1
    BY <1>18, <2>2, FS_Singleton
  <2> QED
    BY <1>11, <2>1, <2>2
<1>24. ASSUME implicit, NEW i \in U, NEW j \in N(<<"_count">>)
       PROVE  parsed[i].value = parsed[j].value
  <2>1. classic = 1 /\ i = native + 2 + m
    BY <1>11, <1>18
  <2>2. j = native + 1
    <3>1. N(<<"_count">>) = native + 1 .. native + classic
      BY <1>12, <1>15 DEF MarksCounted
    <3> QED
      BY <1>11, <2>1, <3>1
  <2>3. PICK s : /\ ClassicForms(s, h, V)
                 /\ \A k \in 1 .. Len(s) : marks[native + k] = s[k]
    BY <1>8, <2>1 DEF MarksForm
  <2>4. /\ Len(s) = 2 + m /\ s[1].value = Preferred(h.count)
        /\ s[2 + m].value = Preferred(h.count)
    BY <1>10, <1>24, <2>3 DEF ClassicForms, m
  <2>5. /\ 1 \in 1 .. Len(s) /\ 2 + m \in 1 .. Len(s)
        /\ native + (2 + m) = i
    BY <1>9, <1>11, <2>1, <2>4
  <2>6. marks[i].value = marks[j].value
    <3>1. marks[native + 1] = s[1] /\ marks[native + (2 + m)] = s[2 + m]
      BY <2>3, <2>5
    <3> QED
      BY <2>2, <2>4, <2>5, <3>1
  <2>7. Len(marks) = native + 2 + m
    BY <1>8, <2>1 DEF MarksForm, m
  <2>8. i \in 1 .. Len(marks) /\ j \in 1 .. Len(marks)
    BY <1>9, <1>11, <2>1, <2>2, <2>7
  <2>9. parsed[i].value = marks[i].value /\ parsed[j].value = marks[j].value
    BY <1>4, <2>8 DEF ConvertedAs, SeriesIs
  <2> QED
    BY <2>6, <2>9
<1>25. ASSUME NEW i \in DOMAIN parsed PROVE parsed[i].timestamp = stamp
  <2>1. DOMAIN parsed = 1 .. Len(parsed)
    BY <1>4 DEF ConvertedAs
  <2> QED
    BY <1>4, <2>1 DEF ConvertedAs, SeriesIs
<1>26. stamp = IF options.honor_timestamps /\ metric.timestamp # 0
               THEN metric.timestamp ELSE default
  BY DEF stamp, StampOf
<1> QED
  BY <1>19, <1>20, <1>21, <1>22, <1>23, <1>24, <1>25, <1>26

-----------------------------------------------------------------------------

\* What the runs expose: labels, bounds, summaries and histograms.
LEMMA PairsOfRuns == MCPairs \subseteq Seq(TextLabels)
<1>1. "a" \in Characters /\ "m" \in Characters /\ "1" \in Characters /\ "0" \in Characters
      /\ "." \in Characters
  BY DEF Characters
<1>2. /\ <<>> \in Wordings /\ <<"a">> \in Wordings /\ <<"m">> \in Wordings
      /\ <<"1", ".", "0">> \in Wordings
  BY <1>1 DEF Wordings
<1>3. /\ <<>> \in Texts /\ <<"a">> \in Texts /\ <<"m">> \in Texts /\ <<"1", ".", "0">> \in Texts
      /\ LeLabel \in Texts /\ QuantileLabel \in Texts /\ MetricNameLabel \in Texts
  BY <1>2 DEF Texts
<1>4. \A name, value \in Texts : TextLabel(name, value) \in TextLabels
  BY DEF TextLabel, TextLabels
<1> DEFINE e == TextLabel(<<"a">>, <<>>)
           a == TextLabel(<<"a">>, <<"m">>)
           l == TextLabel(LeLabel, <<"1", ".", "0">>)
           q == TextLabel(QuantileLabel, <<>>)
           n == TextLabel(MetricNameLabel, <<"m">>)
<1>5. MCPairs = {<<>>, <<a>>, <<l>>, <<q, a>>, <<e, a>>, <<n>>}
  BY DEF MCPairs
<1>6. /\ e \in TextLabels /\ a \in TextLabels /\ l \in TextLabels /\ q \in TextLabels
      /\ n \in TextLabels
  BY <1>3, <1>4
<1> HIDE DEF e, a, l, q, n
<1>7. /\ <<>> \in Seq(TextLabels) /\ <<a>> \in Seq(TextLabels) /\ <<l>> \in Seq(TextLabels)
      /\ <<q, a>> \in Seq(TextLabels) /\ <<e, a>> \in Seq(TextLabels) /\ <<n>> \in Seq(TextLabels)
  BY <1>6
<1> QED
  BY <1>5, <1>7

\* The floats of the runs are floats as they are read,
LEMMA FloatOfRuns ==
  ASSUME NEW digits \in Seq(Numerals), NEW exponent \in Int, Normal(digits, exponent)
  PROVE  MCFloat(digits, exponent) \in Floats
<1> DEFINE x == MCFloat(digits, exponent)
<1>1. /\ x \in [kind : {"number"}, minus : BOOLEAN, digits : Seq(Numerals), exponent : Int]
      /\ x.digits = digits /\ x.exponent = exponent
  BY DEF MCFloat
<1> HIDE DEF x
<1>2. x \in PlainNumbers
  BY <1>1 DEF PlainNumbers
<1> QED
  BY <1>2 DEF Floats, x

\* among them all bounds of buckets.
LEMMA BoundsOfRuns == MCBounds \subseteq Floats
<1> DEFINE a == <<"1">>
           b == <<"1", "2">>
<1>1. /\ a \in Seq(Numerals) /\ Len(a) = 1 /\ a[1] = "1"
      /\ b \in Seq(Numerals) /\ Len(b) = 2 /\ b[1] = "1" /\ b[2] = "2"
  <2>1. "1" \in Numerals /\ "2" \in Numerals
    BY DEF Numerals
  <2> QED
    BY <2>1
<1>2. \A e \in Int : Normal(a, e) /\ Normal(b, e)
  <2> HIDE DEF a, b
  <2> QED
    BY <1>1 DEF Normal
<1>3. MCBounds = {MCFloat(a, -7), MCFloat(b, -3), MCFloat(b, 1), MCFloat(a, 7), Infinity}
  BY DEF MCBounds
<1> HIDE DEF a, b
<1>4. \A e \in Int : MCFloat(a, e) \in Floats /\ MCFloat(b, e) \in Floats
  BY <1>1, <1>2, FloatOfRuns
<1>5. Infinity \in Floats
  BY DEF Floats
<1>6. -7 \in Int /\ -3 \in Int /\ 1 \in Int /\ 7 \in Int
  OBVIOUS
<1> QED
  BY <1>3, <1>4, <1>5, <1>6

\* The buckets of the runs are buckets,
LEMMA BucketsOfRuns ==
  /\ MCBucketLists \subseteq Seq([bound : Floats, count : Amounts])
  /\ <<>> \in MCBucketLists
  /\ \A s \in MCBucketLists : \A i \in DOMAIN s : s[i].bound \in Floats
<1> DEFINE R == [bound : Floats, count : Amounts]
           S == {[bound |-> bound, count |-> [int |-> 2, float |-> 0]] : bound \in MCBounds}
<1>1. S \subseteq R
  <2>1. [int |-> 2, float |-> 0] \in Amounts
    BY DEF Amounts
  <2> QED
    BY <2>1, BoundsOfRuns
<1>2. MCBucketLists = SeqOf(S, 2)
  BY DEF MCBucketLists
<1>3. \A r \in R : r.bound \in Floats
  OBVIOUS
<1> HIDE DEF R, S
<1>4. ASSUME NEW s \in SeqOf(S, 2) PROVE s \in Seq(R)
  <2>1. PICK m \in 0 .. 2 : s \in [1 .. m -> S]
    BY DEF SeqOf
  <2>2. s \in [1 .. m -> R] /\ m \in Nat
    BY <1>1, <2>1
  <2> QED
    BY <2>2
<1>5. <<>> \in SeqOf(S, 2)
  <2>1. <<>> \in [1 .. 0 -> S] /\ 0 \in 0 .. 2
    OBVIOUS
  <2> QED
    BY <2>1 DEF SeqOf
<1>6. ASSUME NEW s \in SeqOf(S, 2), NEW i \in DOMAIN s PROVE s[i].bound \in Floats
  <2>1. s[i] \in R
    BY <1>4
  <2> QED
    BY <1>3, <2>1
<1> QED
  BY <1>2, <1>4, <1>5, <1>6 DEF R

\* their histograms are histograms,
LEMMA HistogramsOfRuns ==
  MCExposed \subseteq ExposedHistograms(Int) /\ MCNoHistogram \in ExposedHistograms(Int)
<1>1. SchemaMax \in Int /\ SchemaMin - 1 \in Int
  BY HistogramAssumption DEF HistogramAssumption
<1> DEFINE sides == {MCNoSide, [spans |-> <<[offset |-> 0, length |-> 2]>>,
                                deltas |-> <<1, 0>>, counts |-> <<>>]}
           amounts == {[int |-> 3, float |-> 0], [int |-> 0, float |-> 3]}
           buckets == Seq([bound : Floats, count : Amounts])
<1>2. sides \subseteq ExposedSides
  <2> DEFINE none == <<>>
             span == [offset |-> 0, length |-> 2]
             one == <<span>>
             deltas == <<1, 0>>
             Sp == [offset : Int, length : Nat]
  <2>1. span \in Sp
    OBVIOUS
  <2> HIDE DEF span, Sp
  <2>2. one \in Seq(Sp) /\ none \in Seq(Sp) /\ none \in Seq(Int) /\ none \in Seq(Nat)
    BY <2>1
  <2>3. deltas \in Seq(Int)
    OBVIOUS
  <2> HIDE DEF one, none, deltas
  <2>4. /\ [spans |-> none, deltas |-> none, counts |-> none]
             \in [spans : Seq(Sp), deltas : Seq(Int), counts : Seq(Nat)]
        /\ [spans |-> one, deltas |-> deltas, counts |-> none]
             \in [spans : Seq(Sp), deltas : Seq(Int), counts : Seq(Nat)]
    BY <2>2, <2>3
  <2> QED
    BY <2>4 DEF MCNoSide, ExposedSides, one, none, deltas, span, Sp
<1>3. amounts \subseteq Amounts /\ MCNone \in Amounts
  BY DEF Amounts, MCNone
<1>4. MCBucketLists \subseteq buckets /\ <<>> \in MCBucketLists
  BY BucketsOfRuns
<1>5. MCNoSide \in sides
  OBVIOUS
<1>6. MCExposed = [schema : {SchemaMax, SchemaMin - 1}, count : amounts, sum : {7},
                   zero_threshold : {0, 1}, zero_count : {MCNone}, negative : {MCNoSide},
                   positive : sides, buckets : MCBucketLists]
  BY DEF MCExposed, MCNativeSides
<1>7. [int |-> 3, float |-> 0] \in amounts
  OBVIOUS
<1> DEFINE three == [int |-> 3, float |-> 0]
           none == <<>>
<1> HIDE DEF sides, amounts, buckets, three, none
<1>8. MCExposed \subseteq ExposedHistograms(Int)
  <2>1. /\ {SchemaMax, SchemaMin - 1} \subseteq Int /\ {7} \subseteq Int /\ {0, 1} \subseteq Int
        /\ {MCNone} \subseteq Amounts /\ {MCNoSide} \subseteq ExposedSides
    BY <1>1, <1>2, <1>3, <1>5
  <2>2. ExposedHistograms(Int) =
          [schema : Int, count : Amounts, sum : Int, zero_threshold : Int, zero_count : Amounts,
           negative : ExposedSides, positive : ExposedSides, buckets : buckets]
    BY DEF ExposedHistograms, buckets
  <2> QED
    BY <1>2, <1>3, <1>4, <1>6, <2>1, <2>2
<1>9. MCNoHistogram \in MCExposed
  <2> DEFINE h == [schema |-> SchemaMax, count |-> three, sum |-> 7, zero_threshold |-> 0,
                   zero_count |-> MCNone, negative |-> MCNoSide, positive |-> MCNoSide,
                   buckets |-> none]
  <2>1. none \in MCBucketLists /\ three \in amounts
    BY <1>4, <1>7 DEF none, three
  <2>2. /\ h \in MCExposed /\ h.positive = MCNoSide /\ h.zero_threshold = 0
        /\ h.buckets = none
    BY <1>5, <1>6, <2>1
  <2> HIDE DEF h
  <2>3. \E x \in MCExposed : x.positive = MCNoSide /\ x.zero_threshold = 0 /\ x.buckets = <<>>
    BY <2>2 DEF none
  <2> QED
    BY <2>3 DEF MCNoHistogram
<1> QED
  BY <1>8, <1>9

\* and their summaries are summaries.
LEMMA SummariesOfRuns ==
  MCSummaries \subseteq Summaries(Int) /\ MCNoSummary \in Summaries(Int)
<1> DEFINE Q == [quantile : Floats, value : Int]
           Quantiles(s) == [i \in DOMAIN s |-> [quantile |-> s[i].bound, value |-> i]]
<1>1. ASSUME NEW s \in MCBucketLists PROVE Quantiles(s) \in Seq(Q)
  <2> DEFINE n == Len(s)
  <2>1. DOMAIN s = 1 .. n /\ n \in Nat /\ \A i \in 1 .. n : s[i].bound \in Floats
    BY BucketsOfRuns
  <2>2. \A i \in 1 .. n : [quantile |-> s[i].bound, value |-> i] \in Q
    BY <2>1
  <2> HIDE DEF n, Q
  <2>3. Quantiles(s) \in [1 .. n -> Q]
    BY <2>1, <2>2
  <2> HIDE DEF Quantiles
  <2> QED
    BY <2>1, <2>3
<1>2. MCSummaries = {[count |-> 3, sum |-> 7, quantiles |-> Quantiles(s)] : s \in MCBucketLists}
  BY DEF MCSummaries
<1>3. Summaries(Int) = [count : Int, sum : Int, quantiles : Seq(Q)]
  BY DEF Summaries
<1> HIDE DEF Q, Quantiles
<1>4. MCSummaries \subseteq Summaries(Int)
  <2>1. ASSUME NEW s \in MCBucketLists
        PROVE  [count |-> 3, sum |-> 7, quantiles |-> Quantiles(s)] \in Summaries(Int)
    <3> DEFINE q == Quantiles(s)
    <3>1. q \in Seq(Q)
      BY <1>1
    <3> HIDE DEF q
    <3>2. [count |-> 3, sum |-> 7, quantiles |-> q]
             \in [count : Int, sum : Int, quantiles : Seq(Q)]
      BY <3>1
    <3> QED
      BY <1>3, <3>2 DEF q
  <2> QED
    BY <1>2, <2>1
<1>5. MCNoSummary \in Summaries(Int)
  <2> DEFINE none == <<>>
  <2>1. none \in Seq(Q)
    OBVIOUS
  <2> HIDE DEF none
  <2>2. [count |-> 0, sum |-> 0, quantiles |-> none] \in [count : Int, sum : Int, quantiles : Seq(Q)]
    BY <2>1
  <2> QED
    BY <1>3, <2>2 DEF MCNoSummary, none
<1> QED
  BY <1>4, <1>5

\* A metric of the runs.
LEMMA MetricOfRuns ==
  ASSUME NEW labels \in Seq(TextLabels), NEW timestamp \in Int,
         NEW summary \in Summaries(Int), NEW histogram \in ExposedHistograms(Int)
  PROVE  /\ MCMetric(labels, timestamp, summary, histogram) \in Metrics(Int)
         /\ \A l \in Seq(TextLabels) :
              [MCMetric(labels, timestamp, summary, histogram) EXCEPT !.labels = l] \in Metrics(Int)
  BY DEF MCMetric, Metrics

\* Families: what is read is a family that metrics of the runs are of.
FamilyTyped ==
  /\ "of" \in DOMAIN work
  /\ work.of = "family" =>
       /\ {"options", "type", "metrics"} \subseteq DOMAIN work
       /\ work.type \in {"unknown"} \cup KnownTypes
       /\ work.metrics \in Seq(Metrics(Int)) /\ Len(work.metrics) >= 1

\* The types of a family are kept.
LEMMA FamilyInvariant == Spec => []FamilyTyped
<1>1. Init => FamilyTyped
  BY DEF Init, FamilyTyped
<1>2. FamilyTyped /\ [Next]_work => FamilyTyped'
  <2> SUFFICES ASSUME FamilyTyped, [Next]_work PROVE FamilyTyped'
    OBVIOUS
  <2>1. /\ "of" \in DOMAIN work'
        /\ work'.of = "family" => FamilyStart \/ FamilyStep \/ UNCHANGED work
    BY ConversionSteps DEF FamilyTyped
  <2>2. ASSUME NEW type \in {"unknown"} \cup KnownTypes, NEW options, NEW metric \in Metrics(Int),
               work' = [of |-> "family", options |-> options, type |-> type,
                        metrics |-> <<metric>>]
        PROVE  FamilyTyped'
    <3> DEFINE metrics == <<metric>>
    <3>1. metrics \in Seq(Metrics(Int)) /\ Len(metrics) >= 1
      OBVIOUS
    <3>2. work' = [of |-> "family", options |-> options, type |-> type, metrics |-> metrics]
      BY <2>2
    <3> HIDE DEF metrics
    <3>3. /\ DOMAIN work' = {"of", "options", "type", "metrics"}
          /\ work'.type = type /\ work'.metrics = metrics
      BY <3>2
    <3> QED
      BY <3>1, <3>3 DEF FamilyTyped
  <2>3. CASE FamilyStart
    <3>1. PICK options \in MCOptions, timestamp \in {0, 3}, labels \in MCPairs :
            \/ \E histogram \in MCExposed :
                 work' = [of |-> "family", options |-> options, type |-> "histogram",
                          metrics |-> <<MCMetric(labels, timestamp, MCNoSummary, histogram)>>]
            \/ \E summary \in MCSummaries, type \in {"summary", "counter", "unknown"} :
                 work' = [of |-> "family", options |-> options, type |-> type,
                          metrics |-> <<MCMetric(labels, timestamp, summary, MCNoHistogram)>>]
      BY <2>3 DEF FamilyStart
    <3>2. labels \in Seq(TextLabels) /\ timestamp \in Int
      BY PairsOfRuns
    <3>3. CASE \E histogram \in MCExposed :
                 work' = [of |-> "family", options |-> options, type |-> "histogram",
                          metrics |-> <<MCMetric(labels, timestamp, MCNoSummary, histogram)>>]
      <4>1. PICK histogram \in MCExposed :
              work' = [of |-> "family", options |-> options, type |-> "histogram",
                       metrics |-> <<MCMetric(labels, timestamp, MCNoSummary, histogram)>>]
        BY <3>3
      <4>2. MCMetric(labels, timestamp, MCNoSummary, histogram) \in Metrics(Int)
        BY <3>2, HistogramsOfRuns, SummariesOfRuns, MetricOfRuns
      <4>3. "histogram" \in {"unknown"} \cup KnownTypes
        BY DEF KnownTypes
      <4> QED
        BY <2>2, <4>1, <4>2, <4>3
    <3>4. CASE \E summary \in MCSummaries, type \in {"summary", "counter", "unknown"} :
                 work' = [of |-> "family", options |-> options, type |-> type,
                          metrics |-> <<MCMetric(labels, timestamp, summary, MCNoHistogram)>>]
      <4>1. PICK summary \in MCSummaries, type \in {"summary", "counter", "unknown"} :
              work' = [of |-> "family", options |-> options, type |-> type,
                       metrics |-> <<MCMetric(labels, timestamp, summary, MCNoHistogram)>>]
        BY <3>4
      <4>2. MCMetric(labels, timestamp, summary, MCNoHistogram) \in Metrics(Int)
        BY <3>2, HistogramsOfRuns, SummariesOfRuns, MetricOfRuns
      <4>3. type \in {"unknown"} \cup KnownTypes
        BY DEF KnownTypes
      <4> QED
        BY <2>2, <4>1, <4>2, <4>3
    <3> QED
      BY <3>1, <3>3, <3>4
  <2>4. CASE FamilyStep
    <3>1. PICK labels \in MCPairs :
            /\ work.of = "family" /\ Len(work.metrics) = 1
            /\ work' = [work EXCEPT !.metrics = Append(@, [@[1] EXCEPT !.labels = labels])]
      BY <2>4 DEF FamilyStep
    <3> DEFINE metrics == work.metrics
               metric == [metrics[1] EXCEPT !.labels = labels]
    <3>2. /\ {"options", "type", "metrics"} \subseteq DOMAIN work
          /\ work.type \in {"unknown"} \cup KnownTypes
          /\ metrics \in Seq(Metrics(Int)) /\ Len(metrics) = 1
      BY <3>1 DEF FamilyTyped
    <3>3. metric \in Metrics(Int)
      <4> DEFINE R == Metrics(Int)
                 first == metrics[1]
      <4>1. metrics \in Seq(R) /\ Len(metrics) = 1
        BY <3>2
      <4> HIDE DEF R, metrics
      <4>2. first \in R
        BY <4>1
      <4> HIDE DEF first
      <4>3. labels \in Seq(TextLabels)
        BY PairsOfRuns
      <4>4. [first EXCEPT !.labels = labels] \in R
        BY <4>2, <4>3 DEF R, Metrics
      <4> QED
        BY <4>4 DEF first, R
    <3>4. work' = [work EXCEPT !.metrics = Append(metrics, metric)]
      BY <3>1
    <3> HIDE DEF metrics, metric
    <3> DEFINE two == Append(metrics, metric)
    <3>5. two \in Seq(Metrics(Int)) /\ Len(two) >= 1
      BY <3>2, <3>3
    <3> HIDE DEF two
    <3>6. /\ DOMAIN work' = DOMAIN work /\ work'.type = work.type /\ work'.metrics = two
      BY <3>2, <3>4 DEF two
    <3> QED
      BY <2>1, <3>2, <3>5, <3>6 DEF FamilyTyped
  <2>5. CASE UNCHANGED work
    BY <2>5 DEF FamilyTyped
  <2> QED
    BY <2>1, <2>3, <2>4, <2>5 DEF FamilyTyped
<1> QED
  BY <1>1, <1>2, PTL DEF Spec

\* Every family of the runs of the module is read as series that differ in their labels,
\* and every histogram in the forms the options promise.
THEOREM FamiliesAreRead ==
  ASSUME NumbersPrintApart
  PROVE  Spec => []FamiliesRead
<1>1. FamilyTyped => FamiliesRead
  <2>1. SUFFICES ASSUME FamilyTyped, work.of = "family"
                 PROVE  /\ SeriesDistinct([name |-> <<"m">>, type |-> work.type,
                                           metrics |-> work.metrics], MCDefault, work.options)
                        /\ HistogramIngested(work.metrics[1], MCDefault, work.options)
    BY DEF FamiliesRead, FamilySeries, HistogramForms
  <2> DEFINE metrics == work.metrics
             type == work.type
             name == <<"m">>
  <2>2. /\ type \in {"unknown"} \cup KnownTypes
        /\ metrics \in Seq(Metrics(Int)) /\ Len(metrics) >= 1
    BY <2>1 DEF FamilyTyped
  <2>3. name \in Wordings
    <3>1. "m" \in Characters
      BY DEF Characters
    <3> QED
      BY <3>1 DEF Wordings
  <2> HIDE DEF metrics, type, name
  <2>4. [name |-> name, type |-> type, metrics |-> metrics] \in Families(Int)
    BY <2>2, <2>3 DEF Families
  <2>5. SeriesDistinct([name |-> name, type |-> type, metrics |-> metrics], MCDefault, work.options)
    BY <2>4, SeriesAreDistinct
  <2>6. metrics[1] \in Metrics(Int)
    <3> DEFINE R == Metrics(Int)
    <3>1. metrics \in Seq(R)
      BY <2>2
    <3> HIDE DEF R
    <3> QED
      BY <2>2, <3>1 DEF R
  <2>7. HistogramIngested(metrics[1], MCDefault, work.options)
    BY <2>6, HistogramsAreIngested
  <2> QED
    BY <2>5, <2>7 DEF metrics, type, name
<1> QED
  BY <1>1, FamilyInvariant, PTL

=============================================================================
