------------------------- MODULE RasterSpoolProofs -------------------------
(***************************************************************************)
(* The addresses of a spool's lines, for every geometry the writer         *)
(* accepts, and the bounded rasteriser that writes them: its stream is the *)
(* whole frame, its published file is complete and its job fits.           *)
(***************************************************************************)
EXTENDS ScreenPipeline, SequenceTheorems, FiniteSetTheorems, WellFoundedInduction, TLAPS


\* Products grow with their factors.
LEMMA TimesGrows ==
    ASSUME NEW a \in Nat, NEW b \in Nat, NEW c \in Nat, a <= b
    PROVE  a * c <= b * c /\ c * a <= c * b
<1>1. PICK k \in Nat : b = a + k
  <2>1. b - a \in Nat /\ b = a + (b - a)
    OBVIOUS
  <2> QED
    BY <2>1
<1>2. b * c = a * c + k * c /\ c * b = c * a + c * k
  BY <1>1
<1>3. k * c >= 0 /\ c * k >= 0 /\ a * c \in Nat /\ c * a \in Nat
  OBVIOUS
<1> QED
  BY <1>2, <1>3

\* What metadataIsValid() accepts: whole positive numbers, a body that is counted
\* without overflow, and lines that hold the row.
LEMMA AcceptedGeometry ==
    ASSUME NEW m, MetadataIsValid(m)
    PROVE  /\ m.width \in Nat /\ m.width > 0
           /\ m.height \in Nat /\ m.height > 0 /\ m.channels \in Nat /\ m.channels > 0
           /\ m.bytesPerLine \in Nat /\ m.bytesPerLine > 0 /\ m.bytesPerLine <= IntMax
           /\ m.channels * m.height \in Nat /\ m.channels * m.height <= IntMax
<1>1. m.width \in Sizes /\ m.height \in Sizes /\ m.bytesPerLine \in Sizes
      /\ m.channels \in 1..16 /\ m.channels * m.height <= IntMax
  BY DEF MetadataIsValid, MaxChannels
<1>2. \A n \in Sizes : n \in Nat /\ n > 0 /\ n <= IntMax
  BY WordAssumption DEF Sizes
<1>3. m.channels \in Nat /\ m.channels > 0
  BY <1>1
<1> QED
  BY <1>1, <1>2, <1>3

\* The line index of (channel, row), and the order of two of them.
LEMMA IndexInFrame ==
    ASSUME NEW C \in Nat, NEW H \in Nat, NEW c \in 0..(C - 1), NEW r \in 0..(H - 1)
    PROVE  c * H + r \in Nat /\ c * H + r + 1 <= C * H
<1>1. c + 1 \in Nat /\ c + 1 <= C /\ c \in Nat /\ r \in Nat /\ r + 1 <= H
  OBVIOUS
<1>2. (c + 1) * H <= C * H
  BY <1>1, TimesGrows
<1>3. (c + 1) * H = c * H + H /\ c * H \in Nat /\ C * H \in Nat
  BY <1>1
<1> QED
  BY <1>1, <1>2, <1>3

LEMMA IndexOrder ==
    ASSUME NEW H \in Nat, NEW c \in Nat, NEW d \in Nat, c < d,
           NEW r \in 0..(H - 1), NEW q \in 0..(H - 1)
    PROVE  c * H + r + 1 <= d * H + q
<1>1. c + 1 \in Nat /\ c + 1 <= d /\ r \in Nat /\ q \in Nat /\ r + 1 <= H
  OBVIOUS
<1>2. (c + 1) * H <= d * H
  BY <1>1, TimesGrows
<1>3. (c + 1) * H = c * H + H /\ c * H \in Nat /\ d * H \in Nat
  OBVIOUS
<1> QED
  BY <1>1, <1>2, <1>3

\* A line's bytes hold its dots, four to a byte, and end on a word of four bytes.
THEOREM LineHoldsItsDots ==
    ASSUME NEW w \in Nat, w > 0
    PROVE  LineBytes(w) \in Nat /\ 4 * LineBytes(w) >= w /\ LineBytes(w) % 4 = 0
  BY DEF LineBytes

\* Every line of an accepted spool lies behind the header and inside the body, and
\* its last byte's address still fits in a machine word.
THEOREM LinesLieInTheBody ==
    ASSUME NEW m, MetadataIsValid(m), NEW c \in 0..(m.channels - 1),
           NEW r \in 0..(m.height - 1)
    PROVE  /\ HeaderBytes <= LineOffset(m, c, r)
           /\ LineOffset(m, c, r) + m.bytesPerLine <= HeaderBytes + ExpectedBodyBytes(m)
           /\ HeaderBytes + ExpectedBodyBytes(m) <= WordMax
<1> DEFINE i == c * m.height + r
<1> DEFINE L == m.channels * m.height
<1> DEFINE B == m.bytesPerLine
<1>1. i \in Nat /\ L \in Nat /\ B \in Nat /\ i + 1 <= L /\ L <= IntMax /\ B <= IntMax
  BY AcceptedGeometry, IndexInFrame
<1>2. ExpectedBodyBytes(m) = L * B
  BY DEF ExpectedBodyBytes, MetadataIsValid
<1>3. LineOffset(m, c, r) = HeaderBytes + i * B
  BY DEF LineOffset
<1> HIDE DEF i, L, B
<1>4. i * B + B <= L * B /\ i * B \in Nat
  <2>1. (i + 1) * B <= L * B
    BY <1>1, TimesGrows
  <2> QED
    BY <1>1, <2>1
<1>5. L * B <= IntMax * IntMax
  <2>1. L * B <= IntMax * B /\ IntMax * B <= IntMax * IntMax
    BY <1>1, TimesGrows, WordAssumption
  <2> QED
    BY <1>1, <2>1, WordAssumption
<1>6. L * B \in Nat /\ IntMax * IntMax \in Nat
  BY <1>1, WordAssumption
<1>7. m.bytesPerLine = B
  BY DEF B
<1> QED
  BY <1>1, <1>2, <1>3, <1>4, <1>5, <1>6, <1>7, WordAssumption

\* No two lines of an accepted spool share a byte: a line is written where only its
\* own channel and row are read.
THEOREM LinesAreDisjoint ==
    ASSUME NEW m, MetadataIsValid(m),
           NEW c \in 0..(m.channels - 1), NEW d \in 0..(m.channels - 1),
           NEW r \in 0..(m.height - 1), NEW q \in 0..(m.height - 1),
           <<c, r>> # <<d, q>>
    PROVE  \/ LineOffset(m, c, r) + m.bytesPerLine <= LineOffset(m, d, q)
           \/ LineOffset(m, d, q) + m.bytesPerLine <= LineOffset(m, c, r)
<1> DEFINE i == c * m.height + r
<1> DEFINE j == d * m.height + q
<1> DEFINE B == m.bytesPerLine
<1>1. i \in Nat /\ j \in Nat /\ B \in Nat
  BY AcceptedGeometry, IndexInFrame
<1>2. i + 1 <= j \/ j + 1 <= i
  <2>1. m.height \in Nat /\ c \in Nat /\ d \in Nat /\ r \in Nat /\ q \in Nat
    BY AcceptedGeometry
  <2>2. CASE c < d
    BY <2>1, <2>2, IndexOrder
  <2>3. CASE d < c
    BY <2>1, <2>3, IndexOrder
  <2>4. CASE c = d
    <3>1. r # q /\ c * m.height \in Nat /\ c * m.height = d * m.height
      BY <2>1, <2>4
    <3> QED
      BY <2>1, <3>1
  <2> QED
    BY <2>1, <2>2, <2>3, <2>4
<1>3. LineOffset(m, c, r) = HeaderBytes + i * B /\ LineOffset(m, d, q) = HeaderBytes + j * B
  BY DEF LineOffset
<1>4. m.bytesPerLine = B
  BY DEF B
<1> HIDE DEF i, j, B
<1>5. i + 1 <= j => i * B + B <= j * B
  <2>1. i + 1 <= j => (i + 1) * B <= j * B
    BY <1>1, TimesGrows
  <2> QED
    BY <1>1, <2>1
<1>6. j + 1 <= i => j * B + B <= i * B
  <2>1. j + 1 <= i => (j + 1) * B <= i * B
    BY <1>1, TimesGrows
  <2> QED
    BY <1>1, <2>1
<1>7. i * B \in Nat /\ j * B \in Nat
  BY <1>1
<1> QED
  BY <1>1, <1>2, <1>3, <1>4, <1>5, <1>6, <1>7, WordAssumption

-----------------------------------------------------------------------------
SSpec == SInit /\ [][SNext]_svars

\* A set of numbers has a least one.
LEMMA LeastNumber ==
    ASSUME NEW S, S \subseteq Nat, S # {}
    PROVE  \E n \in S : \A m \in S : n <= m
<1>1. IsWellFoundedOn(OpToRel(<, Nat), Nat)
  BY NatLessThanWellFounded
<1>2. OpToRel(<, Nat) = {ss \in Nat \X Nat : ss[1] < ss[2]}
  BY DEF OpToRel
<1>3. PICK x \in S : \A low \in S : ~ (<<low, x>> \in OpToRel(<, Nat))
  BY <1>1, WFMin
<1>4. \A low \in S : ~ (low < x)
  BY <1>2, <1>3
<1> QED
  BY <1>4

\* The row of a channel before any promotion.
Raw(c, r) == ScreenedRow(c, source[r][c], r)

\* What defines the rows of a whole frame, up to a row.
FrameUpTo(c, n, f) ==
    f = [r \in 0..n |->
          IF ~Config[c].promote \/ r = 0 \/ r >= Height - 2 THEN Raw(c, r)
          ELSE PromoteRow(f[r - 1], Raw(c, r), Raw(c, r + 1), Raw(c, r + 2))]

\* There is one such function for every row, by induction: the least row without one
\* would extend the one before it.
LEMMA FrameExists ==
    ASSUME NEW c \in Channels
    PROVE  \A n \in Nat : \E f : FrameUpTo(c, n, f)
<1> DEFINE S == {n \in Nat : ~\E f : FrameUpTo(c, n, f)}
<1>1. SUFFICES ASSUME S # {} PROVE FALSE
  OBVIOUS
<1>2. PICK n \in S : \A m \in S : n <= m
  BY <1>1, LeastNumber
<1>3. CASE n = 0
  <2> DEFINE f == [r \in 0..0 |-> Raw(c, r)]
  <2>1. FrameUpTo(c, 0, f)
    BY DEF FrameUpTo
  <2> QED
    BY <1>3, <2>1
<1>4. CASE n # 0
  <2>1. n \in Nat /\ n - 1 \in Nat /\ n - 1 \notin S
    BY <1>2, <1>4
  <2>2. PICK f : FrameUpTo(c, n - 1, f)
    BY <2>1
  <2> DEFINE v == IF ~Config[c].promote \/ n >= Height - 2 THEN Raw(c, n)
                  ELSE PromoteRow(f[n - 1], Raw(c, n), Raw(c, n + 1), Raw(c, n + 2))
             g == [r \in 0..n |-> IF r = n THEN v ELSE f[r]]
  <2>3. ASSUME NEW r \in 0..n
        PROVE  g[r] = IF ~Config[c].promote \/ r = 0 \/ r >= Height - 2 THEN Raw(c, r)
                      ELSE PromoteRow(g[r - 1], Raw(c, r), Raw(c, r + 1), Raw(c, r + 2))
    <3>1. CASE r = n
      BY <1>4, <2>1, <3>1
    <3>2. CASE r # n
      <4>1. r \in 0..(n - 1) /\ g[r] = f[r] /\ (r # 0 => r - 1 \in 0..n /\ r - 1 # n /\ g[r - 1] = f[r - 1])
        BY <2>1, <3>2
      <4>2. f[r] = IF ~Config[c].promote \/ r = 0 \/ r >= Height - 2 THEN Raw(c, r)
                      ELSE PromoteRow(f[r - 1], Raw(c, r), Raw(c, r + 1), Raw(c, r + 2))
        BY <2>2, <4>1 DEF FrameUpTo
      <4> QED
        BY <4>1, <4>2
    <3> QED
      BY <3>1, <3>2
  <2> HIDE DEF v
  <2>4. FrameUpTo(c, n, g)
    BY <2>3 DEF FrameUpTo
  <2> QED
    BY <2>4
<1> QED
  BY <1>3, <1>4

\* So the rows of the whole frame are the ones its definition asks for.
LEMMA WholeFrameRows ==
    ASSUME NEW c \in Channels
    PROVE  FrameUpTo(c, Height - 1, WholeFrame(c))
<1> DEFINE raw == [r \in Rows |-> ScreenedRow(c, source[r][c], r)]
           A(f, r) == IF ~Config[c].promote \/ r = 0 \/ r >= Height - 2 THEN raw[r]
                      ELSE PromoteRow(f[r - 1], raw[r], raw[r + 1], raw[r + 2])
           B(f, r) == IF ~Config[c].promote \/ r = 0 \/ r >= Height - 2 THEN Raw(c, r)
                      ELSE PromoteRow(f[r - 1], Raw(c, r), Raw(c, r + 1), Raw(c, r + 2))
<1>1. WholeFrame(c) = CHOOSE f : f = [r \in Rows |-> A(f, r)]
  BY DEF WholeFrame
<1>2. Height \in Nat \ {0} /\ Rows = 0..(Height - 1) /\ Height - 1 \in Nat
  BY ScreenAssumption DEF Rows
<1>3. ASSUME NEW f, NEW r \in Rows PROVE A(f, r) = B(f, r)
  <2>1. raw[r] = Raw(c, r)
    BY DEF Raw
  <2>2. r < Height - 2 => raw[r + 1] = Raw(c, r + 1) /\ raw[r + 2] = Raw(c, r + 2)
    BY <1>2 DEF Raw
  <2>3. r \in Int
    BY <1>2
  <2> HIDE DEF raw
  <2> QED
    BY <1>2, <2>1, <2>2, <2>3
<1>4. \A f : FrameUpTo(c, Height - 1, f) <=> f = [r \in 0..(Height - 1) |-> B(f, r)]
  BY DEF FrameUpTo
<1> HIDE DEF A, B
<1>5. ASSUME NEW f PROVE [r \in Rows |-> A(f, r)] = [r \in 0..(Height - 1) |-> B(f, r)]
  BY <1>2, <1>3
<1>6. PICK f : f = [r \in Rows |-> A(f, r)]
  BY <1>2, <1>4, <1>5, FrameExists
<1> DEFINE Def(g) == g = [r \in Rows |-> A(g, r)]
<1>7. Def(WholeFrame(c))
  <2>1. WholeFrame(c) = CHOOSE g : Def(g)
    BY <1>1
  <2>2. Def(f)
    BY <1>6
  <2> HIDE DEF Def
  <2> QED
    BY <2>1, <2>2
<1> QED
  BY <1>4, <1>5, <1>7

\* Visiting a row's columns leaves it a row, and of the same number.
LEMMA PromoteKeepsRow ==
    ASSUME NEW above, NEW center, NEW below, NEW below2, "y" \in DOMAIN center
    PROVE  PromoteRow(above, center, below, below2).y = center.y
<1> DEFINE last == Larger(0, Width - 3)
           step(g, x) == [g EXCEPT !.dots[x] =
                  PromotedDot(<<above, g, below, below2>>, x, center.y)]
           Def(n, f) == f = [x \in 0..n |-> IF x = 0 THEN center ELSE step(f[x - 1], x)]
           Same(g) == DOMAIN g = DOMAIN center /\ g.y = center.y
<1>1. last \in Nat
  BY ScreenAssumption DEF Larger
<1>2. PromoteRow(above, center, below, below2) = (CHOOSE f : Def(last, f))[last]
  BY DEF PromoteRow
<1>3. ASSUME NEW g, NEW x, Same(g) PROVE Same(step(g, x))
  BY <1>3
<1> HIDE DEF step, last
<1>4. \A n \in Nat : \E f : Def(n, f)
  <2> DEFINE S == {n \in Nat : ~\E f : Def(n, f)}
  <2>1. SUFFICES ASSUME S # {} PROVE FALSE
    OBVIOUS
  <2>2. PICK n \in S : \A m \in S : n <= m
    BY <2>1, LeastNumber
  <2>3. CASE n = 0
    <3>1. Def(0, [x \in 0..0 |-> center])
      OBVIOUS
    <3> QED
      BY <2>3, <3>1
  <2>4. CASE n # 0
    <3>1. n \in Nat /\ n - 1 \in Nat /\ n - 1 \notin S
      BY <2>2, <2>4
    <3>2. PICK f : Def(n - 1, f)
      BY <3>1
    <3> DEFINE g == [x \in 0..n |-> IF x = n THEN step(f[n - 1], n) ELSE f[x]]
    <3>3. ASSUME NEW x \in 0..n PROVE g[x] = IF x = 0 THEN center ELSE step(g[x - 1], x)
      <4>1. CASE x = n
        BY <2>4, <3>1, <4>1
      <4>2. CASE x # n
        <5>1. x \in 0..(n - 1) /\ g[x] = f[x] /\ (x # 0 => g[x - 1] = f[x - 1])
          BY <3>1, <4>2
        <5>2. f[x] = IF x = 0 THEN center ELSE step(f[x - 1], x)
          BY <3>2, <5>1
        <5> QED
          BY <5>1, <5>2
      <4> QED
        BY <4>1, <4>2
    <3>4. Def(n, g)
      BY <3>3
    <3> QED
      BY <3>4
  <2> QED
    BY <2>3, <2>4
<1>5. ASSUME NEW f, Def(last, f) PROVE \A x \in 0..last : Same(f[x])
  <2> DEFINE S == {x \in 0..last : ~Same(f[x])}
  <2>1. SUFFICES ASSUME S # {} PROVE FALSE
    OBVIOUS
  <2>2. PICK x \in S : \A m \in S : x <= m
    <3>1. S \subseteq Nat
      BY <1>1
    <3> HIDE DEF S
    <3> QED
      BY <2>1, <3>1, LeastNumber
  <2>3. CASE x = 0
    BY <1>1, <1>5, <2>2, <2>3
  <2>4. CASE x # 0
    <3>1. x - 1 \in 0..last /\ x - 1 \notin S
      BY <1>1, <2>2, <2>4
    <3>2. f[x] = step(f[x - 1], x)
      BY <1>5, <2>2, <2>4
    <3> QED
      BY <1>3, <2>2, <3>1, <3>2
  <2> QED
    BY <2>3, <2>4
<1>6. Def(last, CHOOSE f : Def(last, f))
  <2> HIDE DEF Def
  <2> QED
    BY <1>1, <1>4
<1>7. Same((CHOOSE f : Def(last, f))[last])
  <2>1. last \in 0..last
    BY <1>1
  <2> HIDE DEF Def, Same
  <2> QED
    BY <1>5, <1>6, <2>1
<1> QED
  <2> HIDE DEF Def
  <2> QED
    BY <1>2, <1>7

\* What is left of a sequence without its first element.
LEMMA WithoutFirst ==
    ASSUME NEW S, NEW q \in Seq(S), Len(q) # 0
    PROVE  /\ Head(q) = q[1] /\ Head(q) \in S
           /\ Tail(q) \in Seq(S) /\ Len(Tail(q)) = Len(q) - 1
           /\ \A i \in 1..(Len(q) - 1) : Tail(q)[i] = q[i + 1]
<1>1. q # <<>>
  OBVIOUS
<1> QED
  BY <1>1, HeadTailProperties

\* The same sequence with another second element.
LEMMA WithSecond ==
    ASSUME NEW S, NEW q \in Seq(S), Len(q) >= 2, NEW e \in S, NEW v, v = [q EXCEPT ![2] = e]
    PROVE  /\ v \in Seq(S) /\ Len(v) = Len(q) /\ v[2] = e
           /\ \A i \in 1..Len(q) : i # 2 => v[i] = q[i]
<1>1. 2 \in 1..Len(q)
  OBVIOUS
<1> QED
  BY <1>1, ExceptSeq

\* A sequence with one element more.
LEMMA WithLast ==
    ASSUME NEW S, NEW q \in Seq(S), NEW e \in S, NEW v, v = Append(q, e)
    PROVE  /\ v \in Seq(S) /\ Len(v) = Len(q) + 1 /\ v[Len(q) + 1] = e
           /\ \A i \in 1..Len(q) : v[i] = q[i]
  BY AppendProperties

\* Three elements, one place on.
LEMMA Shifted ==
    ASSUME NEW q, NEW t, \A i \in 1..3 : t[i] = q[i + 1]
    PROVE  t[1] = q[2] /\ t[2] = q[3] /\ t[3] = q[4]
<1>1. t[1] = q[1 + 1] /\ t[2] = q[2 + 1] /\ t[3] = q[3 + 1]
  OBVIOUS
<1> QED
  BY <1>1

\* What a full window keeps.
LEMMA ThreeOfFour ==
    ASSUME NEW S, NEW q \in Seq(S), Len(q) = 4
    PROVE  \E t \in Seq(S) :
             t = Tail(q) /\ Len(t) = 3 /\ t[1] = q[2] /\ t[2] = q[3] /\ t[3] = q[4]
<1>1. Len(q) # 0 /\ Len(q) - 1 = 3
  OBVIOUS
<1>2. PICK t \in Seq(S) : t = Tail(q)
  BY <1>1, WithoutFirst
<1>3. Len(t) = Len(q) - 1 /\ \A i \in 1..(Len(q) - 1) : t[i] = q[i + 1]
  BY <1>1, <1>2, WithoutFirst
<1>4. Len(t) = 3 /\ \A i \in 1..3 : t[i] = q[i + 1]
  BY <1>1, <1>3
<1>5. t[1] = q[2] /\ t[2] = q[3] /\ t[3] = q[4]
  BY <1>4, Shifted
<1> QED
  BY <1>2, <1>4, <1>5

\* A row in an empty window.
LEMMA OnlyOne ==
    ASSUME NEW S, NEW q \in Seq(S), Len(q) = 0, NEW e \in S
    PROVE  \E v \in Seq(S) : v = Append(q, e) /\ Len(v) = 1 /\ v[1] = e
<1>1. q = <<>>
  BY EmptySeq
<1>2. Append(q, e) = <<e>> /\ <<e>> \in Seq(S)
  BY <1>1
<1>3. PICK v \in Seq(S) : v = <<e>>
  BY <1>2
<1> QED
  BY <1>2, <1>3

\* The rows of the whole frame, one by one.
LEMMA RowOfFrame ==
    ASSUME NEW c \in Channels, NEW r \in Rows
    PROVE  /\ WholeFrame(c)[r] =
                IF ~Config[c].promote \/ r = 0 \/ r >= Height - 2 THEN Raw(c, r)
                ELSE PromoteRow(WholeFrame(c)[r - 1], Raw(c, r), Raw(c, r + 1), Raw(c, r + 2))
           /\ WholeFrame(c)[r].y = r
           /\ Raw(c, r).y = r
<1>1. /\ WholeFrame(c)[r] =
                IF ~Config[c].promote \/ r = 0 \/ r >= Height - 2 THEN Raw(c, r)
                ELSE PromoteRow(WholeFrame(c)[r - 1], Raw(c, r), Raw(c, r + 1), Raw(c, r + 2))
  BY WholeFrameRows DEF FrameUpTo, Rows
<1>2. Raw(c, r).y = r /\ "y" \in DOMAIN Raw(c, r)
  BY DEF Raw, ScreenedRow
<1>3. PromoteRow(WholeFrame(c)[r - 1], Raw(c, r), Raw(c, r + 1), Raw(c, r + 2)).y
        = Raw(c, r).y
  BY <1>2, PromoteKeepsRow
<1> QED
  BY <1>1, <1>2, <1>3

\* A rolling window after n rows: the last three, the first of them done.
WholeRows(c) == {WholeFrame(c)[r] : r \in Rows}
AnyRows(c) == WholeRows(c) \union {Raw(c, r) : r \in Rows}
Kept(c, n) == IF Config[c].promote THEN Smaller(n, 3) ELSE 0
Entry(c, n, i) ==
    IF i = 1 THEN WholeFrame(c)[n - Kept(c, n)] ELSE Raw(c, n - Kept(c, n) + i - 1)
WindowIs(c, n, w) ==
    w \in Seq(AnyRows(c)) /\ Len(w) = Kept(c, n) /\ \A i \in 1..Len(w) : w[i] = Entry(c, n, i)

\* What makes a window that of n rows.
LEMMA WindowIsThis ==
    ASSUME NEW c, NEW n, NEW w \in Seq(AnyRows(c)), NEW k, k = Kept(c, n), Len(w) = k,
           \A i \in 1..k : w[i] = Entry(c, n, i)
    PROVE  WindowIs(c, n, w)
BY DEF WindowIs

\* The first rows: nothing leaves the window yet.
LEMMA PushEarly ==
    ASSUME NEW c \in Channels, NEW n \in Rows, NEW w, WindowIs(c, n, w), Config[c].promote,
           n < 3, NEW p, p = Append(w, Raw(c, n))
    PROVE  PromoteCenter(p) = p /\ ~Due(c, p) /\ WindowIs(c, n + 1, p)
<1>1. /\ Height \in Nat /\ n \in Nat /\ n < Height /\ Raw(c, n) \in AnyRows(c)
      /\ Rows = 0..(Height - 1)
  BY ScreenAssumption DEF Rows, AnyRows
<1>2. w \in Seq(AnyRows(c)) /\ Len(w) = n /\ Kept(c, n) = n /\ Kept(c, n + 1) = n + 1
  BY <1>1 DEF WindowIs, Kept, Smaller
<1>3. /\ p \in Seq(AnyRows(c)) /\ Len(p) = n + 1 /\ p[n + 1] = Raw(c, n)
      /\ \A i \in 1..n : p[i] = w[i]
  BY <1>1, <1>2, AppendProperties
<1>4. PromoteCenter(p) = p /\ ~Due(c, p)
  BY <1>1, <1>3 DEF PromoteCenter, Due
<1>5. PICK m \in Nat : m = n + 1
  BY <1>1
<1>6. ASSUME NEW i \in 1..m PROVE p[i] = Entry(c, m, i)
  <2>1. m - Kept(c, m) = 0 /\ m - Kept(c, m) + i - 1 = i - 1
    BY <1>1, <1>2, <1>5
  <2>2. Entry(c, m, i) = IF i = 1 THEN WholeFrame(c)[0] ELSE Raw(c, i - 1)
    BY <2>1 DEF Entry
  <2>3. 0 \in Rows
    BY <1>1
  <2>4. WholeFrame(c)[0] = Raw(c, 0)
    BY <2>3, RowOfFrame
  <2>5. CASE i = m
    <3>1. i - 1 = n
      BY <1>1, <1>5, <2>5
    <3>2. p[i] = Raw(c, i - 1)
      BY <1>3, <1>5, <2>5, <3>1
    <3>3. i = 1 => i - 1 = 0
      OBVIOUS
    <3> QED
      BY <2>2, <2>4, <3>2, <3>3
  <2>6. CASE i # m
    <3>1. i \in 1..n /\ n - Kept(c, n) = 0 /\ n - Kept(c, n) + i - 1 = i - 1
      BY <1>1, <1>2, <1>5, <2>6
    <3>2. p[i] = Entry(c, n, i)
      BY <1>2, <1>3, <3>1 DEF WindowIs
    <3>3. Entry(c, n, i) = IF i = 1 THEN WholeFrame(c)[0] ELSE Raw(c, i - 1)
      BY <3>1 DEF Entry
    <3> QED
      BY <2>2, <3>2, <3>3
  <2> QED
    BY <2>5, <2>6
<1>7. WindowIs(c, m, p)
  BY <1>2, <1>3, <1>5, <1>6, WindowIsThis
<1> QED
  BY <1>4, <1>5, <1>7

\* From the fourth row on: the second row is completed and the first one leaves.
LEMMA PushLater ==
    ASSUME NEW c \in Channels, NEW n \in Rows, NEW w, WindowIs(c, n, w), Config[c].promote,
           n >= 3, NEW v, v = PromoteCenter(Append(w, Raw(c, n)))
    PROVE  Due(c, v) /\ Head(v) \in WholeRows(c) /\ WindowIs(c, n + 1, Tail(v))
<1>0. PICK S : S = AnyRows(c)
  OBVIOUS
<1>1. /\ Height \in Nat /\ n \in Nat /\ n < Height /\ Rows = 0..(Height - 1)
      /\ \A r \in Rows : /\ WholeFrame(c)[r] \in WholeRows(c)
                         /\ WholeFrame(c)[r] \in S /\ Raw(c, r) \in S
  BY <1>0, ScreenAssumption DEF Rows, AnyRows, WholeRows
<1>2. n - 3 \in Rows /\ n - 2 \in Rows /\ n - 1 \in Rows
  BY <1>1
<1>3. w \in Seq(S) /\ Len(w) = 3 /\ Kept(c, n) = 3 /\ Kept(c, n + 1) = 3
  BY <1>0, <1>1 DEF WindowIs, Kept, Smaller
<1>4. w[1] = WholeFrame(c)[n - 3] /\ w[2] = Raw(c, n - 2) /\ w[3] = Raw(c, n - 1)
  <2>1. w[1] = Entry(c, n, 1) /\ w[2] = Entry(c, n, 2) /\ w[3] = Entry(c, n, 3)
    BY <1>3 DEF WindowIs
  <2>2. n - 3 + 2 - 1 = n - 2 /\ n - 3 + 3 - 1 = n - 1
    BY <1>1
  <2> QED
    BY <1>3, <2>1, <2>2 DEF Entry
<1>5. PICK p : p = Append(w, Raw(c, n))
  OBVIOUS
<1>6. /\ p \in Seq(S) /\ Len(p) = 4 /\ p[1] = w[1] /\ p[2] = w[2] /\ p[3] = w[3]
      /\ p[4] = Raw(c, n)
  <2>1. Raw(c, n) \in S
    BY <1>1
  <2>2. /\ p \in Seq(S) /\ Len(p) = Len(w) + 1 /\ p[Len(w) + 1] = Raw(c, n)
        /\ \A i \in 1..Len(w) : p[i] = w[i]
    BY <1>3, <1>5, <2>1, WithLast
  <2>3. Len(w) + 1 = 4
    BY <1>3
  <2>4. \A i \in 1..3 : p[i] = w[i]
    BY <1>3, <2>2
  <2> QED
    BY <2>2, <2>3, <2>4
<1>7. p[2].y = n - 2 /\ 0 < n - 2 /\ n - 2 < Height - 2
  BY <1>1, <1>2, <1>4, <1>6, RowOfFrame
<1>8. PICK e : e = WholeFrame(c)[n - 2]
  OBVIOUS
<1>9. PromoteRow(p[1], p[2], p[3], p[4]) = e
  <2>1. n - 2 - 1 = n - 3 /\ n - 2 + 1 = n - 1 /\ n - 2 + 2 = n
    BY <1>1
  <2>2. PICK r \in Rows : r = n - 2
    BY <1>2
  <2>3. /\ ~(~Config[c].promote \/ r = 0 \/ r >= Height - 2)
        /\ r - 1 = n - 3 /\ r + 1 = n - 1 /\ r + 2 = n
    BY <1>1, <1>7, <2>1, <2>2
  <2>4. WholeFrame(c)[r]
          = PromoteRow(WholeFrame(c)[r - 1], Raw(c, r), Raw(c, r + 1), Raw(c, r + 2))
    BY <2>3, RowOfFrame
  <2> QED
    BY <1>4, <1>6, <1>8, <2>2, <2>3, <2>4
<1>10. v = [p EXCEPT ![2] = e]
  BY <1>1, <1>5, <1>6, <1>7, <1>9 DEF PromoteCenter
<1>11. /\ v \in Seq(S) /\ Len(v) = 4 /\ v[1] = p[1] /\ v[2] = e /\ v[3] = p[3]
       /\ v[4] = p[4]
  <2>1. e \in S
    BY <1>1, <1>2, <1>8
  <2>2. /\ v \in Seq(S) /\ Len(v) = Len(p) /\ v[2] = e
        /\ \A i \in 1..Len(p) : i # 2 => v[i] = p[i]
    <3>1. p \in Seq(S) /\ Len(p) >= 2
      BY <1>6
    <3> QED
      BY <1>10, <2>1, <3>1, WithSecond
  <2> QED
    BY <1>6, <2>2
<1>12. Due(c, v) /\ Head(v) \in WholeRows(c)
  <2>1. Head(v) = v[1]
    BY <1>11, WithoutFirst
  <2> QED
    BY <1>1, <1>2, <1>4, <1>6, <1>11, <2>1 DEF Due
<1>13. PICK t \in Seq(S) :
          t = Tail(v) /\ Len(t) = 3 /\ t[1] = v[2] /\ t[2] = v[3] /\ t[3] = v[4]
  BY <1>11, ThreeOfFour
<1>14. PICK m \in Nat : m = n + 1
  BY <1>1
<1>15. ASSUME NEW i \in 1..3 PROVE t[i] = Entry(c, m, i)
  <2>1. m - Kept(c, m) = n - 2 /\ n - 2 + 2 - 1 = n - 1 /\ n - 2 + 3 - 1 = n
    BY <1>1, <1>3, <1>14
  <2>2. /\ Entry(c, m, 1) = e /\ Entry(c, m, 2) = Raw(c, n - 1)
        /\ Entry(c, m, 3) = Raw(c, n)
    BY <1>8, <2>1 DEF Entry
  <2>3. i = 1 \/ i = 2 \/ i = 3
    OBVIOUS
  <2> QED
    BY <1>4, <1>6, <1>11, <1>13, <2>2, <2>3
<1>16. WindowIs(c, m, t)
  BY <1>0, <1>3, <1>13, <1>14, <1>15, WindowIsThis
<1> QED
  BY <1>12, <1>13, <1>14, <1>16

\* A channel that is not promoted keeps no rows back.
LEMMA PushPlain ==
    ASSUME NEW c \in Channels, NEW n \in Rows, NEW w, WindowIs(c, n, w), ~Config[c].promote
    PROVE  LET v == Append(w, Raw(c, n)) IN
           Due(c, v) /\ Head(v) \in WholeRows(c) /\ WindowIs(c, n + 1, Tail(v))
<1>0. PICK S : S = AnyRows(c)
  OBVIOUS
<1>1. w \in Seq(S) /\ Len(w) = 0 /\ Kept(c, n + 1) = 0
  BY <1>0 DEF WindowIs, Kept
<1>2. Raw(c, n) \in S /\ WholeFrame(c)[n] \in WholeRows(c)
  BY <1>0 DEF AnyRows, WholeRows
<1>3. PICK e \in S : e = Raw(c, n)
  BY <1>2
<1>4. PICK v \in Seq(S) : v = Append(w, e) /\ Len(v) = 1 /\ v[1] = e
  BY <1>1, OnlyOne
<1>5. Len(v) # 0 /\ Len(v) - 1 = 0
  BY <1>4
<1>6. PICK t \in Seq(S) : t = Tail(v) /\ Len(t) = 0
  BY <1>5, WithoutFirst
<1>7. Head(v) = e
  BY <1>4, <1>5, WithoutFirst
<1>8. e = WholeFrame(c)[n]
  BY <1>3, RowOfFrame
<1>9. WindowIs(c, n + 1, t)
  BY <1>0, <1>1, <1>6 DEF WindowIs
<1> QED
  BY <1>2, <1>3, <1>4, <1>6, <1>7, <1>8, <1>9 DEF Due

\* A row pushed into the window completes the row before the last two, and what leaves
\* the window is a row of the whole frame.
LEMMA PushRow ==
    ASSUME NEW c \in Channels, NEW n \in Rows, NEW w, WindowIs(c, n, w), NEW v,
           v = IF Config[c].promote THEN PromoteCenter(Append(w, Raw(c, n)))
               ELSE Append(w, Raw(c, n))
    PROVE  /\ Due(c, v) => Head(v) \in WholeRows(c) /\ WindowIs(c, n + 1, Tail(v))
           /\ ~Due(c, v) => WindowIs(c, n + 1, v)
<1>1. /\ Height \in Nat /\ n \in Nat /\ Config[c].promote \in BOOLEAN
  BY ScreenAssumption DEF Rows
<1>2. CASE ~Config[c].promote
  BY <1>2, PushPlain
<1>3. CASE Config[c].promote /\ n < 3
  BY <1>3, PushEarly
<1>4. CASE Config[c].promote /\ n >= 3
  BY <1>4, PushLater
<1> QED
  BY <1>1, <1>2, <1>3, <1>4

\* After the last row the window holds rows of the whole frame only.
LEMMA WindowEnds ==
    ASSUME NEW c \in Channels, NEW w, WindowIs(c, Height, w)
    PROVE  w \in Seq(WholeRows(c))
<1>1. /\ Height \in Nat \ {0} /\ Config[c].promote \in BOOLEAN /\ w \in Seq(AnyRows(c))
      /\ Rows = 0..(Height - 1) /\ Len(w) = Kept(c, Height)
  BY ScreenAssumption DEF WindowIs, Rows
<1>2. Len(w) \in Nat /\ Len(w) <= Height /\ Len(w) <= 3
  BY <1>1 DEF Kept, Smaller
<1>3. ASSUME NEW i \in 1..Len(w) PROVE w[i] \in WholeRows(c)
  <2>1. CASE i = 1
    <3>1. Height - Len(w) \in Rows
      BY <1>1, <1>2, <2>1
    <3> QED
      BY <1>1, <2>1, <3>1 DEF WindowIs, WholeRows, Entry
  <2>2. CASE i # 1
    <3>1. PICK r \in Rows : r = Height - Len(w) + i - 1 /\ r >= Height - 2
      BY <1>1, <1>2, <2>2
    <3>2. w[i] = Raw(c, r)
      BY <1>1, <2>2, <3>1 DEF WindowIs, Entry
    <3>3. WholeFrame(c)[r] = Raw(c, r)
      BY <3>1, RowOfFrame
    <3> QED
      BY <3>1, <3>2, <3>3 DEF WholeRows
  <2> QED
    BY <2>1, <2>2
<1> QED
  BY <1>1, <1>2, <1>3, IsASeq

\* A spool file: its body is addressed by the lines written, each with its own dots.
FileInv(f) ==
    /\ DOMAIN f = {"there", "sum", "body", "written"}
    /\ f.there => MetadataIsValid(Meta)
    /\ ~f.there => f.written = {}
    /\ f.written \subseteq AllLines(Meta)
    /\ DOMAIN f.body = {LineOffset(Meta, l[1], l[2]) : l \in f.written}
    /\ \A l \in f.written :
         f.body[LineOffset(Meta, l[1], l[2])] = WholeFrame(l[1])[l[2]].dots

\* The metadata are those of the channels and the picture.
LEMMA SizesOfMeta ==
    /\ Size \in 1..MaxChannels /\ Channels = 0..(Size - 1)
    /\ Meta.channels = Size /\ Meta.height = Height /\ Meta.width = Width
    /\ Meta.bytesPerLine = LineBytes(Width)
    /\ AllLines(Meta) = Channels \X Rows
<1>1. PICK n \in 1..MaxChannels : Channels = 0..(n - 1)
  BY ScreenAssumption
<1>2. Size = n
  <2>1. n \in Nat /\ n - 1 \in Int /\ 0 \in Int /\ 0 <= n - 1
    BY <1>1 DEF MaxChannels
  <2>2. Cardinality(0..(n - 1)) = n - 1 - 0 + 1
    BY <2>1, FS_Interval
  <2> QED
    BY <1>1, <2>1, <2>2 DEF Size
<1> QED
  BY <1>1, <1>2 DEF Meta, AllLines, Rows

\* An address is a number.
LEMMA OffsetIsNumber ==
    ASSUME NEW m, MetadataIsValid(m), NEW c \in 0..(m.channels - 1),
           NEW r \in 0..(m.height - 1)
    PROVE  LineOffset(m, c, r) \in Nat
<1>1. m.height \in Nat /\ m.bytesPerLine \in Nat /\ c \in Nat /\ r \in Nat
      /\ HeaderBytes \in Nat
  BY AcceptedGeometry, WordAssumption
<1>2. \A a, b \in Nat : a * b \in Nat /\ a + b \in Nat
  OBVIOUS
<1> QED
  BY <1>1, <1>2 DEF LineOffset

\* Writing a row of the frame where it belongs touches no other line.
LEMMA WriteLine ==
    ASSUME NEW f, FileInv(f), f.there, NEW c \in Channels, NEW w,
           NEW r \in Rows, Head(w) = WholeFrame(c)[r]
    PROVE  /\ FileInv(EmitFront(c, w, f))
           /\ EmitFront(c, w, f).there
<1> DEFINE at == LineOffset(Meta, c, r)
           dots == WholeFrame(c)[r].dots
           g == EmitFront(c, w, f)
<1>1. g = WithLine(Meta, f, c, r, dots)
  BY RowOfFrame DEF EmitFront
<1>2. /\ DOMAIN g = DOMAIN f /\ g.there = f.there
      /\ g.body = [a \in DOMAIN f.body \union {at} |-> IF a = at THEN dots ELSE f.body[a]]
      /\ g.written = f.written \union {<<c, r>>}
  BY <1>1 DEF FileInv, WithLine
<1> HIDE DEF g, dots
<1>3. /\ MetadataIsValid(Meta) /\ <<c, r>> \in AllLines(Meta)
      /\ Meta.channels = Size /\ Meta.height = Height
      /\ Channels = 0..(Size - 1) /\ Rows = 0..(Height - 1)
      /\ AllLines(Meta) = Channels \X Rows
  BY SizesOfMeta DEF FileInv, Rows
<1>4. ASSUME NEW l \in f.written, l # <<c, r>>
      PROVE  LineOffset(Meta, l[1], l[2]) # at
  <2>1. l \in Channels \X Rows
    BY <1>3 DEF FileInv
  <2>2. l[1] \in 0..(Meta.channels - 1) /\ l[2] \in 0..(Meta.height - 1) /\ l = <<l[1], l[2]>>
        /\ c \in 0..(Meta.channels - 1) /\ r \in 0..(Meta.height - 1)
    BY <1>3, <2>1
  <2>3. \/ LineOffset(Meta, l[1], l[2]) + Meta.bytesPerLine <= at
        \/ at + Meta.bytesPerLine <= LineOffset(Meta, l[1], l[2])
    BY <1>3, <1>4, <2>2, LinesAreDisjoint
  <2>4. Meta.bytesPerLine \in Nat /\ Meta.bytesPerLine > 0
    BY <1>3, AcceptedGeometry
  <2>5. at \in Nat /\ LineOffset(Meta, l[1], l[2]) \in Nat
    BY <1>3, <2>2, OffsetIsNumber
  <2> HIDE DEF at
  <2> QED
    BY <2>3, <2>4, <2>5
<1>5. DOMAIN g.body = {LineOffset(Meta, l[1], l[2]) : l \in g.written}
  <2>1. DOMAIN g.body = {LineOffset(Meta, l[1], l[2]) : l \in f.written} \union {at}
    BY <1>2 DEF FileInv
  <2> DEFINE Of(l) == LineOffset(Meta, l[1], l[2])
  <2>2. at = Of(<<c, r>>)
    OBVIOUS
  <2>3. DOMAIN g.body = {Of(l) : l \in f.written} \union {at}
    BY <2>1
  <2> HIDE DEF at, Of
  <2>4. DOMAIN g.body = {Of(l) : l \in g.written}
    BY <1>2, <2>2, <2>3
  <2> QED
    BY <2>4 DEF Of
<1>6. ASSUME NEW l \in g.written
      PROVE  g.body[LineOffset(Meta, l[1], l[2])] = WholeFrame(l[1])[l[2]].dots
  <2>1. CASE l = <<c, r>>
    BY <1>2, <2>1 DEF dots
  <2>2. CASE l # <<c, r>>
    <3>1. l \in f.written /\ LineOffset(Meta, l[1], l[2]) # at
          /\ LineOffset(Meta, l[1], l[2]) \in DOMAIN f.body
      BY <1>2, <1>4, <2>2 DEF FileInv
    <3>2. g.body[LineOffset(Meta, l[1], l[2])] = f.body[LineOffset(Meta, l[1], l[2])]
      BY <1>2, <3>1
    <3> QED
      BY <3>1, <3>2 DEF FileInv
  <2> QED
    BY <2>1, <2>2
<1>7. FileInv(g) /\ g.there
  BY <1>2, <1>3, <1>5, <1>6 DEF FileInv
<1> QED
  BY <1>7 DEF g

\* Where a job is, and what it knows of itself.
Writing == {"strip", "row", "drain", "hash", "rename"}
Before == {"preflight", "create", "open"}
Places == Before \union Writing \union {"deliver", "done", "failed", "down"}
PlaceInv ==
    /\ pc \in Places /\ y \in 0..Height /\ ch \in Channels /\ job \in Requests
    /\ pc \in Before => y = 0
    /\ pc \in Before \union {"strip"} => ch = 0
    /\ pc \in {"strip", "row"} => y < Height
    /\ pc = "done" => printed
    /\ pc \notin {"preflight", "failed", "down"} => PreflightStorage(Meta, job)

\* The files: the partial one lives while a job writes, the published one until it is
\* delivered, and a crash may leave either.
FilesInv ==
    /\ FileInv(spool) /\ FileInv(final)
    /\ spool.there => pc \in Writing \union {"down"}
    /\ pc \in Writing => spool.there
    /\ final.there => pc \in {"deliver", "down"} /\ Verifies(Meta, final)
    /\ pc = "deliver" => final.there
    /\ pc = "rename" => spool.sum /\ spool.written = AllLines(Meta)
    /\ canonical.there => pc \in Before \union Writing \union {"down"}

\* The canonical file: the rows of the source, from the first on.
RowsInv ==
    /\ \E n \in 0..Height : canonical.rows = [i \in 1..n |-> source[i - 1]]
    /\ pc \in {"open", "strip", "row"} => canonical.rows = [i \in 1..Height |-> source[i - 1]]

\* The rolling windows: what the rows so far leave in them, and whole rows at the end.
Pushed(c) == y + (IF c < ch THEN 1 ELSE 0)
WindowsInv ==
    /\ window = [c \in Channels |-> window[c]]
    /\ pc \in Before => \A c \in Channels : window[c] = <<>>
    /\ pc \in {"strip", "row"} => \A c \in Channels : WindowIs(c, Pushed(c), window[c])
    /\ pc = "drain" => \A c \in Channels : window[c] \in Seq(WholeRows(c))

ScreenInv == PlaceInv /\ FilesInv /\ RowsInv /\ WindowsInv

\* The source is read only: what is made from it stays the same.
LEMMA SourceStays ==
    ASSUME source' = source
    PROVE  /\ \A c, r : Raw(c, r)' = Raw(c, r)
           /\ \A c : WholeFrame(c)' = WholeFrame(c)
  BY DEF Raw, WholeFrame

\* So do the files made of it,
LEMMA FilesStay ==
    ASSUME source' = source
    PROVE  \A f : FileInv(f)' <=> FileInv(f)
  BY SourceStays DEF FileInv

\* and the windows.
LEMMA WindowsStay ==
    ASSUME source' = source
    PROVE  /\ \A c, n, w : WindowIs(c, n, w)' <=> WindowIs(c, n, w)
           /\ \A c : WholeRows(c)' = WholeRows(c)
<1>1. \A c : WholeRows(c)' = WholeRows(c)
  BY SourceStays DEF WholeRows
<1>2. \A c : AnyRows(c)' = AnyRows(c)
  BY <1>1, SourceStays DEF AnyRows
<1>3. \A c, n, i : Entry(c, n, i)' = Entry(c, n, i)
  BY SourceStays DEF Entry
<1> QED
  BY <1>1, <1>2, <1>3 DEF WindowIs

\* No file, and a new one.
LEMMA NoFileInv ==
    /\ FileInv(Absent) /\ ~Absent.there
    /\ MetadataIsValid(Meta) => FileInv(NewFile) /\ NewFile.there
<1>1. /\ DOMAIN Absent = {"there", "sum", "body", "written"}
      /\ ~Absent.there /\ Absent.written = {} /\ DOMAIN Absent.body = {}
  BY DEF Absent
<1>2. /\ DOMAIN NewFile = {"there", "sum", "body", "written"}
      /\ NewFile.there /\ NewFile.written = {} /\ DOMAIN NewFile.body = {}
  BY DEF Absent, NewFile
<1> QED
  BY <1>1, <1>2 DEF FileInv

\* The header gets its checksum and nothing else changes.
LEMMA SumInv ==
    ASSUME NEW f, FileInv(f)
    PROVE  /\ FileInv(WithChecksum(f)) /\ WithChecksum(f).sum
           /\ WithChecksum(f).there = f.there /\ WithChecksum(f).written = f.written
<1>1. /\ DOMAIN WithChecksum(f) = DOMAIN f /\ WithChecksum(f).sum
      /\ WithChecksum(f).there = f.there /\ WithChecksum(f).written = f.written
      /\ WithChecksum(f).body = f.body
  BY DEF WithChecksum, FileInv
<1> QED
  BY <1>1 DEF FileInv

\* The first n rows of the source; the next strip goes behind them.
RowsTo(n) == [i \in 1..n |-> source[i - 1]]

\* So they become the first m rows.
LEMMA GrowRows ==
    ASSUME NEW n \in Nat, NEW m \in Nat, n <= m
    PROVE  /\ Len(RowsTo(n)) = n
           /\ RowsTo(n) \o [i \in 1..(m - n) |-> source[n + i - 1]] = RowsTo(m)
<1> DEFINE S == {source[i] : i \in Nat}
           q == RowsTo(n)
           e == [i \in 1..(m - n) |-> source[n + i - 1]]
           t == RowsTo(m)
<1>1. /\ q \in Seq(S) /\ Len(q) = n /\ \A i \in 1..n : q[i] = source[i - 1]
  <2>1. \A i \in 1..n : source[i - 1] \in S
    OBVIOUS
  <2> HIDE DEF S
  <2> QED
    BY <2>1 DEF RowsTo
<1>2. /\ t \in Seq(S) /\ Len(t) = m /\ \A i \in 1..m : t[i] = source[i - 1]
  <2>1. \A i \in 1..m : source[i - 1] \in S
    OBVIOUS
  <2> HIDE DEF S
  <2> QED
    BY <2>1 DEF RowsTo
<1>3. /\ e \in Seq(S) /\ Len(e) = m - n /\ \A i \in 1..(m - n) : e[i] = source[n + i - 1]
  <2>1. \A i \in 1..(m - n) : source[n + i - 1] \in S
    OBVIOUS
  <2>2. m - n \in Nat
    OBVIOUS
  <2> HIDE DEF S
  <2> QED
    BY <2>1, <2>2
<1> HIDE DEF S, q, e, t
<1>4. /\ q \o e \in Seq(S) /\ Len(q \o e) = m
      /\ \A i \in 1..m : (q \o e)[i] = IF i <= n THEN q[i] ELSE e[i - n]
  <2>1. Len(q) + Len(e) = m
    BY <1>1, <1>3
  <2> QED
    BY <1>1, <1>3, <2>1, ConcatProperties
<1>5. ASSUME NEW i \in 1..m PROVE (q \o e)[i] = t[i]
  <2>1. CASE i <= n
    <3>1. i \in 1..n
      BY <2>1
    <3>2. (q \o e)[i] = q[i]
      BY <1>4, <2>1
    <3>3. q[i] = source[i - 1] /\ t[i] = source[i - 1]
      BY <1>1, <1>2, <3>1
    <3> QED
      BY <3>2, <3>3
  <2>2. CASE ~(i <= n)
    <3>1. i - n \in 1..(m - n) /\ n + (i - n) - 1 = i - 1
      BY <2>2
    <3>2. e[i - n] = source[n + (i - n) - 1]
      BY <1>3, <3>1
    <3> QED
      BY <1>2, <1>4, <2>2, <3>1, <3>2
  <2> QED
    BY <2>1, <2>2
<1>6. q \o e = t
  BY <1>2, <1>4, <1>5, SeqEqual
<1> QED
  BY <1>1, <1>6 DEF q, e, t

\* Strips have a height.
LEMMA StripHeights ==
    ASSUME job \in Requests
    PROVE  CanonicalStrip \in Nat \ {0} /\ ScreenStrip \in Nat \ {0}
<1>1. /\ Width \in Nat \ {0} /\ job.budget \in Nat /\ job.alpha \in BOOLEAN /\ Size \in Nat
  BY ScreenAssumption, SizesOfMeta DEF MaxChannels
<1>2. ASSUME NEW b \in Nat \ {0} PROVE BoundedRowsForWidth(b) \in Nat \ {0}
  <2>1. Width * b \in Nat /\ Width * b > 0
    BY <1>1
  <2>2. PICK k \in Nat \ {0} : k = Width * b
    BY <2>1
  <2>3. job.budget \div k \in Int
    BY <1>1, <2>2
  <2> QED
    BY <2>2, <2>3 DEF BoundedRowsForWidth, Smaller, Larger, MaximumStripRows
<1> QED
  BY <1>1, <1>2 DEF CanonicalStrip, ScreenStrip

\* A job that fails leaves nothing: whatever it had opened goes.
LEMMA UnwindKeeps ==
    ASSUME ScreenInv, pc \notin {"deliver", "down"}, Unwind
    PROVE  ScreenInv'
<1>1. /\ pc' = "failed" /\ spool' = Absent
      /\ canonical' = [there |-> FALSE, rows |-> <<>>]
      /\ window' = [c \in Channels |-> <<>>]
      /\ UNCHANGED <<source, job, y, ch, final, printed>>
  BY DEF Unwind
<1>2. FileInv(spool)' /\ FileInv(final)' /\ ~spool'.there /\ ~final'.there
  BY <1>1, FilesStay, NoFileInv DEF ScreenInv, FilesInv
<1>3. PlaceInv'
  BY <1>1 DEF ScreenInv, PlaceInv, Places, Before, Writing
<1>4. FilesInv'
  BY <1>1, <1>2 DEF FilesInv, Writing, Before
<1>5. RowsInv'
  <2>1. canonical'.rows = [i \in 1..0 |-> source[i - 1]] /\ 0 \in 0..Height
    BY <1>1, ScreenAssumption
  <2> QED
    BY <1>1, <2>1 DEF RowsInv
<1>6. WindowsInv'
  BY <1>1 DEF WindowsInv, Before
<1> QED
  BY <1>3, <1>4, <1>5, <1>6 DEF ScreenInv

\* Steps before the first strip, and at the end.
LEMMA PreflightKeeps ==
    ASSUME ScreenInv, Preflight
    PROVE  ScreenInv'
<1>1. CASE Unwind
  BY <1>1, UnwindKeeps DEF Preflight
<1>2. CASE ~Unwind
  <2>1. /\ pc = "preflight" /\ PreflightStorage(Meta, job) /\ pc' = "create"
        /\ UNCHANGED <<source, job, y, ch, canonical, window, spool, final, printed>>
    BY <1>2 DEF Preflight
  <2>2. PlaceInv'
    <3>1. PreflightStorage(Meta, job)'
      BY <2>1
    <3> QED
      BY <2>1, <3>1 DEF ScreenInv, PlaceInv, Places, Before, Writing
  <2>3. FilesInv'
    BY <2>1, FilesStay DEF ScreenInv, FilesInv, Writing, Before
  <2>4. RowsInv'
    BY <2>1 DEF ScreenInv, RowsInv
  <2>5. WindowsInv'
    BY <2>1 DEF ScreenInv, WindowsInv, Before
  <2> QED
    BY <2>2, <2>3, <2>4, <2>5 DEF ScreenInv
<1> QED
  BY <1>1, <1>2

\* A strip is exported behind the others.
LEMMA ExportStripKeeps ==
    ASSUME ScreenInv, ExportStrip
    PROVE  ScreenInv'
<1>1. CASE canceled
  BY <1>1, UnwindKeeps DEF ExportStrip
<1>2. CASE ~canceled
  <2>1. PICK n \in 0..Height : canonical.rows = RowsTo(n)
    BY DEF ScreenInv, RowsInv, RowsTo
  <2>2. PICK k \in Nat \ {0} : k = CanonicalStrip
    BY StripHeights DEF ScreenInv, PlaceInv
  <2>3. Height \in Nat \ {0} /\ n \in Nat
    BY <2>1, ScreenAssumption
  <2>4. PICK m \in 0..Height : m = Smaller(n + k, Height) /\ n <= m
    BY <2>2, <2>3 DEF Smaller
  <2>5. /\ Len(canonical.rows) = n
        /\ RowsTo(n) \o [i \in 1..(m - n) |-> source[n + i - 1]] = RowsTo(m)
    <3>1. m \in Nat
      BY <2>3, <2>4
    <3>2. /\ Len(RowsTo(n)) = n
          /\ RowsTo(n) \o [i \in 1..(m - n) |-> source[n + i - 1]] = RowsTo(m)
      BY <2>3, <2>4, <3>1, GrowRows
    <3> QED
      BY <2>1, <3>2
  <2>6. /\ pc = "create"
        /\ canonical' = [there |-> TRUE, rows |-> RowsTo(m)]
        /\ pc' = IF m = Height THEN "open" ELSE "create"
        /\ UNCHANGED <<source, job, y, ch, window, spool, final, printed>>
    BY <1>2, <2>1, <2>2, <2>4, <2>5 DEF ExportStrip
  <2>7. PlaceInv'
    <3>1. PreflightStorage(Meta, job)'
      BY <2>6 DEF ScreenInv, PlaceInv
    <3> QED
      BY <2>6, <3>1 DEF ScreenInv, PlaceInv, Places, Before, Writing
  <2>8. FilesInv'
    BY <2>6, FilesStay DEF ScreenInv, FilesInv, Writing, Before
  <2>9. RowsInv'
    BY <2>4, <2>6 DEF RowsInv, RowsTo
  <2>10. WindowsInv'
    BY <2>6 DEF ScreenInv, WindowsInv, Before
  <2> QED
    BY <2>7, <2>8, <2>9, <2>10 DEF ScreenInv
<1> QED
  BY <1>1, <1>2

\* The writer opens an empty file; the windows are empty.
LEMMA OpenWriterKeeps ==
    ASSUME ScreenInv, OpenWriter
    PROVE  ScreenInv'
<1>1. CASE ~MetadataIsValid(Meta)
  BY <1>1, UnwindKeeps DEF OpenWriter
<1>2. CASE MetadataIsValid(Meta)
  <2>1. /\ pc = "open" /\ spool' = NewFile /\ pc' = "strip"
        /\ UNCHANGED <<source, job, y, ch, canonical, window, final, printed>>
    BY <1>2 DEF OpenWriter
  <2>2. PlaceInv'
    <3>1. PreflightStorage(Meta, job)' /\ 0 < Height
      BY <2>1, ScreenAssumption DEF ScreenInv, PlaceInv
    <3> QED
      BY <2>1, <3>1 DEF ScreenInv, PlaceInv, Places, Before, Writing
  <2>3. FilesInv'
    BY <1>2, <2>1, FilesStay, NoFileInv DEF ScreenInv, FilesInv, Writing, Before
  <2>4. RowsInv'
    BY <2>1 DEF ScreenInv, RowsInv
  <2>5. ASSUME NEW c \in Channels PROVE WindowIs(c, Pushed(c), window[c])'
    <3>1. Pushed(c)' = 0
      <4>1. y = 0 /\ ch = 0 /\ c \in Nat
        BY <2>1, SizesOfMeta DEF ScreenInv, PlaceInv, Before
      <4> QED
        BY <2>1, <4>1 DEF Pushed
    <3>2. window'[c] = <<>>
      BY <2>1 DEF ScreenInv, WindowsInv, Before
    <3>3. WindowIs(c, 0, <<>>)
      BY ScreenAssumption DEF WindowIs, Kept, Smaller
    <3> QED
      BY <2>1, <3>1, <3>2, <3>3, WindowsStay
  <2>6. WindowsInv'
    BY <2>1, <2>5 DEF ScreenInv, WindowsInv, Before
  <2> QED
    BY <2>2, <2>3, <2>4, <2>6 DEF ScreenInv
<1> QED
  BY <1>1, <1>2

\* A strip starts.
LEMMA StartStripKeeps ==
    ASSUME ScreenInv, StartStrip
    PROVE  ScreenInv'
<1>1. CASE canceled
  BY <1>1, UnwindKeeps DEF StartStrip
<1>2. CASE ~canceled
  <2>1. /\ pc = "strip" /\ pc' = "row"
        /\ UNCHANGED <<source, job, y, ch, canonical, window, spool, final, printed>>
    BY <1>2 DEF StartStrip
  <2>2. PlaceInv'
    <3>1. PreflightStorage(Meta, job)'
      BY <2>1 DEF ScreenInv, PlaceInv
    <3> QED
      BY <2>1, <3>1 DEF ScreenInv, PlaceInv, Places, Before, Writing
  <2>3. FilesInv'
    BY <2>1, FilesStay DEF ScreenInv, FilesInv, Writing, Before
  <2>4. RowsInv'
    BY <2>1 DEF ScreenInv, RowsInv
  <2>5. ASSUME NEW c \in Channels PROVE WindowIs(c, Pushed(c), window[c])'
    <3>1. Pushed(c)' = Pushed(c) /\ window'[c] = window[c]
      BY <2>1 DEF Pushed
    <3>2. WindowIs(c, Pushed(c), window[c])
      BY <2>1 DEF ScreenInv, WindowsInv
    <3> QED
      BY <2>1, <3>1, <3>2, WindowsStay
  <2>6. WindowsInv'
    BY <2>1, <2>5 DEF ScreenInv, WindowsInv, Before
  <2> QED
    BY <2>2, <2>3, <2>4, <2>6 DEF ScreenInv
<1> QED
  BY <1>1, <1>2

\* One row of one channel: the row goes into its window, and what leaves the window goes
\* where the frame has it.
LEMMA ScreenRowKeeps ==
    ASSUME ScreenInv, ScreenRow
    PROVE  ScreenInv'
<1>1. CASE canceled
  BY <1>1, UnwindKeeps DEF ScreenRow
<1>2. CASE ~canceled
  <2> DEFINE last == ch + 1 = Size
  <2>0. /\ Height \in Nat \ {0} /\ y \in Rows /\ Rows = 0..(Height - 1) /\ ch \in Channels
        /\ Size \in Nat \ {0} /\ Channels = 0..(Size - 1) /\ pc = "row"
        /\ Config[ch].promote \in BOOLEAN
    BY <1>2, ScreenAssumption, SizesOfMeta
       DEF ScreenRow, ScreenInv, PlaceInv, Rows, MaxChannels
  <2>1. ScreenedRow(ch, canonical.rows[y + 1][ch], y) = Raw(ch, y)
    <3>1. canonical.rows[y + 1] = source[y]
      <4>1. y + 1 \in 1..Height /\ y + 1 - 1 = y
        BY <2>0
      <4> QED
        BY <2>0, <4>1 DEF ScreenInv, RowsInv
    <3> QED
      BY <3>1 DEF Raw
  <2>2. PICK v : v = IF Config[ch].promote THEN PromoteCenter(Append(window[ch], Raw(ch, y)))
                     ELSE Append(window[ch], Raw(ch, y))
    OBVIOUS
  <2>3. /\ \/ /\ Due(ch, v) /\ spool' = EmitFront(ch, v, spool)
              /\ window' = [window EXCEPT ![ch] = Tail(v)]
           \/ ~Due(ch, v) /\ window' = [window EXCEPT ![ch] = v] /\ spool' = spool
        /\ ch' = (IF last THEN 0 ELSE ch + 1)
        /\ y' = (IF last THEN y + 1 ELSE y)
        /\ \E end \in BOOLEAN :
             /\ y + 1 = Height => end
             /\ pc' = IF last /\ end THEN IF y + 1 = Height THEN "drain" ELSE "strip"
                      ELSE "row"
        /\ UNCHANGED <<source, job, canonical, final, printed>>
    <3>1. PICK end \in BOOLEAN : end = ((y + 1) % ScreenStrip = 0 \/ y + 1 = Height)
      OBVIOUS
    <3> QED
      BY <1>2, <2>1, <2>2, <3>1 DEF ScreenRow
  <2>4. /\ pc' \in {"row", "strip", "drain"}
        /\ pc' = "drain" <=> last /\ y + 1 = Height
        /\ pc' = "strip" => last
    BY <2>3
  <2>5. /\ Due(ch, v) => Head(v) \in WholeRows(ch) /\ WindowIs(ch, y + 1, Tail(v))
        /\ ~Due(ch, v) => WindowIs(ch, y + 1, v)
    <3>1. Pushed(ch) = y
      BY <2>0 DEF Pushed, Rows
    <3>2. WindowIs(ch, y, window[ch])
      BY <2>0, <3>1 DEF ScreenInv, WindowsInv
    <3> QED
      BY <2>0, <2>2, <3>2, PushRow
  <2>6. window' = [c \in Channels |-> window'[c]] /\ WindowIs(ch, y + 1, window'[ch])
        /\ \A c \in Channels \ {ch} : window'[c] = window[c]
    <3>1. window = [c \in Channels |-> window[c]]
      BY DEF ScreenInv, WindowsInv
    <3>2. PICK t : window' = [window EXCEPT ![ch] = t] /\ WindowIs(ch, y + 1, t)
      BY <2>3, <2>5
    <3> QED
      BY <2>0, <3>1, <3>2
  <2>7. ASSUME NEW c \in Channels
        PROVE  WindowIs(c, Pushed(c)', window'[c]) /\ (last => Pushed(c)' = y + 1)
    <3>1. CASE c = ch
      <4>1. Pushed(c)' = y + 1
        BY <2>0, <2>3, <3>1 DEF Pushed, Rows
      <4> QED
        BY <2>6, <3>1, <4>1
    <3>2. CASE c # ch
      <4>1. Pushed(c)' = Pushed(c) /\ (last => Pushed(c) = y + 1)
        BY <2>0, <2>3, <3>2 DEF Pushed, Rows
      <4>2. WindowIs(c, Pushed(c), window[c]) /\ window'[c] = window[c]
        BY <2>0, <2>6, <3>2 DEF ScreenInv, WindowsInv
      <4> QED
        BY <4>1, <4>2
    <3> QED
      BY <3>1, <3>2
  <2>8. PlaceInv'
    <3>1. PreflightStorage(Meta, job)'
      BY <2>0, <2>3 DEF ScreenInv, PlaceInv
    <3>2. y' \in 0..Height /\ ch' \in Channels /\ (pc' \in {"strip", "row"} => y' < Height)
          /\ (pc' = "strip" => ch' = 0)
      BY <2>0, <2>3, <2>4
    <3> QED
      BY <2>3, <2>4, <3>1, <3>2 DEF ScreenInv, PlaceInv, Places, Before, Writing
  <2>9. FilesInv'
    <3>1. FileInv(spool) /\ spool.there /\ FileInv(final) /\ ~final.there
      BY <2>0 DEF ScreenInv, FilesInv, Writing
    <3>2. \E f : spool' = f /\ FileInv(f) /\ f.there
      <4>1. CASE Due(ch, v)
        <5>1. PICK r \in Rows : Head(v) = WholeFrame(ch)[r]
          BY <2>5, <4>1 DEF WholeRows
        <5> QED
          BY <2>0, <2>3, <3>1, <4>1, <5>1, WriteLine
      <4>2. CASE ~Due(ch, v)
        BY <2>3, <3>1, <4>2
      <4> QED
        BY <4>1, <4>2
    <3>3. FileInv(spool)' /\ spool'.there /\ FileInv(final)' /\ ~final'.there
      BY <2>3, <3>1, <3>2, FilesStay
    <3> QED
      BY <2>3, <2>4, <3>3 DEF ScreenInv, FilesInv, Writing, Before
  <2>10. RowsInv'
    <3>1. pc = "row" /\ UNCHANGED <<source, canonical>>
      BY <2>0, <2>3
    <3> QED
      BY <3>1 DEF ScreenInv, RowsInv
  <2>11. WindowsInv'
    <3>1. ASSUME NEW c \in Channels PROVE WindowIs(c, Pushed(c), window[c])'
      BY <2>3, <2>7, WindowsStay
    <3>2. ASSUME NEW c \in Channels, pc' = "drain" PROVE (window[c] \in Seq(WholeRows(c)))'
      <4>1. Pushed(c)' = Height
        BY <2>4, <2>7, <3>2
      <4>2. WindowIs(c, Height, window'[c])
        BY <2>7, <4>1
      <4>3. window'[c] \in Seq(WholeRows(c))
        BY <4>2, WindowEnds
      <4> QED
        BY <2>3, <4>3, WindowsStay
    <3> QED
      BY <2>4, <2>6, <3>1, <3>2 DEF WindowsInv, Before
  <2> QED
    BY <2>8, <2>9, <2>10, <2>11 DEF ScreenInv
<1> QED
  BY <1>1, <1>2

\* The windows are emptied into the file.
LEMMA DrainKeeps ==
    ASSUME ScreenInv, Drain
    PROVE  ScreenInv'
<1>0. /\ Size \in Nat \ {0} /\ Channels = 0..(Size - 1) /\ pc = "drain" /\ ch \in Channels
      /\ window = [c \in Channels |-> window[c]]
      /\ UNCHANGED <<source, job, y, canonical, final, printed>>
  <2>1. Size \in Nat \ {0} /\ Channels = 0..(Size - 1)
    BY SizesOfMeta DEF MaxChannels
  <2>2. pc = "drain" /\ UNCHANGED <<source, job, y, canonical, final, printed>>
    BY DEF Drain
  <2>3. ch \in Channels
    BY <2>2 DEF ScreenInv, PlaceInv
  <2>4. window = [c \in Channels |-> window[c]]
    BY DEF ScreenInv, WindowsInv
  <2> QED
    BY <2>1, <2>2, <2>3, <2>4
<1>1. FileInv(spool) /\ spool.there /\ FileInv(final) /\ ~final.there
  BY <1>0 DEF ScreenInv, FilesInv, Writing
<1>2. /\ pc' \in {"drain", "hash"} /\ ch' \in Channels
      /\ \E f : spool' = f /\ FileInv(f) /\ f.there
      /\ window' = [c \in Channels |-> window'[c]]
      /\ \A c \in Channels : window'[c] \in Seq(WholeRows(c))
  <2>1. CASE window[ch] # <<>>
    <3>1. PICK S : S = WholeRows(ch)
      OBVIOUS
    <3>2. window[ch] \in Seq(S) /\ \A c \in Channels : window[c] \in Seq(WholeRows(c))
      BY <1>0, <3>1 DEF ScreenInv, WindowsInv
    <3>3. PICK q \in Seq(S) : q = window[ch] /\ Len(q) # 0
      BY <2>1, <3>2, EmptySeq
    <3>4. Head(q) \in S /\ Tail(q) \in Seq(S)
      BY <3>3, WithoutFirst
    <3>5. /\ spool' = EmitFront(ch, q, spool) /\ window' = [window EXCEPT ![ch] = Tail(q)]
          /\ UNCHANGED <<pc, ch>>
      BY <2>1, <3>3 DEF Drain
    <3>6. PICK r \in Rows : Head(q) = WholeFrame(ch)[r]
      BY <3>1, <3>4 DEF WholeRows
    <3>7. FileInv(EmitFront(ch, q, spool)) /\ EmitFront(ch, q, spool).there
      BY <1>0, <1>1, <3>6, WriteLine
    <3>8. PICK t : t = Tail(q) /\ t \in Seq(S)
      BY <3>4
    <3>9. window' = [window EXCEPT ![ch] = t]
      BY <3>5, <3>8
    <3> QED
      BY <1>0, <3>1, <3>2, <3>5, <3>7, <3>8, <3>9
  <2>2. CASE window[ch] = <<>>
    <3>1. /\ \/ ch + 1 < Size /\ ch' = ch + 1 /\ pc' = pc
             \/ ch' = 0 /\ pc' = "hash"
          /\ UNCHANGED <<spool, window>>
      BY <2>2 DEF Drain
    <3> QED
      BY <1>0, <1>1, <3>1 DEF ScreenInv, WindowsInv
  <2> QED
    BY <2>1, <2>2
<1>3. PlaceInv'
  <2>1. PreflightStorage(Meta, job)'
    BY <1>0 DEF ScreenInv, PlaceInv
  <2> QED
    BY <1>0, <1>2, <2>1 DEF ScreenInv, PlaceInv, Places, Before, Writing
<1>4. FilesInv'
  <2>1. FileInv(spool)' /\ spool'.there /\ FileInv(final)' /\ ~final'.there
    BY <1>0, <1>1, <1>2, FilesStay
  <2> QED
    BY <1>0, <1>2, <2>1 DEF ScreenInv, FilesInv, Writing, Before
<1>5. RowsInv'
  BY <1>0, <1>2 DEF ScreenInv, RowsInv
<1>6. WindowsInv'
  <2>1. ASSUME NEW c \in Channels PROVE (window[c] \in Seq(WholeRows(c)))'
    BY <1>0, <1>2, WindowsStay
  <2> QED
    BY <1>2, <2>1 DEF WindowsInv, Before
<1> QED
  BY <1>3, <1>4, <1>5, <1>6 DEF ScreenInv

\* A complete file gets its checksum, its final name, and is delivered.
LEMMA FinalizeKeeps ==
    ASSUME ScreenInv, Finalize
    PROVE  ScreenInv'
<1>1. CASE Incomplete(Meta, spool) \/ canceled
  BY <1>1, UnwindKeeps DEF Finalize
<1>2. CASE ~(Incomplete(Meta, spool) \/ canceled)
  <2>1. /\ pc = "hash" /\ spool' = WithChecksum(spool) /\ pc' = "rename"
        /\ spool.written = AllLines(Meta)
        /\ UNCHANGED <<source, job, y, ch, canonical, window, final, printed>>
    BY <1>2 DEF Finalize, Incomplete
  <2>2. /\ FileInv(spool) /\ spool.there /\ FileInv(final) /\ ~final.there
    BY <2>1 DEF ScreenInv, FilesInv, Writing
  <2>3. PICK f : /\ spool' = f /\ FileInv(f) /\ f.there /\ f.sum
                 /\ f.written = AllLines(Meta)
    BY <2>1, <2>2, SumInv
  <2>4. PlaceInv'
    <3>1. PreflightStorage(Meta, job)'
      BY <2>1 DEF ScreenInv, PlaceInv
    <3> QED
      BY <2>1, <3>1 DEF ScreenInv, PlaceInv, Places, Before, Writing
  <2>5. FilesInv'
    <3>1. FileInv(spool)' /\ spool'.there /\ FileInv(final)' /\ ~final'.there
      BY <2>1, <2>2, <2>3, FilesStay
    <3> QED
      BY <2>1, <2>3, <3>1 DEF FilesInv, Writing, Before
  <2>6. RowsInv'
    BY <2>1 DEF ScreenInv, RowsInv
  <2>7. WindowsInv'
    BY <2>1 DEF ScreenInv, WindowsInv, Before
  <2> QED
    BY <2>4, <2>5, <2>6, <2>7 DEF ScreenInv
<1> QED
  BY <1>1, <1>2

\* The file keeps its lines under its final name.
LEMMA PublishKeeps ==
    ASSUME ScreenInv, Publish
    PROVE  ScreenInv'
<1>1. /\ pc = "rename" /\ pc' = "deliver" /\ final' = spool /\ spool' = Absent
      /\ canonical' = [there |-> FALSE, rows |-> <<>>]
      /\ UNCHANGED <<source, job, y, ch, window, printed>>
  BY DEF Publish
<1>2. FileInv(spool) /\ spool.there /\ spool.sum /\ spool.written = AllLines(Meta)
  BY <1>1 DEF ScreenInv, FilesInv, Writing
<1>3. Verifies(Meta, spool)
  BY <1>2 DEF Verifies, HeaderDecodes, FileInv
<1>4. PlaceInv'
  <2>1. PreflightStorage(Meta, job)'
    BY <1>1 DEF ScreenInv, PlaceInv
  <2> QED
    BY <1>1, <2>1 DEF ScreenInv, PlaceInv, Places, Before, Writing
<1>5. FilesInv'
  <2>1. FileInv(spool)' /\ ~spool'.there /\ FileInv(final)' /\ final'.there
    BY <1>1, <1>2, FilesStay, NoFileInv
  <2>2. Verifies(Meta, final)'
    BY <1>1, <1>3
  <2> QED
    BY <1>1, <2>1, <2>2 DEF FilesInv, Writing, Before
<1>6. RowsInv'
  <2>1. canonical'.rows = [i \in 1..0 |-> source[i - 1]] /\ 0 \in 0..Height
    BY <1>1, ScreenAssumption
  <2> QED
    BY <1>1, <2>1 DEF RowsInv
<1>7. WindowsInv'
  BY <1>1 DEF ScreenInv, WindowsInv, Before
<1> QED
  BY <1>4, <1>5, <1>6, <1>7 DEF ScreenInv

\* It is removed once it has been read.
LEMMA DeliverKeeps ==
    ASSUME ScreenInv, Deliver
    PROVE  ScreenInv'
<1>1. /\ pc = "deliver" /\ pc' = "done" /\ final' = Absent /\ printed' = Verifies(Meta, final)
      /\ UNCHANGED <<source, job, y, ch, canonical, window, spool>>
  BY DEF Deliver
<1>2. FileInv(spool) /\ ~spool.there /\ Verifies(Meta, final) /\ ~canonical.there
  BY <1>1 DEF ScreenInv, FilesInv, Writing, Before
<1>3. PlaceInv'
  <2>1. PreflightStorage(Meta, job)'
    BY <1>1 DEF ScreenInv, PlaceInv
  <2> QED
    BY <1>1, <1>2, <2>1 DEF ScreenInv, PlaceInv, Places, Before, Writing
<1>4. FilesInv'
  <2>1. FileInv(spool)' /\ ~spool'.there /\ FileInv(final)' /\ ~final'.there /\ ~canonical'.there
    BY <1>1, <1>2, FilesStay, NoFileInv
  <2> QED
    BY <1>1, <2>1 DEF FilesInv, Writing, Before
<1>5. RowsInv'
  BY <1>1 DEF ScreenInv, RowsInv
<1>6. WindowsInv'
  BY <1>1 DEF ScreenInv, WindowsInv, Before
<1> QED
  BY <1>3, <1>4, <1>5, <1>6 DEF ScreenInv

\* A cancel, a crash and the sweep of the next start.
LEMMA OutsideKeeps ==
    ASSUME ScreenInv, CancelOutput \/ Crash \/ UNCHANGED svars
    PROVE  ScreenInv'
<1>1. /\ \/ pc' = pc /\ window' = window
         \/ pc' = "down" /\ pc \notin {"done", "failed", "down"}
            /\ window' = [c \in Channels |-> <<>>]
      /\ UNCHANGED <<source, job, y, ch, canonical, spool, final, printed>>
  BY DEF CancelOutput, Crash, svars
<1>2. PlaceInv'
  <2>1. PreflightStorage(Meta, job)' <=> PreflightStorage(Meta, job)
    BY <1>1
  <2> QED
    BY <1>1, <2>1 DEF ScreenInv, PlaceInv, Places, Before, Writing
<1>3. FilesInv'
  <2>1. FileInv(spool)' /\ FileInv(final)'
    BY <1>1, FilesStay DEF ScreenInv, FilesInv
  <2>2. Verifies(Meta, final)' <=> Verifies(Meta, final)
    BY <1>1
  <2> QED
    BY <1>1, <2>1, <2>2 DEF ScreenInv, FilesInv, Writing, Before
<1>4. RowsInv'
  BY <1>1 DEF ScreenInv, RowsInv
<1>5. WindowsInv'
  <2>1. ASSUME NEW c \in Channels, pc' = pc, window' = window
        PROVE  /\ WindowIs(c, Pushed(c), window[c])' <=> WindowIs(c, Pushed(c), window[c])
               /\ (window[c] \in Seq(WholeRows(c)))' <=> window[c] \in Seq(WholeRows(c))
    <3>1. Pushed(c)' = Pushed(c)
      BY <1>1 DEF Pushed
    <3> QED
      BY <1>1, <2>1, <3>1, WindowsStay
  <2> QED
    BY <1>1, <2>1 DEF ScreenInv, WindowsInv, Before
<1> QED
  BY <1>2, <1>3, <1>4, <1>5 DEF ScreenInv

\* The sweep leaves no file.
LEMMA SweepKeeps ==
    ASSUME ScreenInv, Sweep
    PROVE  ScreenInv'
<1>1. /\ pc = "down" /\ pc' = "failed" /\ spool' = Absent /\ final' = Absent
      /\ canonical' = [there |-> FALSE, rows |-> <<>>]
      /\ UNCHANGED <<source, job, y, ch, window, printed>>
  BY DEF Sweep
<1>2. PlaceInv'
  BY <1>1 DEF ScreenInv, PlaceInv, Places, Before, Writing
<1>3. FilesInv'
  <2>1. FileInv(spool)' /\ ~spool'.there /\ FileInv(final)' /\ ~final'.there
    BY <1>1, FilesStay, NoFileInv
  <2> QED
    BY <1>1, <2>1 DEF FilesInv, Writing, Before
<1>4. RowsInv'
  <2>1. canonical'.rows = [i \in 1..0 |-> source[i - 1]] /\ 0 \in 0..Height
    BY <1>1, ScreenAssumption
  <2> QED
    BY <1>1, <2>1 DEF RowsInv
<1>5. WindowsInv'
  BY <1>1 DEF ScreenInv, WindowsInv, Before
<1> QED
  BY <1>2, <1>3, <1>4, <1>5 DEF ScreenInv

\* The invariant holds at the start.
LEMMA ScreenInit == SInit => ScreenInv
<1> SUFFICES ASSUME SInit PROVE ScreenInv
  OBVIOUS
<1>1. 0 \in Channels /\ 0 \in 0..Height
  <2>1. Size \in Nat \ {0} /\ Channels = 0..(Size - 1)
    BY SizesOfMeta DEF MaxChannels
  <2> QED
    BY <2>1, ScreenAssumption
<1>2. PlaceInv
  BY <1>1 DEF SInit, PlaceInv, Places, Before, Writing
<1>3. FilesInv
  BY NoFileInv DEF SInit, FilesInv, Writing, Before
<1>4. RowsInv
  <2>1. canonical.rows = [i \in 1..0 |-> source[i - 1]]
    BY DEF SInit
  <2> QED
    BY <1>1, <2>1 DEF SInit, RowsInv
<1>5. WindowsInv
  BY DEF SInit, WindowsInv, Before
<1> QED
  BY <1>2, <1>3, <1>4, <1>5 DEF ScreenInv

\* What is in the files, the windows and the canonical file at every moment of a job, for
\* every picture, geometry, strip height, screen and promotion.
THEOREM ScreenInvariant == SSpec => []ScreenInv
<1>1. ASSUME ScreenInv, [SNext]_svars PROVE ScreenInv'
  <2>1. CASE StepFails
    BY <1>1, <2>1, UnwindKeeps DEF StepFails
  <2> QED
    BY <1>1, <2>1, PreflightKeeps, ExportStripKeeps, OpenWriterKeeps, StartStripKeeps,
       ScreenRowKeeps, DrainKeeps, FinalizeKeeps, PublishKeeps, DeliverKeeps, OutsideKeeps,
       SweepKeeps DEF SNext
<1> QED
  BY <1>1, ScreenInit, PTL DEF SSpec

\* The bounded rasteriser puts at every line's address exactly the dots of the
\* whole-frame screen.
THEOREM FrameIsReproduced == SSpec => []StreamMatchesFrame
<1>1. ScreenInv => StreamMatchesFrame
  BY DEF ScreenInv, FilesInv, FileInv, StreamMatchesFrame, ReadLine
<1> QED
  BY <1>1, ScreenInvariant, PTL

\* The preflight asks for every cache and file of the job, and a header more.
LEMMA EstimateCovers ==
    ASSUME job \in Requests, PreflightStorage(Meta, job)
    PROVE  LET pixels == Width * Height
               original == job.sourceWidth * job.sourceHeight
               resize == job.sourceWidth # Width \/ job.sourceHeight # Height
               cache == 5 * Quantum
               planes == LineBytes(Width) * Height
           IN  pixels * 4 + pixels * cache
               + (IF resize THEN original * 29 * Quantum ELSE 0)
               + (IF job.alpha THEN original * (1 + cache)
                      + (IF resize THEN pixels * cache ELSE 0) ELSE 0)
               + pixels * cache * job.plates
               + MaskCacheStorage(job.masks)
               + planes * Size
               + (IF job.prn THEN planes * Size ELSE 0)
               + HeaderBytes <= job.disk
<1> DEFINE pixels == Width * Height
           planes == LineBytes(Width) * Height
           src == job.sourceWidth * job.sourceHeight
           resize == job.sourceWidth # Width \/ job.sourceHeight # Height
           r1 == IF resize THEN src * 29 * Quantum ELSE 0
           r2 == IF job.alpha THEN src * (1 + 5 * Quantum)
                       + (IF resize THEN pixels * (5 * Quantum) ELSE 0) ELSE 0
           r3 == pixels * (5 * Quantum) * job.plates
           r4 == MaskCacheStorage(job.masks)
           r5 == planes * Size
           r6 == IF job.prn THEN planes * Size ELSE 0
           base == pixels * 4 + pixels * (5 * Quantum) + r1 + r2 + r3 + r4 + r5 + r6
<1>1. /\ Width \in Nat /\ Height \in Nat /\ Size \in Nat /\ LineBytes(Width) \in Nat
      /\ job.disk \in Nat /\ job.plates \in Nat /\ job.masks \in Nat
      /\ job.sourceWidth \in Nat /\ job.sourceHeight \in Nat
      /\ HeaderBytes \in Nat /\ 5 * HeaderBytes <= r4
  BY ScreenAssumption, WordAssumption, SizesOfMeta DEF MaxChannels, LineBytes
<1>2. \A a, b \in Nat : a * b \in Nat /\ a + b \in Nat
  OBVIOUS
<1>3. pixels \in Nat /\ planes \in Nat /\ src \in Nat /\ 5 * Quantum = 10
  BY <1>1, <1>2 DEF Quantum
<1>4. RequiredStorage(Meta, job) = base + base \div 5
  <2>1. DOMAIN Meta.order = 1..Size
    BY DEF Meta
  <2>2. Cardinality(1..Size) = Size
    BY <1>1, FS_Interval
  <2> QED
    BY SizesOfMeta, <2>1, <2>2 DEF RequiredStorage
<1> HIDE DEF pixels, planes, src, resize
<1>6. r1 \in Nat /\ r2 \in Nat
  BY <1>2, <1>3 DEF Quantum
<1>7. r3 \in Nat
  BY <1>1, <1>2, <1>3
<1>8. r4 \in Nat
  BY <1>1, <1>2 DEF MaskCacheStorage, Quantum
<1>9. r5 \in Nat /\ r6 \in Nat
  BY <1>1, <1>2, <1>3
<1>10. PICK p \in Nat, q \in Nat : p = pixels * 4 /\ q = pixels * (5 * Quantum)
  BY <1>2, <1>3
<1> HIDE DEF r1, r2, r3, r4, r5, r6
<1>11. base \in Nat /\ r4 <= base
  BY <1>6, <1>7, <1>8, <1>9, <1>10
<1>12. base + HeaderBytes <= job.disk
  <2>1. PICK b \in Nat : b = base /\ 5 * HeaderBytes <= b
    BY <1>1, <1>8, <1>11
  <2>2. HeaderBytes <= b \div 5 /\ b \div 5 \in Nat
    BY <1>1, <2>1
  <2>3. b + b \div 5 <= job.disk
    BY <1>4, <2>1 DEF PreflightStorage
  <2> HIDE DEF base
  <2> QED
    BY <1>1, <2>1, <2>2, <2>3
<1> QED
  BY <1>12 DEF pixels, planes, src, resize, r1, r2, r3, r4, r5, r6

\* What a job that passed the preflight has on the disk fits, whatever it is at.
LEMMA JobFits ==
    ASSUME ScreenInv, pc \notin {"preflight", "failed", "down"}
    PROVE  Occupied <= job.disk
<1> DEFINE pixels == Width * Height
           original == job.sourceWidth * job.sourceHeight
           resize == job.sourceWidth # Width \/ job.sourceHeight # Height
           cache == 5 * Quantum
           planes == LineBytes(Width) * Height
           resizing == IF pc = "create" /\ resize THEN original * 29 * Quantum ELSE 0
           alpha == IF ~job.alpha THEN 0
                    ELSE IF pc # "create" THEN pixels * cache
                    ELSE original * (1 + cache) + (IF resize THEN pixels * cache ELSE 0)
           plates == IF pc \in {"open", "strip", "row", "drain", "hash", "rename"}
                     THEN pixels * cache * job.plates ELSE 0
           masks == IF pc \in {"strip", "row", "drain"}
                    THEN MaskCacheStorage(job.masks) ELSE 0
           rows == IF canonical.there THEN 4 * Width * Len(canonical.rows) ELSE 0
           file == IF spool.there \/ final.there
                   THEN HeaderBytes + ExpectedBodyBytes(Meta) ELSE 0
           prn == IF pc = "deliver" /\ job.prn
                  THEN LineBytes(Width) * Height * Size ELSE 0
           r1 == IF resize THEN original * 29 * Quantum ELSE 0
           r2 == IF job.alpha THEN original * (1 + cache)
                       + (IF resize THEN pixels * cache ELSE 0) ELSE 0
           r3 == pixels * cache * job.plates
           r4 == MaskCacheStorage(job.masks)
           r5 == planes * Size
           r6 == IF job.prn THEN planes * Size ELSE 0
<1>1. /\ job \in Requests /\ PreflightStorage(Meta, job)
      /\ FileInv(spool) /\ FileInv(final)
  BY DEF ScreenInv, PlaceInv, FilesInv
<1>2. PICK n \in 0..Height : Len(canonical.rows) = n
  <2>1. PICK n \in 0..Height : canonical.rows = RowsTo(n)
    BY DEF ScreenInv, RowsInv, RowsTo
  <2>2. n \in Nat /\ n <= n
    BY <2>1, ScreenAssumption
  <2> QED
    BY <2>1, <2>2, GrowRows
<1>3. /\ Width \in Nat /\ Height \in Nat /\ Size \in Nat /\ LineBytes(Width) \in Nat
      /\ job.masks \in Nat /\ job.plates \in Nat /\ job.disk \in Nat
      /\ job.sourceWidth \in Nat /\ job.sourceHeight \in Nat
      /\ job.alpha \in BOOLEAN /\ job.prn \in BOOLEAN
      /\ n \in Nat /\ n <= Height /\ HeaderBytes \in Nat
  BY <1>1, <1>2, ScreenAssumption, WordAssumption, SizesOfMeta DEF MaxChannels, LineBytes
<1>4. \A a, b \in Nat : a * b \in Nat /\ a + b \in Nat
  OBVIOUS
<1>5. /\ pixels \in Nat /\ original \in Nat /\ planes \in Nat /\ cache = 10
  BY <1>3, <1>4 DEF Quantum
<1>6. pixels * 4 + pixels * cache + r1 + r2 + r3 + r4 + r5 + r6 + HeaderBytes <= job.disk
  BY <1>1, EstimateCovers
<1>9. rows \in Nat /\ rows <= pixels * 4
  <2>1. Width * n \in Nat /\ Width * n <= Width * Height
    BY <1>3, TimesGrows
  <2>2. 4 * Width * n = (Width * n) * 4
    BY <1>3
  <2>3. PICK k \in Nat : k = Width * n /\ k <= pixels
    BY <2>1
  <2> HIDE DEF pixels
  <2> QED
    BY <1>2, <1>5, <2>2, <2>3
<1>10. file \in Nat /\ file <= HeaderBytes + r5
  <2>1. r5 \in Nat
    BY <1>3, <1>4, <1>5
  <2>2. CASE spool.there \/ final.there
    <3>1. MetadataIsValid(Meta)
      BY <1>1, <2>2 DEF FileInv
    <3>2. ExpectedBodyBytes(Meta) = Size * Height * LineBytes(Width)
      BY <3>1, SizesOfMeta DEF MetadataIsValid, ExpectedBodyBytes
    <3>3. Size * Height * LineBytes(Width) = r5
      BY <1>3
    <3> HIDE DEF r5
    <3> QED
      BY <1>3, <2>1, <2>2, <3>2, <3>3
  <2>3. CASE ~(spool.there \/ final.there)
    <3> HIDE DEF r5
    <3> QED
      BY <1>3, <2>1, <2>3
  <2> QED
    BY <2>2, <2>3
<1>11. prn \in Nat /\ prn <= r6
  BY <1>3, <1>4, <1>5
<1>12. masks \in Nat /\ masks <= r4
  <2>1. r4 \in Nat
    BY <1>3, <1>4 DEF MaskCacheStorage, Quantum
  <2> HIDE DEF r4
  <2> QED
    BY <2>1 DEF r4
<1> HIDE DEF pixels, original, planes, resize
<1>13. plates \in Nat /\ plates <= r3
  <2>1. r3 \in Nat
    BY <1>3, <1>4, <1>5
  <2> QED
    BY <2>1
<1>14. resizing \in Nat /\ resizing <= r1
  BY <1>4, <1>5 DEF Quantum
<1>15. alpha \in Nat /\ alpha <= r2
  <2>1. PICK x \in Nat, z \in Nat : x = pixels * cache /\ z = original * (1 + cache)
    BY <1>4, <1>5
  <2>2. ~resize => x <= z
    BY <1>5, <2>1 DEF resize, pixels, original
  <2> HIDE DEF cache
  <2> QED
    BY <1>3, <2>1, <2>2
<1>16. PICK a \in Nat, b \in Nat : a = pixels * 4 /\ b = pixels * cache
  BY <1>4, <1>5
<1>17. Occupied = b + resizing + alpha + plates + masks + rows + file + prn
  BY <1>16 DEF Occupied, pixels, original, resize
<1>18. r1 \in Nat /\ r2 \in Nat /\ r3 \in Nat /\ r4 \in Nat /\ r5 \in Nat /\ r6 \in Nat
  <2>1. r1 \in Nat /\ r3 \in Nat /\ r5 \in Nat /\ r6 \in Nat
    BY <1>3, <1>4, <1>5 DEF Quantum
  <2>2. r2 \in Nat
    BY <1>4, <1>5
  <2>3. r4 \in Nat
    BY <1>3, <1>4 DEF MaskCacheStorage, Quantum
  <2> QED
    BY <2>1, <2>2, <2>3
<1> HIDE DEF resizing, alpha, plates, masks, rows, file, prn, r1, r2, r3, r4, r5, r6, cache
<1> QED
  BY <1>3, <1>6, <1>9, <1>10, <1>11, <1>12, <1>13, <1>14, <1>15, <1>16, <1>17, <1>18

\* A file under its final name is complete and has its checksum, a job or a process that
\* has ended leaves no file, and a job that passed the preflight never needs more storage
\* than there was.
THEOREM PublishedIsWhole == SSpec => []PublishedIsComplete
<1>1. ScreenInv => PublishedIsComplete
  <2> SUFFICES ASSUME ScreenInv PROVE PublishedIsComplete
    OBVIOUS
  <2>1. final.there => Verifies(Meta, final)
    BY DEF ScreenInv, FilesInv
  <2>2. pc \in {"done", "failed"} => ~spool.there /\ ~final.there /\ ~canonical.there
    BY DEF ScreenInv, FilesInv, Writing, Before
  <2>3. pc = "done" => printed
    BY DEF ScreenInv, PlaceInv
  <2> QED
    BY <2>1, <2>2, <2>3, JobFits DEF PublishedIsComplete
<1> QED
  BY <1>1, ScreenInvariant, PTL
============================================================================
