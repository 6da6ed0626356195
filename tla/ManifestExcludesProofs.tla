----------------------- MODULE ManifestExcludesProofs -----------------------
(***************************************************************************)
(* Theorems about ManifestExcludes for every set of cases: what the        *)
(* collection of the writers' rules keeps, and that no accepted root of a  *)
(* walk leads out of the snapshot.  They rest on lemmas about the texts of *)
(* ExcludeRules, proved by going through a text from left to right.        *)
(***************************************************************************)
EXTENDS ManifestExcludes, Induction

-----------------------------------------------------------------------------
(* Texts and their segments. *)

\* The first n characters of a text.
Pre(p, n) == SubSeq(p, 1, n)

\* What the first n characters of a sequence are, and how they grow to all of it.
LEMMA PreFacts ==
    ASSUME NEW C, NEW p \in Seq(C)
    PROVE  /\ Pre(p, 0) = <<>> /\ Pre(p, Len(p)) = p
           /\ \A n \in 0..Len(p) :
                 /\ Pre(p, n) \in Seq(C) /\ Len(Pre(p, n)) = n
                 /\ \A m \in 1..n : Pre(p, n)[m] = p[m]
           /\ \A n \in 0..(Len(p) - 1) : Pre(p, n + 1) = Append(Pre(p, n), p[n + 1])
<1>1. \A n \in 0..Len(p) :
         /\ Pre(p, n) \in Seq(C) /\ Len(Pre(p, n)) = n
         /\ \A m \in 1..n : Pre(p, n)[m] = p[m]
    BY DEF Pre
<1>2. Pre(p, 0) = <<>> /\ Pre(p, Len(p)) = p
    BY DEF Pre
<1>3. ASSUME NEW n \in 0..(Len(p) - 1)
      PROVE  Pre(p, n + 1) = Append(Pre(p, n), p[n + 1])
  <2>1. /\ Pre(p, n) \in Seq(C) /\ Len(Pre(p, n)) = n /\ Pre(p, n + 1) \in Seq(C) /\ Len(Pre(p, n + 1)) = n + 1
        /\ p[n + 1] \in C
      BY <1>1
  <2>2. ASSUME NEW m \in 1..(n + 1) PROVE Pre(p, n + 1)[m] = Append(Pre(p, n), p[n + 1])[m]
      BY <1>1, <2>1
  <2>. QED
      BY <2>1, <2>2
<1>. QED
    BY <1>1, <1>2, <1>3

\* What a sequence is when something is appended to it.
LEMMA AppendFacts ==
    ASSUME NEW C, NEW q \in Seq(C), NEW c \in C
    PROVE  /\ Append(q, c) \in Seq(C) \ {<<>>} /\ Len(Append(q, c)) = Len(q) + 1 /\ Len(q) \in Nat
           /\ \A m \in 1..Len(q) : Append(q, c)[m] = q[m]
           /\ Append(q, c)[Len(q) + 1] = c /\ Last(Append(q, c)) = c /\ Front(Append(q, c)) = q
<1>1. /\ Append(q, c) \in Seq(C) /\ Len(Append(q, c)) = Len(q) + 1 /\ Len(q) \in Nat
      /\ \A m \in 1..Len(q) : Append(q, c)[m] = q[m]
      /\ Append(q, c)[Len(q) + 1] = c
    OBVIOUS
<1>2. Append(q, c) # <<>>
    BY <1>1
<1>3. Front(Append(q, c)) = q
  <2>1. Front(Append(q, c)) \in Seq(C) /\ Len(Front(Append(q, c))) = Len(q)
      BY <1>1 DEF Front
  <2>2. \A m \in 1..Len(q) : Front(Append(q, c))[m] = q[m]
      BY <1>1 DEF Front
  <2>. QED
      BY <2>1, <2>2
<1>. QED
    BY <1>1, <1>2, <1>3 DEF Last

\* What two sequences in a row are.
LEMMA ConcatFacts ==
    ASSUME NEW C, NEW S \in Seq(C), NEW T \in Seq(C)
    PROVE  /\ S \o T \in Seq(C) /\ Len(S \o T) = Len(S) + Len(T) /\ Len(S) \in Nat /\ Len(T) \in Nat
           /\ \A m \in 1..Len(S) : (S \o T)[m] = S[m]
           /\ \A m \in 1..Len(T) : (S \o T)[Len(S) + m] = T[m]
           /\ S \o <<>> = S /\ <<>> \o S = S
    OBVIOUS

\* What a sequence is without its last element.
LEMMA FrontFacts ==
    ASSUME NEW C, NEW T \in Seq(C), T # <<>>
    PROVE  /\ Front(T) \in Seq(C) /\ Len(Front(T)) = Len(T) - 1 /\ Len(T) \in Nat \ {0}
           /\ \A m \in 1..(Len(T) - 1) : Front(T)[m] = T[m]
           /\ Last(T) = T[Len(T)] /\ Last(T) \in C
<1>1. Len(T) \in Nat \ {0}
    OBVIOUS
<1>2. PICK n \in Nat : n = Len(T) - 1
    BY <1>1
<1>3. SubSeq(T, 1, n) \in Seq(C) /\ Len(SubSeq(T, 1, n)) = n /\ \A m \in 1..n : SubSeq(T, 1, n)[m] = T[m]
    BY <1>1, <1>2
<1>. QED
    BY <1>1, <1>2, <1>3 DEF Front, Last

\* The last element of two sequences in a row is that of the second.
LEMMA FrontConcat ==
    ASSUME NEW C, NEW S \in Seq(C), NEW T \in Seq(C), T # <<>>
    PROVE  /\ Front(T) \in Seq(C) /\ Last(T) \in C /\ Last(S \o T) = Last(T)
           /\ Front(S \o T) = S \o Front(T)
<1>1. Len(T) \in Nat \ {0} /\ Len(S) \in Nat /\ Len(S \o T) = Len(S) + Len(T) /\ S \o T \in Seq(C)
    OBVIOUS
<1>v. PICK V : V = S \o T
    OBVIOUS
<1>2. /\ V \in Seq(C) /\ V # <<>> /\ Len(V) = Len(S) + Len(T)
      /\ \A m \in 1..Len(S) : V[m] = S[m]
      /\ \A m \in 1..Len(T) : V[Len(S) + m] = T[m]
    BY <1>1, <1>v
<1>f. PICK F : F = Front(T)
    OBVIOUS
<1>3. F \in Seq(C) /\ Len(F) = Len(T) - 1 /\ \A m \in 1..(Len(T) - 1) : F[m] = T[m]
    BY <1>f, FrontFacts
<1>g. PICK G : G = Front(V)
    OBVIOUS
<1>4. G \in Seq(C) /\ Len(G) = Len(V) - 1 /\ \A m \in 1..(Len(V) - 1) : G[m] = V[m]
    BY <1>2, <1>g, FrontFacts
<1>5. G = S \o F
  <2>w. PICK W : W = S \o F
      OBVIOUS
  <2>1. /\ W \in Seq(C) /\ Len(W) = Len(S) + Len(F)
        /\ \A m \in 1..Len(S) : W[m] = S[m]
        /\ \A m \in 1..Len(F) : W[Len(S) + m] = F[m]
      BY <1>3, <2>w
  <2>2. ASSUME NEW m \in 1..Len(G) PROVE G[m] = W[m]
    <3>1. m \in Nat /\ m \in 1..(Len(V) - 1) /\ m <= Len(S) + Len(F)
        BY <1>1, <1>2, <1>3, <1>4
    <3>2. CASE m <= Len(S)
        BY <1>1, <1>2, <1>4, <2>1, <3>1, <3>2
    <3>3. CASE m > Len(S)
      <4>1. PICK o \in 1..(Len(T) - 1) : m = Len(S) + o
        <5>1. m - Len(S) \in 1..(Len(T) - 1) /\ m = Len(S) + (m - Len(S))
            BY <1>1, <1>3, <3>1, <3>3
        <5>. QED
            BY <5>1
      <4>2. o \in 1..Len(T) /\ o \in 1..Len(F)
          BY <1>1, <1>3
      <4>3. G[m] = V[m] /\ V[m] = T[o] /\ W[m] = F[o] /\ F[o] = T[o]
          BY <1>2, <1>3, <1>4, <2>1, <3>1, <4>1, <4>2
      <4>. QED
          BY <4>3
    <3>. QED
        BY <1>1, <3>1, <3>2, <3>3
  <2>3. Len(W) = Len(G)
      BY <1>1, <1>2, <1>3, <1>4, <2>1
  <2>4. G = W
      BY <1>4, <2>1, <2>2, <2>3
  <2>. QED
      BY <2>w, <2>4
<1>6. Last(T) \in C /\ Last(S \o T) = Last(T)
    BY <1>1 DEF Last
<1>. QED
    BY <1>v, <1>f, <1>g, <1>3, <1>5, <1>6

\* What the n-th character makes of the segments of those before it.
Grown(segs, p, n) ==
    IF p[n] \in Separators THEN segs
    ELSE IF n = 1 \/ p[n - 1] \in Separators THEN Append(segs, <<p[n]>>)
    ELSE Append(Front(segs), Append(Last(segs), p[n]))

\* f has the segments of the first n characters of p, for every n up to N.
SegmentsUpTo(f, p, N) ==
    f = [n \in 0..N |-> IF n = 0 THEN <<>> ELSE Grown(f[n - 1], p, n)]

\* There is a function that splits a text from left to right, up to any N.
LEMMA SegmentsExist ==
    ASSUME NEW p, NEW N \in Nat
    PROVE  \E f : SegmentsUpTo(f, p, N)
<1>. DEFINE P == {m \in 0..N : \E f : SegmentsUpTo(f, p, m)}
<1>1. 0 \in P
  <2>. DEFINE f == [n \in 0..0 |-> <<>>]
              h == [n \in 0..0 |-> IF n = 0 THEN <<>> ELSE Grown(f[n - 1], p, n)]
  <2>1. \A n \in 0..0 : n = 0
      OBVIOUS
  <2>2. f = h
      BY <2>1, Zenon
  <2>3. SegmentsUpTo(f, p, 0)
    <3>. HIDE DEF f
    <3>. QED
        BY <2>2 DEF SegmentsUpTo
  <2>. QED
      BY <2>3
<1>2. ASSUME NEW m \in 0..(N - 1), m \in P PROVE m + 1 \in P
  <2>1. PICK f : SegmentsUpTo(f, p, m)
      BY <1>2
  <2>. DEFINE g == [n \in 0..(m + 1) |-> IF n <= m THEN f[n] ELSE Grown(f[m], p, m + 1)]
              h == [n \in 0..(m + 1) |-> IF n = 0 THEN <<>> ELSE Grown(g[n - 1], p, n)]
  <2>2. ASSUME NEW n \in 0..(m + 1) PROVE g[n] = h[n]
    <3>1. CASE n = 0
      <4>1. f[0] = <<>>
          BY <2>1 DEF SegmentsUpTo
      <4>. QED
          BY <3>1, <4>1
    <3>2. CASE n \in 1..m
      <4>1. f[n] = Grown(f[n - 1], p, n)
          BY <2>1, <3>2 DEF SegmentsUpTo
      <4>2. g[n] = f[n] /\ g[n - 1] = f[n - 1] /\ h[n] = Grown(g[n - 1], p, n)
          BY <3>2
      <4>. QED
          BY <4>1, <4>2
    <3>3. CASE n = m + 1
      <4>1. g[m + 1] = Grown(f[m], p, m + 1) /\ g[m] = f[m] /\ h[m + 1] = Grown(g[m], p, m + 1)
          OBVIOUS
      <4>. QED
          BY <4>1, <3>3
    <3>. QED
        BY <3>1, <3>2, <3>3
  <2>3. g = h
    <3>1. DOMAIN g = 0..(m + 1) /\ DOMAIN h = 0..(m + 1) /\ g = [n \in DOMAIN g |-> g[n]] /\ h = [n \in DOMAIN h |-> h[n]]
        OBVIOUS
    <3>. HIDE DEF g, h
    <3>. QED
        BY <2>2, <3>1
  <2>4. SegmentsUpTo(g, p, m + 1)
    <3>. HIDE DEF g
    <3>. QED
        BY <2>3 DEF SegmentsUpTo
  <2>. QED
      BY <2>4
<1>. HIDE DEF P
<1>i. Inductive(P, N)
    BY <1>1, <1>2 DEF Inductive
<1>3. N \in P
    BY <1>i, Reached
<1>. QED
    BY <1>3 DEF P

\* Two texts have the same first N characters.
AgreeUpTo(p, q, N) == \A n \in 1..N : p[n] = q[n]

\* Two texts that begin alike have the same segments so far.
LEMMA SegmentsAgree ==
    ASSUME NEW p, NEW q, NEW M \in Nat, NEW N \in Nat, NEW f, NEW g, SegmentsUpTo(f, p, M), SegmentsUpTo(g, q, N),
           M <= N, AgreeUpTo(p, q, M)
    PROVE  f[M] = g[M]
<1>. DEFINE P == {m \in 0..M : f[m] = g[m]}
<1>1. 0 \in P
    BY DEF SegmentsUpTo
<1>2. ASSUME NEW m \in 0..(M - 1), m \in P PROVE m + 1 \in P
  <2>1. f[m + 1] = Grown(f[m], p, m + 1) /\ g[m + 1] = Grown(g[m], q, m + 1)
      BY DEF SegmentsUpTo
  <2>2. f[m] = g[m] /\ p[m + 1] = q[m + 1] /\ (m + 1 = 1 \/ p[m] = q[m])
      BY <1>2 DEF AgreeUpTo
  <2>3. Grown(f[m], p, m + 1) = Grown(g[m], q, m + 1)
      BY <2>2 DEF Grown
  <2>. QED
      BY <2>1, <2>3
<1>. HIDE DEF P
<1>i. Inductive(P, M)
    BY <1>1, <1>2 DEF Inductive
<1>3. M \in P
    BY <1>i, Reached
<1>. QED
    BY <1>3 DEF P

\* Segments splits a text from left to right.
LEMMA SegmentsAre ==
    ASSUME NEW p \in Text
    PROVE  \E f : SegmentsUpTo(f, p, Len(p)) /\ Segments(p) = f[Len(p)]
<1>. DEFINE of == CHOOSE f : SegmentsUpTo(f, p, Len(p))
<1>1. Len(p) \in Nat
    BY DEF Text
<1>2. SegmentsUpTo(of, p, Len(p))
    BY <1>1, SegmentsExist
<1>3. Segments(p) = of[Len(p)]
    BY DEF Segments, SegmentsUpTo, Grown
<1>. QED
    BY <1>2, <1>3

\* The segments of a text, character by character.
LEMMA SegmentsStep ==
    ASSUME NEW p \in Text, NEW c \in Character
    PROVE  /\ Append(p, c) \in Text
           /\ c \in Separators => Segments(Append(p, c)) = Segments(p)
           /\ c \notin Separators /\ (p = <<>> \/ Last(p) \in Separators) =>
                 Segments(Append(p, c)) = Append(Segments(p), <<c>>)
           /\ c \notin Separators /\ p # <<>> /\ Last(p) \notin Separators =>
                 Segments(Append(p, c)) = Append(Front(Segments(p)), Append(Last(Segments(p)), c))
<1>0. Append(p, c) \in Text /\ Len(p) \in Nat
    BY DEF Text
<1>q. PICK q \in Text : q = Append(p, c)
    BY <1>0
<1>l. PICK L \in Nat : L = Len(p)
    BY <1>0
<1>1. Len(q) = L + 1 /\ q[L + 1] = c /\ \A n \in 1..L : p[n] = q[n]
    BY <1>q, <1>l DEF Text
<1>2. PICK f : SegmentsUpTo(f, p, L) /\ Segments(p) = f[L]
    BY <1>l, SegmentsAre
<1>7. (p = <<>> <=> L = 0) /\ (L # 0 => Last(p) = q[L])
    BY <1>1, <1>l DEF Last, Text
<1>3. PICK g : SegmentsUpTo(g, q, L + 1) /\ Segments(q) = g[L + 1]
    BY <1>1, SegmentsAre
<1>4. f[L] = g[L]
  <2>1. L + 1 \in Nat /\ L <= L + 1
      BY <1>1
  <2>2. AgreeUpTo(p, q, L)
      BY <1>1 DEF AgreeUpTo
  <2>3. SegmentsUpTo(f, p, L) /\ SegmentsUpTo(g, q, L + 1)
      BY <1>2, <1>3
  <2>. QED
      BY <2>1, <2>2, <2>3, SegmentsAgree
<1>5. g[L + 1] = Grown(g[L], q, L + 1)
    BY <1>1, <1>3 DEF SegmentsUpTo
<1>6. Segments(q) = Grown(Segments(p), q, L + 1)
    BY <1>2, <1>3, <1>4, <1>5
<1>8. q[(L + 1) - 1] = q[L] /\ (L + 1 = 1 <=> L = 0)
    BY <1>1
<1>9. /\ c \in Separators => Segments(q) = Segments(p)
      /\ c \notin Separators /\ (p = <<>> \/ Last(p) \in Separators) => Segments(q) = Append(Segments(p), <<c>>)
      /\ c \notin Separators /\ p # <<>> /\ Last(p) \notin Separators =>
            Segments(q) = Append(Front(Segments(p)), Append(Last(Segments(p)), c))
    BY <1>1, <1>6, <1>7, <1>8 DEF Grown
<1>. QED
    BY <1>9, <1>q

\* The empty text has no segments.
LEMMA SegmentsOfNothing == Segments(<<>>) = <<>>
<1>1. <<>> \in Text /\ Len(<<>>) = 0
    BY DEF Text
<1>2. PICK f : SegmentsUpTo(f, <<>>, 0) /\ Segments(<<>>) = f[0]
    BY <1>1, SegmentsAre
<1>. QED
    BY <1>2 DEF SegmentsUpTo

\* What a segment is: a text that is not empty.
Segment == Text \ {<<>>}

\* Appending a character makes a segment.
LEMMA TextFacts ==
    /\ \A c \in Character : <<c>> \in Segment
    /\ \A t \in Text : \A c \in Character : Append(t, c) \in Segment /\ Last(Append(t, c)) = c
    /\ \A t \in Segment : t \in Text /\ t # <<>>
    /\ \A s \in Seq(Segment) : s \in Seq(Text)
<1>1. \A t \in Text : \A c \in Character : Append(t, c) \in Segment /\ Last(Append(t, c)) = c
    BY AppendFacts DEF Segment, Text
<1>. QED
    BY <1>1 DEF Segment, Text

\* Segments are texts that are not empty, and a text that does not end in a
\* separator has one.
LEMMA SegmentsType ==
    ASSUME NEW p \in Text
    PROVE  /\ Segments(p) \in Seq(Segment)
           /\ p # <<>> /\ Last(p) \notin Separators => Segments(p) # <<>>
<1>n. PICK N \in Nat : N = Len(p)
    BY DEF Text
<1>. DEFINE Good(q) == /\ Segments(q) \in Seq(Segment)
                       /\ q # <<>> /\ Last(q) \notin Separators => Segments(q) # <<>>
            P == {n \in 0..N : Good(Pre(p, n))}
<1>1. N = Len(p) /\ p \in Seq(Character)
    BY <1>n DEF Text
<1>2. Pre(p, 0) = <<>> /\ Pre(p, N) = p
    BY <1>1, PreFacts
<1>3. 0 \in P
  <2>1. <<>> \in Seq(Segment)
      OBVIOUS
  <2>2. Good(<<>>)
      BY <2>1, SegmentsOfNothing
  <2>. QED
      BY <1>1, <1>2, <2>2
<1>4. ASSUME NEW n \in 0..(N - 1), n \in P PROVE n + 1 \in P
  <2>1. Pre(p, n) \in Text /\ p[n + 1] \in Character /\ Pre(p, n + 1) = Append(Pre(p, n), p[n + 1]) /\ n + 1 \in 0..N
      BY <1>1, PreFacts DEF Text
  <2>2. Good(Pre(p, n))
      BY <1>4
  <2>3. PICK q \in Text : q = Pre(p, n)
      BY <2>1
  <2>4. PICK c \in Character : c = p[n + 1]
      BY <2>1
  <2>5. PICK segs \in Seq(Segment) : segs = Segments(q)
      BY <2>2, <2>3
  <2>6. Append(q, c) # <<>> /\ Last(Append(q, c)) = c /\ <<c>> \in Segment
      BY TextFacts
  <2>7. Segments(Append(q, c)) \in Seq(Segment)
    <3>1. CASE c \in Separators
        BY <3>1, <2>5, SegmentsStep
    <3>2. CASE c \notin Separators /\ (q = <<>> \/ Last(q) \in Separators)
      <4>1. Segments(Append(q, c)) = Append(segs, <<c>>)
          BY <3>2, <2>5, SegmentsStep
      <4>. QED
          BY <4>1, <2>6
    <3>3. CASE c \notin Separators /\ q # <<>> /\ Last(q) \notin Separators
      <4>1. Segments(Append(q, c)) = Append(Front(segs), Append(Last(segs), c))
          BY <3>3, <2>5, SegmentsStep
      <4>2. segs # <<>>
          BY <2>2, <2>3, <2>5, <3>3
      <4>3. Front(segs) \in Seq(Segment) /\ Last(segs) \in Segment
          BY <4>2, FrontFacts
      <4>4. Append(Last(segs), c) \in Segment
          BY <4>3, TextFacts
      <4>. QED
          BY <4>1, <4>3, <4>4
    <3>. QED
        BY <3>1, <3>2, <3>3
  <2>8. c \notin Separators => Segments(Append(q, c)) # <<>>
    <3>1. CASE c \notin Separators /\ (q = <<>> \/ Last(q) \in Separators)
      <4>1. Segments(Append(q, c)) = Append(segs, <<c>>)
          BY <3>1, <2>5, SegmentsStep
      <4>. QED
          BY <4>1
    <3>2. CASE c \notin Separators /\ q # <<>> /\ Last(q) \notin Separators
      <4>1. Segments(Append(q, c)) = Append(Front(segs), Append(Last(segs), c))
          BY <3>2, <2>5, SegmentsStep
      <4>2. Front(segs) \in Seq(Segment)
          BY DEF Front
      <4>. QED
          BY <4>1, <4>2
    <3>. QED
        BY <3>1, <3>2
  <2>9. Good(Append(q, c))
      BY <2>6, <2>7, <2>8
  <2>. QED
      BY <2>1, <2>3, <2>4, <2>9
<1>. HIDE DEF P
<1>5. N \in P
    BY <1>1, <1>3, <1>4, IntervalInduction
<1>. QED
    BY <1>2, <1>5 DEF P

\* A character as Backslashed has it.
Turned(c) == IF c = "/" THEN Sep ELSE c

\* Slashes and backslashes separate alike.
LEMMA SegmentsOfBackslashed ==
    ASSUME NEW p \in Text
    PROVE  Backslashed(p) \in Text /\ Segments(Backslashed(p)) = Segments(p)
<1>n. PICK N \in Nat : N = Len(p)
    BY DEF Text
<1>. DEFINE P == {n \in 0..N : Segments(Backslashed(Pre(p, n))) = Segments(Pre(p, n))}
<1>1. N = Len(p) /\ p \in Seq(Character)
    BY <1>n DEF Text
<1>2. Pre(p, 0) = <<>> /\ Pre(p, N) = p
    BY <1>1, PreFacts
<1>3. \A c \in Character : Turned(c) \in Character /\ (Turned(c) \in Separators <=> c \in Separators) /\ (c \notin Separators => Turned(c) = c)
    BY UpperAssumption DEF Sep, Separators, Turned
<1>4. \A q \in Text : /\ Backslashed(q) \in Text /\ Len(Backslashed(q)) = Len(q)
                       /\ \A n \in 1..Len(q) : Backslashed(q)[n] = Turned(q[n])
    BY <1>3 DEF Backslashed, Text, Turned
<1>5. 0 \in P
  <2>1. Backslashed(<<>>) = <<>>
      BY DEF Backslashed
  <2>. QED
      BY <1>1, <1>2, <2>1
<1>6. ASSUME NEW n \in 0..(N - 1), n \in P PROVE n + 1 \in P
  <2>1. Pre(p, n) \in Text /\ p[n + 1] \in Character /\ Pre(p, n + 1) = Append(Pre(p, n), p[n + 1]) /\ n + 1 \in 0..N
      BY <1>1, PreFacts DEF Text
  <2>2. PICK q \in Text : q = Pre(p, n)
      BY <2>1
  <2>3. PICK c \in Character : c = p[n + 1]
      BY <2>1
  <2>4. Segments(Backslashed(q)) = Segments(q)
      BY <1>6, <2>2
  <2>5. Backslashed(q) \in Text /\ Turned(c) \in Character
      BY <1>3, <1>4
  <2>6. Backslashed(Append(q, c)) = Append(Backslashed(q), Turned(c))
    <3>1. Append(q, c) \in Text /\ Len(Append(q, c)) = Len(q) + 1 /\ Len(q) \in Nat
        BY DEF Text
    <3>2. \A m \in 1..Len(q) : Append(q, c)[m] = q[m] /\ Append(Backslashed(q), Turned(c))[m] = Backslashed(q)[m]
        BY <2>5, AppendFacts, <1>4 DEF Text
    <3>3. Append(q, c)[Len(q) + 1] = c /\ Append(Backslashed(q), Turned(c))[Len(q) + 1] = Turned(c)
        BY <1>4, <2>5, AppendFacts DEF Text
    <3>4. /\ Backslashed(Append(q, c)) \in Seq(Character) /\ Len(Backslashed(Append(q, c))) = Len(q) + 1
          /\ Append(Backslashed(q), Turned(c)) \in Seq(Character) /\ Len(Append(Backslashed(q), Turned(c))) = Len(q) + 1
      <4>1. Backslashed(Append(q, c)) \in Text /\ Len(Backslashed(Append(q, c))) = Len(q) + 1 /\ Len(Backslashed(q)) = Len(q)
          BY <1>4, <3>1
      <4>. QED
          BY <2>5, <3>1, <4>1, AppendFacts DEF Text
    <3>5. ASSUME NEW m \in 1..(Len(q) + 1)
          PROVE  Backslashed(Append(q, c))[m] = Append(Backslashed(q), Turned(c))[m]
      <4>1. Backslashed(Append(q, c))[m] = Turned(Append(q, c)[m])
          BY <1>4, <3>1
      <4>2. CASE m \in 1..Len(q)
        <5>1. Backslashed(q)[m] = Turned(q[m])
            BY <4>2, <1>4
        <5>. QED
            BY <4>1, <4>2, <3>2, <5>1
      <4>3. CASE m = Len(q) + 1
          BY <4>1, <4>3, <3>3
      <4>. QED
        <5>1. m \in 1..Len(q) \/ m = Len(q) + 1
            BY <3>1
        <5>. QED
            BY <4>2, <4>3, <5>1
    <3>. QED
        BY <3>1, <3>4, <3>5
  <2>7. (Backslashed(q) = <<>> <=> q = <<>>) /\ (q # <<>> => (Last(Backslashed(q)) \in Separators <=> Last(q) \in Separators))
    <3>1. Len(q) \in Nat /\ (q = <<>> <=> Len(q) = 0) /\ (Backslashed(q) = <<>> <=> Len(Backslashed(q)) = 0)
        BY <2>5 DEF Text
    <3>2. q # <<>> => Last(Backslashed(q)) = Turned(Last(q)) /\ Last(q) \in Character
        BY <1>4, <3>1 DEF Last, Text
    <3>. QED
        BY <1>3, <1>4, <3>1, <3>2
  <2>r. PICK r \in Text : r = Backslashed(q)
      BY <2>5
  <2>8. Segments(Append(Backslashed(q), Turned(c))) = Segments(Append(q, c))
    <3>1. (Turned(c) \in Separators <=> c \in Separators) /\ (c \notin Separators => Turned(c) = c)
        BY <1>3
    <3>2. CASE c \in Separators
        BY <2>4, <2>5, <3>1, <3>2, SegmentsStep
    <3>3. CASE c \notin Separators /\ (q = <<>> \/ Last(q) \in Separators)
      <4>1. Turned(c) = c /\ c \notin Separators
          BY <3>1, <3>3
      <4>. QED
        <5>1. Segments(Append(q, c)) = Append(Segments(q), <<c>>)
            BY <3>3, SegmentsStep
        <5>2. Segments(Append(r, c)) = Append(Segments(r), <<c>>)
            BY <2>7, <2>r, <3>3, SegmentsStep
        <5>. QED
            BY <2>4, <2>r, <4>1, <5>1, <5>2
    <3>4. CASE c \notin Separators /\ q # <<>> /\ Last(q) \notin Separators
      <4>1. Turned(c) = c /\ c \notin Separators
          BY <3>1, <3>4
      <4>. QED
        <5>1. Segments(Append(q, c)) = Append(Front(Segments(q)), Append(Last(Segments(q)), c))
            BY <3>4, SegmentsStep
        <5>2. Segments(Append(r, c)) = Append(Front(Segments(r)), Append(Last(Segments(r)), c))
            BY <2>7, <2>r, <3>4, SegmentsStep
        <5>. QED
            BY <2>4, <2>r, <4>1, <5>1, <5>2
    <3>. QED
        BY <3>2, <3>3, <3>4
  <2>. QED
      BY <2>1, <2>2, <2>3, <2>6, <2>8
<1>. HIDE DEF P
<1>7. N \in P
    BY <1>1, <1>5, <1>6, IntervalInduction
<1>. QED
    BY <1>2, <1>4, <1>7 DEF P

\* Where a text ends in a separator, the segments of what follows are added.
LEMMA SegmentsOfConcat ==
    ASSUME NEW p \in Text, NEW q \in Text, p = <<>> \/ Last(p) \in Separators
    PROVE  p \o q \in Text /\ Segments(p \o q) = Segments(p) \o Segments(q)
<1>n. PICK N \in Nat : N = Len(q)
    BY DEF Text
<1>. DEFINE P == {n \in 0..N : Segments(p \o Pre(q, n)) = Segments(p) \o Segments(Pre(q, n))}
<1>1. N = Len(q) /\ q \in Seq(Character) /\ p \in Seq(Character)
    BY <1>n DEF Text
<1>2. Pre(q, 0) = <<>> /\ Pre(q, N) = q
    BY <1>1, PreFacts
<1>s. PICK S \in Seq(Text) : S = Segments(p)
  <2>1. Segments(p) \in Seq(Segment)
      BY SegmentsType
  <2>. QED
      BY <2>1, TextFacts
<1>3. 0 \in P
  <2>1. p \o <<>> = p /\ S \o <<>> = S
      BY <1>1, ConcatFacts
  <2>2. Segments(p \o Pre(q, 0)) = Segments(p) \o Segments(Pre(q, 0))
      BY <1>2, <1>s, <2>1, SegmentsOfNothing, Zenon
  <2>. QED
      BY <2>2
<1>4. ASSUME NEW n \in 0..(N - 1), n \in P PROVE n + 1 \in P
  <2>1. Pre(q, n) \in Text /\ q[n + 1] \in Character /\ Pre(q, n + 1) = Append(Pre(q, n), q[n + 1]) /\ n + 1 \in 0..N
      BY <1>1, PreFacts DEF Text
  <2>2. PICK t \in Text : t = Pre(q, n)
      BY <2>1
  <2>3. PICK c \in Character : c = q[n + 1]
      BY <2>1
  <2>4. PICK u \in Text : u = p \o t
    <3>1. p \o t \in Text
        BY <1>1, ConcatFacts DEF Text
    <3>. QED
        BY <3>1
  <2>5. p \o Append(t, c) = Append(u, c)
    <3>1. t \in Seq(Character) /\ p \in Seq(Character)
        BY DEF Text
    <3>2. p \o Append(t, c) = Append(p \o t, c)
        BY <3>1
    <3>. QED
        BY <2>4, <3>2
  <2>6. (u = <<>> \/ Last(u) \in Separators) <=> (t = <<>> \/ Last(t) \in Separators)
    <3>1. CASE t = <<>>
      <4>1. u = p
          BY <1>1, <2>4, <3>1
      <4>. QED
          BY <3>1, <4>1
    <3>2. CASE t # <<>>
      <4>1. t \in Seq(Character) /\ Len(t) \in Nat \ {0} /\ Len(p) \in Nat /\ Len(u) = Len(p) + Len(t)
          BY <1>1, <2>4, <3>2 DEF Text
      <4>2. u[Len(p) + Len(t)] = t[Len(t)]
          BY <1>1, <2>4, <4>1
      <4>3. u # <<>> /\ Last(u) = Last(t)
          BY <4>1, <4>2 DEF Last
      <4>. QED
          BY <3>2, <4>3
    <3>. QED
        BY <3>1, <3>2
  <2>7. PICK T \in Seq(Text) : T = Segments(t)
    <3>1. Segments(t) \in Seq(Segment)
        BY SegmentsType
    <3>. QED
        BY <3>1, TextFacts
  <2>8. Segments(u) = S \o T
      BY <1>4, <1>s, <2>2, <2>4, <2>7
  <2>9. Segments(Append(u, c)) = S \o Segments(Append(t, c))
    <3>1. CASE c \in Separators
      <4>1. Segments(Append(u, c)) = Segments(u) /\ Segments(Append(t, c)) = T
          BY <2>7, <3>1, SegmentsStep
      <4>. QED
          BY <2>8, <4>1
    <3>2. CASE c \notin Separators /\ (t = <<>> \/ Last(t) \in Separators)
      <4>1. Segments(Append(u, c)) = Append(S \o T, <<c>>)
          BY <2>6, <2>8, <3>2, SegmentsStep
      <4>2. Segments(Append(t, c)) = Append(T, <<c>>)
          BY <2>7, <3>2, SegmentsStep
      <4>4. Append(S \o T, <<c>>) = S \o Append(T, <<c>>)
        <5>1. PICK x : x = <<c>>
            OBVIOUS
        <5>2. Append(S \o T, x) = S \o Append(T, x)
            OBVIOUS
        <5>. QED
            BY <5>1, <5>2
      <4>. QED
          BY <4>1, <4>2, <4>4
    <3>3. CASE c \notin Separators /\ t # <<>> /\ Last(t) \notin Separators
      <4>1. Segments(Append(u, c)) = Append(Front(S \o T), Append(Last(S \o T), c))
        <5>1. c \notin Separators /\ u # <<>> /\ Last(u) \notin Separators
            BY <2>6, <3>3
        <5>2. Segments(Append(u, c)) = Append(Front(Segments(u)), Append(Last(Segments(u)), c))
            BY <5>1, SegmentsStep
        <5>. QED
            BY <2>8, <5>2
      <4>2. Segments(Append(t, c)) = Append(Front(T), Append(Last(T), c)) /\ T # <<>>
          BY <2>7, <3>3, SegmentsStep, SegmentsType
      <4>3. Last(S \o T) = Last(T) /\ Last(T) \in Text /\ Front(S \o T) = S \o Front(T) /\ Front(T) \in Seq(Text)
          BY <4>2, FrontConcat
      <4>5. Append(Last(T), c) \in Text
          BY <4>3 DEF Text
      <4>6. Append(S \o Front(T), Append(Last(T), c)) = S \o Append(Front(T), Append(Last(T), c))
        <5>1. PICK F \in Seq(Text) : F = Front(T)
            BY <4>3
        <5>2. PICK x \in Text : x = Append(Last(T), c)
            BY <4>5
        <5>3. Append(S \o F, x) = S \o Append(F, x)
            OBVIOUS
        <5>. QED
            BY <5>1, <5>2, <5>3
      <4>. QED
          BY <4>1, <4>2, <4>3, <4>6
    <3>. QED
        BY <3>1, <3>2, <3>3
  <2>. QED
      BY <1>s, <2>1, <2>2, <2>3, <2>5, <2>9
<1>. HIDE DEF P
<1>i. Inductive(P, N)
    BY <1>3, <1>4 DEF Inductive
<1>5. N \in P
    BY <1>i, Reached
<1>6. p \o q \in Text
    BY DEF Text
<1>. QED
    BY <1>2, <1>5, <1>6 DEF P

\* A text without a separator is its own segment.
LEMMA SegmentsOfName ==
    ASSUME NEW p \in Text, p # <<>>, \A m \in 1..Len(p) : p[m] \notin Separators
    PROVE  Segments(p) = <<p>>
<1>n. PICK N \in Nat : N = Len(p)
    BY DEF Text
<1>. DEFINE P == {n \in 0..N : n = 0 \/ Segments(Pre(p, n)) = <<Pre(p, n)>>}
<1>1. N = Len(p) /\ p \in Seq(Character)
    BY <1>n DEF Text
<1>2. Pre(p, 0) = <<>> /\ Pre(p, N) = p
    BY <1>1, PreFacts
<1>3. 0 \in P
    OBVIOUS
<1>4. ASSUME NEW n \in 0..(N - 1), n \in P PROVE n + 1 \in P
  <2>1. /\ Pre(p, n) \in Text /\ p[n + 1] \in Character /\ Pre(p, n + 1) = Append(Pre(p, n), p[n + 1])
        /\ n + 1 \in 0..N /\ p[n + 1] \notin Separators /\ Len(Pre(p, n)) = n
        /\ \A m \in 1..n : Pre(p, n)[m] = p[m]
      BY <1>1, PreFacts DEF Text
  <2>2. PICK q \in Text : q = Pre(p, n)
      BY <2>1
  <2>3. PICK c \in Character : c = p[n + 1]
      BY <2>1
  <2>4. CASE n = 0
    <3>1. q = <<>>
        BY <1>2, <2>2, <2>4
    <3>2. Segments(Append(q, c)) = Append(<<>>, <<c>>)
      <4>1. Segments(Append(q, c)) = Append(Segments(q), <<c>>)
          BY <2>1, <2>3, <3>1, SegmentsStep
      <4>. QED
          BY <3>1, <4>1, SegmentsOfNothing
    <3>3. Append(<<>>, <<c>>) = <<<<c>>>> /\ Append(q, c) = <<c>>
        BY <3>1
    <3>. QED
        BY <2>1, <2>2, <2>3, <3>2, <3>3
  <2>5. CASE n # 0
    <3>1. q # <<>> /\ Last(q) \notin Separators
        BY <1>1, <2>1, <2>2, <2>5 DEF Last
    <3>2. Segments(q) = <<q>>
        BY <1>4, <2>2, <2>5
    <3>3. Front(<<q>>) = <<>> /\ Last(<<q>>) = q
        BY DEF Front, Last
    <3>4. Segments(Append(q, c)) = Append(Front(<<q>>), Append(Last(<<q>>), c))
        BY <2>1, <2>3, <3>1, <3>2, SegmentsStep
    <3>5. Append(<<>>, Append(q, c)) = <<Append(q, c)>>
        OBVIOUS
    <3>. QED
        BY <2>1, <2>2, <2>3, <3>3, <3>4, <3>5
  <2>. QED
      BY <2>4, <2>5
<1>. HIDE DEF P
<1>i. Inductive(P, N)
    BY <1>3, <1>4 DEF Inductive
<1>5. N \in P
    BY <1>i, Reached
<1>. QED
    BY <1>1, <1>2, <1>5 DEF P

\* seg lies in p between a and b, which are separators or where the first n
\* characters of p end, and has none itself.
LiesAt(seg, p, n, a, b) ==
    /\ a + 1 < b /\ (a = 0 \/ p[a] \in Separators) /\ (b = n + 1 \/ p[b] \in Separators)
    /\ \A m \in 1..n : a < m /\ m < b => p[m] \notin Separators
    /\ seg = SubSeq(p, a + 1, b - 1)

\* Every segment of a text lies between two separators or ends of it.
LEMMA SegmentsLie ==
    ASSUME NEW p \in Text
    PROVE  \A m \in DOMAIN Segments(p) : \E a \in 0..Len(p), b \in 1..(Len(p) + 1) : LiesAt(Segments(p)[m], p, Len(p), a, b)
<1>n. PICK N \in Nat : N = Len(p)
    BY DEF Text
<1>. DEFINE Good(q, n) ==
                /\ \A m \in 1..Len(Segments(q)) : \E a \in 0..n, b \in 1..(n + 1) :
                      LiesAt(Segments(q)[m], p, n, a, b) /\ (b = n + 1 => m = Len(Segments(q)))
                /\ n > 0 /\ p[n] \notin Separators =>
                      \E a \in 0..n : LiesAt(Last(Segments(q)), p, n, a, n + 1)
            P == {n \in 0..N : Good(Pre(p, n), n)}
<1>1. N = Len(p) /\ p \in Seq(Character)
    BY <1>n DEF Text
<1>2. Pre(p, 0) = <<>> /\ Pre(p, N) = p
    BY <1>1, PreFacts
<1>3. 0 \in P
    BY <1>2, SegmentsOfNothing
<1>4. ASSUME NEW n \in 0..(N - 1), n \in P PROVE n + 1 \in P
  <2>1. /\ Pre(p, n) \in Text /\ p[n + 1] \in Character /\ Pre(p, n + 1) = Append(Pre(p, n), p[n + 1])
        /\ n + 1 \in 0..N /\ Len(Pre(p, n)) = n /\ \A m \in 1..n : Pre(p, n)[m] = p[m]
      BY <1>1, PreFacts DEF Text
  <2>2. PICK q \in Text : q = Pre(p, n)
      BY <2>1
  <2>3. PICK c \in Character : c = p[n + 1]
      BY <2>1
  <2>4. (q = <<>> <=> n = 0) /\ (n # 0 => Last(q) = p[n]) /\ n \in Nat
      BY <2>1, <2>2 DEF Last, Text
  <2>5. PICK S \in Seq(Segment) : S = Segments(q)
      BY SegmentsType
  <2>6. Good(q, n)
      BY <1>4, <2>2
  <2>7. \A m \in 1..Len(S) : \E a \in 0..n, b \in 1..(n + 1) :
            LiesAt(S[m], p, n, a, b) /\ (b = n + 1 => m = Len(S))
      BY <2>5, <2>6
  <2>8. n > 0 /\ p[n] \notin Separators => \E a \in 0..n : LiesAt(Last(S), p, n, a, n + 1)
      BY <2>5, <2>6
  <2>. HIDE DEF Good
  \* What lies before the n-th character and ends there lies there still.
  <2>9. ASSUME NEW seg, NEW a \in 0..n, NEW b \in 1..(n + 1), LiesAt(seg, p, n, a, b),
               b # n + 1 \/ c \in Separators
        PROVE  LiesAt(seg, p, n + 1, a, b) /\ b # n + 2 /\ a \in 0..(n + 1) /\ b \in 1..(n + 2)
    <3>1. b = n + 1 => p[b] \in Separators
        BY <2>3, <2>9
    <3>2. \A m \in 1..(n + 1) : a < m /\ m < b => m \in 1..n
        BY <2>4
    <3>. QED
        BY <2>4, <2>9, <3>1, <3>2 DEF LiesAt
  <2>10. Good(Append(q, c), n + 1)
    <3>1. CASE c \in Separators
      <4>1. Segments(Append(q, c)) = S
          BY <2>5, <3>1, SegmentsStep
      <4>2. ASSUME NEW m \in 1..Len(S)
            PROVE  \E a \in 0..(n + 1), b \in 1..(n + 2) : LiesAt(S[m], p, n + 1, a, b) /\ (b = n + 2 => m = Len(S))
        <5>1. PICK a \in 0..n, b \in 1..(n + 1) : LiesAt(S[m], p, n, a, b)
            BY <2>7
        <5>. QED
            BY <2>9, <3>1, <5>1
      <4>. QED
          BY <2>3, <2>4, <3>1, <4>1, <4>2 DEF Good
    <3>2. CASE c \notin Separators /\ (q = <<>> \/ Last(q) \in Separators)
      <4>s. <<c>> \in Segment /\ Segments(Append(q, c)) = Append(S, <<c>>)
          BY <2>5, <3>2, SegmentsStep, TextFacts
      <4>1. PICK T : T = Append(S, <<c>>) /\ T = Segments(Append(q, c))
          BY <4>s
      <4>2. Len(T) = Len(S) + 1 /\ T[Len(T)] = <<c>> /\ Last(T) = <<c>> /\ Len(S) \in Nat /\ \A m \in 1..Len(S) : T[m] = S[m]
          BY <4>1, <4>s, AppendFacts
      <4>3. LiesAt(<<c>>, p, n + 1, n, n + 2)
        <5>1. SubSeq(p, n + 1, n + 1) = <<c>>
          <6>0. PICK r : r = SubSeq(p, n + 1, n + 1)
              OBVIOUS
          <6>1. r \in Seq(Character) /\ Len(r) = 1 /\ r[1] = c
              BY <1>1, <2>1, <2>3, <2>4, <6>0
          <6>2. r = <<c>>
              BY <6>1
          <6>. QED
              BY <6>0, <6>2
        <5>. QED
            BY <2>3, <2>4, <3>2, <5>1 DEF LiesAt
      <4>4. ASSUME NEW m \in 1..Len(T)
            PROVE  \E a \in 0..(n + 1), b \in 1..(n + 2) : LiesAt(T[m], p, n + 1, a, b) /\ (b = n + 2 => m = Len(T))
        <5>1. CASE m = Len(T)
            BY <2>4, <4>2, <4>3, <5>1
        <5>2. CASE m \in 1..Len(S)
          <6>1. PICK a \in 0..n, b \in 1..(n + 1) : LiesAt(S[m], p, n, a, b)
              BY <2>7, <5>2
          <6>2. b # n + 1
            <7>1. ASSUME b = n + 1 PROVE FALSE
              <8>1. n \in 1..n /\ a < n
                  BY <2>4, <6>1, <7>1 DEF LiesAt
              <8>2. p[n] \notin Separators
                  BY <2>4, <6>1, <7>1, <8>1 DEF LiesAt
              <8>. QED
                  BY <2>4, <3>2, <8>1, <8>2
            <7>. QED
                BY <7>1
          <6>. QED
              BY <2>9, <4>2, <5>2, <6>1, <6>2
        <5>. QED
            BY <4>2, <5>1, <5>2
      <4>5. \E a \in 0..(n + 1) : LiesAt(Last(T), p, n + 1, a, n + 2)
          BY <2>4, <4>2, <4>3
      <4>6. (n + 1) + 1 = n + 2
          BY <2>4
      <4>. QED
          BY <4>1, <4>4, <4>5, <4>6 DEF Good
    <3>3. CASE c \notin Separators /\ q # <<>> /\ Last(q) \notin Separators
      <4>1. S # <<>> /\ Segments(Append(q, c)) = Append(Front(S), Append(Last(S), c))
          BY <2>5, <3>3, SegmentsStep, SegmentsType
      <4>f. PICK F : F = Front(S)
          OBVIOUS
      <4>2. F \in Seq(Segment) /\ Len(F) = Len(S) - 1 /\ Len(S) \in Nat \ {0} /\ \A m \in 1..(Len(S) - 1) : F[m] = S[m]
          BY <4>1, <4>f, FrontFacts
      <4>x. PICK x : x = Append(Last(S), c)
          OBVIOUS
      <4>3. PICK a \in 0..n : LiesAt(Last(S), p, n, a, n + 1)
          BY <2>4, <2>8, <3>3
      <4>4. LiesAt(x, p, n + 1, a, n + 2)
        <5>1. x = SubSeq(p, a + 1, n + 1)
          <6>1. Last(S) = SubSeq(p, a + 1, n) /\ a + 1 < n + 1
              BY <4>3, <2>4 DEF LiesAt
          <6>2. Append(SubSeq(p, a + 1, n), p[n + 1]) = SubSeq(p, a + 1, n + 1)
              BY <1>1, <2>1, <2>4, <6>1
          <6>. QED
              BY <2>3, <4>x, <6>1, <6>2
        <5>2. \A m \in 1..(n + 1) : a < m /\ m < n + 2 => p[m] \notin Separators
          <6>1. ASSUME NEW m \in 1..(n + 1), a < m PROVE p[m] \notin Separators
            <7>1. CASE m \in 1..n
                BY <2>4, <4>3, <6>1, <7>1 DEF LiesAt
            <7>2. CASE m = n + 1
                BY <2>3, <3>3, <7>2
            <7>. QED
                BY <2>4, <7>1, <7>2
          <6>. QED
              BY <6>1
        <5>. QED
            BY <2>4, <4>3, <5>1, <5>2 DEF LiesAt
      <4>t. PICK T : T = Append(F, x) /\ T = Segments(Append(q, c))
          BY <4>1, <4>f, <4>x
      <4>5. Len(T) = Len(S) /\ T[Len(T)] = x /\ Last(T) = x /\ \A m \in 1..(Len(S) - 1) : T[m] = S[m]
        <5>1. Last(S) \in Segment
            BY <4>1, FrontFacts
        <5>2. x \in Segment
            BY <4>x, <5>1, TextFacts
        <5>3. Len(T) = Len(F) + 1 /\ T[Len(F) + 1] = x /\ Last(T) = x /\ \A m \in 1..Len(F) : T[m] = F[m]
          <6>1. T = Append(F, x) /\ F \in Seq(Segment)
              BY <4>2, <4>t
          <6>. QED
              BY <5>2, <6>1, AppendFacts
        <5>4. Len(F) + 1 = Len(S) /\ Len(F) = Len(S) - 1
            BY <4>2
        <5>. QED
            BY <4>2, <5>3, <5>4
      <4>6. ASSUME NEW m \in 1..Len(T)
            PROVE  \E d \in 0..(n + 1), b \in 1..(n + 2) : LiesAt(T[m], p, n + 1, d, b) /\ (b = n + 2 => m = Len(T))
        <5>1. CASE m = Len(T)
            BY <2>4, <4>4, <4>5, <5>1
        <5>2. CASE m \in 1..(Len(S) - 1)
          <6>1. PICK d \in 0..n, b \in 1..(n + 1) : LiesAt(S[m], p, n, d, b) /\ (b = n + 1 => m = Len(S))
              BY <2>7, <4>2, <5>2
          <6>2. b # n + 1
              BY <4>2, <5>2, <6>1
          <6>. QED
              BY <2>9, <4>5, <5>2, <6>1, <6>2
        <5>. QED
            BY <4>2, <4>5, <5>1, <5>2
      <4>7. \E d \in 0..(n + 1) : LiesAt(Last(T), p, n + 1, d, n + 2)
          BY <2>4, <4>4, <4>5
      <4>. QED
          BY <2>4, <4>t, <4>6, <4>7 DEF Good
    <3>. QED
        BY <3>1, <3>2, <3>3
  <2>. QED
      BY <2>1, <2>2, <2>3, <2>10
<1>. HIDE DEF P
<1>i. Inductive(P, N)
    BY <1>3, <1>4 DEF Inductive
<1>5. N \in P
    BY <1>i, Reached
<1>6. \A m \in 1..Len(Segments(p)) : \E a \in 0..N, b \in 1..(N + 1) : LiesAt(Segments(p)[m], p, N, a, b)
    BY <1>2, <1>5 DEF P
<1>7. DOMAIN Segments(p) = 1..Len(Segments(p))
  <2>1. Segments(p) \in Seq(Segment)
      BY SegmentsType
  <2>. QED
      BY <2>1
<1>. QED
    BY <1>1, <1>6, <1>7

-----------------------------------------------------------------------------
(* What the operators of ExcludeRules make of texts are texts. *)

\* The characters that the operators of ExcludeRules write.
LEMMA Characters0 ==
    /\ Sep \in Character /\ Sep \in Separators /\ Drives \subseteq Character
    /\ {".", "*", "p", "s", "t", "C:"} \subseteq Character
    BY UpperAssumption DEF Sep, Separators, Drives

\* A separator at the end of a text makes a text.
LEMMA WithSepIsText ==
    ASSUME NEW t \in Text
    PROVE  WithSep(t) \in Text
    BY Characters0 DEF WithSep, Text

\* Folding the letters of a text makes a text as long.
LEMMA FoldIsText ==
    ASSUME NEW t \in Text
    PROVE  Fold(t) \in Text /\ Len(Fold(t)) = Len(t)
    BY UpperAssumption DEF Fold, Text

\* Turning the slashes of a text makes a text as long, in which the separators are
\* backslashes and all else is as it was.
LEMMA BackslashedIsText ==
    ASSUME NEW t \in Text
    PROVE  /\ Backslashed(t) \in Text /\ Len(Backslashed(t)) = Len(t)
           /\ \A m \in 1..Len(t) : /\ Backslashed(t)[m] \in Character
                                   /\ Backslashed(t)[m] = Sep <=> t[m] \in Separators
                                   /\ t[m] \notin Separators => Backslashed(t)[m] = t[m]
    BY Characters0 DEF Backslashed, Text, Sep, Separators

\* normWinPath takes a prefix of its argument.
LEMMA NormWinPathIsText ==
    ASSUME NEW t \in Text
    PROVE  normWinPath(t) \in Text
<1>. DEFINE q == Backslashed(t)
            trimmed(n) == n > 1 /\ q[n] = Sep /\ ~(n = 2 /\ q[1] \in Drives)
            T == {n \in 0..Len(q) : n > 0 => ~trimmed(n)}
<1>1. q \in Text /\ Len(q) \in Nat
    BY BackslashedIsText DEF Text
<1>. HIDE DEF q
<1>2. PICK n \in T : n \in 0..Len(q) /\ \A m \in T : n >= m
  <2>1. 0 \in T
      BY <1>1
  <2>2. Bounded(T, Len(q))
      BY DEF Bounded
  <2>3. T # {}
      BY <2>1
  <2>. HIDE DEF T
  <2>. QED
      BY <1>1, <2>2, <2>3, Greatest
<1>3. (n > 0 => ~trimmed(n)) /\ \A m \in (n + 1)..Len(q) : trimmed(m)
  <2>1. ASSUME NEW m \in (n + 1)..Len(q), ~trimmed(m) PROVE FALSE
    <3>1. m \in 0..Len(q) /\ m > n
        BY <1>1
    <3>2. m \in T
        BY <2>1, <3>1
    <3>. QED
        BY <1>2, <3>1, <3>2
  <2>. QED
      BY <2>1
<1>. DEFINE c == CHOOSE o \in 0..Len(q) : (o > 0 => ~trimmed(o)) /\ \A m \in (o + 1)..Len(q) : trimmed(m)
<1>4. c \in 0..Len(q)
  <2>. HIDE DEF trimmed
  <2>. QED
      BY <1>2, <1>3
<1>5. normWinPath(t) = SubSeq(q, 1, c)
    BY DEF normWinPath, q
<1>. HIDE DEF c
<1>. QED
    BY <1>1, <1>4, <1>5 DEF Text

\* The name at the end of a path is a text.
LEMMA NameOfIsText ==
    ASSUME NEW t \in Text
    PROVE  NameOf(t) \in Text
<1>. DEFINE T == {0} \cup {m \in DOMAIN t : t[m] = Sep}
<1>1. t \in Seq(Character) /\ Len(t) \in Nat
    BY DEF Text
<1>2. Bounded(T, Len(t)) /\ T # {}
    BY <1>1 DEF Bounded
<1>3. LastSep(t) = CHOOSE x \in T : \A y \in T : x >= y
    BY DEF LastSep, Max
<1>4. LastSep(t) \in 0..Len(t)
  <2>. HIDE DEF T
  <2>1. \E x \in T : x \in 0..Len(t) /\ \A y \in T : x >= y
      BY <1>1, <1>2, Greatest
  <2>2. LastSep(t) \in T
      BY <1>3, <2>1
  <2>. QED
      BY <1>2, <2>2 DEF Bounded
<1>. QED
    BY <1>1, <1>4 DEF NameOf, Text

\* Expanding the variable of a path makes a text.
LEMMA ExpandedIsText ==
    ASSUME NEW t \in Text
    PROVE  Expanded(t) \in Text
    BY Characters0 DEF Expanded, Text

\* The rules of the engine are two, and well-formed.
LEMMA SystemExcludesAre ==
    ASSUME NEW t \in Text
    PROVE  SystemExcludes(t) \in Seq(RuleType) /\ Len(SystemExcludes(t)) = 2
<1>1. WithSep(t) \in Text /\ Append(WithSep(t), "s") \in Text
    BY WithSepIsText, Characters0 DEF Text
<1>2. <<"p">> \in Text /\ <<"*">> \in Text
    BY Characters0 DEF Text
<1>. QED
    BY <1>1, <1>2 DEF SystemExcludes, RuleType

\* What validateVolumeRelativePath accepts is the root, or its argument with the
\* slashes turned.
LEMMA ValidatedIs ==
    ASSUME NEW t \in Text, NEW v \in validateVolumeRelativePath(t)
    PROVE  /\ v \in Text
           /\ \/ v = <<>> /\ t \in {<<>>, <<".">>}
              \/ t \notin {<<>>, <<".">>} /\ v = Backslashed(t)
<1>1. Backslashed(t) \in Text /\ <<>> \in Text
    BY BackslashedIsText DEF Text
<1>2. CASE t \in {<<>>, <<".">>}
  <2>1. validateVolumeRelativePath(t) = {<<>>}
      BY <1>2 DEF validateVolumeRelativePath
  <2>. QED
      BY <1>1, <1>2, <2>1
<1>3. CASE t \notin {<<>>, <<".">>}
  <2>1. validateVolumeRelativePath(t) \subseteq {Backslashed(t)}
      BY <1>3 DEF validateVolumeRelativePath
  <2>. QED
      BY <1>1, <1>3, <2>1
<1>. QED
    BY <1>2, <1>3

\* The parts of two sequences that are alike are alike.
LEMMA SameWithin ==
    ASSUME NEW C, NEW S \in Seq(C), NEW T \in Seq(C), Len(T) <= Len(S), \A x \in 1..Len(T) : T[x] = S[x],
           NEW a \in 1..Len(T), NEW b \in 1..Len(T)
    PROVE  SubSeq(T, a, b) = SubSeq(S, a, b)
<1>1. Len(S) \in Nat /\ Len(T) \in Nat
    OBVIOUS
<1>2. PICK u : u = SubSeq(T, a, b)
    OBVIOUS
<1>3. PICK w : w = SubSeq(S, a, b)
    OBVIOUS
<1>4. CASE a <= b
  <2>1. u \in Seq(C) /\ Len(u) = b - a + 1 /\ \A x \in 1..(b - a + 1) : u[x] = T[a + x - 1]
      BY <1>1, <1>2, <1>4
  <2>2. w \in Seq(C) /\ Len(w) = b - a + 1 /\ \A x \in 1..(b - a + 1) : w[x] = S[a + x - 1]
      BY <1>1, <1>3, <1>4
  <2>3. \A x \in 1..(b - a + 1) : a + x - 1 \in 1..Len(T)
      BY <1>1
  <2>4. \A x \in 1..(b - a + 1) : u[x] = w[x]
      BY <2>1, <2>2, <2>3
  <2>. QED
      BY <1>2, <1>3, <2>1, <2>2, <2>4
<1>5. CASE a > b
    BY <1>1, <1>5
<1>. QED
    BY <1>4, <1>5

\* No separator of v is between its characters a and b.
NoCut(v, a, b) == \A m \in DOMAIN v : v[m] = Sep => m <= a \/ m >= b

\* What is between two cuts of a text is one of its parts.
LEMMA BetweenCuts ==
    ASSUME NEW v \in Text, NEW a \in 0..Len(v), NEW b \in 1..(Len(v) + 1), a < b,
           a = 0 \/ v[a] = Sep, b = Len(v) + 1 \/ v[b] = Sep,
           NoCut(v, a, b)
    PROVE  SubSeq(v, a + 1, b - 1) \in SplitAt(v, {Sep})
<1>. DEFINE cuts == {m \in DOMAIN v : v[m] \in {Sep}}
            pairs == {d \in ({0} \cup cuts) \X (cuts \cup {Len(v) + 1}) :
                         d[1] < d[2] /\ \A m \in cuts : m <= d[1] \/ m >= d[2]}
<1>1. Len(v) \in Nat /\ DOMAIN v = 1..Len(v)
    BY DEF Text
<1>2. a \in {0} \cup cuts /\ b \in cuts \cup {Len(v) + 1} /\ \A m \in cuts : m <= a \/ m >= b
    BY <1>1 DEF NoCut
<1>3. <<a, b>> \in pairs
  <2>. HIDE DEF cuts
  <2>. QED
      BY <1>2
<1>4. SplitAt(v, {Sep}) = {SubSeq(v, c[1] + 1, c[2] - 1) : c \in pairs}
    BY DEF SplitAt
<1>5. PICK c \in pairs : c = <<a, b>>
    BY <1>3
<1>6. c[1] = a /\ c[2] = b
    BY <1>5
<1>. HIDE DEF pairs
<1>. QED
    BY <1>4, <1>5, <1>6

\* An accepted root has the segments of the argument, and none that is empty, a
\* dot segment or has a drive.
LEMMA ValidatedIsClean ==
    ASSUME NEW t \in Text, NEW v \in validateVolumeRelativePath(t)
    PROVE  /\ Segments(v) = IF t = <<".">> THEN <<>> ELSE Segments(t)
           /\ v # <<>> => v[1] \notin Separators
           /\ \A m \in DOMAIN Segments(v) :
                 Segments(v)[m] \notin {<<".">>, <<".", ".">>} /\ Range(Segments(v)[m]) \cap Drives = {}
<1>1. CASE v = <<>>
  <2>1. Segments(v) = <<>>
      BY <1>1, SegmentsOfNothing
  <2>2. t \in {<<>>, <<".">>}
    <3>1. ASSUME v = Backslashed(t), t # <<>> PROVE FALSE
      <4>1. Len(Backslashed(t)) = Len(t) /\ Len(t) \in Nat \ {0}
          BY <3>1, BackslashedIsText DEF Text
      <4>. QED
          BY <1>1, <3>1, <4>1
    <3>. QED
        BY <3>1, ValidatedIs
  <2>. QED
      BY <1>1, <2>1, <2>2
<1>2. CASE v # <<>>
  <2>1. t \notin {<<>>, <<".">>} /\ v = Backslashed(t) /\ v \in Text
      BY <1>2, ValidatedIs
  <2>n. PICK N \in Nat \ {0} : N = Len(v) /\ N = Len(t) /\ DOMAIN v = 1..N /\ DOMAIN t = 1..N
      BY <1>2, <2>1, BackslashedIsText DEF Text
  <2>2. PICK body : body = IF Last(v) = Sep THEN Front(v) ELSE v
      OBVIOUS
  <2>3. /\ \A m \in DOMAIN t : t[m] \notin Drives
        /\ v[1] # Sep
        /\ SplitAt(body, {Sep}) \cap {<<>>, <<".">>, <<".", ".">>} = {}
      BY <1>2, <2>1, <2>2 DEF validateVolumeRelativePath
  <2>4. \A m \in 1..N : /\ v[m] \in Separators <=> v[m] = Sep
                        /\ v[m] \notin Drives
    <3>1. ASSUME NEW m \in 1..N
          PROVE  (v[m] \in Separators <=> v[m] = Sep) /\ v[m] \notin Drives
      <4>1. (v[m] = Sep <=> t[m] \in Separators) /\ (t[m] \notin Separators => v[m] = t[m])
          BY <2>1, <2>n, BackslashedIsText
      <4>2. t[m] \notin Drives /\ Sep \notin Drives /\ Sep \in Separators
          BY <2>3, <2>n DEF Sep, Drives, Separators
      <4>. QED
          BY <4>1, <4>2
    <3>. QED
        BY <3>1
  <2>5. ASSUME NEW m \in DOMAIN Segments(v)
        PROVE  Segments(v)[m] \notin {<<".">>, <<".", ".">>} /\ Range(Segments(v)[m]) \cap Drives = {}
    <3>1. PICK seg : seg = Segments(v)[m]
        OBVIOUS
    <3>2. PICK a \in 0..N, b \in 1..(N + 1) : LiesAt(seg, v, N, a, b)
        BY <2>1, <2>n, <3>1, SegmentsLie
    <3>3. /\ a + 1 < b /\ (a = 0 \/ v[a] = Sep) /\ (b = N + 1 \/ v[b] = Sep)
          /\ \A x \in 1..N : a < x /\ x < b => v[x] # Sep
          /\ seg = SubSeq(v, a + 1, b - 1)
        BY <2>4, <3>2 DEF LiesAt
    <3>4. seg \in SplitAt(body, {Sep})
      <4>1. CASE Last(v) # Sep
        <5>1. NoCut(v, a, b)
            BY <2>n, <3>3 DEF NoCut
        <5>2. a < b /\ a \in 0..Len(v) /\ b \in 1..(Len(v) + 1) /\ (b = Len(v) + 1 \/ v[b] = Sep)
            BY <2>n, <3>3
        <5>3. SubSeq(v, a + 1, b - 1) \in SplitAt(v, {Sep})
            BY <2>1, <3>3, <5>1, <5>2, BetweenCuts
        <5>. QED
            BY <2>2, <3>3, <4>1, <5>3
      <4>2. CASE Last(v) = Sep
        <5>1. v[N] = Sep
            BY <2>n, <4>2 DEF Last
        <5>2. b # N + 1
            BY <2>n, <3>3, <5>1
        <5>3. /\ body \in Text /\ Len(body) = N - 1 /\ DOMAIN body = 1..(N - 1)
              /\ \A x \in 1..(N - 1) : body[x] = v[x]
          <6>1. body = Front(v) /\ v \in Seq(Character)
              BY <2>1, <2>2, <4>2 DEF Text
          <6>2. /\ Front(v) \in Seq(Character) /\ Len(Front(v)) = Len(v) - 1
                /\ \A x \in 1..(Len(v) - 1) : Front(v)[x] = v[x]
              BY <1>2, <6>1, FrontFacts
          <6>3. body \in Seq(Character) /\ Len(body) = N - 1 /\ \A x \in 1..(N - 1) : body[x] = v[x]
              BY <2>n, <6>1, <6>2
          <6>. QED
              BY <6>3 DEF Text
        <5>4. a \in 0..Len(body) /\ b \in 1..(Len(body) + 1) /\ a < b
          <6>1. Len(body) + 1 = N /\ Len(body) = N - 1
              BY <2>n, <5>3
          <6>2. a \in 0..(N - 1) /\ b \in 1..N /\ a < b
              BY <2>n, <3>3, <5>2
          <6>. QED
              BY <6>1, <6>2
        <5>5. (a = 0 \/ body[a] = Sep) /\ (b = Len(body) + 1 \/ body[b] = Sep)
            BY <2>n, <3>3, <5>2, <5>3, <5>4
        <5>6. NoCut(body, a, b)
          <6>1. ASSUME NEW x \in DOMAIN body, body[x] = Sep PROVE x <= a \/ x >= b
            <7>1. x \in 1..N /\ v[x] = Sep
                BY <2>n, <5>3, <6>1
            <7>. QED
                BY <2>n, <3>3, <7>1
          <6>. QED
              BY <6>1 DEF NoCut
        <5>7. SubSeq(body, a + 1, b - 1) \in SplitAt(body, {Sep})
            BY <5>3, <5>4, <5>5, <5>6, BetweenCuts
        <5>8. SubSeq(body, a + 1, b - 1) = SubSeq(v, a + 1, b - 1)
          <6>1. b - 1 \in 1..(N - 1) /\ a + 1 \in 1..(b - 1)
              BY <2>n, <3>3, <5>2
          <6>. QED
              BY <2>1, <2>n, <5>3, <6>1, SameWithin DEF Text
        <5>. QED
            BY <3>3, <5>7, <5>8
      <4>. QED
          BY <4>1, <4>2
    <3>5. ASSUME NEW x \in DOMAIN seg PROVE seg[x] \notin Drives
      <4>1. a + x \in 1..N /\ seg[x] = v[a + x]
        <5>1. seg = SubSeq(v, a + 1, b - 1) /\ a + 1 \in 1..N /\ b - 1 \in 1..N /\ a + 1 <= b - 1
            BY <2>n, <3>3
        <5>2. PICK c \in 1..N, d \in 1..N : c = a + 1 /\ d = b - 1 /\ c <= d
            BY <5>1
        <5>3. v \in Seq(Character) /\ seg = SubSeq(v, c, d)
            BY <2>1, <5>1, <5>2 DEF Text
        <5>4. DOMAIN seg = 1..(d - c + 1) /\ \A y \in 1..(d - c + 1) : seg[y] = v[c + y - 1]
            BY <2>n, <5>2, <5>3
        <5>5. x \in 1..(d - c + 1) /\ seg[x] = v[c + x - 1] /\ c + x - 1 = a + x
            BY <5>2, <5>4
        <5>. QED
            BY <2>n, <5>2, <5>5
      <4>. QED
          BY <2>4, <4>1
    <3>. QED
        BY <2>3, <3>1, <3>4, <3>5 DEF Range
  <2>6. v[1] \notin Separators
      BY <2>3, <2>4, <2>n
  <2>7. Segments(v) = Segments(t)
      BY <2>1, SegmentsOfBackslashed
  <2>. QED
      BY <2>1, <2>5, <2>6, <2>7
<1>. QED
    BY <1>1, <1>2

-----------------------------------------------------------------------------
(* The inductive invariant. *)

Collecting == {"count", "writers", "declarations"}
Walking    == {"entry", "excluded?", "rules", "matchSpec", "decided"}

\* What has been done at each place of the program.
Phases ==
    /\ pc = "count" => i = 1 /\ rules = <<>> /\ errs = {} /\ named = {}
    /\ pc \in Collecting => errs \subseteq 1..(i - 1)
    /\ pc = "declarations" => i <= Len(case.declared)
    /\ pc \notin Collecting => 0 \in errs \/ i = Len(case.declared) + 1
    /\ pc \in Collecting \cup {"collected", "refused"} => excludes = <<>> /\ k = 0 /\ hit = 0 /\ depth = 1
    /\ pc = "rules" => k >= 1
    /\ pc = "matchSpec" => k \in 1..Len(excludes) /\ mark <= ni

\* The places of d's declarations, and what Before says of them.
PlacesIn(d) == UNION {{w} \X DOMAIN d[w] : w \in DOMAIN d}
WithPath(d) == {p \in PlacesIn(d) : HasPath(d[p[1]][p[2]])}

\* The rules rs were declared at the places `at', all before the place next,
\* and are all that was declared before it but the rest of the writers es, and all
\* of those that are not in nd.
Keeps(d, rs, es, nd, at, next) ==
    /\ at \in [DOMAIN rs -> WithPath(d)]
    /\ \A n \in DOMAIN rs :
          /\ Before(at[n], next)
          /\ rs[n] \in {d[at[n][1]][at[n][2]], [d[at[n][1]][at[n][2]] EXCEPT !.path = Expanded(@)]}
    /\ \A n, o \in DOMAIN rs : n < o => Before(at[n], at[o])
    /\ \A p \in WithPath(d) : Before(p, next) =>
          \/ \E n \in DOMAIN rs : at[n] = p
          \/ p[1] \in es /\ \A n \in DOMAIN rs : at[n][1] = p[1] => Before(at[n], p) /\ p[1] \in nd

\* The declaration that collectExcludeRules reads next.
NextPlace == IF pc = "declarations" THEN <<i, j>> ELSE <<i, 1>>

KeptSoFar ==
    pc \in Collecting \/ 0 \notin errs =>
        \E at \in [DOMAIN rules -> WithPath(case.declared)] : Keeps(case.declared, rules, errs, named, at, NextPlace)

IInv == TypeOK /\ Phases /\ KeptSoFar /\ RootStaysInside

-----------------------------------------------------------------------------
(* The places of the declarations. *)

\* What the writers declare.
Declarations == Seq(Seq(RuleType))

\* The places of declarations with a path are a writer's number and its
\* declaration's.
LEMMA PlacesAre ==
    ASSUME NEW d \in Declarations
    PROVE  /\ \A p \in WithPath(d) : /\ p[1] \in 1..Len(d) /\ p[2] \in 1..Len(d[p[1]]) /\ p = <<p[1], p[2]>>
                                     /\ d[p[1]][p[2]] \in RuleType /\ HasPath(d[p[1]][p[2]])
           /\ \A w \in 1..Len(d) : \A m \in 1..Len(d[w]) : HasPath(d[w][m]) => <<w, m>> \in WithPath(d)
<1>1. \A w \in 1..Len(d) : d[w] \in Seq(RuleType) /\ DOMAIN d[w] = 1..Len(d[w])
    BY DEF Declarations
<1>2. DOMAIN d = 1..Len(d)
    BY DEF Declarations
<1>3. ASSUME NEW p \in WithPath(d)
      PROVE  /\ p[1] \in 1..Len(d) /\ p[2] \in 1..Len(d[p[1]]) /\ p = <<p[1], p[2]>>
             /\ d[p[1]][p[2]] \in RuleType /\ HasPath(d[p[1]][p[2]])
  <2>1. PICK w \in DOMAIN d : p \in {w} \X DOMAIN d[w]
      BY DEF WithPath, PlacesIn
  <2>2. p[1] = w /\ p[2] \in DOMAIN d[w] /\ p = <<p[1], p[2]>>
      BY <2>1
  <2>3. d[w] \in Seq(RuleType) /\ p[2] \in 1..Len(d[w]) /\ w \in 1..Len(d)
      BY <1>1, <1>2, <2>1, <2>2
  <2>4. d[w][p[2]] \in RuleType
      BY <2>3
  <2>. QED
      BY <2>2, <2>3, <2>4 DEF WithPath
<1>4. ASSUME NEW w \in 1..Len(d), NEW m \in 1..Len(d[w]), HasPath(d[w][m])
      PROVE  <<w, m>> \in WithPath(d)
  <2>1. w \in DOMAIN d /\ m \in DOMAIN d[w]
      BY <1>1, <1>2
  <2>2. <<w, m>> \in {w} \X DOMAIN d[w]
      BY <2>1
  <2>3. <<w, m>> \in PlacesIn(d)
      BY <2>1, <2>2 DEF PlacesIn
  <2>. QED
      BY <1>4, <2>3 DEF WithPath
<1>. QED
    BY <1>3, <1>4

\* To go on to a later place without a rule, what is between must be of writers
\* that are named.
LEMMA KeepsOn ==
    ASSUME NEW d \in Declarations, NEW rs, NEW es, NEW es2, NEW nd, NEW nd2, NEW at,
           NEW w \in Nat, NEW m \in Nat, NEW w2 \in Nat, NEW m2 \in Nat,
           Keeps(d, rs, es, nd, at, <<w, m>>), es \subseteq es2, nd \subseteq nd2,
           w < w2 \/ (w = w2 /\ m <= m2),
           \A p \in WithPath(d) : Before(p, <<w2, m2>>) /\ ~Before(p, <<w, m>>) =>
                p[1] \in es2 /\ (p[1] \in nd2 \/ \A n \in DOMAIN rs : at[n][1] # p[1])
    PROVE  Keeps(d, rs, es2, nd2, at, <<w2, m2>>)
<1>1. \A p \in WithPath(d) : p[1] \in Nat /\ p[2] \in Nat
    BY PlacesAre DEF Declarations
<1>2. \A n \in DOMAIN rs : at[n] \in WithPath(d)
    BY DEF Keeps
<1>3. \A p \in WithPath(d) : Before(p, <<w, m>>) => Before(p, <<w2, m2>>)
    BY <1>1 DEF Before
<1>4. ASSUME NEW p \in WithPath(d), Before(p, <<w2, m2>>)
      PROVE  \/ \E n \in DOMAIN rs : at[n] = p
             \/ p[1] \in es2 /\ \A n \in DOMAIN rs : at[n][1] = p[1] => Before(at[n], p) /\ p[1] \in nd2
  <2>1. CASE Before(p, <<w, m>>)
      BY <2>1 DEF Keeps
  <2>2. CASE ~Before(p, <<w, m>>)
    <3>1. p[1] \in es2
        BY <1>4, <2>2
    <3>2. ASSUME NEW n \in DOMAIN rs, at[n][1] = p[1] PROVE Before(at[n], p) /\ p[1] \in nd2
      <4>1. Before(at[n], <<w, m>>)
          BY DEF Keeps
      <4>. QED
          BY <1>1, <1>2, <1>4, <2>2, <3>2, <4>1 DEF Before
    <3>. QED
        BY <3>1, <3>2
  <2>. QED
      BY <2>1, <2>2
<1>. QED
    BY <1>2, <1>3, <1>4 DEF Keeps

\* To take up the rule at the next place.
LEMMA KeepsRule ==
    ASSUME NEW d \in Declarations, NEW rs \in Seq(RuleType), NEW es, NEW nd, NEW at,
           NEW w \in 1..Len(d), NEW m \in 1..Len(d[w]), HasPath(d[w][m]), w \notin es,
           Keeps(d, rs, es, nd, at, <<w, m>>),
           NEW r \in RuleType, r \in {d[w][m], [d[w][m] EXCEPT !.path = Expanded(@)]}
    PROVE  \E at2 : Keeps(d, Append(rs, r), es, nd, at2, <<w, m + 1>>)
<1>. DEFINE at2 == [n \in 1..(Len(rs) + 1) |-> IF n = Len(rs) + 1 THEN <<w, m>> ELSE at[n]]
<1>q. PICK qs : qs = Append(rs, r)
    OBVIOUS
<1>1. /\ Len(rs) \in Nat /\ DOMAIN rs = 1..Len(rs) /\ DOMAIN qs = 1..(Len(rs) + 1)
      /\ qs[Len(rs) + 1] = r /\ \A n \in 1..Len(rs) : qs[n] = rs[n]
    BY <1>q
<1>2. w \in Nat /\ m \in Nat /\ \A p \in WithPath(d) : p[1] \in Nat /\ p[2] \in Nat /\ p = <<p[1], p[2]>>
    BY PlacesAre DEF Declarations
<1>3. <<w, m>> \in WithPath(d)
    BY PlacesAre
<1>4. \A n \in DOMAIN rs : at[n] \in WithPath(d) /\ Before(at[n], <<w, m>>)
    BY DEF Keeps
<1>5. \A n \in DOMAIN qs : n = Len(rs) + 1 \/ n \in DOMAIN rs
    BY <1>1
<1>6. \A n \in DOMAIN rs : at2[n] = at[n] /\ n \in DOMAIN qs
    BY <1>1
<1>7. at2[Len(rs) + 1] = <<w, m>> /\ Len(rs) + 1 \in DOMAIN qs
    BY <1>1
<1>8. at2 \in [DOMAIN qs -> WithPath(d)]
    BY <1>1, <1>3, <1>4
<1>. HIDE DEF at2
<1>9. \A p \in WithPath(d) : Before(p, <<w, m + 1>>) <=> Before(p, <<w, m>>) \/ p = <<w, m>>
    BY <1>2 DEF Before
<1>10. ASSUME NEW n \in DOMAIN qs
       PROVE  /\ Before(at2[n], <<w, m + 1>>)
              /\ qs[n] \in {d[at2[n][1]][at2[n][2]], [d[at2[n][1]][at2[n][2]] EXCEPT !.path = Expanded(@)]}
  <2>1. CASE n = Len(rs) + 1
    <3>1. at2[n] = <<w, m>> /\ at2[n][1] = w /\ at2[n][2] = m /\ qs[n] = r
        BY <1>1, <1>7, <2>1
    <3>. QED
        BY <1>3, <1>9, <3>1
  <2>2. CASE n \in DOMAIN rs
    <3>1. at2[n] = at[n] /\ qs[n] = rs[n]
        BY <1>1, <1>6, <2>2
    <3>2. rs[n] \in {d[at[n][1]][at[n][2]], [d[at[n][1]][at[n][2]] EXCEPT !.path = Expanded(@)]}
        BY <2>2 DEF Keeps
    <3>3. Before(at[n], <<w, m + 1>>)
        BY <1>4, <1>9, <2>2
    <3>. QED
        BY <3>1, <3>2, <3>3
  <2>. QED
      BY <1>5, <2>1, <2>2
<1>11. ASSUME NEW n \in DOMAIN qs, NEW o \in DOMAIN qs, n < o
       PROVE  Before(at2[n], at2[o])
  <2>1. CASE o \in DOMAIN rs
    <3>1. n \in DOMAIN rs
        BY <1>1, <1>11, <2>1
    <3>2. Before(at[n], at[o])
        BY <1>11, <2>1, <3>1 DEF Keeps
    <3>. QED
        BY <1>6, <2>1, <3>1, <3>2
  <2>2. CASE o = Len(rs) + 1
    <3>1. n \in DOMAIN rs
        BY <1>1, <1>11, <2>2
    <3>. QED
        BY <1>4, <1>6, <1>7, <2>2, <3>1
  <2>. QED
      BY <1>5, <2>1, <2>2
<1>12. ASSUME NEW p \in WithPath(d), Before(p, <<w, m + 1>>)
       PROVE  \/ \E n \in DOMAIN qs : at2[n] = p
              \/ p[1] \in es /\ \A n \in DOMAIN qs : at2[n][1] = p[1] => Before(at2[n], p) /\ p[1] \in nd
  <2>1. CASE p = <<w, m>>
      BY <1>7, <2>1
  <2>2. CASE Before(p, <<w, m>>)
    <3>1. CASE \E n \in DOMAIN rs : at[n] = p
        BY <1>6, <3>1
    <3>2. CASE p[1] \in es /\ \A n \in DOMAIN rs : at[n][1] = p[1] => Before(at[n], p) /\ p[1] \in nd
      <4>1. ASSUME NEW n \in DOMAIN qs, at2[n][1] = p[1] PROVE Before(at2[n], p) /\ p[1] \in nd
        <5>1. n # Len(rs) + 1
          <6>1. <<w, m>>[1] = w
              OBVIOUS
          <6>. QED
              BY <1>7, <3>2, <4>1, <6>1
        <5>2. n \in DOMAIN rs /\ at2[n] = at[n]
            BY <1>5, <1>6, <5>1
        <5>. QED
            BY <3>2, <4>1, <5>2
      <4>. QED
          BY <3>2, <4>1
    <3>. QED
        BY <2>2, <3>1, <3>2 DEF Keeps
  <2>. QED
      BY <1>9, <1>12, <2>1, <2>2
<1>13. Keeps(d, qs, es, nd, at2, <<w, m + 1>>)
    BY <1>8, <1>10, <1>11, <1>12 DEF Keeps
<1>. QED
    BY <1>q, <1>13

\* Nothing is read yet.
LEMMA KeepsNothing ==
    ASSUME NEW d \in Declarations
    PROVE  \E at : Keeps(d, <<>>, {}, {}, at, <<1, 1>>)
<1>. DEFINE at == [n \in {} |-> <<1, 1>>]
<1>1. DOMAIN <<>> = {} /\ at \in [{} -> WithPath(d)]
    OBVIOUS
<1>2. \A p \in WithPath(d) : ~Before(p, <<1, 1>>)
  <2>1. \A p \in WithPath(d) : p[1] \in Nat /\ p[1] >= 1 /\ p[2] \in Nat /\ p[2] >= 1
      BY PlacesAre DEF Declarations
  <2>. QED
      BY <2>1 DEF Before
<1>3. Keeps(d, <<>>, {}, {}, at, <<1, 1>>)
  <2>. HIDE DEF at
  <2>. QED
      BY <1>1, <1>2 DEF Keeps
<1>. QED
    BY <1>3

-----------------------------------------------------------------------------
(* The cases. *)

\* What a case is made of.
LEMMA CaseFacts ==
    ASSUME NEW c \in CaseType
    PROVE  /\ c.declared \in Declarations /\ Len(c.declared) \in Nat /\ c.sick \subseteq 0..Len(c.declared)
           /\ c.volume \in Text /\ c.VolumePath \in Text /\ c.Root \in Text /\ c.root \in Text
           /\ c.system \in BOOLEAN
           /\ c.names \in Seq(FileName) /\ Len(c.names) \in Nat \ {0}
<1>1. /\ c.declared \in Seq(Seq(RuleType)) /\ c.sick \subseteq 0..Len(c.declared)
      /\ c.volume \in Text /\ c.VolumePath \in Text /\ c.Root \in Text /\ c.root \in Text
      /\ c.system \in BOOLEAN
      /\ c.names \in Seq(FileName) /\ c.names # <<>>
    BY DEF CaseType
<1>2. Len(c.names) \in Nat \ {0} /\ Len(c.declared) \in Nat
    BY <1>1
<1>. QED
    BY <1>1, <1>2 DEF Declarations

\* A file name is one segment, and a clean one.
LEMMA NameFacts ==
    ASSUME NEW n \in FileName
    PROVE  /\ n \in Text /\ n # <<>> /\ Len(n) \in Nat \ {0} /\ n \notin {<<".">>, <<".", ".">>}
           /\ \A m \in 1..Len(n) : n[m] \notin Separators
           /\ Range(n) \cap Drives = {}
           /\ Segments(n) = <<n>>
<1>1. n \in Text /\ n \notin {<<>>, <<".">>, <<".", ".">>} /\ Range(n) \cap (Separators \cup Drives) = {}
    BY DEF FileName
<1>2. Len(n) \in Nat \ {0} /\ DOMAIN n = 1..Len(n)
    BY <1>1 DEF Text
<1>3. \A m \in 1..Len(n) : n[m] \in Range(n)
    BY <1>2 DEF Range
<1>4. \A m \in 1..Len(n) : n[m] \notin Separators
    BY <1>1, <1>3
<1>5. Segments(n) = <<n>>
    BY <1>1, <1>4, SegmentsOfName
<1>. QED
    BY <1>1, <1>2, <1>4, <1>5

\* The path of an entry has its directory's segments and then its name.
LEMMA PathFacts ==
    ASSUME NEW r \in Text, NEW n \in FileName
    PROVE  LET p == (IF r = <<>> THEN <<>> ELSE Append(r, Sep)) \o n
           IN  /\ p \in Text /\ p # <<>> /\ Segments(p) = Append(Segments(r), n)
               /\ p[1] = IF r = <<>> THEN n[1] ELSE r[1]
<1>. DEFINE p == (IF r = <<>> THEN <<>> ELSE Append(r, Sep)) \o n
<1>1. n \in Text /\ n # <<>> /\ Segments(n) = <<n>> /\ Len(n) \in Nat \ {0}
    BY NameFacts
<1>2. CASE r = <<>>
  <2>1. p = n
      BY <1>1, <1>2 DEF Text
  <2>2. Segments(r) = <<>> /\ Append(<<>>, n) = <<n>>
      BY <1>2, SegmentsOfNothing
  <2>. QED
      BY <1>1, <1>2, <2>1, <2>2
<1>3. CASE r # <<>>
  <2>1. PICK q : q = Append(r, Sep)
      OBVIOUS
  <2>2. /\ q \in Text /\ q # <<>> /\ Last(q) \in Separators /\ q[1] = r[1] /\ Len(q) \in Nat \ {0}
        /\ Segments(q) = Segments(r)
    <3>1. q \in Text /\ Segments(q) = Segments(r)
        BY <2>1, SegmentsStep, Characters0
    <3>2. Len(r) \in Nat \ {0} /\ r \in Seq(Character) /\ Sep \in Character
        BY <1>3, Characters0 DEF Text
    <3>3. Last(q) = Sep /\ q # <<>> /\ Len(q) = Len(r) + 1 /\ \A m \in 1..Len(r) : q[m] = r[m]
        BY <2>1, <3>2, AppendFacts
    <3>. QED
        BY <3>1, <3>2, <3>3, Characters0
  <2>3. p = q \o n
      BY <1>3, <2>1
  <2>4. q \o n \in Text /\ Segments(q \o n) = Segments(r) \o <<n>>
    <3>1. q \o n \in Text /\ Segments(q \o n) = Segments(q) \o Segments(n)
        BY <1>1, <2>2, SegmentsOfConcat
    <3>. QED
        BY <1>1, <2>2, <3>1, Zenon
  <2>5. Segments(r) \o <<n>> = Append(Segments(r), n)
    <3>1. Segments(r) \in Seq(Segment) /\ n \in Segment
        BY <1>1, SegmentsType DEF Segment
    <3>. QED
        BY <3>1
  <2>6. (q \o n)[1] = q[1] /\ q \o n # <<>>
    <3>1. q \in Seq(Character) /\ n \in Seq(Character)
        BY <1>1, <2>2 DEF Text
    <3>. QED
        BY <1>1, <2>2, <3>1
  <2>. QED
      BY <1>3, <2>2, <2>3, <2>4, <2>5, <2>6
<1>. QED
    BY <1>2, <1>3

-----------------------------------------------------------------------------
(* The invariant. *)

\* It holds before anything is collected.
LEMMA InitInv == Init => IInv
<1>. SUFFICES ASSUME Init PROVE IInv
    OBVIOUS
<1>. USE DEF Init
<1>1. case \in CaseType
    BY CaseAssumption
<1>2. <<>> \in Seq(RuleType) /\ <<>> \in Text /\ Len(<<>>) = 0
    BY DEF Text
<1>3. Len(case.declared) \in Nat /\ Len(case.names) \in Nat \ {0} /\ case.declared \in Declarations
    BY <1>1, CaseFacts
<1>4. TypeOK
    BY <1>1, <1>2, <1>3 DEF TypeOK
<1>5. Phases
    BY DEF Phases, Collecting
<1>6. KeptSoFar
  <2>1. PICK at : Keeps(case.declared, <<>>, {}, {}, at, <<1, 1>>)
      BY <1>3, KeepsNothing
  <2>2. at \in [DOMAIN <<>> -> WithPath(case.declared)]
      BY <2>1 DEF Keeps
  <2>. QED
      BY <2>1, <2>2 DEF KeptSoFar, NextPlace
<1>7. RootStaysInside
    BY DEF RootStaysInside
<1>. QED
    BY <1>4, <1>5, <1>6, <1>7 DEF IInv

\* A rule that is read is a rule.
LEMMA ReadRuleType ==
    ASSUME IInv, ReadRule
    PROVE  rules' \in Seq(RuleType)
<1>1. case \in CaseType /\ rules \in Seq(RuleType) /\ i \in Nat \ {0} /\ j \in Nat \ {0} /\ pc = "declarations"
    BY CaseFacts DEF IInv, TypeOK, ReadRule
<1>2. i \in 1..Len(case.declared) /\ j \in 1..Len(case.declared[i]) /\ case.declared \in Declarations
  <2>1. case.declared \in Declarations /\ Len(case.declared) \in Nat
      BY <1>1, CaseFacts
  <2>2. i \in 1..Len(case.declared)
      BY <1>1, <2>1 DEF IInv, Phases
  <2>3. case.declared[i] \in Seq(RuleType)
      BY <2>1, <2>2 DEF Declarations
  <2>. QED
      BY <1>1, <2>1, <2>2, <2>3 DEF ReadRule
<1>3. PICK rule \in RuleType : rule = case.declared[i][j]
    BY <1>2 DEF Declarations
<1>4. CASE rule.path = <<>>
    BY <1>1, <1>3, <1>4 DEF ReadRule
<1>5. CASE rule.path # <<>>
  <2>1. PICK path : path \in {Expanded(rule.path), rule.path} /\ rules' = Append(rules, [rule EXCEPT !.path = path])
      BY <1>3, <1>5 DEF ReadRule
  <2>2. path \in Text
      BY <1>3, <2>1, ExpandedIsText DEF RuleType
  <2>3. [rule EXCEPT !.path = path] \in RuleType
      BY <1>3, <2>2 DEF RuleType
  <2>. QED
      BY <1>1, <2>1, <2>3
<1>. QED
    BY <1>4, <1>5

\* A step of the collection leaves every variable its type.
LEMMA CollectType ==
    ASSUME IInv, Collect
    PROVE  TypeOK'
<1>1. TypeOK /\ Phases
    BY DEF IInv
<1>2. case \in CaseType /\ Len(case.declared) \in Nat /\ case.sick \subseteq 0..Len(case.declared)
    BY <1>1, CaseFacts DEF TypeOK
<1>3. /\ case' = case /\ excludes' = <<>> /\ excludes = <<>> /\ k' = k /\ hit' = hit /\ depth' = depth /\ k = 0 /\ hit = 0
      /\ UNCHANGED <<volRoot, rel, full, pattern, name, pi, ni, star, mark>>
      /\ pc' \in {"writers", "declarations", "collected"}
    BY <1>1 DEF Collect, CountWriters, CountFails, GetWriterMetadata, WriterFails, WriterNameFails, NextWriter, ReadRule, WriterDone,
                Collected, walkVars, matchVars, Phases, Collecting
<1>4. i' \in 1..(Len(case.declared) + 1) /\ j' \in Nat \ {0} /\ errs' \subseteq case.sick /\ named' \subseteq errs'
  <2>0. /\ i \in 1..(Len(case.declared) + 1) /\ j \in Nat \ {0} /\ errs \subseteq case.sick /\ named \subseteq errs
        /\ pc = "declarations" => i <= Len(case.declared)
        /\ pc = "count" => named = {}
      BY <1>1 DEF TypeOK, Phases
  <2>1. CASE CountWriters \/ CountFails \/ GetWriterMetadata \/ Collected
      BY <1>2, <2>0, <2>1 DEF CountWriters, CountFails, GetWriterMetadata, Collected, collectVars
  <2>2. CASE WriterFails \/ WriterNameFails
      BY <1>2, <2>0, <2>2 DEF WriterFails, WriterNameFails, NextWriter
  <2>3. CASE ReadRule
    <3>1. i' = i /\ j' = j + 1 /\ errs' = errs /\ named' = named
        BY <2>3 DEF ReadRule
    <3>. QED
        BY <2>0, <3>1
  <2>4. CASE WriterDone
      BY <1>2, <2>0, <2>4 DEF WriterDone, NextWriter
  <2>. QED
      BY <2>1, <2>2, <2>3, <2>4 DEF Collect
<1>5. rules' \in Seq(RuleType)
    BY <1>1, ReadRuleType DEF TypeOK, Collect, CountWriters, CountFails, GetWriterMetadata, WriterFails, WriterNameFails, WriterDone,
                              Collected, collectVars
<1>6. case' \in CaseType /\ Len(excludes') = 0 /\ <<>> \in Seq(RuleType)
    BY <1>2, <1>3
<1>7. {volRoot', rel', full', pattern', name'} \subseteq Text /\ depth' \in 1..Len(case.names)
    BY <1>1, <1>3 DEF TypeOK
<1>. QED
    BY <1>3, <1>4, <1>5, <1>6, <1>7 DEF TypeOK

\* So for the walk down to the entry.
LEMMA WalkDownType ==
    ASSUME IInv, WalkDown
    PROVE  TypeOK'
<1>1. TypeOK /\ Phases
    BY DEF IInv
<1>2. /\ case \in CaseType /\ case.names \in Seq(FileName) /\ Len(case.names) \in Nat \ {0}
      /\ case.volume \in Text /\ case.VolumePath \in Text /\ case.Root \in Text /\ case.root \in Text
    BY <1>1, CaseFacts DEF TypeOK
<1>3. case' = case /\ UNCHANGED <<collectVars, matchVars, k>> /\ pc' \in {"refused", "entry", "excluded?", "decided"}
    BY DEF WalkDown, RefuseRoot, StartWalk, NextEntry, PruneDir, KeepDir, UnmatchedEntry, Decide, walkVars
<1>4. /\ case.names[depth] \in FileName /\ Path \in Text /\ rel \in Text /\ volRoot \in Text
  <2>1. rel \in Text /\ volRoot \in Text /\ case.names[depth] \in FileName
      BY <1>1, <1>2 DEF TypeOK
  <2>. QED
      BY <2>1, PathFacts DEF Path
<1>5. SUFFICES /\ excludes' \in Seq(RuleType) /\ Len(excludes') \in {0, Len(rules), Len(rules) + 2}
               /\ {volRoot', rel', full'} \subseteq Text
               /\ depth' \in 1..Len(case.names) /\ k \in 0..(Len(excludes') + 1) /\ hit' \in 0..Len(excludes')
    BY <1>1, <1>3 DEF TypeOK, collectVars, matchVars
<1>6. CASE RefuseRoot
    BY <1>1, <1>6 DEF TypeOK, RefuseRoot, walkVars
<1>7. CASE StartWalk
  <2>1. rel' \in Text
      BY <1>2, <1>7, ValidatedIs DEF StartWalk
  <2>2. volRoot' \in Text
      BY <1>2, <1>7, WithSepIsText DEF StartWalk, EffectiveRoot, Text
  <2>3. PICK more \in Seq(RuleType) : excludes' = rules \o more /\ Len(more) \in {0, 2}
    <3>1. CASE case.system
      <4>1. excludes' = rules \o SystemExcludes(case.VolumePath)
          BY <1>7, <3>1 DEF StartWalk
      <4>. QED
          BY <1>2, <4>1, SystemExcludesAre
    <3>2. CASE ~case.system
      <4>1. excludes' = rules \o <<>>
          BY <1>7, <3>2 DEF StartWalk
      <4>2. <<>> \in Seq(RuleType) /\ Len(<<>>) = 0
          OBVIOUS
      <4>. QED
          BY <4>1, <4>2
    <3>. QED
        BY <3>1, <3>2
  <2>4. rules \in Seq(RuleType) /\ k = 0 /\ hit = 0
      BY <1>1, <1>7 DEF TypeOK, Phases, StartWalk
  <2>5. excludes' \in Seq(RuleType) /\ Len(excludes') = Len(rules) + Len(more) /\ Len(rules) \in Nat
      BY <2>3, <2>4, ConcatFacts
  <2>6. full' = full /\ depth' = depth /\ hit' = hit
      BY <1>7 DEF StartWalk
  <2>7. /\ {volRoot', rel', full'} \subseteq Text /\ depth' \in 1..Len(case.names)
      BY <1>1, <2>1, <2>2, <2>6 DEF TypeOK
  <2>8. Len(excludes') \in {Len(rules), Len(rules) + 2} /\ k \in 0..(Len(excludes') + 1) /\ hit' \in 0..Len(excludes')
    <3>. PICK m : m = Len(excludes')
        OBVIOUS
    <3>0. PICK n \in Nat : n = Len(rules)
        BY <2>5
    <3>1. PICK l : l = Len(more)
        OBVIOUS
    <3>2. l \in {0, 2}
        BY <2>3, <3>1
    <3>3. m = n + l
        BY <2>5, <3>0, <3>1
    <3>4. m \in {n, n + 2}
        BY <3>2, <3>3
    <3>. QED
        BY <2>4, <2>6, <3>0, <3>4
  <2>. QED
      BY <2>5, <2>7, <2>8
<1>8. CASE NextEntry
  <2>1. volRoot \o Path \in Text
      BY <1>4, ConcatFacts DEF Text
  <2>2. full' \in Text
      BY <1>8, <2>1, NormWinPathIsText DEF NextEntry
  <2>. QED
      BY <1>1, <1>8, <2>2 DEF TypeOK, NextEntry
<1>9. CASE PruneDir
  <2>1. PICK r \in DOMAIN excludes : hit' = r
      BY <1>9 DEF PruneDir, Decide
  <2>2. hit' \in 0..Len(excludes) /\ UNCHANGED walkVars
      BY <1>1, <1>9, <2>1 DEF TypeOK, PruneDir
  <2>. QED
      BY <1>1, <2>2 DEF TypeOK, walkVars
<1>10. CASE KeepDir
  <2>1. UNCHANGED <<excludes, volRoot, full>>
      BY <1>10 DEF KeepDir
  <2>2. rel' \in Text /\ depth' \in 1..Len(case.names) /\ hit' \in {0, hit}
      BY <1>1, <1>2, <1>4, <1>10 DEF TypeOK, KeepDir, Decide, AtEntry
  <2>. QED
      BY <1>1, <2>1, <2>2 DEF TypeOK
<1>11. CASE UnmatchedEntry
    BY <1>1, <1>11 DEF TypeOK, UnmatchedEntry, Decide, walkVars
<1>. QED
    BY <1>6, <1>7, <1>8, <1>9, <1>10, <1>11 DEF WalkDown

\* So for the matching of the entry, whose pi and ni stay within their texts.
LEMMA MatchType ==
    ASSUME IInv, Match
    PROVE  TypeOK'
<1>1. TypeOK /\ Phases
    BY DEF IInv
<1>2. /\ UNCHANGED <<case, collectVars, walkVars>>
      /\ pc' \in {"rules", "decided", "matchSpec"}
  <2>1. CASE MatchEntry \/ NoRuleLeft \/ OutOfScope \/ MatchesAll \/ CallMatchSpec
      BY <2>1 DEF MatchEntry, NoRuleLeft, OutOfScope, MatchesAll, CallMatchSpec, Decide
  <2>2. CASE Literal \/ Star \/ Backtrack
      BY <2>2 DEF Literal, Star, Backtrack, InLoop
  <2>3. CASE Mismatch \/ SpecMatches \/ SpecFails
      BY <2>3 DEF Mismatch, SpecMatches, SpecFails, NoMatch, Decide
  <2>. QED
      BY <2>1, <2>2, <2>3 DEF Match
<1>3. /\ excludes \in Seq(RuleType) /\ Len(excludes) \in Nat /\ full \in Text
      /\ pattern \in Seq(Character) /\ name \in Seq(Character) /\ Len(pattern) \in Nat /\ Len(name) \in Nat
    BY <1>1 DEF TypeOK, Text
<1>4. SUFFICES /\ {pattern', name'} \subseteq Text
               /\ k' \in 0..(Len(excludes) + 1) /\ hit' \in 0..Len(excludes)
               /\ pc' = "matchSpec" => /\ pi' \in 0..Len(pattern') /\ star' \in -1..(pi' - 1)
                                       /\ ni' \in 0..Len(name') /\ mark' \in 0..Len(name')
    BY <1>1, <1>2 DEF TypeOK, collectVars, walkVars
<1>5. CASE MatchEntry \/ NoRuleLeft \/ OutOfScope \/ MatchesAll
    BY <1>1, <1>3, <1>5 DEF TypeOK, Phases, MatchEntry, NoRuleLeft, OutOfScope, MatchesAll, matchVars, Decide
<1>6. CASE CallMatchSpec
  <2>1. k \in 1..Len(excludes) /\ pattern' = Fold(excludes[k].spec) /\ name' = Fold(NameOf(full))
      BY <1>1, <1>3, <1>6 DEF Phases, TypeOK, CallMatchSpec
  <2>2. excludes[k].spec \in Text /\ NameOf(full) \in Text
    <3>1. excludes[k] \in RuleType
        BY <1>3, <2>1
    <3>. QED
        BY <1>3, <3>1, NameOfIsText DEF RuleType
  <2>3. pattern' \in Text /\ name' \in Text
      BY <2>1, <2>2, FoldIsText
  <2>4. pi' = 0 /\ ni' = 0 /\ star' = -1 /\ mark' = 0 /\ UNCHANGED <<k, hit>>
      BY <1>6 DEF CallMatchSpec
  <2>5. Len(pattern') \in Nat /\ Len(name') \in Nat
      BY <2>3 DEF Text
  <2>. QED
      BY <1>1, <2>3, <2>4, <2>5 DEF TypeOK
<1>7. CASE Literal \/ Star \/ Backtrack
  <2>1. /\ pc = "matchSpec" /\ UNCHANGED <<pattern, name, k, hit>>
        /\ pi \in 0..Len(pattern) /\ star \in -1..(pi - 1) /\ ni \in 0..Len(name) /\ mark \in 0..Len(name)
        /\ ni < Len(name) /\ mark <= ni
      BY <1>1, <1>7 DEF TypeOK, Phases, Literal, Star, Backtrack, InLoop
  <2>2. pi' \in 0..Len(pattern) /\ star' \in -1..(pi' - 1) /\ ni' \in 0..Len(name) /\ mark' \in 0..Len(name)
    <3>1. CASE Literal
        BY <1>3, <2>1, <3>1 DEF Literal, IsLiteral
    <3>2. CASE Star
        BY <1>3, <2>1, <3>2 DEF Star, IsStar
    <3>3. CASE Backtrack
        BY <1>3, <2>1, <3>3 DEF Backtrack
    <3>. QED
        BY <1>7, <3>1, <3>2, <3>3
  <2>. QED
      BY <1>1, <2>1, <2>2 DEF TypeOK
<1>8. CASE Mismatch \/ SpecMatches \/ SpecFails
  <2>1. pc' # "matchSpec" /\ UNCHANGED <<pattern, name>> /\ k \in 1..Len(excludes)
      BY <1>1, <1>8 DEF Phases, Mismatch, SpecMatches, SpecFails, InLoop, NoMatch, Decide, matchVars
  <2>2. k' \in {k, k + 1} /\ hit' \in {k, hit}
      BY <1>8 DEF Mismatch, SpecMatches, SpecFails, NoMatch, Decide
  <2>. QED
      BY <1>1, <1>3, <2>1, <2>2 DEF TypeOK
<1>. QED
    BY <1>5, <1>6, <1>7, <1>8 DEF Match

\* Each step leaves what Phases says of its place in the program.
LEMMA PhasesStep ==
    ASSUME IInv, Next
    PROVE  Phases'
<1>1. TypeOK /\ Phases /\ case' = case
  <2>1. CASE Collect
      BY <2>1 DEF IInv, Collect, CountWriters, CountFails, GetWriterMetadata, WriterFails, WriterNameFails, NextWriter, ReadRule,
                  WriterDone, Collected
  <2>2. CASE WalkDown
      BY <2>2 DEF IInv, WalkDown, RefuseRoot, StartWalk, NextEntry, PruneDir, KeepDir, UnmatchedEntry
  <2>3. CASE Match
      BY <2>3 DEF IInv, Match, MatchEntry, NoRuleLeft, OutOfScope, MatchesAll, CallMatchSpec, Literal, Star, Backtrack,
                  Mismatch, SpecMatches, SpecFails, NoMatch
  <2>. QED
      BY <2>1, <2>2, <2>3 DEF Next
<1>2. case \in CaseType /\ Len(case.declared) \in Nat /\ case.sick \subseteq 0..Len(case.declared)
    BY <1>1, CaseFacts DEF TypeOK
<1>3. i \in 1..(Len(case.declared) + 1) /\ errs \subseteq case.sick
    BY <1>1 DEF TypeOK
<1>. USE DEF Phases, Collecting
<1>4. CASE Collect
  <2>1. UNCHANGED <<excludes, k, hit, depth>> /\ pc \in Collecting /\ pc' \in {"writers", "declarations", "collected"}
      BY <1>4 DEF Collect, CountWriters, CountFails, GetWriterMetadata, WriterFails, WriterNameFails, NextWriter, ReadRule, WriterDone,
                  Collected, walkVars
  <2>2. /\ pc' \in Collecting => errs' \subseteq 1..(i' - 1)
        /\ pc' = "declarations" => i' <= Len(case.declared)
        /\ pc' \notin Collecting => 0 \in errs' \/ i' = Len(case.declared) + 1
    <3>1. CASE CountWriters \/ CountFails \/ GetWriterMetadata \/ Collected
        BY <1>1, <1>2, <1>3, <3>1 DEF CountWriters, CountFails, GetWriterMetadata, Collected, collectVars
    <3>2. CASE WriterFails \/ WriterNameFails
        BY <1>1, <1>2, <1>3, <3>2 DEF WriterFails, WriterNameFails, NextWriter
    <3>3. CASE ReadRule
        BY <1>1, <3>3 DEF ReadRule
    <3>4. CASE WriterDone
        BY <1>1, <1>2, <1>3, <3>4 DEF WriterDone, NextWriter
    <3>. QED
        BY <1>4, <3>1, <3>2, <3>3, <3>4 DEF Collect
  <2>. QED
      BY <1>1, <2>1, <2>2
<1>5. CASE WalkDown
  <2>1. pc \notin Collecting /\ UNCHANGED collectVars /\ pc' \in {"refused", "entry", "excluded?", "decided"}
      BY <1>5 DEF WalkDown, RefuseRoot, StartWalk, NextEntry, PruneDir, KeepDir, UnmatchedEntry, Decide
  <2>2. pc' = "refused" => UNCHANGED <<excludes, k, hit, depth>> /\ pc = "collected"
      BY <1>5 DEF WalkDown, RefuseRoot, StartWalk, NextEntry, PruneDir, KeepDir, UnmatchedEntry, Decide, walkVars
  <2>. QED
      BY <1>1, <2>1, <2>2 DEF collectVars
<1>6. CASE Match
  <2>1. /\ pc \notin Collecting /\ UNCHANGED <<collectVars, excludes>> /\ pc' \in {"rules", "decided", "matchSpec"}
    <3>1. CASE MatchEntry \/ NoRuleLeft \/ OutOfScope \/ MatchesAll \/ CallMatchSpec
        BY <3>1 DEF MatchEntry, NoRuleLeft, OutOfScope, MatchesAll, CallMatchSpec, Decide, walkVars
    <3>2. CASE Literal \/ Star \/ Backtrack
        BY <3>2 DEF Literal, Star, Backtrack, InLoop, walkVars
    <3>3. CASE Mismatch \/ SpecMatches \/ SpecFails
        BY <3>3 DEF Mismatch, SpecMatches, SpecFails, NoMatch, Decide, InLoop, walkVars
    <3>. QED
        BY <1>6, <3>1, <3>2, <3>3 DEF Match
  <2>2. /\ pc' = "rules" => k' >= 1
        /\ pc' = "matchSpec" => k' \in 1..Len(excludes) /\ mark' <= ni'
    <3>1. CASE MatchEntry \/ NoRuleLeft \/ OutOfScope \/ MatchesAll \/ CallMatchSpec
        BY <1>1, <3>1 DEF TypeOK, MatchEntry, NoRuleLeft, OutOfScope, MatchesAll, CallMatchSpec, Decide
    <3>2. CASE Literal \/ Star \/ Backtrack
      <4>1. name \in Text /\ pc = "matchSpec" /\ k' = k
          BY <1>1, <3>2 DEF TypeOK, Literal, Star, Backtrack, InLoop
      <4>2. ni \in Nat /\ mark \in Nat /\ k \in 1..Len(excludes) /\ mark <= ni
          BY <1>1, <4>1 DEF TypeOK, Text
      <4>. QED
          BY <3>2, <4>1, <4>2 DEF Literal, Star, Backtrack
    <3>3. CASE Mismatch \/ SpecMatches \/ SpecFails
      <4>1. k \in Nat /\ pc' # "matchSpec" /\ pc = "matchSpec"
          BY <1>1, <3>3 DEF TypeOK, Mismatch, SpecMatches, SpecFails, NoMatch, Decide, InLoop
      <4>2. k >= 1
          BY <1>1, <4>1
      <4>3. pc' = "rules" => k' = k + 1
          BY <3>3 DEF Mismatch, SpecMatches, SpecFails, NoMatch, Decide
      <4>. QED
          BY <4>1, <4>2, <4>3
    <3>. QED
        BY <1>6, <3>1, <3>2, <3>3 DEF Match
  <2>. QED
      BY <1>1, <2>1, <2>2 DEF collectVars
<1>. QED
    BY <1>4, <1>5, <1>6 DEF Next

\* Each step of the collection keeps the rules in the order of declaration, with
\* nothing left out but the rest of a writer that failed (collectExcludeRules).
LEMMA KeptStep ==
    ASSUME IInv, Next
    PROVE  KeptSoFar'
<1>1. TypeOK /\ Phases /\ KeptSoFar
    BY DEF IInv
<1>2. PICK d \in Declarations : d = case.declared
    BY <1>1, CaseFacts DEF TypeOK
<1>3. rules \in Seq(RuleType) /\ i \in Nat \ {0} /\ j \in Nat \ {0} /\ Len(d) \in Nat /\ 1 \in Nat /\ i + 1 \in Nat
    BY <1>1, <1>2, CaseFacts DEF TypeOK
<1>4. SUFFICES ASSUME pc' \in Collecting \/ 0 \notin errs'
               PROVE  \E at : Keeps(case'.declared, rules', errs', named', at, NextPlace')
    BY DEF KeptSoFar, Keeps
<1>5. CASE Collect
  <2>1. PICK at : Keeps(d, rules, errs, named, at, NextPlace)
    <3>1. pc \in Collecting
        BY <1>5 DEF Collect, CountWriters, CountFails, GetWriterMetadata, WriterFails, WriterNameFails, NextWriter, ReadRule, WriterDone,
                    Collected, Collecting
    <3>. QED
        BY <1>1, <1>2, <3>1 DEF KeptSoFar
  <2>2. case'.declared = d
      BY <1>2, <1>5 DEF Collect, CountWriters, CountFails, GetWriterMetadata, WriterFails, WriterNameFails, NextWriter, ReadRule,
                        WriterDone, Collected
  <2>3. \A p \in WithPath(d) : /\ p[1] \in Nat /\ p[2] \in Nat /\ p[2] >= 1 /\ p[2] <= Len(d[p[1]]) /\ p = <<p[1], p[2]>>
                               /\ HasPath(d[p[1]][p[2]]) /\ Len(d[p[1]]) \in Nat
      BY PlacesAre DEF Declarations
  <2>4. CASE CountWriters \/ CountFails \/ GetWriterMetadata \/ Collected
    <3>1. UNCHANGED <<rules, errs, named>> /\ NextPlace' = NextPlace
        BY <1>4, <2>4 DEF CountWriters, CountFails, GetWriterMetadata, Collected, collectVars, NextPlace, Collecting
    <3>. QED
        BY <2>1, <2>2, <3>1
  <2>5. CASE WriterFails \/ WriterNameFails
    <3>1. NextPlace' = <<i + 1, 1>> /\ errs' = errs \cup {i} /\ named \subseteq named' /\ rules' = rules
        BY <2>5 DEF WriterFails, WriterNameFails, NextWriter, NextPlace
    <3>2. PICK m \in Nat : NextPlace = <<i, m>> /\ (i \in named' \/ m = 1)
        BY <1>3, <2>5 DEF NextPlace, WriterFails, WriterNameFails
    <3>3. Keeps(d, rules, errs, named, at, <<i, m>>) /\ i < i + 1 /\ errs \subseteq errs' /\ named \subseteq named'
        BY <1>3, <2>1, <3>1, <3>2
    <3>4. \A n \in DOMAIN rules : at[n] \in WithPath(d) /\ Before(at[n], <<i, m>>)
        BY <3>3 DEF Keeps
    <3>5. m = 1 => \A n \in DOMAIN rules : at[n][1] # i
        BY <1>3, <2>3, <3>4 DEF Before
    <3>6. ASSUME NEW p \in WithPath(d), Before(p, <<i + 1, 1>>), ~Before(p, <<i, m>>)
          PROVE  p[1] \in errs' /\ (p[1] \in named' \/ \A n \in DOMAIN rules : at[n][1] # p[1])
      <4>1. p[1] = i
          BY <1>3, <2>3, <3>6 DEF Before
      <4>. QED
          BY <3>1, <3>2, <3>5, <4>1
    <3>7. Keeps(d, rules, errs', named', at, <<i + 1, 1>>)
        BY <1>3, <3>3, <3>6, KeepsOn
    <3>. QED
        BY <2>2, <3>1, <3>7
  <2>6. CASE WriterDone
    <3>1. NextPlace' = <<i + 1, 1>> /\ errs' = errs /\ named' = named /\ rules' = rules /\ NextPlace = <<i, j>> /\ j > Len(d[i])
        BY <1>2, <2>6 DEF WriterDone, NextWriter, NextPlace
    <3>2. \A p \in WithPath(d) : ~(Before(p, <<i + 1, 1>>) /\ ~Before(p, <<i, j>>))
        BY <1>3, <2>3, <3>1 DEF Before
    <3>3. Keeps(d, rules, errs, named, at, <<i, j>>) /\ i < i + 1 /\ errs \subseteq errs /\ named \subseteq named
        BY <1>3, <2>1, <3>1
    <3>4. Keeps(d, rules, errs, named, at, <<i + 1, 1>>)
        BY <1>3, <3>2, <3>3, KeepsOn
    <3>. QED
        BY <2>2, <3>1, <3>4
  <2>7. CASE ReadRule
    <3>1. /\ NextPlace' = <<i, j + 1>> /\ errs' = errs /\ named' = named /\ NextPlace = <<i, j>> /\ pc = "declarations"
          /\ j <= Len(d[i]) /\ j + 1 \in Nat
        BY <1>2, <1>3, <2>7 DEF ReadRule, NextPlace
    <3>2. i \in 1..Len(d) /\ i \notin errs
        BY <1>1, <1>2, <1>3, <3>1 DEF Phases, Collecting
    <3>3. d[i] \in Seq(RuleType) /\ j \in 1..Len(d[i])
        BY <1>3, <3>1, <3>2 DEF Declarations
    <3>4. PICK rule \in RuleType : rule = d[i][j]
        BY <3>3
    <3>5. Keeps(d, rules, errs, named, at, <<i, j>>)
        BY <2>1, <3>1
    <3>6. CASE rule.path = <<>>
      <4>1. rules' = rules
          BY <1>2, <2>7, <3>4, <3>6 DEF ReadRule
      <4>2. \A p \in WithPath(d) : ~(Before(p, <<i, j + 1>>) /\ ~Before(p, <<i, j>>))
        <5>1. ASSUME NEW p \in WithPath(d), Before(p, <<i, j + 1>>), ~Before(p, <<i, j>>) PROVE FALSE
          <6>1. p[1] = i /\ p[2] = j
              BY <1>3, <2>3, <5>1 DEF Before
          <6>. QED
              BY <2>3, <3>4, <3>6, <6>1 DEF HasPath
        <5>. QED
            BY <5>1
      <4>3. Keeps(d, rules, errs, named, at, <<i, j + 1>>)
        <5>1. i \in Nat /\ j \in Nat /\ j <= j + 1 /\ errs \subseteq errs /\ named \subseteq named
            BY <1>3
        <5>. QED
            BY <3>1, <3>5, <4>2, <5>1, KeepsOn
      <4>. QED
          BY <2>2, <3>1, <4>1, <4>3
    <3>7. CASE rule.path # <<>>
      <4>1. PICK path : path \in {Expanded(rule.path), rule.path} /\ rules' = Append(rules, [rule EXCEPT !.path = path])
          BY <1>2, <2>7, <3>4, <3>7 DEF ReadRule
      <4>2. PICK r : r = [rule EXCEPT !.path = path]
          OBVIOUS
      <4>3. path \in Text
          BY <4>1, ExpandedIsText DEF RuleType
      <4>4. r \in RuleType
          BY <4>2, <4>3 DEF RuleType
      <4>5. r \in {rule, [rule EXCEPT !.path = Expanded(@)]}
        <5>1. [rule EXCEPT !.path = rule.path] = rule
            BY DEF RuleType
        <5>. QED
            BY <4>1, <4>2, <5>1
      <4>6. HasPath(d[i][j]) /\ r \in {d[i][j], [d[i][j] EXCEPT !.path = Expanded(@)]}
          BY <3>4, <3>7, <4>5 DEF HasPath
      <4>7. PICK at2 : Keeps(d, Append(rules, r), errs, named, at2, <<i, j + 1>>)
          BY <1>3, <3>2, <3>3, <3>5, <4>4, <4>6, KeepsRule
      <4>8. rules' = Append(rules, r)
          BY <4>1, <4>2
      <4>. QED
          BY <2>2, <3>1, <4>7, <4>8
    <3>. QED
        BY <3>6, <3>7
  <2>. QED
      BY <1>5, <2>4, <2>5, <2>6, <2>7 DEF Collect
<1>6. CASE WalkDown \/ Match
  <2>1. /\ pc \notin Collecting /\ pc' \notin Collecting /\ UNCHANGED <<case, collectVars>>
    <3>1. CASE WalkDown
        BY <3>1 DEF WalkDown, RefuseRoot, StartWalk, NextEntry, PruneDir, KeepDir, UnmatchedEntry, Decide, Collecting
    <3>2. CASE MatchEntry \/ NoRuleLeft \/ OutOfScope \/ MatchesAll \/ CallMatchSpec
        BY <3>2 DEF MatchEntry, NoRuleLeft, OutOfScope, MatchesAll, CallMatchSpec, Decide, Collecting
    <3>3. CASE Literal \/ Star \/ Backtrack
        BY <3>3 DEF Literal, Star, Backtrack, InLoop, Collecting
    <3>4. CASE Mismatch \/ SpecMatches \/ SpecFails
        BY <3>4 DEF Mismatch, SpecMatches, SpecFails, NoMatch, Decide, InLoop, Collecting
    <3>. QED
        BY <1>6, <3>1, <3>2, <3>3, <3>4 DEF Match
  <2>2. 0 \notin errs /\ NextPlace' = NextPlace /\ UNCHANGED <<rules, errs, named>>
      BY <1>4, <2>1 DEF collectVars, NextPlace, Collecting
  <2>3. PICK at : Keeps(case.declared, rules, errs, named, at, NextPlace)
      BY <1>1, <2>2 DEF KeptSoFar
  <2>. QED
      BY <2>1, <2>2, <2>3
<1>. QED
    BY <1>5, <1>6 DEF Next

\* The walk goes down by one clean segment at a time from a clean root
\* (validateVolumeRelativePath, Walk).
LEMMA RootStep ==
    ASSUME IInv, Next
    PROVE  RootStaysInside'
<1>1. TypeOK /\ Phases /\ RootStaysInside
    BY DEF IInv
<1>2. /\ case.names \in Seq(FileName) /\ Len(case.names) \in Nat \ {0} /\ case.root \in Text
      /\ rel \in Text /\ depth \in 1..Len(case.names)
    BY <1>1, CaseFacts DEF TypeOK
<1>3. CASE StartWalk
  <2>1. /\ rel' \in validateVolumeRelativePath(case.root) /\ case' = case /\ depth' = 1
      BY <1>1, <1>3 DEF StartWalk, Phases
  <2>2. /\ Segments(rel') = IF case.root = <<".">> THEN <<>> ELSE Segments(case.root)
        /\ rel' # <<>> => rel'[1] \notin Separators
        /\ \A m \in DOMAIN Segments(rel') :
              Segments(rel')[m] \notin {<<".">>, <<".", ".">>} /\ Range(Segments(rel')[m]) \cap Drives = {}
      BY <1>2, <2>1, ValidatedIsClean
  <2>3. SubSeq(case.names, 1, 0) = <<>>
      BY <1>2
  <2>4. RootSegments' = Segments(rel') /\ Segments(rel') \in Seq(Segment)
    <3>1. rel' \in Text
        BY <1>2, <2>1, ValidatedIs
    <3>. QED
        BY <2>1, <2>2, <3>1, SegmentsType DEF RootSegments
  <2>5. Segments(rel') = RootSegments' \o SubSeq(case'.names, 1, depth' - 1)
    <3>1. SubSeq(case'.names, 1, depth' - 1) = <<>>
        BY <2>1, <2>3
    <3>2. Segments(rel') \o <<>> = Segments(rel')
        BY <2>4
    <3>. QED
        BY <2>4, <3>1, <3>2
  <2>. QED
      BY <2>2, <2>5 DEF RootStaysInside
<1>4. CASE KeepDir /\ ~AtEntry
  <2>1. /\ rel' = Path /\ depth' = depth + 1 /\ case' = case /\ pc = "excluded?" /\ depth + 1 \in 1..Len(case.names)
      BY <1>2, <1>4 DEF KeepDir, AtEntry
  <2>2. PICK n \in FileName : n = case.names[depth]
      BY <1>2
  <2>3. /\ Segments(rel) = RootSegments \o SubSeq(case.names, 1, depth - 1)
        /\ rel # <<>> => rel[1] \notin Separators
        /\ \A m \in DOMAIN Segments(rel) :
              Segments(rel)[m] \notin {<<".">>, <<".", ".">>} /\ Range(Segments(rel)[m]) \cap Drives = {}
      BY <1>1, <2>1 DEF RootStaysInside
  <2>4. /\ rel' # <<>> /\ Segments(rel') = Append(Segments(rel), n)
        /\ rel'[1] = IF rel = <<>> THEN n[1] ELSE rel[1]
      BY <1>2, <2>1, <2>2, PathFacts DEF Path
  <2>5. Len(n) \in Nat \ {0} /\ n \notin {<<".">>, <<".", ".">>} /\ Range(n) \cap Drives = {} /\ n[1] \notin Separators
      BY NameFacts
  <2>6. rel'[1] \notin Separators
      BY <2>3, <2>4, <2>5
  <2>7. PICK segs : segs = Segments(rel)
      OBVIOUS
  <2>8. segs \in Seq(Segment) /\ n \in Segment /\ Len(segs) \in Nat
      BY <1>2, <2>7, NameFacts, SegmentsType DEF Segment
  <2>9. \A m \in DOMAIN Segments(rel') : \/ m \in DOMAIN segs /\ Segments(rel')[m] = segs[m]
                                         \/ Segments(rel')[m] = n
      BY <2>4, <2>7, <2>8
  <2>10. Segments(rel') = RootSegments' \o SubSeq(case'.names, 1, depth' - 1)
    <3>1. RootSegments \in Seq(Segment) /\ RootSegments' = RootSegments
      <4>1. <<>> \in Seq(Segment)
          OBVIOUS
      <4>. QED
          BY <1>2, <2>1, <4>1, SegmentsType DEF RootSegments
    <3>2. PICK roots \in Seq(Segment) : roots = RootSegments
        BY <3>1
    <3>3. /\ SubSeq(case.names, 1, depth - 1) \in Seq(FileName)
          /\ SubSeq(case.names, 1, depth) = Append(SubSeq(case.names, 1, depth - 1), n)
        BY <1>2, <2>2
    <3>4. PICK before \in Seq(FileName) : before = SubSeq(case.names, 1, depth - 1)
        BY <3>3
    <3>5. Append(roots \o before, n) = roots \o Append(before, n)
        OBVIOUS
    <3>6. (depth + 1) - 1 = depth
        BY <1>2
    <3>7. RootSegments' \o SubSeq(case'.names, 1, depth' - 1) = roots \o Append(before, n)
        BY <2>1, <3>1, <3>2, <3>3, <3>4, <3>6
    <3>8. Segments(rel') = Append(roots \o before, n)
        BY <2>3, <2>4, <3>2, <3>4
    <3>. QED
        BY <3>5, <3>7, <3>8
  <2>11. \A m \in DOMAIN Segments(rel') :
            Segments(rel')[m] \notin {<<".">>, <<".", ".">>} /\ Range(Segments(rel')[m]) \cap Drives = {}
      BY <2>3, <2>5, <2>7, <2>9
  <2>. QED
      BY <2>6, <2>10, <2>11 DEF RootStaysInside
<1>5. CASE UNCHANGED <<case, rel, depth>> /\ (pc' \in Walking => pc \in Walking)
    BY <1>1, <1>5 DEF RootStaysInside, RootSegments, Walking
<1>6. CASE Collect \/ RefuseRoot
  <2>1. pc' \notin Walking
      BY <1>6 DEF Collect, CountWriters, CountFails, GetWriterMetadata, WriterFails, WriterNameFails, NextWriter, ReadRule, WriterDone,
                  Collected, RefuseRoot, Walking
  <2>. QED
      BY <2>1 DEF RootStaysInside, Walking
<1>7. CASE NextEntry \/ PruneDir \/ UnmatchedEntry \/ (KeepDir /\ AtEntry)
  <2>1. UNCHANGED <<case, rel, depth>> /\ pc \in Walking
      BY <1>7 DEF NextEntry, PruneDir, UnmatchedEntry, KeepDir, Walking, walkVars
  <2>. QED
      BY <1>5, <2>1
<1>8. CASE Match
  <2>1. UNCHANGED <<case, rel, depth>> /\ pc \in Walking
    <3>1. CASE MatchEntry \/ NoRuleLeft \/ OutOfScope \/ MatchesAll \/ CallMatchSpec
        BY <3>1 DEF MatchEntry, NoRuleLeft, OutOfScope, MatchesAll, CallMatchSpec, Walking, walkVars
    <3>2. CASE Literal \/ Star \/ Backtrack
        BY <3>2 DEF Literal, Star, Backtrack, InLoop, Walking, walkVars
    <3>3. CASE Mismatch \/ SpecMatches \/ SpecFails
        BY <3>3 DEF Mismatch, SpecMatches, SpecFails, NoMatch, InLoop, Walking, walkVars
    <3>. QED
        BY <1>8, <3>1, <3>2, <3>3 DEF Match
  <2>. QED
      BY <1>5, <2>1
<1>. QED
    BY <1>3, <1>4, <1>6, <1>7, <1>8 DEF Next, WalkDown

\* Each step keeps the invariant.
LEMMA InvStep == IInv /\ [Next]_vars => IInv'
<1>. SUFFICES ASSUME IInv, [Next]_vars PROVE IInv'
    OBVIOUS
<1>1. CASE Next
    BY <1>1, CollectType, WalkDownType, MatchType, PhasesStep, KeptStep, RootStep DEF IInv, Next
<1>2. CASE UNCHANGED vars
  <2>. USE <1>2 DEF vars, collectVars, walkVars, matchVars
  <2>1. TypeOK'
      BY DEF IInv, TypeOK
  <2>2. Phases'
      BY DEF IInv, Phases
  <2>3. KeptSoFar'
      BY Zenon DEF IInv, KeptSoFar, NextPlace
  <2>4. RootStaysInside'
      BY DEF IInv, RootStaysInside, RootSegments
  <2>. QED
      BY <2>1, <2>2, <2>3, <2>4 DEF IInv
<1>. QED
    BY <1>1, <1>2

\* The invariant holds in every state of every behaviour.
THEOREM Invariance == Spec => []IInv
<1>. QED
    BY InitInv, InvStep, PTL DEF Spec

-----------------------------------------------------------------------------
(* The theorems. *)

\* Every variable keeps its type: the loop of matchSpec never reads past the
\* pattern or the name, whatever they are.
THEOREM ExcludesTypeCorrect == Spec => []TypeOK
<1>1. IInv => TypeOK
    BY DEF IInv
<1>. QED
    BY Invariance, <1>1, PTL

\* Whatever the writers declare, whichever of them fail and wherever: a writer that
\* cannot be read costs no other writer's rules and its error is returned, no rule
\* is invented or moved, and a writer whose rules are cut short is named by its
\* error; only one whose identity cannot be read is missing under no name, with
\* all its rules (collectExcludeRules).
THEOREM CollectsHonestly == Spec => []CollectIsHonest
<1>1. IInv => CollectIsHonest
  <2>. SUFFICES ASSUME IInv, pc \notin Collecting, 0 \notin errs
                PROVE  \E at \in [DOMAIN rules -> {p \in Places : HasPath(DeclaredAt(p))}] :
                          /\ \A n \in DOMAIN rules :
                                rules[n] \in {DeclaredAt(at[n]), [DeclaredAt(at[n]) EXCEPT !.path = Expanded(@)]}
                          /\ \A n, o \in DOMAIN rules : n < o => Before(at[n], at[o])
                          /\ \A p \in Places : HasPath(DeclaredAt(p)) =>
                                \/ \E n \in DOMAIN rules : at[n] = p
                                \/ p[1] \in errs /\ \A n \in DOMAIN rules : at[n][1] = p[1] => Before(at[n], p) /\ p[1] \in named
      BY DEF CollectIsHonest, Collecting
  <2>1. case.declared \in Declarations /\ i = Len(case.declared) + 1 /\ Len(case.declared) \in Nat
      BY CaseFacts DEF IInv, TypeOK, Phases
  <2>2. PICK at \in [DOMAIN rules -> WithPath(case.declared)] : Keeps(case.declared, rules, errs, named, at, <<i, 1>>)
      BY DEF IInv, KeptSoFar, NextPlace, Collecting
  <2>3. WithPath(case.declared) = {p \in Places : HasPath(DeclaredAt(p))}
      BY DEF WithPath, PlacesIn, Places, DeclaredAt
  <2>4. \A p \in WithPath(case.declared) : Before(p, <<i, 1>>)
      BY <2>1, PlacesAre DEF Before, Declarations
  <2>5. \A p \in Places : HasPath(DeclaredAt(p)) =>
            \/ \E n \in DOMAIN rules : at[n] = p
            \/ p[1] \in errs /\ \A n \in DOMAIN rules : at[n][1] = p[1] => Before(at[n], p) /\ p[1] \in named
      BY <2>2, <2>3, <2>4 DEF Keeps
  <2>6. \A n \in DOMAIN rules :
            rules[n] \in {DeclaredAt(at[n]), [DeclaredAt(at[n]) EXCEPT !.path = Expanded(@)]}
      BY <2>2 DEF Keeps, DeclaredAt
  <2>7. \A n, o \in DOMAIN rules : n < o => Before(at[n], at[o])
      BY <2>2 DEF Keeps
  <2>. QED
      BY <2>2, <2>3, <2>5, <2>6, <2>7
<1>. QED
    BY Invariance, <1>1, PTL

\* Whatever root Walk is given, however its separators are written: once it is
\* accepted the walk stays among its segments and the names found below it, and
\* none of them is a drive or a dot segment (validateVolumeRelativePath).
THEOREM RootInside == Spec => []RootStaysInside
<1>1. IInv => RootStaysInside
    BY DEF IInv
<1>. QED
    BY Invariance, <1>1, PTL

-----------------------------------------------------------------------------
(* Texts and their segments, the other way round. *)

\* Sequences in a row, however they are grouped.
LEMMA Grouped ==
    ASSUME NEW C, NEW x \in Seq(C), NEW y \in Seq(C), NEW z \in Seq(C)
    PROVE  (x \o y) \o z = x \o (y \o z)
    OBVIOUS

\* Texts in a row.
LEMMA GroupedCharacters ==
    ASSUME NEW x \in Seq(Character), NEW y \in Seq(Character), NEW z \in Seq(Character)
    PROVE  (x \o y) \o z = x \o (y \o z)
    BY Grouped

\* Paths in a row.
LEMMA GroupedSegments ==
    ASSUME NEW x \in Seq(Segment), NEW y \in Seq(Segment), NEW z \in Seq(Segment)
    PROVE  (x \o y) \o z = x \o (y \o z)
    BY Grouped

\* What a sequence is after its first n elements.
Rest(p, n) == SubSeq(p, n + 1, Len(p))

\* The elements of what is left, and that the two parts make the whole.
LEMMA RestFacts ==
    ASSUME NEW C, NEW p \in Seq(C), NEW n \in 0..Len(p)
    PROVE  /\ Rest(p, n) \in Seq(C) /\ Len(Rest(p, n)) = Len(p) - n /\ Len(p) \in Nat
           /\ \A m \in 1..(Len(p) - n) : Rest(p, n)[m] = p[n + m]
           /\ Pre(p, n) \o Rest(p, n) = p
<1>1. PICK N \in Nat : N = Len(p)
    OBVIOUS
<1>2. PICK r : r = Rest(p, n)
    OBVIOUS
<1>3. CASE n = N
  <2>1. r = <<>>
      BY <1>1, <1>2, <1>3 DEF Rest
  <2>2. Pre(p, n) = p
      BY <1>1, <1>3, PreFacts
  <2>. QED
      BY <1>1, <1>2, <1>3, <2>1, <2>2
<1>4. CASE n < N
  <2>1. n + 1 \in 1..N /\ n + 1 <= N
      BY <1>1, <1>4
  <2>2. r \in Seq(C) /\ Len(r) = N - n /\ \A m \in 1..(N - n) : r[m] = p[n + m]
    <3>1. PICK c \in 1..N : c = n + 1
        BY <2>1
    <3>2. r = SubSeq(p, c, N) /\ c <= N
        BY <1>1, <1>2, <2>1, <3>1 DEF Rest
    <3>3. r \in Seq(C) /\ Len(r) = N - c + 1 /\ \A m \in 1..(N - c + 1) : r[m] = p[c + m - 1]
        BY <1>1, <3>2
    <3>. QED
        BY <1>1, <3>1, <3>3
  <2>3. PICK b : b = Pre(p, n)
      OBVIOUS
  <2>4. b \in Seq(C) /\ Len(b) = n /\ \A m \in 1..n : b[m] = p[m]
      BY <2>3, PreFacts
  <2>5. b \o r \in Seq(C) /\ Len(b \o r) = N /\ \A m \in 1..n : (b \o r)[m] = b[m]
      BY <1>1, <2>2, <2>4
  <2>6. \A m \in 1..(N - n) : (b \o r)[n + m] = r[m]
      BY <1>1, <2>2, <2>4
  <2>7. ASSUME NEW m \in 1..N PROVE (b \o r)[m] = p[m]
    <3>1. CASE m <= n
        BY <1>1, <2>4, <2>5, <3>1
    <3>2. CASE m > n
      <4>1. PICK x \in 1..(N - n) : n + x = m
        <5>1. m - n \in 1..(N - n) /\ n + (m - n) = m
            BY <1>1, <3>2
        <5>. QED
            BY <5>1
      <4>. QED
          BY <2>2, <2>6, <4>1
    <3>3. m <= n \/ m > n
        BY <1>1
    <3>. QED
        BY <3>1, <3>2, <3>3, Zenon
  <2>8. b \o r = p
    <3>1. PICK w : w = b \o r
        OBVIOUS
    <3>2. w \in Seq(C) /\ Len(w) = N /\ \A m \in 1..N : w[m] = p[m]
        BY <2>5, <2>7, <3>1
    <3>3. w = p
        BY <1>1, <3>2
    <3>. QED
        BY <3>1, <3>3
  <2>. QED
      BY <1>1, <1>2, <2>2, <2>3, <2>8
<1>. QED
    BY <1>1, <1>3, <1>4

\* A prefix, element by element.
LEMMA PrefixIs ==
    ASSUME NEW C, NEW s \in Seq(C), NEW t \in Seq(C)
    PROVE  IsPrefix(s, t) <=> Len(s) <= Len(t) /\ AgreeUpTo(s, t, Len(s))
<1>1. PICK N \in Nat : N = Len(s)
    OBVIOUS
<1>2. SubSeq(s, 1, N) = s
    BY <1>1
<1>3. ASSUME N <= Len(t)
      PROVE  SubSeq(t, 1, N) = s <=> AgreeUpTo(s, t, N)
  <2>1. PICK u : u = SubSeq(t, 1, N)
      OBVIOUS
  <2>2. u \in Seq(C) /\ Len(u) = N /\ \A m \in 1..N : u[m] = t[m]
      BY <1>1, <1>3, <2>1
  <2>. QED
      BY <1>1, <2>1, <2>2 DEF AgreeUpTo
<1>. QED
    BY <1>1, <1>2, <1>3 DEF IsPrefix

\* A text that is its segments, each with a separator after it.
Closed(t) ==
    /\ \A m \in 1..Len(t) : t[m] \in Separators => t[m] = Sep
    /\ t # <<>> => t[1] # Sep /\ t[Len(t)] = Sep
    /\ \A m \in 2..Len(t) : t[m - 1] # Sep \/ t[m] # Sep

\* What comes after a separator of such a text is one, too.
LEMMA ClosedRest ==
    ASSUME NEW t \in Text, Closed(t), NEW n \in 0..Len(t), n = 0 \/ t[n] = Sep
    PROVE  Rest(t, n) \in Text /\ Closed(Rest(t, n))
<1>1. PICK N \in Nat : N = Len(t)
    BY DEF Text
<1>2. PICK r : r = Rest(t, n)
    OBVIOUS
<1>3. r \in Text /\ Len(r) = N - n /\ \A m \in 1..(N - n) : r[m] = t[n + m]
    BY <1>1, <1>2, RestFacts DEF Text
<1>4. /\ \A m \in 1..N : t[m] \in Separators => t[m] = Sep
      /\ t # <<>> => t[1] # Sep /\ t[N] = Sep
      /\ \A m \in 2..N : t[m - 1] # Sep \/ t[m] # Sep
    BY <1>1 DEF Closed
<1>5. \A m \in 1..(N - n) : n + m \in 1..N /\ (r[m] \in Separators => r[m] = Sep)
    BY <1>1, <1>3, <1>4
<1>6. \A m \in 2..(N - n) : r[m - 1] # Sep \/ r[m] # Sep
  <2>1. ASSUME NEW m \in 2..(N - n) PROVE r[m - 1] # Sep \/ r[m] # Sep
    <3>1. PICK x : x = n + m
        OBVIOUS
    <3>2. m - 1 \in 1..(N - n) /\ n + (m - 1) = x - 1 /\ x \in 2..N /\ m \in 1..(N - n)
        BY <1>1, <3>1
    <3>3. r[m] = t[x] /\ r[m - 1] = t[x - 1]
        BY <1>3, <3>1, <3>2
    <3>. QED
        BY <1>4, <3>2, <3>3
  <2>. QED
      BY <2>1
<1>7. ASSUME r # <<>> PROVE r[1] # Sep /\ r[N - n] = Sep
  <2>1. N - n >= 1 /\ t # <<>>
    <3>1. Len(r) # 0
        BY <1>3, <1>7 DEF Text
    <3>2. N > 0
        BY <1>1, <1>3, <3>1
    <3>. QED
        BY <1>1, <1>3, <3>1, <3>2
  <2>2. r[N - n] = t[N]
    <3>1. N - n \in 1..(N - n) /\ n + (N - n) = N
        BY <1>1, <2>1
    <3>. QED
        BY <1>3, <3>1
  <2>3. r[1] # Sep
    <3>1. 1 \in 1..(N - n) /\ n + 1 \in 1..N
        BY <1>1, <2>1
    <3>2. r[1] = t[n + 1]
        BY <1>3, <3>1
    <3>3. CASE n = 0
        BY <1>4, <2>1, <3>2, <3>3
    <3>4. CASE n # 0
      <4>1. PICK x : x = n + 1
          OBVIOUS
      <4>2. x \in 2..N /\ x - 1 = n
          BY <1>1, <3>1, <3>4, <4>1
      <4>3. t[x] # Sep
          BY <1>4, <3>4, <4>2
      <4>. QED
          BY <3>2, <4>1, <4>3
    <3>. QED
        BY <3>3, <3>4
  <2>. QED
      BY <1>4, <2>1, <2>2, <2>3
<1>8. Closed(r)
    BY <1>3, <1>5, <1>6, <1>7 DEF Closed
<1>. QED
    BY <1>2, <1>3, <1>8

\* The first segment of such a text is what is before its first separator.
LEMMA FirstSegment ==
    ASSUME NEW t \in Text, Closed(t), t # <<>>
    PROVE  \E f \in Segment, e \in 1..Len(t) :
              /\ t[e] = Sep /\ Len(f) = e - 1 /\ AgreeUpTo(f, t, e - 1)
              /\ Segments(t) = <<f>> \o Segments(Rest(t, e)) /\ Rest(t, e) \in Text
<1>1. PICK N \in Nat : N = Len(t) /\ N # 0 /\ t \in Seq(Character)
    BY DEF Text
<1>2. /\ \A m \in 1..N : t[m] \in Separators => t[m] = Sep
      /\ t[1] # Sep /\ t[N] = Sep
    BY <1>1 DEF Closed
<1>. DEFINE T == {m \in 1..N : t[m] = Sep}
<1>3. PICK e \in T : \A m \in T : e <= m
  <2>1. T \subseteq Nat /\ N \in T
      BY <1>1, <1>2
  <2>2. T # {}
      BY <2>1
  <2>. HIDE DEF T
  <2>. QED
      BY <2>1, <2>2, Least
<1>4. e \in 2..N /\ t[e] = Sep /\ \A m \in 1..(e - 1) : t[m] \notin Separators
  <2>1. e \in 1..N /\ t[e] = Sep /\ e # 1
      BY <1>2
  <2>2. ASSUME NEW m \in 1..(e - 1), t[m] \in Separators PROVE FALSE
    <3>1. m \in 1..N /\ m < e
        BY <2>1
    <3>2. m \in T
        BY <1>2, <2>2, <3>1
    <3>. QED
        BY <1>3, <2>1, <3>1, <3>2
  <2>. QED
      BY <2>1, <2>2
<1>. HIDE DEF T
<1>5. PICK f : f = Pre(t, e - 1)
    OBVIOUS
<1>6. PICK d \in 0..(N - 1) : d = e - 1 /\ d + 1 = e /\ d >= 1
    BY <1>1, <1>4
<1>7. f \in Seq(Character) /\ Len(f) = d /\ (\A m \in 1..d : f[m] = t[m]) /\ Pre(t, e) = Append(f, t[d + 1])
  <2>1. Pre(t, d) \in Seq(Character) /\ Len(Pre(t, d)) = d /\ \A m \in 1..d : Pre(t, d)[m] = t[m]
      BY <1>1, <1>6, PreFacts
  <2>2. Pre(t, d + 1) = Append(Pre(t, d), t[d + 1])
      BY <1>1, <1>6, PreFacts
  <2>. QED
      BY <1>5, <1>6, <2>1, <2>2
<1>8. f \in Text /\ f # <<>> /\ \A m \in 1..Len(f) : f[m] \notin Separators
    BY <1>4, <1>6, <1>7 DEF Text
<1>9. Segments(f) = <<f>>
    BY <1>8, SegmentsOfName
<1>10. PICK g : g = Append(f, Sep)
    OBVIOUS
<1>11. g \in Text /\ Segments(g) = Segments(f) /\ Last(g) \in Separators /\ g = Pre(t, e)
  <2>1. g \in Text /\ Segments(g) = Segments(f)
      BY <1>8, <1>10, SegmentsStep, Characters0
  <2>2. f \in Seq(Character) /\ Sep \in Character
      BY <1>7, Characters0
  <2>3. Last(g) = Sep
      BY <1>10, <2>2, AppendFacts
  <2>. QED
      BY <1>4, <1>6, <1>7, <1>10, <2>1, <2>3, Characters0
<1>12. PICK r : r = Rest(t, e)
    OBVIOUS
<1>13. r \in Text /\ g \o r = t
  <2>1. e \in 0..Len(t)
      BY <1>1, <1>4
  <2>. QED
      BY <1>1, <1>11, <1>12, <2>1, RestFacts DEF Text
<1>14. Segments(t) = <<f>> \o Segments(r)
  <2>1. Segments(g \o r) = Segments(g) \o Segments(r)
      BY <1>11, <1>13, SegmentsOfConcat
  <2>. QED
      BY <1>9, <1>11, <1>13, <2>1
<1>15. f \in Segment /\ AgreeUpTo(f, t, e - 1) /\ Len(f) = e - 1 /\ e \in 1..Len(t)
    BY <1>1, <1>4, <1>6, <1>7, <1>8 DEF Segment, AgreeUpTo
<1>. QED
    BY <1>4, <1>12, <1>13, <1>14, <1>15

\* What two sequences that are prefixes of each other have in common goes first.
LEMMA PrefixAfter ==
    ASSUME NEW C, NEW A \in Seq(C), NEW S \in Seq(C), NEW T \in Seq(C), IsPrefix(A \o S, A \o T)
    PROVE  Len(S) <= Len(T) /\ AgreeUpTo(S, T, Len(S))
<1>1. PICK V \in Seq(C) : V = A \o S /\ Len(V) = Len(A) + Len(S) /\ \A m \in 1..Len(S) : V[Len(A) + m] = S[m]
  <2>1. /\ A \o S \in Seq(C) /\ Len(A \o S) = Len(A) + Len(S)
        /\ \A m \in 1..Len(S) : (A \o S)[Len(A) + m] = S[m]
      BY ConcatFacts
  <2>. QED
      BY <2>1, Zenon
<1>2. PICK W \in Seq(C) : W = A \o T /\ Len(W) = Len(A) + Len(T) /\ \A m \in 1..Len(T) : W[Len(A) + m] = T[m]
  <2>1. /\ A \o T \in Seq(C) /\ Len(A \o T) = Len(A) + Len(T)
        /\ \A m \in 1..Len(T) : (A \o T)[Len(A) + m] = T[m]
      BY ConcatFacts
  <2>. QED
      BY <2>1, Zenon
<1>3. Len(V) <= Len(W) /\ AgreeUpTo(V, W, Len(V))
    BY <1>1, <1>2, PrefixIs
<1>4. Len(A) \in Nat /\ Len(S) \in Nat /\ Len(T) \in Nat
    OBVIOUS
<1>5. Len(S) <= Len(T)
    BY <1>1, <1>2, <1>3, <1>4
<1>6. ASSUME NEW m \in 1..Len(S) PROVE S[m] = T[m]
  <2>1. Len(A) + m \in 1..Len(V) /\ m \in 1..Len(T)
      BY <1>1, <1>4, <1>5
  <2>2. V[Len(A) + m] = W[Len(A) + m]
      BY <1>3, <2>1 DEF AgreeUpTo
  <2>. QED
      BY <1>1, <1>2, <2>1, <2>2
<1>. QED
    BY <1>5, <1>6 DEF AgreeUpTo

\* A text of this form begins with another if its segments do.
LEMMA ClosedPrefix ==
    ASSUME NEW s \in Text, Closed(s), NEW d \in Text, Closed(d), IsPrefix(Segments(s), Segments(d))
    PROVE  Len(s) <= Len(d) /\ AgreeUpTo(s, d, Len(s))
<1>1. PICK M \in Nat : M = Len(s)
    BY DEF Text
<1>2. PICK N \in Nat : N = Len(d)
    BY DEF Text
<1>. DEFINE T == {n \in 0..M : n <= N /\ AgreeUpTo(s, d, n) /\ (n = 0 \/ s[n] = Sep)}
<1>3. PICK n \in T : n \in 0..M /\ \A o \in T : n >= o
  <2>1. 0 \in T
      BY <1>1, <1>2 DEF AgreeUpTo
  <2>2. Bounded(T, M)
      BY DEF Bounded
  <2>3. T # {}
      BY <2>1
  <2>. HIDE DEF T
  <2>. QED
      BY <2>2, <2>3, Greatest
<1>4. n \in 0..M /\ n \in 0..N /\ AgreeUpTo(s, d, n) /\ (n = 0 \/ (s[n] = Sep /\ d[n] = Sep))
    BY <1>1, <1>2 DEF AgreeUpTo
<1>5. SUFFICES ASSUME n # M PROVE FALSE
    BY <1>1, <1>2, <1>4
<1>6. PICK x \in Text : x = Rest(s, n) /\ Len(x) = M - n /\ (\A m \in 1..(M - n) : x[m] = s[n + m]) /\ Pre(s, n) \o x = s
  <2>1. Rest(s, n) \in Text /\ Len(Rest(s, n)) = M - n /\ (\A m \in 1..(M - n) : Rest(s, n)[m] = s[n + m]) /\ Pre(s, n) \o Rest(s, n) = s
      BY <1>1, <1>4, RestFacts DEF Text
  <2>. QED
      BY <2>1
<1>7. PICK y \in Text : y = Rest(d, n) /\ Len(y) = N - n /\ (\A m \in 1..(N - n) : y[m] = d[n + m]) /\ Pre(d, n) \o y = d
  <2>1. Rest(d, n) \in Text /\ Len(Rest(d, n)) = N - n /\ (\A m \in 1..(N - n) : Rest(d, n)[m] = d[n + m]) /\ Pre(d, n) \o Rest(d, n) = d
      BY <1>2, <1>4, RestFacts DEF Text
  <2>. QED
      BY <2>1
<1>8. Closed(x) /\ Closed(y)
    BY <1>1, <1>2, <1>4, <1>6, <1>7, ClosedRest
<1>9. x # <<>>
  <2>1. Len(x) # 0
      BY <1>4, <1>5, <1>6
  <2>. QED
      BY <2>1
<1>10. PICK p \in Text : p = Pre(s, n) /\ p = Pre(d, n) /\ (p = <<>> \/ Last(p) \in Separators)
  <2>1. /\ Pre(s, n) \in Seq(Character) /\ Len(Pre(s, n)) = n /\ \A m \in 1..n : Pre(s, n)[m] = s[m]
      BY <1>1, <1>4, PreFacts DEF Text
  <2>2. /\ Pre(d, n) \in Seq(Character) /\ Len(Pre(d, n)) = n /\ \A m \in 1..n : Pre(d, n)[m] = d[m]
      BY <1>2, <1>4, PreFacts DEF Text
  <2>3. PICK p : p = Pre(s, n)
      OBVIOUS
  <2>4. PICK q : q = Pre(d, n)
      OBVIOUS
  <2>5. p \in Seq(Character) /\ q \in Seq(Character) /\ Len(p) = n /\ Len(q) = n /\ \A m \in 1..n : p[m] = q[m] /\ p[m] = s[m]
      BY <1>4, <2>1, <2>2, <2>3, <2>4 DEF AgreeUpTo
  <2>6. p = q
      BY <1>4, <2>5
  <2>7. p = <<>> \/ Last(p) \in Separators
    <3>1. CASE n = 0
        BY <2>5, <3>1
    <3>2. CASE n # 0
      <4>1. n \in 1..n
          BY <1>4, <3>2
      <4>2. Last(p) = Sep
          BY <1>4, <2>5, <3>2, <4>1 DEF Last
      <4>. QED
          BY <4>2, Characters0
    <3>. QED
        BY <3>1, <3>2
  <2>. QED
      BY <2>3, <2>4, <2>5, <2>6, <2>7 DEF Text
<1>11. PICK A \in Seq(Segment) : A = Segments(p)
    BY SegmentsType
<1>12. PICK X1 \in Seq(Segment) : X1 = Segments(x)
    BY SegmentsType
<1>13. PICK Y1 \in Seq(Segment) : Y1 = Segments(y)
    BY SegmentsType
<1>14. Segments(s) = A \o X1 /\ Segments(d) = A \o Y1
  <2>1. Segments(p \o x) = Segments(p) \o Segments(x) /\ Segments(p \o y) = Segments(p) \o Segments(y)
      BY <1>10, SegmentsOfConcat
  <2>2. p \o x = s /\ p \o y = d
      BY <1>6, <1>7, <1>10
  <2>. QED
      BY <1>11, <1>12, <1>13, <2>1, <2>2
<1>15. Len(X1) <= Len(Y1) /\ AgreeUpTo(X1, Y1, Len(X1))
    BY <1>14, PrefixAfter
<1>16. PICK f \in Segment, e \in 1..Len(x) :
          /\ x[e] = Sep /\ Len(f) = e - 1 /\ AgreeUpTo(f, x, e - 1)
          /\ X1 = <<f>> \o Segments(Rest(x, e)) /\ Rest(x, e) \in Text
    BY <1>8, <1>9, <1>12, FirstSegment
<1>17. Len(X1) >= 1 /\ X1[1] = f
  <2>1. PICK z \in Seq(Segment) : z = Segments(Rest(x, e))
      BY <1>16, SegmentsType
  <2>2. X1 = <<f>> \o z
      BY <1>16, <2>1
  <2>. QED
      BY <2>2
<1>18. Len(Y1) >= 1 /\ Y1[1] = f
  <2>1. Len(X1) \in Nat /\ Len(Y1) \in Nat
      OBVIOUS
  <2>. QED
      BY <1>15, <1>17, <2>1 DEF AgreeUpTo
<1>19. y # <<>>
  <2>1. Len(<<>>) = 0
      OBVIOUS
  <2>. QED
      BY <1>13, <1>18, <2>1, SegmentsOfNothing
<1>20. PICK g \in Segment, h \in 1..Len(y) :
          /\ y[h] = Sep /\ Len(g) = h - 1 /\ AgreeUpTo(g, y, h - 1)
          /\ Y1 = <<g>> \o Segments(Rest(y, h)) /\ Rest(y, h) \in Text
    BY <1>8, <1>13, <1>19, FirstSegment
<1>21. Y1[1] = g
  <2>1. PICK z \in Seq(Segment) : z = Segments(Rest(y, h))
      BY <1>20, SegmentsType
  <2>2. Y1 = <<g>> \o z
      BY <1>20, <2>1
  <2>. QED
      BY <2>2
<1>22. f = g /\ e = h /\ e \in 1..(M - n) /\ e \in 1..(N - n)
  <2>1. f = g
      BY <1>18, <1>21
  <2>2. e \in 1..(M - n) /\ h \in 1..(N - n) /\ e - 1 = h - 1
      BY <1>6, <1>7, <1>16, <1>20, <2>1
  <2>. QED
      BY <1>4, <2>1, <2>2
<1>23. AgreeUpTo(s, d, n + e)
  <2>1. ASSUME NEW m \in 1..(n + e) PROVE s[m] = d[m]
    <3>1. CASE m <= n
      <4>1. m \in 1..n
          BY <1>4, <3>1
      <4>. QED
          BY <1>4, <4>1 DEF AgreeUpTo
    <3>2. CASE m > n
      <4>1. PICK o \in 1..e : n + o = m
        <5>1. m - n \in 1..e /\ n + (m - n) = m
            BY <1>4, <1>22, <3>2
        <5>. QED
            BY <5>1
      <4>2. o \in 1..(M - n) /\ o \in 1..(N - n)
          BY <1>4, <1>22
      <4>3. x[o] = s[m] /\ y[o] = d[m]
          BY <1>6, <1>7, <4>1, <4>2
      <4>4. CASE o = e
          BY <1>16, <1>20, <1>22, <4>3, <4>4
      <4>5. CASE o # e
        <5>1. o \in 1..(e - 1)
            BY <1>22, <4>5
        <5>2. f[o] = x[o] /\ f[o] = y[o]
            BY <1>16, <1>20, <1>22, <5>1 DEF AgreeUpTo
        <5>. QED
            BY <4>3, <5>2
      <4>. QED
          BY <4>4, <4>5
    <3>3. m <= n \/ m > n
        BY <1>4, <1>22
    <3>. QED
        BY <3>1, <3>2, <3>3, Zenon
  <2>. QED
      BY <2>1 DEF AgreeUpTo
<1>24. n + e \in 0..M /\ n + e <= N /\ s[n + e] = Sep
    BY <1>4, <1>6, <1>16, <1>22
<1>25. n + e \in T
    BY <1>23, <1>24
<1>26. n >= n + e
  <2>. HIDE DEF T
  <2>. QED
      BY <1>3, <1>25
<1>. QED
    BY <1>4, <1>22, <1>26

\* So of such texts one may compare the segments.
LEMMA ClosedMeans ==
    ASSUME NEW s \in Text, Closed(s), NEW d \in Text, Closed(d)
    PROVE  /\ IsPrefix(s, d) <=> IsPrefix(Segments(s), Segments(d))
           /\ s = d <=> Segments(s) = Segments(d)
<1>1. s \in Seq(Character) /\ d \in Seq(Character) /\ Len(s) \in Nat /\ Len(d) \in Nat
    BY DEF Text
<1>2. Segments(s) \in Seq(Segment) /\ Segments(d) \in Seq(Segment)
    BY SegmentsType
<1>3. ASSUME IsPrefix(s, d) PROVE IsPrefix(Segments(s), Segments(d))
  <2>1. Len(s) <= Len(d) /\ AgreeUpTo(s, d, Len(s))
      BY <1>1, <1>3, PrefixIs
  <2>2. PICK n \in 0..Len(d) : n = Len(s)
      BY <1>1, <2>1
  <2>3. Pre(d, n) = s
    <3>1. PICK p : p = Pre(d, n)
        OBVIOUS
    <3>2. p \in Seq(Character) /\ Len(p) = n /\ \A m \in 1..n : p[m] = d[m]
        BY <1>1, <3>1, PreFacts
    <3>3. \A m \in 1..n : p[m] = s[m]
        BY <2>1, <2>2, <3>2 DEF AgreeUpTo
    <3>4. p = s
        BY <1>1, <2>2, <3>2, <3>3
    <3>. QED
        BY <3>1, <3>4
  <2>4. PICK r \in Text : s \o r = d
    <3>1. Rest(d, n) \in Seq(Character) /\ Pre(d, n) \o Rest(d, n) = d
        BY <1>1, RestFacts
    <3>. QED
        BY <2>3, <3>1 DEF Text
  <2>5. s = <<>> \/ Last(s) \in Separators
      BY Characters0 DEF Closed, Last
  <2>6. Segments(d) = Segments(s) \o Segments(r)
      BY <2>4, <2>5, SegmentsOfConcat
  <2>7. PICK R \in Seq(Segment) : R = Segments(r)
      BY SegmentsType
  <2>8. PICK S \in Seq(Segment) : S = Segments(s)
      BY <1>2
  <2>9. IsPrefix(S, S \o R)
    <3>1. PICK V : V = S \o R
        OBVIOUS
    <3>2. V \in Seq(Segment) /\ Len(S) <= Len(V) /\ \A m \in 1..Len(S) : V[m] = S[m]
        BY <3>1
    <3>3. IsPrefix(S, V)
        BY <3>2, PrefixIs DEF AgreeUpTo
    <3>. QED
        BY <3>1, <3>3
  <2>. QED
      BY <2>6, <2>7, <2>8, <2>9
<1>4. ASSUME IsPrefix(Segments(s), Segments(d)) PROVE IsPrefix(s, d)
    BY <1>1, <1>4, ClosedPrefix, PrefixIs
<1>5. ASSUME Segments(s) = Segments(d) PROVE s = d
  <2>1. PICK S \in Seq(Segment) : S = Segments(s) /\ S = Segments(d)
      BY <1>2, <1>5
  <2>2. IsPrefix(S, S)
      BY PrefixIs DEF AgreeUpTo
  <2>3. /\ Len(s) <= Len(d) /\ AgreeUpTo(s, d, Len(s))
        /\ Len(d) <= Len(s)
      BY <2>1, <2>2, ClosedPrefix
  <2>4. Len(s) = Len(d) /\ \A m \in 1..Len(s) : s[m] = d[m]
      BY <1>1, <2>3 DEF AgreeUpTo
  <2>. QED
      BY <1>1, <2>4
<1>. QED
    BY <1>3, <1>4, <1>5

-----------------------------------------------------------------------------
(* Folding and normalising. *)

\* A fold of a text, character by character.
LEMMA FoldFacts ==
    ASSUME NEW t \in Text
    PROVE  /\ Fold(t) \in Text /\ Len(Fold(t)) = Len(t) /\ Len(t) \in Nat /\ DOMAIN t = 1..Len(t)
           /\ \A q \in 1..Len(t) : /\ Fold(t)[q] = Upper[t[q]] /\ t[q] \in Character
                                   /\ Fold(t)[q] = "*" <=> t[q] = "*"
                                   /\ Fold(t)[q] = "?" <=> t[q] = "?"
                                   /\ Fold(t)[q] = Sep <=> t[q] = Sep
<1>1. Len(t) \in Nat /\ DOMAIN t = 1..Len(t) /\ \A q \in 1..Len(t) : t[q] \in Character
    BY DEF Text
<1>2. Fold(t) = [q \in 1..Len(t) |-> Upper[t[q]]]
    BY <1>1 DEF Fold
<1>3. \A q \in 1..Len(t) : Upper[t[q]] \in Character
    BY <1>1, UpperAssumption
<1>4. Fold(t) \in Text /\ Len(Fold(t)) = Len(t)
    BY <1>1, <1>2, <1>3 DEF Text
<1>5. \A d \in Character : /\ Upper[d] = "*" <=> d = "*"
                           /\ Upper[d] = "?" <=> d = "?"
                           /\ Upper[d] = Sep <=> d = Sep
    BY UpperAssumption DEF Sep, Separators
<1>. QED
    BY <1>1, <1>2, <1>4, <1>5

\* Folding goes character by character.
LEMMA FoldAppend ==
    ASSUME NEW q \in Text, NEW c \in Character
    PROVE  Fold(Append(q, c)) = Append(Fold(q), Upper[c])
<1>1. PICK n \in Nat : n = Len(q) /\ q \in Seq(Character)
    BY DEF Text
<1>2. PICK a : a = Append(q, c)
    OBVIOUS
<1>3. a \in Text /\ Len(a) = n + 1 /\ a[n + 1] = c /\ \A m \in 1..n : a[m] = q[m]
    BY <1>1, <1>2, AppendFacts DEF Text
<1>4. PICK f \in Text : f = Fold(q) /\ Len(f) = n /\ \A m \in 1..n : f[m] = Upper[q[m]]
    BY <1>1, FoldFacts
<1>5. PICK g \in Text : g = Fold(a) /\ Len(g) = n + 1 /\ \A m \in 1..(n + 1) : g[m] = Upper[a[m]]
    BY <1>3, FoldFacts
<1>6. PICK h : h = Append(f, Upper[c])
    OBVIOUS
<1>7. Upper[c] \in Character
    BY UpperAssumption
<1>8. h \in Seq(Character) /\ Len(h) = n + 1 /\ h[n + 1] = Upper[c] /\ \A m \in 1..n : h[m] = f[m]
    BY <1>4, <1>6, <1>7, AppendFacts DEF Text
<1>9. ASSUME NEW m \in 1..(n + 1) PROVE g[m] = h[m]
  <2>1. m \in 1..n \/ m = n + 1
      OBVIOUS
  <2>2. CASE m \in 1..n
      BY <1>3, <1>4, <1>5, <1>8, <2>2
  <2>3. CASE m = n + 1
      BY <1>3, <1>5, <1>8, <2>3
  <2>. QED
      BY <2>1, <2>2, <2>3
<1>10. g = h
    BY <1>1, <1>5, <1>8, <1>9 DEF Text
<1>. QED
    BY <1>2, <1>4, <1>5, <1>6, <1>10

\* Folding one character.
LEMMA FoldOne ==
    ASSUME NEW c \in Character
    PROVE  Fold(<<c>>) = <<Upper[c]>>
BY DEF Fold

\* The folds of some segments.
LEMMA FoldAllFacts ==
    ASSUME NEW S \in Seq(Segment)
    PROVE  /\ FoldAll(S) \in Seq(Text) /\ Len(FoldAll(S)) = Len(S) /\ Len(S) \in Nat
           /\ \A m \in 1..Len(S) : FoldAll(S)[m] = Fold(S[m]) /\ S[m] \in Text
<1>1. Len(S) \in Nat /\ DOMAIN S = 1..Len(S) /\ \A m \in 1..Len(S) : S[m] \in Segment
    OBVIOUS
<1>2. \A m \in 1..Len(S) : S[m] \in Text /\ Fold(S[m]) \in Text
    BY <1>1, FoldIsText, TextFacts
<1>3. FoldAll(S) = [m \in 1..Len(S) |-> Fold(S[m])]
    BY <1>1 DEF FoldAll
<1>. QED
    BY <1>1, <1>2, <1>3

\* Folding the segments of a longer path.
LEMMA FoldAllAppend ==
    ASSUME NEW S \in Seq(Segment), NEW x \in Segment
    PROVE  FoldAll(Append(S, x)) = Append(FoldAll(S), Fold(x))
<1>1. PICK n \in Nat : n = Len(S)
    OBVIOUS
<1>2. PICK a : a = Append(S, x)
    OBVIOUS
<1>3. a \in Seq(Segment) /\ Len(a) = n + 1 /\ a[n + 1] = x /\ \A m \in 1..n : a[m] = S[m]
    BY <1>1, <1>2, AppendFacts
<1>4. PICK f \in Seq(Text) : f = FoldAll(S) /\ Len(f) = n /\ \A m \in 1..n : f[m] = Fold(S[m])
    BY <1>1, FoldAllFacts
<1>5. PICK g \in Seq(Text) : g = FoldAll(a) /\ Len(g) = n + 1 /\ \A m \in 1..(n + 1) : g[m] = Fold(a[m])
    BY <1>3, FoldAllFacts
<1>6. PICK h : h = Append(f, Fold(x))
    OBVIOUS
<1>7. Fold(x) \in Text
    BY FoldIsText, TextFacts
<1>8. h \in Seq(Text) /\ Len(h) = n + 1 /\ h[n + 1] = Fold(x) /\ \A m \in 1..n : h[m] = f[m]
    BY <1>4, <1>6, <1>7, AppendFacts
<1>9. ASSUME NEW m \in 1..(n + 1) PROVE g[m] = h[m]
  <2>1. m \in 1..n \/ m = n + 1
      OBVIOUS
  <2>2. CASE m \in 1..n
    <3>1. h[m] = f[m] /\ f[m] = Fold(S[m]) /\ a[m] = S[m]
        BY <1>3, <1>4, <1>8, <2>2, Zenon
    <3>. QED
        BY <1>5, <3>1, Zenon
  <2>3. CASE m = n + 1
      BY <1>3, <1>5, <1>8, <2>3
  <2>. QED
      BY <2>1, <2>2, <2>3
<1>10. g = h
    BY <1>1, <1>5, <1>8, <1>9
<1>. QED
    BY <1>2, <1>4, <1>5, <1>6, <1>10

\* The last segment is folded like the others.
LEMMA FoldAllFront ==
    ASSUME NEW S \in Seq(Segment), S # <<>>
    PROVE  Front(FoldAll(S)) = FoldAll(Front(S)) /\ Last(FoldAll(S)) = Fold(Last(S))
<1>1. Front(S) \in Seq(Segment) /\ Last(S) \in Segment
    BY FrontFacts
<1>2. PICK f \in Seq(Segment) : f = Front(S)
    BY <1>1
<1>3. PICK l \in Segment : l = Last(S)
    BY <1>1
<1>4. S = Append(f, l)
  <2>1. PICK n \in Nat : n = Len(S) /\ n # 0
      OBVIOUS
  <2>2. f \in Seq(Segment) /\ Len(f) = n - 1 /\ \A m \in 1..(n - 1) : f[m] = S[m]
      BY <1>2, <2>1, FrontFacts
  <2>3. l = S[n]
      BY <1>3, <2>1 DEF Last
  <2>4. PICK a : a = Append(f, l)
      OBVIOUS
  <2>5. a \in Seq(Segment) /\ Len(a) = n /\ a[n] = l /\ \A m \in 1..(n - 1) : a[m] = f[m]
    <3>1. (n - 1) + 1 = n
        BY <2>1
    <3>. QED
        BY <2>2, <2>4, <3>1, AppendFacts
  <2>6. \A m \in 1..n : m \in 1..(n - 1) \/ m = n
      BY <2>1
  <2>7. a = S
      BY <2>1, <2>2, <2>3, <2>5, <2>6
  <2>. QED
      BY <2>4, <2>7
<1>5. FoldAll(S) = Append(FoldAll(f), Fold(l))
    BY <1>4, FoldAllAppend
<1>6. FoldAll(f) \in Seq(Text) /\ Fold(l) \in Text
    BY FoldAllFacts, FoldIsText, TextFacts
<1>7. Front(Append(FoldAll(f), Fold(l))) = FoldAll(f) /\ Last(Append(FoldAll(f), Fold(l))) = Fold(l)
    BY <1>6, AppendFacts
<1>. QED
    BY <1>2, <1>3, <1>5, <1>7

\* Folding the letters of a text folds those of its segments.
LEMMA SegmentsOfFold ==
    ASSUME NEW p \in Text
    PROVE  Segments(Fold(p)) = FoldAll(Segments(p))
<1>n. PICK N \in Nat : N = Len(p)
    BY DEF Text
<1>. DEFINE P == {n \in 0..N : Segments(Fold(Pre(p, n))) = FoldAll(Segments(Pre(p, n)))}
<1>1. N = Len(p) /\ p \in Seq(Character)
    BY <1>n DEF Text
<1>2. Pre(p, 0) = <<>> /\ Pre(p, N) = p
    BY <1>1, PreFacts
<1>3. \A c \in Character : Upper[c] \in Character /\ (Upper[c] \in Separators <=> c \in Separators)
    BY UpperAssumption DEF Separators
<1>4. 0 \in P
  <2>1. Fold(<<>>) = <<>> /\ FoldAll(<<>>) = <<>>
      BY DEF Fold, FoldAll
  <2>. QED
      BY <1>1, <1>2, <2>1, SegmentsOfNothing
<1>5. ASSUME NEW n \in 0..(N - 1), n \in P PROVE n + 1 \in P
  <2>1. Pre(p, n) \in Text /\ p[n + 1] \in Character /\ Pre(p, n + 1) = Append(Pre(p, n), p[n + 1]) /\ n + 1 \in 0..N
      BY <1>1, PreFacts DEF Text
  <2>2. PICK q \in Text : q = Pre(p, n)
      BY <2>1
  <2>3. PICK c \in Character : c = p[n + 1]
      BY <2>1
  <2>4. PICK r \in Text : r = Fold(q) /\ Len(r) = Len(q)
      BY FoldFacts
  <2>5. PICK S \in Seq(Segment) : S = Segments(q)
      BY SegmentsType
  <2>6. Segments(r) = FoldAll(S)
      BY <1>5, <2>2, <2>4, <2>5
  <2>7. Fold(Append(q, c)) = Append(r, Upper[c])
      BY <2>2, <2>3, <2>4, FoldAppend
  <2>8. (r = <<>> <=> q = <<>>) /\ (q # <<>> => (Last(r) \in Separators <=> Last(q) \in Separators))
    <3>1. Len(q) \in Nat /\ (q = <<>> <=> Len(q) = 0) /\ (r = <<>> <=> Len(r) = 0)
        BY DEF Text
    <3>2. ASSUME q # <<>> PROVE Last(r) = Upper[Last(q)] /\ Last(q) \in Character
      <4>1. Len(q) \in 1..Len(q)
          BY <3>1, <3>2
      <4>. QED
          BY <2>4, <4>1, FoldFacts DEF Last
    <3>. QED
        BY <1>3, <2>4, <3>1, <3>2
  <2>9. Segments(Append(r, Upper[c])) = FoldAll(Segments(Append(q, c)))
    <3>1. Upper[c] \in Character /\ (Upper[c] \in Separators <=> c \in Separators)
        BY <1>3
    <3>2. CASE c \in Separators
      <4>1. Segments(Append(r, Upper[c])) = Segments(r) /\ Segments(Append(q, c)) = S
          BY <2>5, <3>1, <3>2, SegmentsStep
      <4>. QED
          BY <2>6, <4>1
    <3>3. CASE c \notin Separators /\ (q = <<>> \/ Last(q) \in Separators)
      <4>1. Segments(Append(q, c)) = Append(S, <<c>>)
          BY <2>5, <3>3, SegmentsStep
      <4>2. Segments(Append(r, Upper[c])) = Append(FoldAll(S), <<Upper[c]>>)
          BY <2>6, <2>8, <3>1, <3>3, SegmentsStep
      <4>3. FoldAll(Append(S, <<c>>)) = Append(FoldAll(S), <<Upper[c]>>)
        <5>1. <<c>> \in Segment /\ Fold(<<c>>) = <<Upper[c]>>
            BY FoldOne, TextFacts
        <5>. QED
            BY <5>1, FoldAllAppend
      <4>. QED
          BY <4>1, <4>2, <4>3
    <3>4. CASE c \notin Separators /\ q # <<>> /\ Last(q) \notin Separators
      <4>1. Segments(Append(q, c)) = Append(Front(S), Append(Last(S), c)) /\ S # <<>>
          BY <2>5, <3>4, SegmentsStep, SegmentsType
      <4>2. Segments(Append(r, Upper[c])) = Append(Front(FoldAll(S)), Append(Last(FoldAll(S)), Upper[c]))
          BY <2>6, <2>8, <3>1, <3>4, SegmentsStep
      <4>3. Last(S) \in Segment /\ Front(S) \in Seq(Segment)
          BY <4>1, FrontFacts
      <4>4. PICK x \in Text : x = Last(S)
          BY <4>3, TextFacts
      <4>5. Fold(Append(x, c)) = Append(Fold(x), Upper[c]) /\ Append(x, c) \in Segment
          BY FoldAppend, TextFacts
      <4>6. FoldAll(Append(Front(S), Append(x, c))) = Append(FoldAll(Front(S)), Fold(Append(x, c)))
          BY <4>3, <4>5, FoldAllAppend
      <4>7. Front(FoldAll(S)) = FoldAll(Front(S)) /\ Last(FoldAll(S)) = Fold(x)
          BY <4>1, <4>4, FoldAllFront
      <4>. QED
          BY <4>1, <4>2, <4>4, <4>5, <4>6, <4>7
    <3>. QED
        BY <3>2, <3>3, <3>4
  <2>. QED
      BY <2>1, <2>2, <2>3, <2>4, <2>7, <2>9
<1>. HIDE DEF P
<1>6. N \in P
    BY <1>1, <1>4, <1>5, IntervalInduction
<1>. QED
    BY <1>2, <1>6 DEF P

-----------------------------------------------------------------------------
(* The loop of matchSpec, on a pattern pat and a name nam that are folded. *)

\* The q-th character of pat can be laid on nam from x to y.
Fits(pat, nam, q, x, y) ==
    IF pat[q] = "*" THEN x <= y
    ELSE y = x + 1 /\ (pat[q] = "?" \/ pat[q] = nam[y])

\* u lays what comes after a in pat on what comes after b in nam.
Laid(pat, nam, u, a, b) ==
    /\ u \in [a..Len(pat) -> 0..Len(nam)] /\ u[a] = b /\ u[Len(pat)] = Len(nam)
    /\ \A q \in (a + 1)..Len(pat) : Fits(pat, nam, q, u[q - 1], u[q])

\* What comes after a in pat matches what comes after b in nam.
From(pat, nam, a, b) == \E u : Laid(pat, nam, u, a, b)

\* Laying never goes back.
LEMMA LaidRises ==
    ASSUME NEW pat \in Text, NEW nam \in Text, NEW a \in 0..Len(pat), NEW b \in 0..Len(nam),
           NEW u, Laid(pat, nam, u, a, b), NEW q \in a..Len(pat)
    PROVE  u[q] \in b..Len(nam)
<1>1. Len(pat) \in Nat /\ Len(nam) \in Nat
    BY DEF Text
<1>2. /\ \A x \in a..Len(pat) : u[x] \in 0..Len(nam)
      /\ \A x \in (a + 1)..Len(pat) : u[x - 1] <= u[x]
      /\ u[a] = b
  <2>1. /\ \A x \in a..Len(pat) : u[x] \in 0..Len(nam)
        /\ \A x \in (a + 1)..Len(pat) : Fits(pat, nam, x, u[x - 1], u[x])
        /\ u[a] = b
      BY DEF Laid
  <2>2. ASSUME NEW x \in (a + 1)..Len(pat) PROVE u[x - 1] <= u[x]
    <3>1. u[x - 1] \in Nat /\ u[x] \in Nat
        BY <1>1, <2>1
    <3>. QED
        BY <2>1, <3>1 DEF Fits
  <2>. QED
      BY <2>1, <2>2
<1>. DEFINE P == {n \in 0..(q - a) : u[a + n] >= b}
<1>3. Inductive(P, q - a)
  <2>1. a + 0 = a /\ q - a \in Nat
      BY <1>1
  <2>2. 0 \in P
      BY <1>1, <1>2, <2>1
  <2>3. ASSUME NEW n \in 0..((q - a) - 1), n \in P PROVE n + 1 \in P
    <3>1. PICK x : x = a + (n + 1)
        OBVIOUS
    <3>2. x \in (a + 1)..Len(pat) /\ x - 1 = a + n /\ x - 1 \in a..Len(pat) /\ n + 1 \in 0..(q - a)
        BY <1>1, <3>1
    <3>3. u[x - 1] <= u[x] /\ u[x - 1] \in Nat /\ u[x] \in Nat
        BY <1>1, <1>2, <3>2
    <3>4. u[x - 1] >= b
        BY <2>3, <3>2
    <3>5. u[a + (n + 1)] >= b
        BY <3>1, <3>3, <3>4
    <3>. QED
        BY <3>2, <3>5
  <2>. QED
      BY <2>2, <2>3 DEF Inductive
<1>4. q - a \in P
  <2>. HIDE DEF P
  <2>1. q - a \in Nat
      BY <1>1
  <2>. QED
      BY <1>3, <2>1, Reached
<1>5. a + (q - a) = q
    BY <1>1
<1>6. u[q] >= b
    BY <1>4, <1>5
<1>. QED
    BY <1>1, <1>2, <1>6

\* Without a star before it, it goes on character by character.
LEMMA LaidStraight ==
    ASSUME NEW pat \in Text, NEW nam \in Text, NEW a \in 0..Len(pat), NEW b \in 0..Len(nam),
           NEW u, Laid(pat, nam, u, a, b), NEW z \in a..Len(pat), \A q \in (a + 1)..z : pat[q] # "*"
    PROVE  u[z] = b + (z - a)
<1>1. Len(pat) \in Nat /\ Len(nam) \in Nat
    BY DEF Text
<1>2. /\ \A x \in (a + 1)..z : u[x] = u[x - 1] + 1
      /\ u[a] = b
    BY <1>1 DEF Laid, Fits
<1>. DEFINE P == {n \in 0..(z - a) : u[a + n] = b + n}
<1>3. Inductive(P, z - a)
  <2>1. a + 0 = a /\ z - a \in Nat /\ b + 0 = b
      BY <1>1
  <2>2. 0 \in P
      BY <1>2, <2>1
  <2>3. ASSUME NEW n \in 0..((z - a) - 1), n \in P PROVE n + 1 \in P
    <3>1. PICK x : x = a + (n + 1)
        OBVIOUS
    <3>2. x \in (a + 1)..z /\ x - 1 = a + n /\ n + 1 \in 0..(z - a)
        BY <1>1, <3>1
    <3>3. u[x] = u[x - 1] + 1 /\ u[x - 1] = b + n
        BY <1>2, <2>3, <3>2
    <3>4. u[a + (n + 1)] = b + (n + 1)
        BY <1>1, <3>1, <3>3
    <3>. QED
        BY <3>2, <3>4
  <2>. QED
      BY <2>2, <2>3 DEF Inductive
<1>4. z - a \in P
  <2>. HIDE DEF P
  <2>1. z - a \in Nat
      BY <1>1
  <2>. QED
      BY <1>3, <2>1, Reached
<1>5. a + (z - a) = z
    BY <1>1
<1>. QED
    BY <1>4, <1>5

\* The end of the pattern is laid on the end of the name alone.
LEMMA FromEnd ==
    ASSUME NEW pat \in Text, NEW nam \in Text, NEW b \in 0..Len(nam)
    PROVE  From(pat, nam, Len(pat), b) <=> b = Len(nam)
<1>1. PICK N \in Nat : N = Len(pat)
    BY DEF Text
<1>2. ASSUME From(pat, nam, N, b) PROVE b = Len(nam)
    BY <1>1, <1>2 DEF From, Laid
<1>3. ASSUME b = Len(nam) PROVE From(pat, nam, N, b)
  <2>1. Laid(pat, nam, [q \in N..N |-> b], N, b)
      BY <1>1, <1>3 DEF Laid
  <2>. QED
      BY <2>1 DEF From
<1>. QED
    BY <1>1, <1>2, <1>3

\* One character of the pattern after the other.
LEMMA FromNext ==
    ASSUME NEW pat \in Text, NEW nam \in Text, NEW a \in 0..(Len(pat) - 1), NEW b \in 0..Len(nam)
    PROVE  From(pat, nam, a, b) <=> \E c \in b..Len(nam) : Fits(pat, nam, a + 1, b, c) /\ From(pat, nam, a + 1, c)
<1>1. Len(pat) \in Nat /\ Len(nam) \in Nat /\ a \in Nat /\ b \in Nat /\ (a + 1) - 1 = a /\ a + 1 \in (a + 1)..Len(pat)
    BY DEF Text
<1>2. ASSUME NEW u, Laid(pat, nam, u, a, b)
      PROVE  \E c \in b..Len(nam) : Fits(pat, nam, a + 1, b, c) /\ From(pat, nam, a + 1, c)
  <2>. DEFINE v == [q \in (a + 1)..Len(pat) |-> u[q]]
  <2>1. a + 1 \in a..Len(pat) /\ a \in 0..Len(pat)
      BY <1>1
  <2>2. u[a + 1] \in b..Len(nam)
      BY <1>2, <2>1, LaidRises
  <2>3. Fits(pat, nam, a + 1, b, u[a + 1])
      BY <1>1, <1>2 DEF Laid
  <2>4. Laid(pat, nam, v, a + 1, u[a + 1])
    <3>1. /\ \A q \in a..Len(pat) : u[q] \in 0..Len(nam)
          /\ u[Len(pat)] = Len(nam) /\ \A q \in (a + 1)..Len(pat) : Fits(pat, nam, q, u[q - 1], u[q])
        BY <1>2 DEF Laid
    <3>2. v \in [(a + 1)..Len(pat) -> 0..Len(nam)] /\ v[a + 1] = u[a + 1] /\ v[Len(pat)] = Len(nam)
        BY <1>1, <3>1
    <3>3. ASSUME NEW q \in ((a + 1) + 1)..Len(pat) PROVE Fits(pat, nam, q, v[q - 1], v[q])
      <4>1. q \in (a + 1)..Len(pat) /\ q - 1 \in (a + 1)..Len(pat)
          BY <1>1
      <4>2. v[q] = u[q] /\ v[q - 1] = u[q - 1]
          BY <4>1
      <4>. QED
          BY <3>1, <4>1, <4>2
    <3>. HIDE DEF v
    <3>. QED
        BY <3>2, <3>3 DEF Laid
  <2>. QED
      BY <2>2, <2>3, <2>4 DEF From
<1>3. ASSUME NEW c \in b..Len(nam), Fits(pat, nam, a + 1, b, c), NEW v, Laid(pat, nam, v, a + 1, c)
      PROVE  From(pat, nam, a, b)
  <2>. DEFINE u == [q \in a..Len(pat) |-> IF q = a THEN b ELSE v[q]]
  <2>1. /\ \A q \in (a + 1)..Len(pat) : v[q] \in 0..Len(nam)
        /\ v[a + 1] = c /\ v[Len(pat)] = Len(nam)
        /\ \A q \in ((a + 1) + 1)..Len(pat) : Fits(pat, nam, q, v[q - 1], v[q])
      BY <1>3 DEF Laid
  <2>2. u[a] = b /\ a \in a..Len(pat)
      BY <1>1
  <2>3. \A q \in (a + 1)..Len(pat) : u[q] = v[q]
      BY <1>1
  <2>4. u \in [a..Len(pat) -> 0..Len(nam)] /\ u[Len(pat)] = Len(nam)
    <3>1. ASSUME NEW q \in a..Len(pat) PROVE (IF q = a THEN b ELSE v[q]) \in 0..Len(nam)
      <4>1. q = a \/ q \in (a + 1)..Len(pat)
          BY <1>1
      <4>. QED
          BY <2>1, <4>1
    <3>2. Len(pat) \in (a + 1)..Len(pat)
        BY <1>1
    <3>. QED
        BY <2>1, <2>3, <3>1, <3>2
  <2>. HIDE DEF u
  <2>5. ASSUME NEW q \in (a + 1)..Len(pat) PROVE Fits(pat, nam, q, u[q - 1], u[q])
    <3>1. CASE q = a + 1
      <4>1. u[q - 1] = b /\ u[q] = c
          BY <1>1, <2>1, <2>2, <2>3, <3>1
      <4>. QED
          BY <1>3, <3>1, <4>1
    <3>2. CASE q # a + 1
      <4>1. q \in ((a + 1) + 1)..Len(pat) /\ q - 1 \in (a + 1)..Len(pat)
          BY <1>1, <3>2
      <4>2. u[q] = v[q] /\ u[q - 1] = v[q - 1]
          BY <2>3, <4>1
      <4>. QED
          BY <2>1, <4>1, <4>2
    <3>. QED
        BY <3>1, <3>2
  <2>6. Laid(pat, nam, u, a, b)
      BY <2>2, <2>4, <2>5 DEF Laid
  <2>. QED
      BY <2>6 DEF From
<1>. QED
    BY <1>2, <1>3 DEF From

\* What is laid on the end of the name are stars.
LEMMA FromNameEnd ==
    ASSUME NEW pat \in Text, NEW nam \in Text, NEW a \in 0..Len(pat)
    PROVE  From(pat, nam, a, Len(nam)) <=> \A q \in (a + 1)..Len(pat) : pat[q] = "*"
<1>1. Len(pat) \in Nat /\ Len(nam) \in Nat /\ Len(nam) \in 0..Len(nam)
    BY DEF Text
<1>2. ASSUME NEW u, Laid(pat, nam, u, a, Len(nam)), NEW q \in (a + 1)..Len(pat) PROVE pat[q] = "*"
  <2>1. q \in a..Len(pat) /\ q - 1 \in a..Len(pat)
      BY <1>1
  <2>2. u[q] \in Len(nam)..Len(nam) /\ u[q - 1] \in Len(nam)..Len(nam)
      BY <1>1, <1>2, <2>1, LaidRises
  <2>3. u[q] # u[q - 1] + 1
      BY <1>1, <2>2
  <2>. QED
      BY <1>2, <2>3 DEF Laid, Fits
<1>3. ASSUME \A q \in (a + 1)..Len(pat) : pat[q] = "*" PROVE From(pat, nam, a, Len(nam))
  <2>. DEFINE u == [q \in a..Len(pat) |-> Len(nam)]
  <2>1. u \in [a..Len(pat) -> 0..Len(nam)] /\ u[a] = Len(nam) /\ u[Len(pat)] = Len(nam)
      BY <1>1
  <2>2. ASSUME NEW q \in (a + 1)..Len(pat) PROVE Fits(pat, nam, q, u[q - 1], u[q])
    <3>1. q \in a..Len(pat) /\ q - 1 \in a..Len(pat)
        BY <1>1
    <3>. QED
        BY <1>1, <1>3, <3>1 DEF Fits
  <2>. HIDE DEF u
  <2>. QED
      BY <2>1, <2>2 DEF Laid, From
<1>. QED
    BY <1>2, <1>3 DEF From

\* A literal is laid on the next character of the name.
LEMMA FromLiteral ==
    ASSUME NEW pat \in Text, NEW nam \in Text, NEW a \in 0..(Len(pat) - 1), NEW b \in 0..(Len(nam) - 1), pat[a + 1] # "*"
    PROVE  From(pat, nam, a, b) <=> pat[a + 1] \in {"?", nam[b + 1]} /\ From(pat, nam, a + 1, b + 1)
<1>1. Len(pat) \in Nat /\ Len(nam) \in Nat /\ b \in 0..Len(nam) /\ b + 1 \in b..Len(nam)
    BY DEF Text
<1>2. From(pat, nam, a, b) <=> \E c \in b..Len(nam) : Fits(pat, nam, a + 1, b, c) /\ From(pat, nam, a + 1, c)
    BY <1>1, FromNext
<1>3. \A c \in b..Len(nam) : Fits(pat, nam, a + 1, b, c) <=> c = b + 1 /\ pat[a + 1] \in {"?", nam[b + 1]}
    BY DEF Fits
<1>. QED
    BY <1>1, <1>2, <1>3

\* A star is laid on as much of it as need be.
LEMMA FromStar ==
    ASSUME NEW pat \in Text, NEW nam \in Text, NEW a \in 0..(Len(pat) - 1), NEW b \in 0..Len(nam), pat[a + 1] = "*"
    PROVE  From(pat, nam, a, b) <=> \E c \in b..Len(nam) : From(pat, nam, a + 1, c)
<1>1. \A c \in b..Len(nam) : Fits(pat, nam, a + 1, b, c)
    BY DEF Fits, Text
<1>2. From(pat, nam, a, b) <=> \E c \in b..Len(nam) : Fits(pat, nam, a + 1, b, c) /\ From(pat, nam, a + 1, c)
    BY FromNext
<1>. QED
    BY <1>1, <1>2

\* What holds at the head of the loop: a match of the whole is a match from
\* where the loop is, or one that the star before it can be made longer for.
LaterStar(pat, nam, s, m) == s >= 0 /\ \E c \in (m + 1)..Len(nam) : From(pat, nam, s + 1, c)

\* a, b, s and m are pi, ni, star and mark of matchSpec.
Loop(pat, nam, a, b, s, m) ==
    /\ a \in 0..Len(pat) /\ b \in 0..Len(nam) /\ s \in -1..(a - 1) /\ m \in 0..b
    /\ From(pat, nam, 0, 0) <=> From(pat, nam, a, b) \/ LaterStar(pat, nam, s, m)
    /\ s >= 0 => b - m = a - s - 1 /\ \A q \in (s + 2)..a : pat[q] # "*"

\* It holds where the loop starts.
LEMMA LoopStarts ==
    ASSUME NEW pat \in Text, NEW nam \in Text
    PROVE  Loop(pat, nam, 0, 0, -1, 0)
<1>1. Len(pat) \in Nat /\ Len(nam) \in Nat
    BY DEF Text
<1>2. ~LaterStar(pat, nam, -1, 0)
    BY DEF LaterStar
<1>3. -1 \in -1..(0 - 1)
    OBVIOUS
<1>. QED
    BY <1>1, <1>2, <1>3 DEF Loop

\* It holds after a character that matches.
LEMMA LoopLiteral ==
    ASSUME NEW pat \in Text, NEW nam \in Text, NEW a, NEW b, NEW s, NEW m, Loop(pat, nam, a, b, s, m),
           a < Len(pat), b < Len(nam), pat[a + 1] \in {"?", nam[b + 1]}, nam[b + 1] # "*"
    PROVE  Loop(pat, nam, a + 1, b + 1, s, m)
<1>1. Len(pat) \in Nat /\ Len(nam) \in Nat
    BY DEF Text
<1>2. /\ a \in 0..(Len(pat) - 1) /\ b \in 0..(Len(nam) - 1) /\ s \in -1..(a - 1) /\ m \in 0..b
      /\ From(pat, nam, 0, 0) <=> From(pat, nam, a, b) \/ LaterStar(pat, nam, s, m)
      /\ s >= 0 => b - m = a - s - 1 /\ \A q \in (s + 2)..a : pat[q] # "*"
    BY <1>1 DEF Loop
<1>3. pat[a + 1] # "*"
    OBVIOUS
<1>4. From(pat, nam, a, b) <=> From(pat, nam, a + 1, b + 1)
    BY <1>2, <1>3, FromLiteral
<1>5. s >= 0 => (b + 1) - m = (a + 1) - s - 1 /\ \A q \in (s + 2)..(a + 1) : pat[q] # "*"
  <2>1. \A q \in (s + 2)..(a + 1) : q \in (s + 2)..a \/ q = a + 1
      BY <1>2
  <2>. QED
      BY <1>2, <1>3, <2>1
<1>6. a + 1 \in 0..Len(pat) /\ b + 1 \in 0..Len(nam) /\ s \in -1..((a + 1) - 1) /\ m \in 0..(b + 1)
    BY <1>1, <1>2
<1>. QED
    BY <1>2, <1>4, <1>5, <1>6 DEF Loop

\* What the last star can be made longer for, the next star does as well.
LEMMA LastStarWins ==
    ASSUME NEW pat \in Text, NEW nam \in Text, NEW a, NEW b, NEW s, NEW m, Loop(pat, nam, a, b, s, m),
           a < Len(pat), pat[a + 1] = "*", LaterStar(pat, nam, s, m)
    PROVE  From(pat, nam, a, b)
<1>1. Len(pat) \in Nat /\ Len(nam) \in Nat
    BY DEF Text
<1>2. /\ a \in 0..(Len(pat) - 1) /\ b \in 0..Len(nam) /\ s \in 0..(a - 1) /\ m \in 0..b
      /\ b - m = a - s - 1 /\ \A q \in (s + 2)..a : pat[q] # "*"
    BY <1>1 DEF Loop, LaterStar
<1>3. PICK c \in (m + 1)..Len(nam) : From(pat, nam, s + 1, c)
    BY DEF LaterStar
<1>4. PICK d \in 0..Len(pat) : d = s + 1
    BY <1>1, <1>2
<1>5. PICK u : Laid(pat, nam, u, d, c)
    BY <1>3, <1>4 DEF From
<1>6. c \in 0..Len(nam) /\ a \in d..Len(pat) /\ a + 1 \in d..Len(pat) /\ \A q \in (d + 1)..a : pat[q] # "*"
    BY <1>1, <1>2, <1>4
<1>7. u[a] = c + (a - d)
    BY <1>5, <1>6, LaidStraight
<1>8. u[a] \in 0..Len(nam) /\ u[a + 1] \in 0..Len(nam)
    BY <1>5, <1>6 DEF Laid
<1>9. (a + 1) - 1 = a /\ a + 1 \in (d + 1)..Len(pat)
    BY <1>1, <1>2, <1>6
<1>10. u[a] <= u[a + 1]
  <2>1. Fits(pat, nam, a + 1, u[(a + 1) - 1], u[a + 1])
      BY <1>5, <1>9 DEF Laid
  <2>. QED
      BY <1>9, <2>1 DEF Fits
<1>11. u[a] >= b
    BY <1>1, <1>2, <1>4, <1>7
<1>12. u[a + 1] \in b..Len(nam)
    BY <1>1, <1>2, <1>8, <1>10, <1>11
<1>13. From(pat, nam, a + 1, u[a + 1])
  <2>. DEFINE v == [q \in (a + 1)..Len(pat) |-> u[q]]
  <2>1. /\ \A q \in d..Len(pat) : u[q] \in 0..Len(nam)
        /\ u[Len(pat)] = Len(nam) /\ \A q \in (d + 1)..Len(pat) : Fits(pat, nam, q, u[q - 1], u[q])
      BY <1>5 DEF Laid
  <2>2. \A q \in (a + 1)..Len(pat) : q \in d..Len(pat) /\ q \in (d + 1)..Len(pat)
      BY <1>1, <1>2, <1>6
  <2>3. v \in [(a + 1)..Len(pat) -> 0..Len(nam)] /\ v[a + 1] = u[a + 1] /\ v[Len(pat)] = Len(nam)
      BY <1>1, <1>2, <2>1, <2>2
  <2>4. ASSUME NEW q \in ((a + 1) + 1)..Len(pat) PROVE Fits(pat, nam, q, v[q - 1], v[q])
    <3>1. q \in (a + 1)..Len(pat) /\ q - 1 \in (a + 1)..Len(pat)
        BY <1>1, <1>2
    <3>2. v[q] = u[q] /\ v[q - 1] = u[q - 1]
        BY <3>1
    <3>. QED
        BY <2>1, <2>2, <3>1, <3>2
  <2>. HIDE DEF v
  <2>. QED
      BY <2>3, <2>4 DEF Laid, From
<1>. QED
    BY <1>2, <1>12, <1>13, FromStar

\* It holds after a star.
LEMMA LoopStar ==
    ASSUME NEW pat \in Text, NEW nam \in Text, NEW a, NEW b, NEW s, NEW m, Loop(pat, nam, a, b, s, m),
           a < Len(pat), pat[a + 1] = "*"
    PROVE  Loop(pat, nam, a + 1, b, a, b)
<1>1. Len(pat) \in Nat /\ Len(nam) \in Nat
    BY DEF Text
<1>2. /\ a \in 0..(Len(pat) - 1) /\ b \in 0..Len(nam)
      /\ From(pat, nam, 0, 0) <=> From(pat, nam, a, b) \/ LaterStar(pat, nam, s, m)
    BY <1>1 DEF Loop
<1>3. From(pat, nam, 0, 0) <=> From(pat, nam, a, b)
    BY <1>2, LastStarWins
<1>4. From(pat, nam, a, b) <=> \E c \in b..Len(nam) : From(pat, nam, a + 1, c)
    BY <1>2, FromStar
<1>5. \A c \in b..Len(nam) : c = b \/ c \in (b + 1)..Len(nam)
    BY <1>2
<1>6. \A c \in (b + 1)..Len(nam) : c \in b..Len(nam)
    BY <1>2
<1>7. b \in b..Len(nam)
    BY <1>1, <1>2
<1>8. From(pat, nam, a, b) <=> From(pat, nam, a + 1, b) \/ LaterStar(pat, nam, a, b)
    BY <1>2, <1>4, <1>5, <1>6, <1>7 DEF LaterStar
<1>9. b - b = (a + 1) - a - 1 /\ \A q \in (a + 2)..(a + 1) : pat[q] # "*"
    BY <1>2
<1>10. a + 1 \in 0..Len(pat) /\ a \in -1..((a + 1) - 1) /\ b \in 0..b
    BY <1>1, <1>2
<1>. QED
    BY <1>2, <1>3, <1>8, <1>9, <1>10 DEF Loop

\* Where the next character is neither laid nor a star.
LEMMA LoopStuck ==
    ASSUME NEW pat \in Text, NEW nam \in Text, NEW a, NEW b, NEW s, NEW m, Loop(pat, nam, a, b, s, m), b < Len(nam),
           ~(a < Len(pat) /\ pat[a + 1] \in {"?", nam[b + 1]}), ~(a < Len(pat) /\ pat[a + 1] = "*")
    PROVE  From(pat, nam, 0, 0) <=> LaterStar(pat, nam, s, m)
<1>1. Len(pat) \in Nat /\ Len(nam) \in Nat
    BY DEF Text
<1>2. /\ a \in 0..Len(pat) /\ b \in 0..(Len(nam) - 1) /\ b \in 0..Len(nam)
      /\ From(pat, nam, 0, 0) <=> From(pat, nam, a, b) \/ LaterStar(pat, nam, s, m)
    BY <1>1 DEF Loop
<1>3. ~From(pat, nam, a, b)
  <2>1. CASE a = Len(pat)
    <3>1. From(pat, nam, Len(pat), b) <=> b = Len(nam)
        BY <1>2, FromEnd
    <3>. QED
        BY <1>1, <1>2, <2>1, <3>1
  <2>2. CASE a # Len(pat)
    <3>1. a \in 0..(Len(pat) - 1) /\ a < Len(pat)
        BY <1>1, <1>2, <2>2
    <3>. QED
        BY <1>2, <3>1, FromLiteral
  <2>. QED
      BY <2>1, <2>2
<1>. QED
    BY <1>2, <1>3

\* It holds after going back to the last star.
LEMMA LoopBacktrack ==
    ASSUME NEW pat \in Text, NEW nam \in Text, NEW a, NEW b, NEW s, NEW m, Loop(pat, nam, a, b, s, m), b < Len(nam),
           ~(a < Len(pat) /\ pat[a + 1] \in {"?", nam[b + 1]}), ~(a < Len(pat) /\ pat[a + 1] = "*"), s >= 0
    PROVE  Loop(pat, nam, s + 1, m + 1, s, m + 1)
<1>1. Len(pat) \in Nat /\ Len(nam) \in Nat
    BY DEF Text
<1>2. a \in 0..Len(pat) /\ b \in 0..Len(nam) /\ s \in 0..(a - 1) /\ m \in 0..b
    BY <1>1 DEF Loop
<1>3. From(pat, nam, 0, 0) <=> \E c \in (m + 1)..Len(nam) : From(pat, nam, s + 1, c)
    BY LoopStuck DEF LaterStar
<1>4. m + 1 \in (m + 1)..Len(nam)
    BY <1>1, <1>2
<1>5. \A c \in (m + 1)..Len(nam) : c = m + 1 \/ c \in ((m + 1) + 1)..Len(nam)
    BY <1>2
<1>6. \A c \in ((m + 1) + 1)..Len(nam) : c \in (m + 1)..Len(nam)
    BY <1>2
<1>7. From(pat, nam, 0, 0) <=> From(pat, nam, s + 1, m + 1) \/ LaterStar(pat, nam, s, m + 1)
    BY <1>3, <1>4, <1>5, <1>6 DEF LaterStar
<1>8. (m + 1) - (m + 1) = (s + 1) - s - 1 /\ \A q \in (s + 2)..(s + 1) : pat[q] # "*"
    BY <1>2
<1>9. s + 1 \in 0..Len(pat) /\ m + 1 \in 0..Len(nam) /\ s \in -1..((s + 1) - 1) /\ m + 1 \in 0..(m + 1)
    BY <1>1, <1>2
<1>. QED
    BY <1>7, <1>8, <1>9 DEF Loop

\* At the end of the name the rest of the pattern decides: the star before
\* cannot be made longer for it.
LEMMA LoopEnds ==
    ASSUME NEW pat \in Text, NEW nam \in Text, NEW a, NEW s, NEW m, Loop(pat, nam, a, Len(nam), s, m)
    PROVE  From(pat, nam, 0, 0) <=> \A q \in (a + 1)..Len(pat) : pat[q] = "*"
<1>1. PICK N \in Nat : N = Len(nam)
    BY DEF Text
<1>2. /\ a \in 0..Len(pat) /\ s \in -1..(a - 1) /\ m \in 0..N /\ Len(pat) \in Nat
      /\ From(pat, nam, 0, 0) <=> From(pat, nam, a, N) \/ LaterStar(pat, nam, s, m)
      /\ s >= 0 => N - m = a - s - 1 /\ \A q \in (s + 2)..a : pat[q] # "*"
    BY <1>1 DEF Loop, Text
<1>3. From(pat, nam, a, N) <=> \A q \in (a + 1)..Len(pat) : pat[q] = "*"
    BY <1>1, <1>2, FromNameEnd
<1>4. ~LaterStar(pat, nam, s, m)
  <2>1. SUFFICES ASSUME s >= 0, NEW c \in (m + 1)..N, From(pat, nam, s + 1, c) PROVE FALSE
      BY <1>1 DEF LaterStar
  <2>2. PICK d \in 0..Len(pat) : d = s + 1
      BY <1>2, <2>1
  <2>3. PICK u : Laid(pat, nam, u, d, c)
      BY <2>1, <2>2 DEF From
  <2>4. c \in 0..Len(nam) /\ a \in d..Len(pat) /\ \A q \in (d + 1)..a : pat[q] # "*"
      BY <1>1, <1>2, <2>1, <2>2
  <2>5. u[a] = c + (a - d)
      BY <2>3, <2>4, LaidStraight
  <2>6. u[a] \in 0..N
      BY <1>1, <2>3, <2>4 DEF Laid
  <2>. QED
      BY <1>2, <2>1, <2>2, <2>5, <2>6
<1>. QED
    BY <1>2, <1>3, <1>4

\* A wildcard matches a name if its fold can be laid on that of the name.
LEMMA WildcardIsFrom ==
    ASSUME NEW spec \in Text, NEW n \in Text
    PROVE  Wildcard(spec, n) <=> From(Fold(spec), Fold(n), 0, 0)
<1>. DEFINE used(to, q) == IF q = 0 THEN 0 ELSE to[q]
            Right(to) == /\ used(to, Len(spec)) = Len(n)
                         /\ \A q \in 1..Len(spec) :
                                 IF spec[q] = "*" THEN used(to, q - 1) <= used(to, q)
                                 ELSE /\ used(to, q) = used(to, q - 1) + 1
                                      /\ spec[q] = "?" \/ Upper[spec[q]] = Upper[n[used(to, q)]]
<1>1. Wildcard(spec, n) <=> \E to \in [1..Len(spec) -> 0..Len(n)] : Right(to)
  <2>1. DOMAIN spec = 1..Len(spec)
      BY FoldFacts
  <2>. QED
      BY <2>1, ZenonT(60) DEF Wildcard
<1>2. PICK pat \in Text : pat = Fold(spec)
    BY FoldFacts
<1>3. PICK nam \in Text : nam = Fold(n)
    BY FoldFacts
<1>4. /\ Len(pat) = Len(spec) /\ Len(nam) = Len(n) /\ Len(spec) \in Nat /\ Len(n) \in Nat
      /\ \A q \in 1..Len(spec) : (pat[q] = "*" <=> spec[q] = "*") /\ (pat[q] = "?" <=> spec[q] = "?") /\ pat[q] = Upper[spec[q]]
      /\ \A q \in 1..Len(n) : nam[q] = Upper[n[q]]
    BY <1>2, <1>3, FoldFacts
<1>5. ASSUME NEW to \in [1..Len(spec) -> 0..Len(n)], Right(to) PROVE From(pat, nam, 0, 0)
  <2>. DEFINE u == [q \in 0..Len(spec) |-> used(to, q)]
  <2>1. u \in [0..Len(spec) -> 0..Len(n)] /\ \A q \in 0..Len(spec) : u[q] = used(to, q)
      BY <1>4
  <2>2. u[0] = 0 /\ u[Len(spec)] = Len(n)
      BY <1>4, <1>5, <2>1
  <2>3. ASSUME NEW q \in 1..Len(spec) PROVE Fits(pat, nam, q, u[q - 1], u[q])
    <3>1. q - 1 \in 0..Len(spec) /\ q \in 0..Len(spec)
        BY <1>4
    <3>2. u[q - 1] \in 0..Len(n) /\ u[q] \in 0..Len(n) /\ u[q - 1] = used(to, q - 1) /\ u[q] = used(to, q)
        BY <2>1, <3>1
    <3>3. IF spec[q] = "*" THEN u[q - 1] <= u[q]
          ELSE u[q] = u[q - 1] + 1 /\ (spec[q] = "?" \/ Upper[spec[q]] = Upper[n[u[q]]])
        BY <1>5, <3>2
    <3>. HIDE DEF u
    <3>4. CASE spec[q] = "*"
        BY <1>4, <3>3, <3>4 DEF Fits
    <3>5. CASE spec[q] # "*"
      <4>1. u[q] \in 1..Len(n)
          BY <1>4, <3>2, <3>3, <3>5
      <4>2. nam[u[q]] = Upper[n[u[q]]] /\ pat[q] = Upper[spec[q]] /\ pat[q] # "*" /\ (pat[q] = "?" <=> spec[q] = "?")
          BY <1>4, <3>5, <4>1
      <4>. QED
          BY <3>3, <3>5, <4>2 DEF Fits
    <3>. QED
        BY <3>4, <3>5
  <2>. HIDE DEF u
  <2>4. Laid(pat, nam, u, 0, 0)
      BY <1>4, <2>1, <2>2, <2>3 DEF Laid
  <2>. QED
      BY <2>4 DEF From
<1>6. ASSUME NEW u, Laid(pat, nam, u, 0, 0) PROVE \E to \in [1..Len(spec) -> 0..Len(n)] : Right(to)
  <2>. DEFINE to == [q \in 1..Len(spec) |-> u[q]]
  <2>1. /\ u \in [0..Len(spec) -> 0..Len(n)] /\ u[0] = 0 /\ u[Len(spec)] = Len(n)
        /\ \A q \in 1..Len(spec) : Fits(pat, nam, q, u[q - 1], u[q])
      BY <1>4, <1>6 DEF Laid
  <2>2. to \in [1..Len(spec) -> 0..Len(n)]
      BY <1>4, <2>1
  <2>3. \A q \in 0..Len(spec) : used(to, q) = u[q]
      BY <1>4, <2>1
  <2>. HIDE DEF to
  <2>4. used(to, Len(spec)) = Len(n)
      BY <1>4, <2>1, <2>3
  <2>5. ASSUME NEW q \in 1..Len(spec)
        PROVE  IF spec[q] = "*" THEN used(to, q - 1) <= used(to, q)
               ELSE /\ used(to, q) = used(to, q - 1) + 1
                    /\ spec[q] = "?" \/ Upper[spec[q]] = Upper[n[used(to, q)]]
    <3>1. q - 1 \in 0..Len(spec) /\ q \in 0..Len(spec)
        BY <1>4
    <3>2. used(to, q - 1) = u[q - 1] /\ used(to, q) = u[q] /\ u[q - 1] \in 0..Len(n) /\ u[q] \in 0..Len(n)
        BY <2>1, <2>3, <3>1
    <3>3. Fits(pat, nam, q, u[q - 1], u[q])
        BY <2>1
    <3>4. CASE spec[q] = "*"
        BY <1>4, <3>2, <3>3, <3>4 DEF Fits
    <3>5. CASE spec[q] # "*"
      <4>1. u[q] = u[q - 1] + 1 /\ (pat[q] = "?" \/ pat[q] = nam[u[q]])
          BY <1>4, <3>3, <3>5 DEF Fits
      <4>2. u[q] \in 1..Len(n)
          BY <1>4, <3>2, <4>1
      <4>3. spec[q] = "?" \/ Upper[spec[q]] = Upper[n[u[q]]]
          BY <1>4, <4>1, <4>2
      <4>. QED
          BY <3>2, <3>5, <4>1, <4>3
    <3>. QED
        BY <3>4, <3>5
  <2>6. Right(to)
      BY <2>4, <2>5
  <2>. QED
      BY <2>2, <2>6
<1>. QED
    BY <1>1, <1>2, <1>3, <1>5, <1>6 DEF From

-----------------------------------------------------------------------------
(* Normalised paths. *)

\* normWinPath takes a prefix of its argument, without the separators at the end.
LEMMA NormWinPathIs ==
    ASSUME NEW t \in Text, NEW q \in Text, q = Backslashed(t)
    PROVE  \E n \in 0..Len(q) :
              /\ normWinPath(t) = Pre(q, n)
              /\ n > 1 => q[n] # Sep \/ (n = 2 /\ q[1] \in Drives)
              /\ \A m \in (n + 1)..Len(q) : m > 1 /\ q[m] = Sep /\ ~(m = 2 /\ q[1] \in Drives)
<1>. DEFINE trimmed(n) == n > 1 /\ q[n] = Sep /\ ~(n = 2 /\ q[1] \in Drives)
            T == {n \in 0..Len(q) : n > 0 => ~trimmed(n)}
<1>1. Len(q) \in Nat
    BY DEF Text
<1>2. PICK n \in T : n \in 0..Len(q) /\ \A m \in T : n >= m
  <2>1. 0 \in T
      BY <1>1
  <2>2. Bounded(T, Len(q))
      BY DEF Bounded
  <2>3. T # {}
      BY <2>1
  <2>. HIDE DEF T
  <2>. QED
      BY <1>1, <2>2, <2>3, Greatest
<1>3. (n > 0 => ~trimmed(n)) /\ \A m \in (n + 1)..Len(q) : trimmed(m)
  <2>1. ASSUME NEW m \in (n + 1)..Len(q), ~trimmed(m) PROVE FALSE
    <3>1. m \in 0..Len(q) /\ m > n
        BY <1>1
    <3>2. m \in T
        BY <2>1, <3>1
    <3>. QED
        BY <1>2, <3>1, <3>2
  <2>. QED
      BY <2>1
<1>. DEFINE c == CHOOSE o \in 0..Len(q) : (o > 0 => ~trimmed(o)) /\ \A m \in (o + 1)..Len(q) : trimmed(m)
<1>4. c \in 0..Len(q) /\ (c > 0 => ~trimmed(c)) /\ \A m \in (c + 1)..Len(q) : trimmed(m)
  <2>. HIDE DEF trimmed
  <2>. QED
      BY <1>2, <1>3
<1>5. normWinPath(t) = Pre(q, c)
    BY DEF normWinPath, Pre
<1>. HIDE DEF c
<1>6. c > 1 => q[c] # Sep \/ (c = 2 /\ q[1] \in Drives)
    BY <1>4
<1>. QED
    BY <1>4, <1>5, <1>6

\* A normalised path that is tidy.
Normal(t) ==
    /\ t \in Text /\ Len(t) >= 1 /\ t[1] # Sep
    /\ \A m \in 1..Len(t) : t[m] \in Separators => t[m] = Sep
    /\ \A m \in 2..Len(t) : t[m - 1] # Sep \/ t[m] # Sep
    /\ t[Len(t)] = Sep => Len(t) = 2 /\ t[1] \in Drives
    /\ Len(t) = 1 => t[1] \notin Drives

\* It is one up to the case of its letters.
LEMMA NormalFold ==
    ASSUME NEW t, Normal(t)
    PROVE  Normal(Fold(t))
<1>1. t \in Text /\ Len(t) >= 1 /\ Len(t) \in Nat
    BY DEF Normal, Text
<1>2. PICK f \in Text : f = Fold(t)
    BY <1>1, FoldFacts
<1>3. Len(f) = Len(t) /\ \A m \in 1..Len(t) : f[m] = Upper[t[m]] /\ t[m] \in Character /\ (f[m] = Sep <=> t[m] = Sep)
    BY <1>1, <1>2, FoldFacts
<1>4. \A c \in Character : (Upper[c] \in Separators <=> c \in Separators) /\ (Upper[c] \in Drives <=> c \in Drives)
    BY UpperAssumption DEF Separators
<1>5. 1 \in 1..Len(t) /\ Len(t) \in 1..Len(t) /\ \A m \in 2..Len(t) : m \in 1..Len(t) /\ m - 1 \in 1..Len(t)
    BY <1>1
<1>6. f[1] # Sep /\ (f[Len(t)] = Sep => Len(t) = 2 /\ f[1] \in Drives) /\ (Len(t) = 1 => f[1] \notin Drives)
    BY <1>3, <1>4, <1>5 DEF Normal
<1>7. \A m \in 1..Len(t) : f[m] \in Separators => f[m] = Sep
    BY <1>3, <1>4 DEF Normal
<1>8. \A m \in 2..Len(t) : f[m - 1] # Sep \/ f[m] # Sep
    BY <1>3, <1>5 DEF Normal
<1>9. Normal(f)
    BY <1>1, <1>3, <1>6, <1>7, <1>8 DEF Normal
<1>. QED
    BY <1>2, <1>9

\* With a separator after it, it is its segments with a separator after each.
LEMMA NormalClosed ==
    ASSUME NEW t, Normal(t)
    PROVE  /\ WithSep(t) \in Text /\ Closed(WithSep(t)) /\ Segments(WithSep(t)) = Segments(t)
           /\ WithSep(t) = IF t[Len(t)] = Sep THEN t ELSE Append(t, Sep)
<1>1. t \in Text /\ t \in Seq(Character) /\ Len(t) >= 1 /\ Len(t) \in Nat /\ t # <<>> /\ Last(t) = t[Len(t)]
    BY DEF Normal, Text, Last
<1>2. WithSep(t) = IF t[Len(t)] = Sep THEN t ELSE Append(t, Sep)
    BY <1>1 DEF WithSep
<1>3. CASE t[Len(t)] = Sep
    BY <1>1, <1>2, <1>3 DEF Normal, Closed
<1>4. CASE t[Len(t)] # Sep
  <2>1. PICK L \in Nat : L = Len(t)
      BY <1>1
  <2>2. PICK a : a = Append(t, Sep)
      OBVIOUS
  <2>3. a \in Text /\ Segments(a) = Segments(t)
      BY <1>1, <2>2, Characters0, SegmentsStep
  <2>4. Len(a) = L + 1 /\ a[L + 1] = Sep /\ \A m \in 1..L : a[m] = t[m]
      BY <1>1, <2>1, <2>2, Characters0, AppendFacts
  <2>5. ASSUME NEW m \in 1..(L + 1), a[m] \in Separators PROVE a[m] = Sep
    <3>1. m \in 1..L \/ m = L + 1
        BY <2>1
    <3>2. CASE m \in 1..L
        BY <2>1, <2>4, <2>5, <3>2 DEF Normal
    <3>. QED
        BY <2>4, <3>1, <3>2
  <2>6. ASSUME NEW m \in 2..(L + 1) PROVE a[m - 1] # Sep \/ a[m] # Sep
    <3>1. m \in 2..L \/ m = L + 1
        BY <2>1
    <3>2. CASE m \in 2..L
      <4>1. m \in 1..L /\ m - 1 \in 1..L
          BY <2>1, <3>2
      <4>. QED
          BY <2>1, <2>4, <3>2, <4>1 DEF Normal
    <3>3. CASE m = L + 1
      <4>1. m - 1 = L /\ L \in 1..L
          BY <1>1, <2>1, <3>3
      <4>. QED
          BY <1>4, <2>1, <2>4, <4>1
    <3>. QED
        BY <3>1, <3>2, <3>3
  <2>7. a[1] # Sep
    <3>1. 1 \in 1..L
        BY <1>1, <2>1
    <3>. QED
        BY <2>4, <3>1 DEF Normal
  <2>8. Closed(a)
      BY <2>4, <2>5, <2>6, <2>7 DEF Closed
  <2>. QED
      BY <1>2, <1>4, <2>2, <2>3, <2>8
<1>. QED
    BY <1>3, <1>4

\* So of normalised paths one may compare the segments.
LEMMA NormalMeans ==
    ASSUME NEW s, Normal(s), NEW d, Normal(d)
    PROVE  /\ s = d <=> Segments(s) = Segments(d)
           /\ s = d \/ IsPrefix(WithSep(s), d) <=> IsPrefix(Segments(s), Segments(d))
<1>1. PICK S \in Text : S = WithSep(s) /\ Closed(S) /\ Segments(S) = Segments(s) /\ S = IF s[Len(s)] = Sep THEN s ELSE Append(s, Sep)
    BY NormalClosed
<1>2. PICK D \in Text : D = WithSep(d) /\ Closed(D) /\ Segments(D) = Segments(d) /\ D = IF d[Len(d)] = Sep THEN d ELSE Append(d, Sep)
    BY NormalClosed
<1>3. s \in Seq(Character) /\ d \in Seq(Character) /\ S \in Seq(Character) /\ D \in Seq(Character) /\ Sep \in Character
    BY Characters0 DEF Normal, Text
<1>4. IsPrefix(S, D) <=> IsPrefix(Segments(s), Segments(d))
    BY <1>1, <1>2, ClosedMeans
<1>5. S = D <=> Segments(s) = Segments(d)
    BY <1>1, <1>2, ClosedMeans
<1>6. ASSUME NEW x, Normal(x), NEW y, Normal(y), x[Len(x)] = Sep, y[Len(y)] # Sep, Append(y, Sep) = x
      PROVE  FALSE
  <2>1. Len(x) = 2 /\ x[1] \in Drives
      BY <1>6 DEF Normal
  <2>2. PICK N \in Nat : N = Len(y) /\ y \in Seq(Character) /\ N >= 1
      BY <1>6 DEF Normal, Text
  <2>3. N + 1 = 2 /\ x[1] = y[1]
    <3>1. /\ Len(Append(y, Sep)) = Len(y) + 1
          /\ \A m \in 1..Len(y) : Append(y, Sep)[m] = y[m]
        BY <1>3, <2>2, AppendFacts
    <3>2. Len(x) = N + 1 /\ \A m \in 1..N : x[m] = y[m]
        BY <1>6, <2>2, <3>1, Zenon
    <3>3. 1 \in 1..N
        BY <2>2
    <3>. QED
        BY <2>1, <3>2, <3>3, Zenon
  <2>4. N = 1 => y[1] \notin Drives
      BY <1>6, <2>2 DEF Normal
  <2>5. N = 1
      BY <2>2, <2>3
  <2>. QED
      BY <2>1, <2>3, <2>4, <2>5, Zenon
<1>7. S = D => s = d
  <2>1. CASE s[Len(s)] = Sep /\ d[Len(d)] = Sep
      BY <1>1, <1>2, <2>1
  <2>2. CASE s[Len(s)] = Sep /\ d[Len(d)] # Sep
      BY <1>1, <1>2, <1>6, <2>2
  <2>3. CASE s[Len(s)] # Sep /\ d[Len(d)] = Sep
      BY <1>1, <1>2, <1>6, <2>3
  <2>4. CASE s[Len(s)] # Sep /\ d[Len(d)] # Sep
    <3>1. SUFFICES ASSUME S = D PROVE s = d
        OBVIOUS
    <3>2. Append(s, Sep) = Append(d, Sep)
        BY <1>1, <1>2, <2>4, <3>1
    <3>3. Front(Append(s, Sep)) = s /\ Front(Append(d, Sep)) = d
        BY <1>3, AppendFacts
    <3>. QED
        BY <3>2, <3>3
  <2>. QED
      BY <2>1, <2>2, <2>3, <2>4
<1>8. s = d <=> Segments(s) = Segments(d)
    BY <1>5, <1>7
<1>9. IsPrefix(S, d) => IsPrefix(S, D)
  <2>1. CASE D = d
      BY <2>1
  <2>2. CASE D = Append(d, Sep)
    <3>1. Len(D) = Len(d) + 1 /\ Len(d) \in Nat /\ Len(S) \in Nat /\ \A m \in 1..Len(d) : D[m] = d[m]
        BY <1>3, <2>2, AppendFacts
    <3>2. SUFFICES ASSUME IsPrefix(S, d) PROVE IsPrefix(S, D)
        OBVIOUS
    <3>3. Len(S) <= Len(d) /\ AgreeUpTo(S, d, Len(S))
        BY <1>3, <3>2, PrefixIs
    <3>4. Len(S) <= Len(D) /\ AgreeUpTo(S, D, Len(S))
        BY <3>1, <3>3 DEF AgreeUpTo
    <3>. QED
        BY <1>3, <3>4, PrefixIs
  <2>. QED
      BY <1>2, <2>1, <2>2
<1>10. IsPrefix(S, D) => s = d \/ IsPrefix(S, d)
  <2>1. CASE D = d
      BY <2>1
  <2>2. CASE D = Append(d, Sep)
    <3>1. Len(D) = Len(d) + 1 /\ Len(d) \in Nat /\ Len(S) \in Nat /\ \A m \in 1..Len(d) : D[m] = d[m]
        BY <1>3, <2>2, AppendFacts
    <3>2. SUFFICES ASSUME IsPrefix(S, D) PROVE s = d \/ IsPrefix(S, d)
        OBVIOUS
    <3>3. Len(S) <= Len(D) /\ AgreeUpTo(S, D, Len(S))
        BY <1>3, <3>2, PrefixIs
    <3>4. CASE Len(S) <= Len(d)
      <4>1. AgreeUpTo(S, d, Len(S))
          BY <3>1, <3>3, <3>4 DEF AgreeUpTo
      <4>. QED
          BY <1>3, <3>4, <4>1, PrefixIs
    <3>5. CASE Len(S) > Len(d)
      <4>1. Len(S) = Len(D)
          BY <3>1, <3>3, <3>5
      <4>2. S = D
          BY <1>3, <3>3, <4>1 DEF AgreeUpTo
      <4>. QED
          BY <1>7, <4>2
    <3>. QED
        BY <3>1, <3>4, <3>5
  <2>. QED
      BY <1>2, <2>1, <2>2
<1>11. s = d => IsPrefix(Segments(s), Segments(d))
  <2>1. Segments(s) \in Seq(Segment)
      BY SegmentsType DEF Normal
  <2>2. IsPrefix(Segments(s), Segments(s))
      BY <2>1, PrefixIs DEF AgreeUpTo
  <2>. QED
      BY <2>2
<1>. QED
    BY <1>1, <1>4, <1>8, <1>9, <1>10, <1>11

\* A tidy path that is not a drive without its separator is normalised to what
\* has the same segments.
LEMMA TidyNorm ==
    ASSUME NEW t \in Text, Tidy(t), t \notin {<<d>> : d \in Drives}
    PROVE  Normal(normWinPath(t)) /\ Segments(normWinPath(t)) = Segments(t)
<1>1. PICK N \in Nat : N = Len(t) /\ N >= 1 /\ t \in Seq(Character)
    BY DEF Tidy, Text
<1>2. PICK q \in Text : q = Backslashed(t) /\ Len(q) = N /\ Segments(q) = Segments(t)
    BY <1>1, BackslashedIsText, SegmentsOfBackslashed
<1>3. \A m \in 1..N : q[m] \in Character /\ (q[m] = Sep <=> t[m] \in Separators) /\ (t[m] \notin Separators => q[m] = t[m])
    BY <1>1, <1>2, BackslashedIsText
<1>4. 1 \in 1..N /\ N \in 1..N /\ \A m \in 2..N : m \in 1..N /\ m - 1 \in 1..N
    BY <1>1
<1>5. q[1] # Sep /\ q[1] = t[1] /\ \A m \in 2..N : q[m - 1] # Sep \/ q[m] # Sep
  <2>1. t[1] \notin Separators /\ \A m \in 2..N : t[m - 1] \notin Separators \/ t[m] \notin Separators
      BY <1>1 DEF Tidy
  <2>. QED
      BY <1>3, <1>4, <2>1
<1>6. \A m \in 1..N : q[m] \in Separators => q[m] = Sep
    BY <1>3, Characters0
<1>7. PICK n \in 0..N :
         /\ normWinPath(t) = Pre(q, n)
         /\ n > 1 => q[n] # Sep \/ (n = 2 /\ q[1] \in Drives)
         /\ \A m \in (n + 1)..N : m > 1 /\ q[m] = Sep /\ ~(m = 2 /\ q[1] \in Drives)
    BY <1>2, NormWinPathIs
<1>8. PICK s : s = Pre(q, n)
    OBVIOUS
<1>9. s \in Text /\ Len(s) = n /\ \A m \in 1..n : s[m] = q[m]
    BY <1>2, <1>8, PreFacts DEF Text
<1>10. n >= N - 1 /\ n >= 1
  <2>1. ASSUME n < N - 1 PROVE FALSE
    <3>1. N - 1 \in (n + 1)..N /\ N \in (n + 1)..N /\ N \in 2..N
        BY <1>1, <2>1
    <3>2. q[N - 1] = Sep /\ q[N] = Sep
        BY <1>7, <3>1
    <3>. QED
        BY <1>5, <3>1, <3>2
  <2>2. ASSUME n = 0 PROVE FALSE
    <3>1. 1 \in (n + 1)..N
        BY <1>1, <2>2
    <3>. QED
        BY <1>7, <3>1
  <2>. QED
      BY <1>1, <2>1, <2>2
<1>11. n = 1 => q[1] \notin Drives
  <2>1. SUFFICES ASSUME n = 1, q[1] \in Drives PROVE FALSE
      OBVIOUS
  <2>2. CASE N = 1
    <3>1. t = <<t[1]>>
      <4>1. PICK o : o = <<t[1]>>
          OBVIOUS
      <4>2. t[1] \in Character
          BY <1>1, <1>4
      <4>3. o \in Seq(Character) /\ Len(o) = 1 /\ o[1] = t[1]
          BY <4>1, <4>2
      <4>4. Len(t) = Len(o) /\ \A m \in 1..Len(t) : t[m] = o[m]
          BY <1>1, <2>2, <4>3
      <4>5. t = o
          BY <1>1, <4>3, <4>4
      <4>. QED
          BY <4>1, <4>5
    <3>. QED
        BY <1>5, <2>1, <3>1
  <2>3. CASE N # 1
    <3>1. 2 \in (n + 1)..N
        BY <1>1, <2>1, <2>3
    <3>. QED
        BY <1>7, <2>1, <3>1
  <2>. QED
      BY <2>2, <2>3
<1>12. q[n] = Sep => n = 2 /\ q[1] \in Drives
  <2>1. n > 1 \/ n = 1
      BY <1>1, <1>10
  <2>. QED
      BY <1>5, <1>7, <2>1
<1>13. Normal(s)
  <2>1. n \in 1..n /\ 1 \in 1..n /\ s[n] = q[n] /\ s[1] = q[1]
      BY <1>9, <1>10
  <2>2. \A m \in 1..n : m \in 1..N /\ s[m] = q[m]
      BY <1>1, <1>9
  <2>3. \A m \in 1..n : s[m] \in Separators => s[m] = Sep
      BY <1>6, <2>2
  <2>4. ASSUME NEW m \in 2..n PROVE s[m - 1] # Sep \/ s[m] # Sep
    <3>1. m \in 1..n /\ m - 1 \in 1..n /\ m \in 2..N
        BY <1>1
    <3>. QED
        BY <1>5, <1>9, <3>1
  <2>. QED
      BY <1>5, <1>9, <1>10, <1>11, <1>12, <2>1, <2>3, <2>4 DEF Normal
<1>14. Segments(s) = Segments(t)
  <2>1. CASE n = N
    <3>1. s = q
        BY <1>2, <1>8, <2>1, PreFacts DEF Text
    <3>. QED
        BY <1>2, <3>1
  <2>2. CASE n = N - 1
    <3>1. q[N] = Sep
      <4>1. N \in (n + 1)..N
          BY <1>1, <2>2
      <4>. QED
          BY <1>7, <4>1
    <3>2. Pre(q, n + 1) = Append(Pre(q, n), q[n + 1]) /\ n + 1 = N /\ Pre(q, N) = q
      <4>1. n \in 0..(Len(q) - 1) /\ n + 1 = N
          BY <1>1, <1>2, <2>2
      <4>. QED
          BY <1>2, <4>1, PreFacts DEF Text
    <3>3. q = Append(s, Sep)
        BY <1>8, <3>1, <3>2
    <3>4. Segments(q) = Segments(s)
        BY <1>9, <3>3, Characters0, SegmentsStep
    <3>. QED
        BY <1>2, <3>4
  <2>. QED
      BY <1>1, <1>10, <2>1, <2>2
<1>. QED
    BY <1>7, <1>8, <1>13, <1>14

\* A path that does not end in a separator keeps all of its characters.
LEMMA PlainNorm ==
    ASSUME NEW t \in Text, t # <<>>, Last(t) \notin Separators
    PROVE  normWinPath(t) = Backslashed(t)
<1>1. PICK N \in Nat : N = Len(t) /\ N >= 1 /\ t[N] \notin Separators
    BY DEF Text, Last
<1>2. PICK q \in Text : q = Backslashed(t) /\ Len(q) = N
    BY <1>1, BackslashedIsText
<1>3. q[N] # Sep
  <2>1. N \in 1..Len(t)
      BY <1>1
  <2>. QED
      BY <1>1, <1>2, <2>1, BackslashedIsText, Characters0
<1>4. PICK n \in 0..N :
         /\ normWinPath(t) = Pre(q, n)
         /\ \A m \in (n + 1)..N : m > 1 /\ q[m] = Sep /\ ~(m = 2 /\ q[1] \in Drives)
    BY <1>2, NormWinPathIs
<1>5. n = N
  <2>1. ASSUME n < N PROVE FALSE
    <3>1. N \in (n + 1)..N
        BY <1>1, <2>1
    <3>. QED
        BY <1>3, <1>4, <3>1
  <2>. QED
      BY <1>1, <2>1
<1>6. Pre(q, N) = q
    BY <1>2, PreFacts DEF Text
<1>. QED
    BY <1>2, <1>4, <1>5, <1>6

\* The last separator of a path after which there is none.
LEMMA LastSepIs ==
    ASSUME NEW t \in Text, NEW L \in 1..Len(t), t[L] = Sep, \A m \in (L + 1)..Len(t) : t[m] # Sep
    PROVE  LastSep(t) = L
<1>. DEFINE T == {0} \cup {m \in DOMAIN t : t[m] = Sep}
<1>1. Len(t) \in Nat /\ DOMAIN t = 1..Len(t)
    BY DEF Text
<1>2. L \in T /\ \A m \in T : m \in 0..Len(t) /\ L >= m
  <2>1. ASSUME NEW m \in 1..Len(t), t[m] = Sep PROVE L >= m
    <3>1. m \in (L + 1)..Len(t) \/ L >= m
        BY <1>1
    <3>. QED
        BY <2>1, <3>1
  <2>. QED
      BY <1>1, <2>1
<1>3. LastSep(t) = Max(T)
    BY DEF LastSep
<1>. HIDE DEF T
<1>4. Max(T) = CHOOSE x \in T : \A y \in T : x >= y
    BY DEF Max
<1>5. \A x \in T : (\A y \in T : x >= y) => x = L
    BY <1>1, <1>2
<1>. QED
    BY <1>2, <1>3, <1>4, <1>5

\* What is held against the rules: the directory as it was reached, and the name.
LEMMA EntryPath ==
    ASSUME NEW B \in Text, B # <<>>, Last(B) \in Separators, NEW n \in FileName, NEW f, f = normWinPath(B \o n)
    PROVE  /\ f \in Text /\ LastSep(f) = Len(B) /\ Len(B) \in Nat \ {0} /\ NameOf(f) = n
           /\ Len(f) = Len(B) + Len(n) /\ Len(n) \in Nat \ {0}
           /\ \A m \in 1..Len(B) : f[m] = Backslashed(B)[m]
           /\ \A m \in 1..Len(n) : f[Len(B) + m] = n[m]
<1>1. PICK L \in Nat : L = Len(B) /\ L >= 1 /\ B[L] \in Separators /\ B \in Seq(Character)
    BY DEF Text, Last
<1>2. PICK K \in Nat : K = Len(n) /\ K >= 1 /\ n \in Seq(Character) /\ n \in Text /\ \A m \in 1..K : n[m] \notin Separators
    BY NameFacts DEF Text
<1>3. PICK p \in Text : p = B \o n
  <2>1. B \o n \in Text
      BY <1>1, <1>2, ConcatFacts DEF Text
  <2>. QED
      BY <2>1
<1>4. Len(p) = L + K /\ (\A m \in 1..L : p[m] = B[m]) /\ \A m \in 1..K : p[L + m] = n[m]
    BY <1>1, <1>2, <1>3, ConcatFacts
<1>5. p # <<>> /\ Last(p) \notin Separators
  <2>1. K \in 1..K /\ L + K > 0
      BY <1>1, <1>2
  <2>2. p[L + K] \notin Separators
      BY <1>2, <1>4, <2>1
  <2>. QED
      BY <1>4, <2>1, <2>2 DEF Last
<1>6. f = Backslashed(p)
    BY <1>3, <1>5, PlainNorm
<1>7. PICK b \in Text : b = Backslashed(B)
    BY BackslashedIsText
<1>8. f \in Text /\ Len(f) = L + K
    BY <1>4, <1>6, BackslashedIsText
<1>9. \A m \in 1..L : f[m] = b[m]
  <2>1. \A m \in 1..L : m \in DOMAIN p /\ m \in DOMAIN B
      BY <1>1, <1>2, <1>4 DEF Text
  <2>. QED
      BY <1>4, <1>6, <1>7, <2>1 DEF Backslashed
<1>10. \A m \in 1..K : f[L + m] = n[m] /\ n[m] # Sep
  <2>1. \A m \in 1..K : L + m \in 1..Len(p)
      BY <1>1, <1>2, <1>4
  <2>2. ASSUME NEW m \in 1..K PROVE f[L + m] = n[m]
    <3>1. PICK x \in 1..Len(p) : x = L + m
        BY <2>1
    <3>2. p[x] = n[m] /\ n[m] \notin Separators
        BY <1>2, <1>4, <3>1
    <3>3. f[x] = p[x]
        BY <1>6, <3>1, <3>2, BackslashedIsText
    <3>. QED
        BY <3>1, <3>2, <3>3
  <2>. QED
      BY <1>2, <2>2, Characters0
<1>11. f[L] = Sep
  <2>1. L \in 1..L /\ L \in 1..Len(B)
      BY <1>1
  <2>2. b[L] = Sep
      BY <1>1, <1>7, <2>1, BackslashedIsText
  <2>. QED
      BY <1>9, <2>1, <2>2
<1>12. LastSep(f) = L
  <2>1. L \in 1..Len(f)
      BY <1>1, <1>2, <1>8
  <2>2. ASSUME NEW m \in (L + 1)..Len(f) PROVE f[m] # Sep
    <3>1. PICK o \in 1..K : L + o = m
      <4>1. m - L \in 1..K /\ L + (m - L) = m
          BY <1>1, <1>2, <1>8
      <4>. QED
          BY <4>1
    <3>. QED
        BY <1>10, <3>1
  <2>. QED
      BY <1>8, <1>11, <2>1, <2>2, LastSepIs
<1>13. NameOf(f) = n
  <2>1. NameOf(f) = Rest(f, L)
      BY <1>12 DEF NameOf, Rest
  <2>2. PICK r : r = Rest(f, L)
      OBVIOUS
  <2>3. L \in 0..Len(f) /\ Len(f) - L = K /\ f \in Seq(Character)
      BY <1>1, <1>2, <1>8 DEF Text
  <2>4. r \in Seq(Character) /\ Len(r) = K /\ \A m \in 1..K : r[m] = f[L + m]
      BY <2>2, <2>3, RestFacts
  <2>5. \A m \in 1..K : r[m] = n[m]
      BY <1>10, <2>4
  <2>6. r = n
      BY <1>2, <2>4, <2>5
  <2>. QED
      BY <2>1, <2>2, <2>6
<1>. QED
    BY <1>1, <1>2, <1>7, <1>8, <1>9, <1>10, <1>12, <1>13

\* Of a tidy directory it and the directory are normalised.
LEMMA EntryNormal ==
    ASSUME NEW B \in Text, Tidy(B), Last(B) \in Separators, NEW n \in FileName, NEW f, f = normWinPath(B \o n)
    PROVE  /\ Normal(f) /\ Segments(f) = Append(Segments(B), n)
           /\ Normal(DirOf(f)) /\ Segments(DirOf(f)) = Segments(B)
<1>1. PICK L \in Nat : L = Len(B) /\ L >= 1 /\ B[L] \in Separators /\ B \in Seq(Character) /\ B # <<>>
    BY DEF Text, Last, Tidy
<1>2. PICK K \in Nat : K = Len(n) /\ K >= 1 /\ n \in Text /\ (\A m \in 1..K : n[m] \notin Separators) /\ Segments(n) = <<n>>
    BY NameFacts
<1>3. PICK b \in Text : b = Backslashed(B) /\ Len(b) = L /\ Segments(b) = Segments(B)
    BY <1>1, BackslashedIsText, SegmentsOfBackslashed
<1>4. /\ f \in Text /\ LastSep(f) = L /\ Len(f) = L + K
      /\ \A m \in 1..L : f[m] = b[m]
      /\ \A m \in 1..K : f[L + m] = n[m]
    BY <1>1, <1>2, <1>3, EntryPath
<1>5. \A m \in 1..L : f[m] = Sep <=> B[m] \in Separators
    BY <1>1, <1>3, <1>4, BackslashedIsText
<1>6. /\ f[1] # Sep /\ f[L] = Sep /\ L >= 2
      /\ \A m \in 2..L : f[m - 1] # Sep \/ f[m] # Sep
  <2>1. B[1] \notin Separators /\ \A m \in 2..L : B[m - 1] \notin Separators \/ B[m] \notin Separators
      BY <1>1 DEF Tidy
  <2>2. L \in 1..L /\ 1 \in 1..L /\ \A m \in 2..L : m \in 1..L /\ m - 1 \in 1..L
      BY <1>1
  <2>3. L # 1
      BY <1>1, <2>1
  <2>. QED
      BY <1>1, <1>5, <2>1, <2>2, <2>3
<1>7. \A m \in 1..(L + K) : f[m] \in Separators => f[m] = Sep /\ m <= L
  <2>1. ASSUME NEW m \in 1..(L + K), f[m] \in Separators PROVE f[m] = Sep /\ m <= L
    <3>1. CASE m \in 1..L
      <4>1. f[m] = b[m] /\ b[m] \in Separators
          BY <1>4, <2>1, <3>1
      <4>2. B[m] \in Separators
          BY <1>1, <1>3, <3>1, <4>1, BackslashedIsText, Characters0
      <4>. QED
          BY <1>5, <3>1, <4>2
    <3>2. CASE m \notin 1..L
      <4>1. PICK o \in 1..K : L + o = m
        <5>1. m - L \in 1..K /\ L + (m - L) = m
            BY <1>1, <1>2, <2>1, <3>2
        <5>. QED
            BY <5>1
      <4>. QED
          BY <1>2, <1>4, <2>1, <4>1
    <3>. QED
        BY <3>1, <3>2
  <2>. QED
      BY <2>1
<1>8. \A m \in 2..(L + K) : f[m - 1] # Sep \/ f[m] # Sep
  <2>1. ASSUME NEW m \in 2..(L + K), f[m - 1] = Sep, f[m] = Sep PROVE FALSE
    <3>1. m \in 1..(L + K) /\ m \in Int
        BY <1>1, <1>2
    <3>2. m <= L
        BY <1>7, <2>1, <3>1, Characters0
    <3>3. m \in 2..L
        BY <1>1, <2>1, <3>1, <3>2
    <3>. QED
        BY <1>6, <2>1, <3>3
  <2>. QED
      BY <2>1
<1>9. f[L + K] # Sep
  <2>1. L + K \in 1..(L + K) /\ ~(L + K <= L)
      BY <1>1, <1>2
  <2>. QED
      BY <1>7, <2>1, Characters0
<1>10. Normal(f)
  <2>1. L + K # 1 /\ L + K >= 1
      BY <1>1, <1>2
  <2>. QED
      BY <1>4, <1>6, <1>7, <1>8, <1>9, <2>1 DEF Normal
<1>11. Segments(f) = Append(Segments(B), n)
  <2>1. B \o n \in Text /\ Segments(B \o n) = Segments(B) \o Segments(n)
      BY <1>1, <1>2, SegmentsOfConcat
  <2>2. PICK p \in Text : p = B \o n
      BY <2>1
  <2>3. p # <<>> /\ Last(p) \notin Separators
    <3>1. B \in Seq(Character) /\ n \in Seq(Character) /\ n # <<>>
        BY <1>1, <1>2 DEF Text
    <3>2. Last(p) = Last(n)
        BY <2>2, <3>1, FrontConcat
    <3>3. K \in 1..K /\ Last(n) = n[K]
        BY <1>2 DEF Last
    <3>4. Len(p) = L + K
        BY <1>1, <1>2, <2>2, <3>1, ConcatFacts
    <3>5. p # <<>>
        BY <1>1, <1>2, <3>4
    <3>. QED
        BY <1>2, <3>2, <3>3, <3>5
  <2>4. f = Backslashed(p)
      BY <2>2, <2>3, PlainNorm
  <2>5. Segments(f) = Segments(B) \o <<n>>
      BY <1>2, <2>1, <2>2, <2>4, SegmentsOfBackslashed
  <2>6. PICK S \in Seq(Segment) : S = Segments(B)
      BY SegmentsType
  <2>7. n \in Segment
      BY NameFacts DEF Segment
  <2>8. S \o <<n>> = Append(S, n)
      BY <2>7
  <2>. QED
      BY <2>5, <2>6, <2>8
<1>12. PICK l \in Nat : l + 1 = L /\ l = L - 1 /\ l >= 1
    BY <1>1, <1>6
<1>13. PICK d : d = Pre(f, l)
    OBVIOUS
<1>14. d \in Text /\ Len(d) = l /\ \A m \in 1..l : d[m] = f[m]
  <2>1. f \in Seq(Character) /\ l \in 0..Len(f)
      BY <1>2, <1>4, <1>12 DEF Text
  <2>. QED
      BY <1>13, <2>1, PreFacts DEF Text
<1>15. Append(d, Sep) = Pre(f, L) /\ Pre(f, L) = b
  <2>1. f \in Seq(Character) /\ l \in 0..(Len(f) - 1) /\ L \in 0..Len(f)
      BY <1>2, <1>4, <1>12 DEF Text
  <2>2. Pre(f, l + 1) = Append(Pre(f, l), f[l + 1])
      BY <2>1, PreFacts
  <2>3. PICK p : p = Pre(f, L)
      OBVIOUS
  <2>4. p \in Seq(Character) /\ Len(p) = L /\ \A m \in 1..L : p[m] = f[m]
      BY <2>1, <2>3, PreFacts
  <2>5. p = b
      BY <1>3, <1>4, <2>4 DEF Text
  <2>. QED
      BY <1>6, <1>12, <1>13, <2>2, <2>3, <2>5
<1>16. Segments(d) = Segments(B) /\ Segments(Append(d, Sep)) = Segments(B)
  <2>1. Segments(Append(d, Sep)) = Segments(d)
      BY <1>14, Characters0, SegmentsStep
  <2>. QED
      BY <1>3, <1>15, <2>1
<1>17. /\ d[1] # Sep /\ d[l] # Sep
       /\ \A m \in 1..l : d[m] \in Separators => d[m] = Sep
       /\ \A m \in 2..l : d[m - 1] # Sep \/ d[m] # Sep
  <2>1. 1 \in 1..l /\ l \in 1..l /\ L \in 2..L
      BY <1>12
  <2>2. d[1] # Sep /\ d[l] # Sep
      BY <1>6, <1>12, <1>14, <2>1
  <2>3. \A m \in 1..l : m \in 1..(L + K) /\ (d[m] \in Separators => d[m] = Sep)
      BY <1>2, <1>7, <1>12, <1>14
  <2>4. \A m \in 2..l : m \in 2..L /\ m \in 1..l /\ m - 1 \in 1..l
      BY <1>12
  <2>5. \A m \in 2..l : d[m - 1] # Sep \/ d[m] # Sep
      BY <1>6, <1>14, <2>4
  <2>. QED
      BY <2>2, <2>3, <2>5
<1>18. DirOf(f) = IF l = 1 /\ d[1] \in Drives THEN Append(d, Sep) ELSE d
    BY <1>4, <1>12, <1>13, <1>14, Zenon DEF DirOf, Pre
<1>19. CASE l = 1 /\ d[1] \in Drives
  <2>1. PICK e : e = Append(d, Sep)
      OBVIOUS
  <2>2. e \in Text /\ Len(e) = 2 /\ e[1] = d[1] /\ e[2] = Sep
    <3>1. 1 \in 1..1 /\ d \in Seq(Character) /\ Len(d) = 1 /\ Len(d) + 1 = 2
        BY <1>14, <1>19 DEF Text
    <3>2. e \in Seq(Character) /\ Len(e) = Len(d) + 1 /\ (\A m \in 1..Len(d) : e[m] = d[m]) /\ e[Len(d) + 1] = Sep
      <4>1. d \in Seq(Character) /\ Sep \in Character
          BY <3>1, Characters0
      <4>. QED
          BY <2>1, <4>1, AppendFacts
    <3>. QED
        BY <3>1, <3>2 DEF Text
  <2>3. \A m \in 1..2 : e[m] \in Separators => e[m] = Sep
    <3>1. \A m \in 1..2 : m = 1 \/ m = 2
        OBVIOUS
    <3>2. d[1] \in Separators => d[1] = Sep
        BY <1>12, <1>17
    <3>. QED
        BY <2>2, <3>1, <3>2
  <2>4. \A m \in 2..2 : e[m - 1] # Sep \/ e[m] # Sep
    <3>1. \A m \in 2..2 : m - 1 = 1
        OBVIOUS
    <3>. QED
        BY <1>17, <2>2, <3>1
  <2>5. Normal(e)
      BY <1>17, <1>19, <2>2, <2>3, <2>4 DEF Normal
  <2>. QED
      BY <1>10, <1>11, <1>16, <1>18, <1>19, <2>1, <2>5
<1>20. CASE ~(l = 1 /\ d[1] \in Drives)
  <2>1. Normal(d)
      BY <1>12, <1>14, <1>17, <1>20 DEF Normal
  <2>. QED
      BY <1>10, <1>11, <1>16, <1>18, <1>20, <2>1
<1>. QED
    BY <1>19, <1>20

\* So the tests of the code on the text are tests of the segments.
LEMMA ScopeMeans ==
    ASSUME NEW r \in RuleType, Tidy(r.path), r.path \notin {<<d>> : d \in Drives},
           NEW B \in Text, Tidy(B), Last(B) \in Separators, NEW n \in FileName, NEW f, f = normWinPath(B \o n)
    PROVE  /\ NameOf(f) = n
           /\ InScope(r, f) <=>
                \/ FoldAll(Segments(B)) = FoldAll(Segments(r.path))
                \/ r.recursive /\ IsPrefix(FoldAll(Segments(r.path)), FoldAll(Segments(B)))
           /\ Prunes(r, f) <=>
                /\ r.recursive /\ specMatchesAll(r.spec)
                /\ IsPrefix(FoldAll(Segments(r.path)), FoldAll(Append(Segments(B), n)))
<1>1. r.path \in Text /\ r.recursive \in BOOLEAN
    BY DEF RuleType
<1>2. PICK p \in Text : p = normWinPath(r.path) /\ Normal(p) /\ Segments(p) = Segments(r.path)
    BY <1>1, TidyNorm DEF Normal
<1>3. f \in Text /\ Normal(f) /\ Segments(f) = Append(Segments(B), n)
  <2>1. Normal(f) /\ Segments(f) = Append(Segments(B), n)
      BY EntryNormal
  <2>. QED
      BY <2>1 DEF Normal
<1>4. PICK d \in Text : d = DirOf(f) /\ Normal(d) /\ Segments(d) = Segments(B)
  <2>1. Normal(DirOf(f)) /\ Segments(DirOf(f)) = Segments(B)
      BY EntryNormal
  <2>2. DirOf(f) \in Text
      BY <2>1 DEF Normal
  <2>. QED
      BY <2>1, <2>2
<1>5. B # <<>>
    BY DEF Tidy
<1>6. LastSep(f) = Len(B) /\ Len(B) \in Nat \ {0} /\ NameOf(f) = n /\ n # <<>>
    BY <1>5, EntryPath, NameFacts
<1>7. PICK ru : ru = Fold(p)
    OBVIOUS
<1>8. PICK du : du = Fold(d)
    OBVIOUS
<1>9. PICK fu : fu = Fold(f)
    OBVIOUS
<1>10. Normal(ru) /\ Normal(du) /\ Normal(fu)
    BY <1>2, <1>3, <1>4, <1>7, <1>8, <1>9, NormalFold
<1>11. /\ Segments(ru) = FoldAll(Segments(r.path)) /\ Segments(du) = FoldAll(Segments(B))
       /\ Segments(fu) = FoldAll(Append(Segments(B), n))
    BY <1>2, <1>3, <1>4, <1>7, <1>8, <1>9, SegmentsOfFold
<1>12. ru # <<>> /\ fu # <<>>
  <2>1. \A t : Normal(t) => Len(t) >= 1
      BY DEF Normal
  <2>2. Len(<<>>) = 0
      OBVIOUS
  <2>. QED
      BY <1>10, <2>1, <2>2
<1>13. InScope(r, f) <=> du = ru \/ (r.recursive /\ IsPrefix(WithSep(ru), du))
    BY <1>2, <1>4, <1>6, <1>7, <1>8, <1>12 DEF InScope
<1>14. Prunes(r, f) <=> r.recursive /\ specMatchesAll(r.spec) /\ (fu = ru \/ IsPrefix(WithSep(ru), fu))
    BY <1>2, <1>7, <1>9, <1>12 DEF Prunes
<1>15. /\ ru = du <=> Segments(ru) = Segments(du)
       /\ ru = du \/ IsPrefix(WithSep(ru), du) <=> IsPrefix(Segments(ru), Segments(du))
    BY <1>10, NormalMeans
<1>16. ru = fu \/ IsPrefix(WithSep(ru), fu) <=> IsPrefix(Segments(ru), Segments(fu))
    BY <1>10, NormalMeans
<1>. QED
    BY <1>1, <1>6, <1>11, <1>13, <1>14, <1>15, <1>16

-----------------------------------------------------------------------------
(* Tidy paths. *)

\* A tidy path after another, or after nothing, makes one.
LEMMA TidyConcat ==
    ASSUME NEW p \in Text, NEW q \in Text, Tidy(q), p = <<>> \/ Tidy(p)
    PROVE  Tidy(p \o q) /\ p \o q \in Text
<1>1. PICK L \in Nat : L = Len(p) /\ p \in Seq(Character)
    BY DEF Text
<1>2. PICK K \in Nat : K = Len(q) /\ q \in Seq(Character) /\ K >= 1
    BY DEF Text, Tidy
<1>3. PICK V \in Text : V = p \o q /\ Len(V) = L + K /\ (\A m \in 1..L : V[m] = p[m]) /\ \A m \in 1..K : V[L + m] = q[m]
  <2>1. p \o q \in Text /\ Len(p \o q) = L + K /\ (\A m \in 1..L : (p \o q)[m] = p[m]) /\ \A m \in 1..K : (p \o q)[L + m] = q[m]
      BY <1>1, <1>2, ConcatFacts DEF Text
  <2>. QED
      BY <2>1, Zenon
<1>4. /\ q[1] \notin Separators /\ \A m \in 2..K : q[m - 1] \notin Separators \/ q[m] \notin Separators
      /\ L >= 1 => p[1] \notin Separators
      /\ \A m \in 2..L : p[m - 1] \notin Separators \/ p[m] \notin Separators
    BY <1>1, <1>2 DEF Tidy
<1>5. V[L + 1] \notin Separators
  <2>1. 1 \in 1..K
      BY <1>2
  <2>. QED
      BY <1>3, <1>4, <2>1
<1>6. V[1] \notin Separators
  <2>1. CASE L = 0
      BY <1>5, <2>1
  <2>2. CASE L # 0
    <3>1. 1 \in 1..L /\ L >= 1
        BY <1>1, <2>2
    <3>. QED
        BY <1>3, <1>4, <3>1
  <2>. QED
      BY <2>1, <2>2
<1>7. ASSUME NEW m \in 2..(L + K) PROVE V[m - 1] \notin Separators \/ V[m] \notin Separators
  <2>1. CASE m <= L
    <3>1. m \in 2..L /\ m \in 1..L /\ m - 1 \in 1..L
        BY <1>1, <1>2, <2>1
    <3>. QED
        BY <1>3, <1>4, <3>1
  <2>2. CASE m = L + 1
      BY <1>5, <2>2
  <2>3. CASE m > L + 1
    <3>1. PICK o \in 2..K : L + o = m /\ L + (o - 1) = m - 1
      <4>1. m - L \in 2..K /\ L + (m - L) = m /\ L + ((m - L) - 1) = m - 1
          BY <1>1, <1>2, <2>3
      <4>. QED
          BY <4>1
    <3>2. o \in 1..K /\ o - 1 \in 1..K
        BY <1>2
    <3>3. V[L + o] = q[o] /\ V[L + (o - 1)] = q[o - 1]
        BY <1>3, <3>2
    <3>. QED
        BY <1>4, <3>1, <3>3
  <2>4. m <= L \/ m = L + 1 \/ m > L + 1
      BY <1>1, <1>2
  <2>. QED
      BY <2>1, <2>2, <2>3, <2>4
<1>8. V # <<>>
    BY <1>1, <1>2, <1>3
<1>9. Tidy(V)
    BY <1>3, <1>6, <1>7, <1>8 DEF Tidy
<1>. QED
    BY <1>3, <1>9

\* A separator after a tidy path that has none there.
LEMMA TidyAppend ==
    ASSUME NEW p \in Text, Tidy(p), Last(p) \notin Separators
    PROVE  Tidy(Append(p, Sep)) /\ Append(p, Sep) \in Text /\ Last(Append(p, Sep)) \in Separators
<1>1. PICK L \in Nat : L = Len(p) /\ p \in Seq(Character) /\ L >= 1
    BY DEF Text, Tidy
<1>2. PICK a : a = Append(p, Sep)
    OBVIOUS
<1>3. a \in Text /\ Len(a) = L + 1 /\ a[L + 1] = Sep /\ Last(a) = Sep /\ a # <<>> /\ \A m \in 1..L : a[m] = p[m]
    BY <1>1, <1>2, Characters0, AppendFacts DEF Text
<1>4. /\ p[1] \notin Separators /\ p[L] \notin Separators
      /\ \A m \in 2..L : p[m - 1] \notin Separators \/ p[m] \notin Separators
    BY <1>1 DEF Tidy, Last
<1>5. a[1] \notin Separators
  <2>1. 1 \in 1..L
      BY <1>1
  <2>. QED
      BY <1>3, <1>4, <2>1
<1>6. ASSUME NEW m \in 2..(L + 1) PROVE a[m - 1] \notin Separators \/ a[m] \notin Separators
  <2>1. m - 1 \in 1..L /\ (m \in 2..L \/ m - 1 = L)
      BY <1>1
  <2>2. CASE m \in 2..L
    <3>1. m \in 1..L
        BY <1>1, <2>2
    <3>. QED
        BY <1>3, <1>4, <2>1, <2>2, <3>1
  <2>3. CASE m - 1 = L
      BY <1>3, <1>4, <2>1, <2>3
  <2>. QED
      BY <2>1, <2>2, <2>3
<1>7. Tidy(a)
    BY <1>3, <1>5, <1>6 DEF Tidy
<1>. QED
    BY <1>2, <1>3, <1>7, Characters0

\* The name of an entry is a tidy path.
LEMMA TidyName ==
    ASSUME NEW n \in FileName
    PROVE  Tidy(n) /\ Last(n) \notin Separators
<1>1. n # <<>> /\ Len(n) \in Nat \ {0} /\ \A m \in 1..Len(n) : n[m] \notin Separators
    BY NameFacts
<1>2. 1 \in 1..Len(n) /\ Len(n) \in 1..Len(n) /\ \A m \in 2..Len(n) : m \in 1..Len(n)
    BY <1>1
<1>. QED
    BY <1>1, <1>2 DEF Tidy, Last

\* So is an accepted root without a separator at its end, or it is nothing.
LEMMA TidyRoot ==
    ASSUME NEW t \in Text, t = <<>> \/ Last(t) \notin Separators, NEW v \in validateVolumeRelativePath(t)
    PROVE  v = <<>> \/ (Tidy(v) /\ Last(v) \notin Separators)
<1>1. SUFFICES ASSUME v # <<>> PROVE Tidy(v) /\ Last(v) \notin Separators
    OBVIOUS
<1>2. v \in Text /\ t \notin {<<>>, <<".">>} /\ v = Backslashed(t)
    BY <1>1, ValidatedIs
<1>3. PICK L \in Nat : L = Len(t) /\ L = Len(v) /\ L >= 1 /\ v \in Seq(Character)
  <2>1. Len(t) = Len(v) /\ Len(t) \in Nat
      BY <1>2, BackslashedIsText DEF Text
  <2>. QED
      BY <1>1, <1>2, <2>1 DEF Text
<1>4. \A m \in 1..L : (v[m] = Sep <=> t[m] \in Separators) /\ (v[m] \in Separators => v[m] = Sep)
  <2>1. \A m \in 1..L : (v[m] = Sep <=> t[m] \in Separators) /\ (t[m] \notin Separators => v[m] = t[m])
      BY <1>2, <1>3, BackslashedIsText
  <2>. QED
      BY <2>1
<1>5. Last(v) \notin Separators
  <2>1. L \in 1..L /\ Last(v) = v[L] /\ Last(t) = t[L]
      BY <1>3 DEF Last
  <2>. QED
      BY <1>2, <1>4, <2>1
<1>6. v[1] # Sep /\ SplitAt(v, {Sep}) \cap {<<>>, <<".">>, <<".", ".">>} = {}
  <2>1. Last(v) # Sep
      BY <1>5, Characters0
  <2>. QED
      BY <1>1, <1>2, <2>1 DEF validateVolumeRelativePath
<1>7. ASSUME NEW m \in 2..L, v[m - 1] = Sep, v[m] = Sep PROVE FALSE
  <2>1. PICK a \in 1..L : a = m - 1 /\ a + 1 = m /\ a < m
      BY <1>3
  <2>2. NoCut(v, a, m)
      BY <1>2, <1>3, <2>1 DEF NoCut, Text
  <2>3. m \in 1..(Len(v) + 1) /\ a \in 0..Len(v)
      BY <1>3
  <2>4. SubSeq(v, a + 1, m - 1) \in SplitAt(v, {Sep})
      BY <1>2, <1>7, <2>1, <2>2, <2>3, BetweenCuts
  <2>5. SubSeq(v, m, a) = <<>>
      BY <1>3, <2>1
  <2>. QED
      BY <1>6, <2>1, <2>4, <2>5
<1>8. v[1] \notin Separators /\ \A m \in 2..L : v[m - 1] \notin Separators \/ v[m] \notin Separators
  <2>1. 1 \in 1..L /\ \A m \in 2..L : m \in 1..L /\ m - 1 \in 1..L
      BY <1>3
  <2>. QED
      BY <1>4, <1>6, <1>7, <2>1
<1>. QED
    BY <1>1, <1>3, <1>5, <1>8 DEF Tidy

-----------------------------------------------------------------------------
(* Where the walk is. *)

\* The directory that the entry is in, on the original volume.
DirPath == volRoot \o (IF rel = <<>> THEN <<>> ELSE Append(rel, Sep))

\* The directory that the walk is in ends without a separator.
RelIsTidy == rel = <<>> \/ (Tidy(rel) /\ Last(rel) \notin Separators)

\* The path of the entry is that of its directory and its name.
LEMMA DirPathFacts ==
    ASSUME TypeOK, volRoot # <<>>, Last(volRoot) = Sep
    PROVE  /\ DirPath \in Text /\ DirPath # <<>> /\ Last(DirPath) \in Separators
           /\ volRoot \o Path = DirPath \o case.names[depth] /\ case.names[depth] \in FileName
           /\ Segments(DirPath) = Segments(volRoot) \o Segments(rel)
           /\ Tidy(volRoot) /\ RelIsTidy => Tidy(DirPath)
<1>1. PICK n \in FileName : n = case.names[depth]
  <2>1. case.names \in Seq(FileName) /\ depth \in 1..Len(case.names)
      BY CaseFacts DEF TypeOK
  <2>. QED
      BY <2>1
<1>2. n \in Seq(Character) /\ volRoot \in Seq(Character) /\ volRoot \in Text /\ rel \in Text /\ rel \in Seq(Character) /\ Sep \in Character
    BY NameFacts, Characters0 DEF TypeOK, Text
<1>3. PICK below \in Seq(Character) : below = IF rel = <<>> THEN <<>> ELSE Append(rel, Sep)
  <2>1. (IF rel = <<>> THEN <<>> ELSE Append(rel, Sep)) \in Seq(Character)
      BY <1>2
  <2>. QED
      BY <2>1
<1>4. below \in Text /\ Segments(below) = Segments(rel) /\ (below = <<>> \/ Last(below) \in Separators)
  <2>1. CASE rel = <<>>
      BY <1>3, <2>1 DEF Text
  <2>2. CASE rel # <<>>
    <3>1. Segments(Append(rel, Sep)) = Segments(rel) /\ Last(Append(rel, Sep)) = Sep
        BY <1>2, Characters0, SegmentsStep, AppendFacts
    <3>. QED
        BY <1>3, <2>2, <3>1, Characters0 DEF Text
  <2>. QED
      BY <2>1, <2>2
<1>5. PICK B : B = volRoot \o below
    OBVIOUS
<1>6. B = DirPath
    BY <1>3, <1>5 DEF DirPath
<1>7. B \in Text /\ Segments(B) = Segments(volRoot) \o Segments(rel)
  <2>1. Last(volRoot) \in Separators
      BY Characters0
  <2>2. volRoot \o below \in Text /\ Segments(volRoot \o below) = Segments(volRoot) \o Segments(below)
      BY <1>2, <1>4, <2>1, SegmentsOfConcat
  <2>. QED
      BY <1>4, <1>5, <2>2, Zenon
<1>8. B # <<>> /\ Last(B) \in Separators
  <2>1. CASE below = <<>>
    <3>1. B = volRoot
        BY <1>2, <1>5, <2>1
    <3>. QED
        BY <3>1, Characters0
  <2>2. CASE below # <<>>
    <3>1. Last(B) = Last(below)
        BY <1>2, <1>5, <2>2, FrontConcat
    <3>2. Len(volRoot) \in Nat \ {0} /\ Len(below) \in Nat /\ Len(B) = Len(volRoot) + Len(below)
        BY <1>2, <1>3, <1>5
    <3>3. B # <<>>
        BY <3>2
    <3>. QED
        BY <1>4, <2>2, <3>1, <3>3
  <2>. QED
      BY <2>1, <2>2
<1>9. volRoot \o Path = B \o n
  <2>1. Path = below \o n
      BY <1>1, <1>3 DEF Path
  <2>2. (volRoot \o below) \o n = volRoot \o (below \o n)
    <3>1. volRoot \in Seq(Character) /\ below \in Seq(Character) /\ n \in Seq(Character)
        BY <1>2, <1>3
    <3>. QED
        BY <3>1, GroupedCharacters, Zenon
  <2>. QED
      BY <1>5, <2>1, <2>2, Zenon
<1>10. ASSUME Tidy(volRoot), RelIsTidy PROVE Tidy(B)
  <2>1. CASE rel = <<>>
    <3>1. B = volRoot
        BY <1>2, <1>3, <1>5, <2>1
    <3>. QED
        BY <1>10, <3>1
  <2>2. CASE rel # <<>>
    <3>1. Tidy(below)
        BY <1>2, <1>3, <1>10, <2>2, TidyAppend DEF RelIsTidy
    <3>. QED
        BY <1>2, <1>4, <1>5, <1>10, <3>1, TidyConcat
  <2>. QED
      BY <2>1, <2>2
<1>. QED
    BY <1>1, <1>6, <1>7, <1>8, <1>9, <1>10

\* Going down keeps the path tidy.
LEMMA PathIsTidy ==
    ASSUME TypeOK, RelIsTidy
    PROVE  Tidy(Path) /\ Last(Path) \notin Separators
<1>1. PICK n \in FileName : n = case.names[depth]
  <2>1. case.names \in Seq(FileName) /\ depth \in 1..Len(case.names)
      BY CaseFacts DEF TypeOK
  <2>. QED
      BY <2>1
<1>2. n \in Text /\ n \in Seq(Character) /\ n # <<>> /\ Tidy(n) /\ Last(n) \notin Separators /\ rel \in Text
    BY NameFacts, TidyName DEF TypeOK, Text
<1>3. CASE rel = <<>>
  <2>1. Path = n
      BY <1>1, <1>2, <1>3 DEF Path
  <2>. QED
      BY <1>2, <2>1
<1>4. CASE rel # <<>>
  <2>1. PICK b \in Text : b = Append(rel, Sep) /\ Tidy(b)
      BY <1>2, <1>4, TidyAppend DEF RelIsTidy
  <2>2. Path = b \o n
      BY <1>1, <1>4, <2>1 DEF Path
  <2>3. Tidy(b \o n)
      BY <1>2, <2>1, TidyConcat
  <2>4. Last(b \o n) = Last(n)
    <3>1. b \in Seq(Character)
        BY DEF Text
    <3>. QED
        BY <1>2, <3>1, FrontConcat
  <2>. QED
      BY <1>2, <2>2, <2>3, <2>4
<1>. QED
    BY <1>3, <1>4

-----------------------------------------------------------------------------
(* What the walk and the match have found out. *)

\* What matchExclude makes of a rule.
RuleHits(r) == InScope(r, full) /\ (specMatchesAll(r.spec) \/ Wildcard(r.spec, NameOf(full)))

\* Below a root without a trailing separator the directory stays tidy.
TidyRel ==
    pc \in Walking /\ (case.root = <<>> \/ Last(case.root) \notin Separators) => RelIsTidy

\* The root of the original volume ends with a separator.
RootEnds == volRoot = <<>> \/ Last(volRoot) = Sep

\* The path the rules are held against is the one of the entry on the original
\* volume.
FullIs == pc \in Walking \ {"entry"} => full = normWinPath(volRoot \o Path)

\* No rule before the one that is tried has hit.
Passed ==
    pc \in {"rules", "matchSpec"} =>
        /\ ~Descends /\ Matching
        /\ \A q \in DOMAIN excludes : q < k => ~RuleHits(excludes[q])

\* The loop of matchSpec is at the first rule that has neither hit nor passed.
Looping ==
    pc = "matchSpec" =>
        /\ InScope(excludes[k], full) /\ ~specMatchesAll(excludes[k].spec)
        /\ pattern = Fold(excludes[k].spec) /\ name = Fold(NameOf(full))
        /\ Loop(pattern, name, pi, ni, star, mark)

\* It is the first rule that prunes or hits that decides.
Decided ==
    pc = "decided" =>
        /\ hit # 0 => Matching
        /\ hit = 0 /\ Descends => AtEntry
        /\ Descends /\ Matching =>
              \A q \in DOMAIN excludes : /\ hit = 0 \/ q < hit => ~Prunes(excludes[q], full)
                                         /\ q = hit => Prunes(excludes[q], full)
        /\ ~Descends /\ Matching =>
              \A q \in DOMAIN excludes : /\ hit = 0 \/ q < hit => ~RuleHits(excludes[q])
                                         /\ q = hit => RuleHits(excludes[q])

\* What holds all the way to a decision.
Trail == TidyRel /\ RootEnds /\ FullIs /\ Passed /\ Looping /\ Decided

\* It holds before the walk.
LEMMA InitTrail == Init => Trail
<1>. SUFFICES ASSUME Init PROVE Trail
    OBVIOUS
<1>1. pc = "count" /\ volRoot = <<>>
    BY DEF Init
<1>. QED
    BY <1>1 DEF Trail, TidyRel, RootEnds, FullIs, Passed, Looping, Decided, Walking

\* What stays as it is while rules are matched.
LEMMA MatchKeeps ==
    ASSUME Match
    PROVE  UNCHANGED <<case, rel, depth, volRoot, excludes, full>> /\ pc \in Walking \ {"entry"} /\ pc' \in Walking \ {"entry"}
<1>. USE DEF Walking, walkVars
<1>1. CASE MatchEntry \/ NoRuleLeft \/ OutOfScope \/ MatchesAll \/ CallMatchSpec
    BY <1>1 DEF MatchEntry, NoRuleLeft, OutOfScope, MatchesAll, CallMatchSpec, Decide
<1>2. CASE Literal \/ Star \/ Backtrack
    BY <1>2 DEF Literal, Star, Backtrack, InLoop
<1>3. CASE Mismatch \/ SpecMatches \/ SpecFails
    BY <1>3 DEF Mismatch, SpecMatches, SpecFails, NoMatch, InLoop, Decide
<1>. QED
    BY <1>1, <1>2, <1>3 DEF Match

\* Collecting the rules sets nothing of the walk.
LEMMA CollectKeeps ==
    ASSUME Collect \/ RefuseRoot
    PROVE  pc' \notin Walking /\ volRoot' = volRoot
<1>. USE DEF Walking, walkVars
<1>1. CASE CountWriters \/ CountFails \/ GetWriterMetadata \/ WriterFails \/ WriterNameFails
    BY <1>1 DEF CountWriters, CountFails, GetWriterMetadata, WriterFails, WriterNameFails, NextWriter
<1>2. CASE ReadRule \/ WriterDone \/ Collected \/ RefuseRoot
    BY <1>2 DEF ReadRule, WriterDone, NextWriter, Collected, RefuseRoot
<1>. QED
    BY <1>1, <1>2 DEF Collect

\* Every step keeps what is known of the paths.
LEMMA PathStep ==
    ASSUME IInv, Trail, Next
    PROVE  TidyRel' /\ RootEnds' /\ FullIs'
<1>1. TypeOK /\ TidyRel /\ RootEnds /\ FullIs
    BY DEF IInv, Trail
<1>2. CASE Collect \/ RefuseRoot
    BY <1>1, <1>2, CollectKeeps DEF TidyRel, RootEnds, FullIs
<1>3. CASE StartWalk
  <2>1. /\ rel' \in validateVolumeRelativePath(case.root) /\ case' = case /\ pc' = "entry" /\ volRoot' = EffectiveRoot
      BY <1>3 DEF StartWalk
  <2>2. TidyRel'
    <3>1. case.root \in Text
        BY <1>1, CaseFacts DEF TypeOK
    <3>. QED
        BY <2>1, <3>1, TidyRoot DEF TidyRel, RelIsTidy
  <2>3. RootEnds'
    <3>1. \A t \in Text : Last(WithSep(t)) = Sep
      <4>1. ASSUME NEW t \in Text PROVE Last(WithSep(t)) = Sep
        <5>1. t \in Seq(Character) /\ Sep \in Character
            BY Characters0 DEF Text
        <5>2. Last(Append(t, Sep)) = Sep
            BY <5>1, AppendFacts
        <5>. QED
            BY <5>2 DEF WithSep
      <4>. QED
          BY <4>1
    <3>2. case.Root \in Text /\ case.VolumePath \in Text
        BY <1>1, CaseFacts DEF TypeOK
    <3>. QED
        BY <2>1, <3>1, <3>2 DEF RootEnds, EffectiveRoot
  <2>. QED
      BY <2>1, <2>2, <2>3 DEF FullIs
<1>4. CASE NextEntry
  <2>1. UNCHANGED <<case, rel, depth, volRoot>> /\ pc = "entry" /\ pc' = "excluded?" /\ full' = normWinPath(volRoot \o Path)
      BY <1>4 DEF NextEntry
  <2>2. Path' = Path /\ RelIsTidy' = RelIsTidy
      BY <2>1 DEF Path, RelIsTidy
  <2>. QED
      BY <1>1, <2>1, <2>2 DEF TidyRel, RootEnds, FullIs, Walking
<1>5. CASE KeepDir /\ ~AtEntry
  <2>1. rel' = Path /\ pc' = "entry" /\ pc = "excluded?" /\ UNCHANGED <<case, volRoot>>
      BY <1>5 DEF KeepDir
  <2>2. RelIsTidy => RelIsTidy'
      BY <1>1, <2>1, PathIsTidy DEF RelIsTidy
  <2>. QED
      BY <1>1, <2>1, <2>2 DEF TidyRel, RootEnds, FullIs, Walking
<1>6. CASE UNCHANGED <<case, rel, depth, volRoot, full>> /\ pc \in Walking \ {"entry"}
  <2>1. Path' = Path /\ RelIsTidy' = RelIsTidy
      BY <1>6 DEF Path, RelIsTidy
  <2>. QED
      BY <1>1, <1>6, <2>1 DEF TidyRel, RootEnds, FullIs
<1>7. CASE PruneDir \/ UnmatchedEntry \/ (KeepDir /\ AtEntry)
  <2>1. UNCHANGED <<case, rel, depth, volRoot, full>> /\ pc \in Walking \ {"entry"}
      BY <1>7 DEF PruneDir, UnmatchedEntry, KeepDir, Walking, walkVars
  <2>. QED
      BY <1>6, <2>1
<1>8. CASE Match
    BY <1>6, <1>8, MatchKeeps
<1>. QED
    BY <1>2, <1>3, <1>4, <1>5, <1>7, <1>8 DEF Next, WalkDown

\* While rules are matched the name of the entry is the one the walk has found.
LEMMA EntryName ==
    ASSUME IInv, Trail, pc \in Walking \ {"entry"}, volRoot # <<>>
    PROVE  NameOf(full) \in FileName /\ NameOf(full) = case.names[depth]
<1>1. TypeOK /\ Last(volRoot) = Sep /\ full = normWinPath(volRoot \o Path)
    BY DEF IInv, Trail, RootEnds, FullIs
<1>2. PICK B : B = DirPath
    OBVIOUS
<1>3. PICK n \in FileName : n = case.names[depth]
    BY <1>1, DirPathFacts
<1>4. /\ B \in Text /\ B # <<>> /\ Last(B) \in Separators
      /\ full = normWinPath(B \o n)
    BY <1>1, <1>2, <1>3, DirPathFacts
<1>5. NameOf(full) = n
    BY <1>4, EntryPath
<1>. QED
    BY <1>3, <1>5

\* The rules on the way are well-formed.
LEMMA RuleFacts ==
    ASSUME TypeOK, NEW q \in DOMAIN excludes
    PROVE  excludes[q] \in RuleType /\ excludes[q].spec \in Text /\ excludes[q].path \in Text
<1>1. excludes[q] \in RuleType
    BY DEF TypeOK
<1>. QED
    BY <1>1 DEF RuleType

\* What the loop of matchSpec finds out of the rule that is tried.
LEMMA LoopDecides ==
    ASSUME IInv, Trail, pc = "matchSpec"
    PROVE  /\ k \in DOMAIN excludes /\ k \in Nat /\ pattern \in Text /\ name \in Text
           /\ Loop(pattern, name, pi, ni, star, mark) /\ \A q \in 1..Len(name) : name[q] # "*"
           /\ RuleHits(excludes[k]) <=> From(pattern, name, 0, 0)
<1>1. TypeOK /\ Phases /\ Looping /\ Passed
    BY DEF IInv, Trail
<1>2. k \in 1..Len(excludes) /\ k \in DOMAIN excludes /\ k \in Nat
    BY <1>1 DEF Phases, TypeOK
<1>3. PICK s \in Text : s = excludes[k].spec
    BY <1>1, <1>2, RuleFacts
<1>4. PICK n \in FileName : n = NameOf(full)
  <2>1. volRoot # <<>>
      BY <1>1 DEF Passed, Matching
  <2>. QED
      BY <2>1, EntryName DEF Walking
<1>5. n \in Text /\ \A m \in 1..Len(n) : n[m] # "*"
  <2>1. n \in Text /\ Range(n) \cap (Separators \cup Drives \cup {"*", "?"}) = {}
      BY DEF FileName
  <2>2. \A m \in 1..Len(n) : n[m] \in Range(n)
      BY <2>1 DEF Range, Text
  <2>. QED
      BY <2>1, <2>2
<1>6. /\ InScope(excludes[k], full) /\ ~specMatchesAll(s)
      /\ pattern = Fold(s) /\ name = Fold(n) /\ Loop(pattern, name, pi, ni, star, mark)
    BY <1>1, <1>3, <1>4 DEF Looping
<1>7. pattern \in Text /\ name \in Text /\ Len(name) = Len(n) /\ \A q \in 1..Len(n) : name[q] # "*"
    BY <1>5, <1>6, FoldFacts
<1>8. RuleHits(excludes[k]) <=> Wildcard(s, n)
    BY <1>3, <1>4, <1>6 DEF RuleHits
<1>9. Wildcard(s, n) <=> From(pattern, name, 0, 0)
    BY <1>5, <1>6, WildcardIsFrom
<1>. QED
    BY <1>2, <1>6, <1>7, <1>8, <1>9

\* A rule that does not hit is passed over, and no rule that hits is.
LEMMA PassedStep ==
    ASSUME IInv, Trail, Next
    PROVE  Passed'
<1>1. TypeOK /\ Phases /\ Passed
    BY DEF IInv, Trail
<1>2. CASE Collect \/ WalkDown
  <2>1. pc' \notin {"rules", "matchSpec"}
    <3>1. CASE Collect \/ RefuseRoot
        BY <3>1, CollectKeeps DEF Walking
    <3>2. CASE StartWalk \/ NextEntry \/ PruneDir \/ KeepDir \/ UnmatchedEntry
        BY <3>2 DEF StartWalk, NextEntry, PruneDir, KeepDir, UnmatchedEntry, Decide
    <3>. QED
        BY <1>2, <3>1, <3>2 DEF WalkDown
  <2>. QED
      BY <2>1 DEF Passed
<1>3. CASE Match
  <2>1. UNCHANGED <<case, rel, depth, volRoot, excludes, full>>
      BY <1>3, MatchKeeps
  <2>2. Descends' = Descends /\ Matching' = Matching
      BY <2>1 DEF Descends, AtEntry, Matching
  <2>3. \A q \in DOMAIN excludes : RuleHits(excludes[q])' = RuleHits(excludes[q])
      BY <2>1 DEF RuleHits
  <2>4. k \in Nat /\ DOMAIN excludes \subseteq Nat
      BY <1>1 DEF TypeOK
  <2>5. SUFFICES ASSUME pc' \in {"rules", "matchSpec"}
                 PROVE  ~Descends /\ Matching /\ \A q \in DOMAIN excludes : q < k' => ~RuleHits(excludes[q])
      BY <2>1, <2>2, <2>3 DEF Passed
  <2>6. CASE MatchEntry
    <3>1. k' = 1 /\ ~Descends /\ Matching
        BY <2>6 DEF MatchEntry
    <3>2. \A q \in DOMAIN excludes : ~(q < 1)
        BY <1>1 DEF TypeOK
    <3>. QED
        BY <3>1, <3>2
  <2>7. ASSUME pc \in {"rules", "matchSpec"}, k' = k + 1, ~RuleHits(excludes[k])
        PROVE  ~Descends /\ Matching /\ \A q \in DOMAIN excludes : q < k' => ~RuleHits(excludes[q])
    <3>1. \A q \in DOMAIN excludes : q < k + 1 => q < k \/ q = k
        BY <2>4
    <3>. QED
        BY <1>1, <2>7, <3>1 DEF Passed
  <2>8. CASE OutOfScope
    <3>1. pc = "rules" /\ k' = k + 1 /\ ~RuleHits(excludes[k])
        BY <2>8 DEF OutOfScope, RuleHits
    <3>. QED
        BY <2>7, <3>1
  <2>9. CASE Mismatch
    <3>1. pc = "matchSpec" /\ k' = k + 1 /\ ni < Len(name) /\ ~IsLiteral /\ ~IsStar /\ star < 0
        BY <2>9 DEF Mismatch, NoMatch, InLoop
    <3>2. From(pattern, name, 0, 0) <=> LaterStar(pattern, name, star, mark)
        BY <3>1, LoopDecides, LoopStuck DEF IsLiteral, IsStar
    <3>3. star \in Int /\ ~LaterStar(pattern, name, star, mark)
        BY <1>1, <3>1 DEF LaterStar, TypeOK
    <3>4. ~RuleHits(excludes[k])
        BY <3>1, <3>2, <3>3, LoopDecides
    <3>. QED
        BY <2>7, <3>1, <3>4
  <2>10. CASE SpecFails
    <3>1. pc = "matchSpec" /\ k' = k + 1 /\ ni = Len(name) /\ ~RestMatches
        BY <2>10 DEF SpecFails, NoMatch
    <3>2. From(pattern, name, 0, 0) <=> RestMatches
        BY <3>1, LoopDecides, LoopEnds DEF RestMatches
    <3>3. ~RuleHits(excludes[k])
        BY <3>1, <3>2, LoopDecides
    <3>. QED
        BY <2>7, <3>1, <3>3
  <2>11. CASE CallMatchSpec \/ Literal \/ Star \/ Backtrack
    <3>1. pc \in {"rules", "matchSpec"} /\ k' = k
        BY <2>11 DEF CallMatchSpec, Literal, Star, Backtrack, InLoop
    <3>. QED
        BY <1>1, <3>1 DEF Passed
  <2>12. CASE NoRuleLeft \/ MatchesAll \/ SpecMatches
      BY <2>5, <2>12 DEF NoRuleLeft, MatchesAll, SpecMatches, Decide
  <2>. QED
      BY <1>3, <2>6, <2>8, <2>9, <2>10, <2>11, <2>12 DEF Match
<1>. QED
    BY <1>2, <1>3 DEF Next

\* The loop keeps what holds at its head.
LEMMA LoopingStep ==
    ASSUME IInv, Trail, Next
    PROVE  Looping'
<1>1. TypeOK /\ Phases /\ Looping
    BY DEF IInv, Trail
<1>2. CASE CallMatchSpec
  <2>1. /\ k \in DOMAIN excludes /\ InScope(excludes[k], full) /\ ~specMatchesAll(excludes[k].spec)
        /\ pattern' = Fold(excludes[k].spec) /\ name' = Fold(NameOf(full))
        /\ pi' = 0 /\ ni' = 0 /\ star' = -1 /\ mark' = 0 /\ UNCHANGED <<k, excludes, full>>
    <3>1. k \in Nat /\ k >= 1 /\ k <= Len(excludes) /\ DOMAIN excludes = 1..Len(excludes) /\ Len(excludes) \in Nat
        BY <1>1, <1>2 DEF CallMatchSpec, Phases, TypeOK
    <3>2. k \in DOMAIN excludes
        BY <3>1
    <3>. QED
        BY <1>2, <3>2 DEF CallMatchSpec, walkVars
  <2>2. pattern' \in Text /\ name' \in Text
    <3>1. full \in Text /\ excludes[k].spec \in Text
        BY <1>1, <2>1, RuleFacts DEF TypeOK
    <3>. QED
        BY <2>1, <3>1, FoldFacts, NameOfIsText
  <2>3. Loop(pattern', name', pi', ni', star', mark')
      BY <2>1, <2>2, LoopStarts
  <2>. QED
      BY <2>1, <2>3 DEF Looping
<1>3. ASSUME pc = "matchSpec", UNCHANGED <<k, excludes, full, pattern, name>>, Loop(pattern, name, pi', ni', star', mark')
      PROVE  Looping'
    BY <1>1, <1>3 DEF Looping
<1>4. CASE Literal
  <2>1. /\ pc = "matchSpec" /\ ni < Len(name) /\ pi < Len(pattern) /\ pattern[pi + 1] \in {"?", name[ni + 1]}
        /\ pi' = pi + 1 /\ ni' = ni + 1 /\ UNCHANGED <<k, excludes, full, pattern, name, star, mark>>
      BY <1>4 DEF Literal, InLoop, IsLiteral, walkVars
  <2>2. name[ni + 1] # "*"
    <3>1. ni \in 0..Len(name) /\ Len(name) \in Nat
      <4>1. name \in Text
          BY <2>1, LoopDecides
      <4>. QED
          BY <1>1, <2>1, <4>1 DEF TypeOK, Text
    <3>2. ni + 1 \in 1..Len(name)
        BY <2>1, <3>1
    <3>. QED
        BY <2>1, <3>2, LoopDecides
  <2>3. Loop(pattern, name, pi + 1, ni + 1, star, mark)
      BY <2>1, <2>2, LoopDecides, LoopLiteral
  <2>. QED
      BY <1>3, <2>1, <2>3
<1>5. CASE Star
  <2>1. /\ pc = "matchSpec" /\ pi < Len(pattern) /\ pattern[pi + 1] = "*"
        /\ star' = pi /\ mark' = ni /\ pi' = pi + 1 /\ UNCHANGED <<k, excludes, full, pattern, name, ni>>
      BY <1>5 DEF Star, InLoop, IsStar, walkVars
  <2>2. Loop(pattern, name, pi + 1, ni, pi, ni)
      BY <2>1, LoopDecides, LoopStar
  <2>. QED
      BY <1>3, <2>1, <2>2
<1>6. CASE Backtrack
  <2>1. /\ pc = "matchSpec" /\ ni < Len(name) /\ ~IsLiteral /\ ~IsStar /\ star >= 0
        /\ mark' = mark + 1 /\ pi' = star + 1 /\ ni' = mark + 1 /\ UNCHANGED <<k, excludes, full, pattern, name, star>>
      BY <1>6 DEF Backtrack, InLoop, walkVars
  <2>2. Loop(pattern, name, star + 1, mark + 1, star, mark + 1)
      BY <2>1, LoopDecides, LoopBacktrack DEF IsLiteral, IsStar
  <2>. QED
      BY <1>3, <2>1, <2>2
<1>7. CASE Collect \/ WalkDown
  <2>1. pc' # "matchSpec"
    <3>1. CASE Collect \/ RefuseRoot
        BY <3>1, CollectKeeps DEF Walking
    <3>2. CASE StartWalk \/ NextEntry \/ PruneDir \/ KeepDir \/ UnmatchedEntry
        BY <3>2 DEF StartWalk, NextEntry, PruneDir, KeepDir, UnmatchedEntry, Decide
    <3>. QED
        BY <1>7, <3>1, <3>2 DEF WalkDown
  <2>. QED
      BY <2>1 DEF Looping
<1>8. CASE MatchEntry \/ NoRuleLeft \/ OutOfScope \/ MatchesAll \/ Mismatch \/ SpecMatches \/ SpecFails
  <2>1. pc' # "matchSpec"
      BY <1>8 DEF MatchEntry, NoRuleLeft, OutOfScope, MatchesAll, Mismatch, SpecMatches, SpecFails, NoMatch, Decide
  <2>. QED
      BY <2>1 DEF Looping
<1>. QED
    BY <1>2, <1>4, <1>5, <1>6, <1>7, <1>8 DEF Next, Match

\* What the walk or the match decides, the first rule does for which it must.
LEMMA DecidedStep ==
    ASSUME IInv, Trail, Next
    PROVE  Decided'
<1>1. TypeOK /\ Phases /\ Passed
    BY DEF IInv, Trail
<1>2. SUFFICES ASSUME pc' = "decided" PROVE Decided'
    BY DEF Decided
<1>3. DOMAIN excludes = 1..Len(excludes) /\ Len(excludes) \in Nat /\ k \in Nat
    BY <1>1 DEF TypeOK
<1>4. ASSUME UNCHANGED <<case, volRoot, depth, excludes, full>>,
             hit' # 0 => Matching,
             hit' = 0 /\ Descends => AtEntry,
             Descends /\ Matching =>
                 \A q \in DOMAIN excludes : /\ hit' = 0 \/ q < hit' => ~Prunes(excludes[q], full)
                                            /\ q = hit' => Prunes(excludes[q], full),
             ~Descends /\ Matching =>
                 \A q \in DOMAIN excludes : /\ hit' = 0 \/ q < hit' => ~RuleHits(excludes[q])
                                            /\ q = hit' => RuleHits(excludes[q])
      PROVE  Decided'
  <2>1. Descends' = Descends /\ Matching' = Matching /\ AtEntry' = AtEntry
      BY <1>4 DEF Descends, AtEntry, Matching
  <2>2. \A q \in DOMAIN excludes : /\ RuleHits(excludes[q])' = RuleHits(excludes[q])
                                   /\ Prunes(excludes[q], full)' = Prunes(excludes[q], full)
      BY <1>4 DEF RuleHits
  <2>. QED
      BY <1>4, <2>1, <2>2 DEF Decided
<1>5. CASE PruneDir
  <2>1. PICK r \in DOMAIN excludes :
           /\ Prunes(excludes[r], full) /\ \A q \in 1..(r - 1) : ~Prunes(excludes[q], full)
           /\ hit' = r /\ Descends /\ Matching /\ UNCHANGED <<case, volRoot, depth, excludes, full>>
      BY <1>5 DEF PruneDir, Decide, walkVars
  <2>2. r # 0 /\ \A q \in DOMAIN excludes : q < r => q \in 1..(r - 1)
      BY <1>3
  <2>. QED
      BY <1>4, <2>1, <2>2
<1>6. CASE KeepDir
  <2>1. AtEntry
      BY <1>2, <1>6 DEF KeepDir
  <2>2. /\ hit' = 0 /\ Descends /\ UNCHANGED <<case, volRoot, depth, excludes, full>>
        /\ Matching => \A r \in DOMAIN excludes : ~Prunes(excludes[r], full)
      BY <1>6, <2>1 DEF KeepDir, Decide
  <2>3. \A q \in DOMAIN excludes : q # 0
      BY <1>3
  <2>. QED
      BY <1>4, <2>1, <2>2, <2>3
<1>7. CASE UnmatchedEntry
  <2>1. hit' = 0 /\ ~Descends /\ ~Matching /\ UNCHANGED <<case, volRoot, depth, excludes, full>>
      BY <1>7 DEF UnmatchedEntry, Decide, walkVars
  <2>. QED
      BY <1>4, <2>1
<1>8. ASSUME Match, pc \in {"rules", "matchSpec"}, hit' = 0, k > Len(excludes) PROVE Decided'
  <2>1. UNCHANGED <<case, volRoot, depth, excludes, full>>
      BY <1>8, MatchKeeps
  <2>2. ~Descends /\ \A q \in DOMAIN excludes : ~RuleHits(excludes[q]) /\ q # 0
    <3>1. \A q \in DOMAIN excludes : q < k /\ q # 0
        BY <1>3, <1>8
    <3>. QED
        BY <1>1, <1>8, <3>1 DEF Passed
  <2>. QED
      BY <1>4, <1>8, <2>1, <2>2
<1>9. ASSUME Match, pc \in {"rules", "matchSpec"}, hit' = k, RuleHits(excludes[k]), k # 0 PROVE Decided'
  <2>1. UNCHANGED <<case, volRoot, depth, excludes, full>>
      BY <1>9, MatchKeeps
  <2>2. ~Descends /\ Matching /\ \A q \in DOMAIN excludes : q < k => ~RuleHits(excludes[q])
      BY <1>1, <1>9 DEF Passed
  <2>. QED
      BY <1>4, <1>9, <2>1, <2>2
<1>10. CASE NoRuleLeft
  <2>1. Match /\ pc \in {"rules", "matchSpec"} /\ hit' = 0 /\ k > Len(excludes)
      BY <1>10 DEF NoRuleLeft, Decide, Match
  <2>. QED
      BY <1>8, <2>1
<1>11. CASE MatchesAll
  <2>1. Match /\ pc = "rules" /\ hit' = k /\ RuleHits(excludes[k])
      BY <1>11 DEF MatchesAll, Decide, Match, RuleHits
  <2>2. k # 0
      BY <1>1, <2>1 DEF Phases
  <2>. QED
      BY <1>9, <2>1, <2>2
<1>12. CASE SpecMatches
  <2>1. Match /\ pc = "matchSpec" /\ hit' = k /\ ni = Len(name) /\ RestMatches
      BY <1>12 DEF SpecMatches, Decide, Match
  <2>2. From(pattern, name, 0, 0) <=> RestMatches
      BY <2>1, LoopDecides, LoopEnds DEF RestMatches
  <2>3. RuleHits(excludes[k]) /\ k # 0
      BY <1>3, <2>1, <2>2, LoopDecides
  <2>. QED
      BY <1>9, <2>1, <2>3
<1>13. CASE Collect \/ RefuseRoot \/ StartWalk \/ NextEntry
  <2>1. pc' # "decided"
    <3>1. CASE Collect \/ RefuseRoot
        BY <3>1, CollectKeeps DEF Walking
    <3>2. CASE StartWalk \/ NextEntry
        BY <3>2 DEF StartWalk, NextEntry
    <3>. QED
        BY <1>13, <3>1, <3>2
  <2>. QED
      BY <1>2, <2>1
<1>14. CASE MatchEntry \/ OutOfScope \/ CallMatchSpec \/ Literal \/ Star \/ Backtrack \/ Mismatch \/ SpecFails
  <2>1. pc' # "decided"
    <3>1. CASE MatchEntry \/ OutOfScope \/ CallMatchSpec \/ Mismatch \/ SpecFails
        BY <3>1 DEF MatchEntry, OutOfScope, CallMatchSpec, Mismatch, SpecFails, NoMatch
    <3>2. CASE Literal \/ Star \/ Backtrack
        BY <3>2 DEF Literal, Star, Backtrack, InLoop
    <3>. QED
        BY <1>14, <3>1, <3>2
  <2>. QED
      BY <1>2, <2>1
<1>. QED
    BY <1>5, <1>6, <1>7, <1>10, <1>11, <1>12, <1>13, <1>14 DEF Next, WalkDown, Match

\* Every step keeps all of it.
LEMMA TrailStep == IInv /\ Trail /\ [Next]_vars => Trail'
<1>. SUFFICES ASSUME IInv, Trail, [Next]_vars PROVE Trail'
    OBVIOUS
<1>1. CASE Next
    BY <1>1, PathStep, PassedStep, LoopingStep, DecidedStep DEF Trail
<1>2. CASE UNCHANGED vars
  <2>. USE <1>2 DEF vars, collectVars, walkVars, matchVars
  <2>1. Path' = Path /\ RelIsTidy' = RelIsTidy /\ Descends' = Descends /\ Matching' = Matching /\ AtEntry' = AtEntry
      BY DEF Path, RelIsTidy, Descends, AtEntry, Matching
  <2>2. TidyRel' /\ RootEnds' /\ FullIs'
      BY <2>1 DEF Trail, TidyRel, RootEnds, FullIs
  <2>3. \A q \in DOMAIN excludes : RuleHits(excludes[q])' = RuleHits(excludes[q])
      BY DEF RuleHits
  <2>4. Passed'
      BY <2>1, <2>3 DEF Trail, Passed
  <2>5. Looping'
      BY DEF Trail, Looping
  <2>6. Decided'
      BY <2>1, <2>3 DEF Trail, Decided
  <2>. QED
      BY <2>2, <2>4, <2>5, <2>6 DEF Trail
<1>. QED
    BY <1>1, <1>2

\* So it is at every moment.
LEMMA TrailAlways == Spec => []Trail
<1>. QED
    BY InitTrail, TrailStep, Invariance, PTL DEF Spec

-----------------------------------------------------------------------------
(* The rules on the text and their meaning. *)

\* A name after two sequences in a row is one after the second.
LEMMA AppendConcat ==
    ASSUME NEW x \in Seq(Segment), NEW y \in Seq(Segment), NEW c \in Segment
    PROVE  Append(x \o y, c) = x \o Append(y, c)
<1>1. PICK v \in Seq(Segment) : v = x \o y
    BY ConcatFacts
<1>2. PICK o \in Seq(Segment) : o = <<c>>
  <2>1. <<c>> \in Seq(Segment)
      OBVIOUS
  <2>. QED
      BY <2>1
<1>3. Append(v, c) = v \o o /\ Append(y, c) = y \o o
    BY <1>2
<1>4. (x \o y) \o o = x \o (y \o o)
    BY Grouped
<1>. QED
    BY <1>1, <1>3, <1>4, Zenon

\* Folding goes segment by segment.
LEMMA FoldAllConcat ==
    ASSUME NEW S \in Seq(Segment), NEW T \in Seq(Segment)
    PROVE  FoldAll(S \o T) = FoldAll(S) \o FoldAll(T)
<1>1. PICK L \in Nat : L = Len(S)
    OBVIOUS
<1>2. PICK K \in Nat : K = Len(T)
    OBVIOUS
<1>3. PICK V : V = S \o T
    OBVIOUS
<1>4. V \in Seq(Segment) /\ Len(V) = L + K /\ (\A m \in 1..L : V[m] = S[m]) /\ \A m \in 1..K : V[L + m] = T[m]
    BY <1>1, <1>2, <1>3, ConcatFacts
<1>5. PICK s \in Seq(Text) : s = FoldAll(S) /\ Len(s) = L /\ \A m \in 1..L : s[m] = Fold(S[m])
    BY <1>1, FoldAllFacts
<1>6. PICK t \in Seq(Text) : t = FoldAll(T) /\ Len(t) = K /\ \A m \in 1..K : t[m] = Fold(T[m])
    BY <1>2, FoldAllFacts
<1>7. PICK v \in Seq(Text) : v = FoldAll(V) /\ Len(v) = L + K /\ \A m \in 1..(L + K) : v[m] = Fold(V[m])
    BY <1>4, FoldAllFacts
<1>8. PICK w : w = s \o t
    OBVIOUS
<1>9. w \in Seq(Text) /\ Len(w) = L + K /\ (\A m \in 1..L : w[m] = s[m]) /\ \A m \in 1..K : w[L + m] = t[m]
  <2>1. /\ s \o t \in Seq(Text) /\ Len(s \o t) = Len(s) + Len(t)
        /\ \A m \in 1..Len(s) : (s \o t)[m] = s[m]
        /\ \A m \in 1..Len(t) : (s \o t)[Len(s) + m] = t[m]
      BY ConcatFacts
  <2>. QED
      BY <1>5, <1>6, <1>8, <2>1, Zenon
<1>10. ASSUME NEW m \in 1..(L + K) PROVE v[m] = w[m]
  <2>1. CASE m <= L
    <3>1. m \in 1..L
        BY <1>1, <1>2, <2>1
    <3>2. v[m] = Fold(V[m])
        BY <1>7
    <3>3. V[m] = S[m] /\ w[m] = s[m] /\ s[m] = Fold(S[m])
        BY <1>4, <1>5, <1>9, <3>1, Zenon
    <3>. QED
        BY <3>2, <3>3, Zenon
  <2>2. CASE m > L
    <3>1. PICK o \in 1..K : L + o = m
      <4>1. m - L \in 1..K /\ L + (m - L) = m
          BY <1>1, <1>2, <2>2
      <4>. QED
          BY <4>1
    <3>2. v[m] = Fold(V[m])
        BY <1>7
    <3>3. V[L + o] = T[o] /\ w[L + o] = t[o] /\ t[o] = Fold(T[o])
        BY <1>4, <1>6, <1>9, <3>1, Zenon
    <3>. QED
        BY <3>1, <3>2, <3>3, Zenon
  <2>3. m <= L \/ m > L
      BY <1>1, <1>2
  <2>. QED
      BY <2>1, <2>2, <2>3, Zenon
<1>11. v = w
    BY <1>1, <1>2, <1>7, <1>9, <1>10
<1>. QED
    BY <1>3, <1>5, <1>6, <1>7, <1>8, <1>11

\* A scope of a directory is one of what is below it.
LEMMA ScopeBelow ==
    ASSUME NEW C \in Seq(Text), NEW S \in Seq(Segment), NEW T \in Seq(Segment), IsPrefix(C, FoldAll(S))
    PROVE  IsPrefix(C, FoldAll(S \o T))
<1>1. PICK s \in Seq(Text) : s = FoldAll(S)
    BY FoldAllFacts
<1>2. PICK t \in Seq(Text) : t = FoldAll(T)
    BY FoldAllFacts
<1>3. PICK w : w = s \o t
    OBVIOUS
<1>4. w \in Seq(Text) /\ Len(s) <= Len(w) /\ Len(s) \in Nat /\ Len(C) \in Nat /\ \A m \in 1..Len(s) : w[m] = s[m]
    BY <1>3
<1>5. Len(C) <= Len(s) /\ AgreeUpTo(C, s, Len(C))
    BY <1>1, PrefixIs
<1>6. Len(C) <= Len(w)
    BY <1>4, <1>5
<1>7. AgreeUpTo(C, w, Len(C))
    BY <1>4, <1>5 DEF AgreeUpTo
<1>8. IsPrefix(C, w)
    BY <1>4, <1>6, <1>7, PrefixIs
<1>. QED
    BY <1>1, <1>2, <1>3, <1>8, FoldAllConcat

\* One of a directory on the way is one of the directory at its end.
LEMMA ScopeOnTheWay ==
    ASSUME NEW C \in Seq(Text), NEW A \in Seq(Segment), NEW P \in Seq(Segment), NEW T \in Seq(Segment),
           IsPrefix(C, FoldAll(A \o P))
    PROVE  IsPrefix(C, FoldAll(A \o (P \o T)))
<1>1. PICK S \in Seq(Segment) : S = A \o P
    BY ConcatFacts
<1>2. S \o T = A \o (P \o T)
    BY <1>1, Grouped
<1>3. IsPrefix(C, FoldAll(S \o T))
    BY <1>1, ScopeBelow
<1>. QED
    BY <1>2, <1>3

\* The segments of the directory that the entry is in.
DirSegments == Segments(case.volume) \o RootSegments \o SubSeq(case.names, 1, depth - 1)

\* The segments of the paths of the walk are segments.
LEMMA NamesAre ==
    ASSUME TypeOK
    PROVE  /\ Segments(case.volume) \in Seq(Segment) /\ RootSegments \in Seq(Segment) /\ case.names \in Seq(Segment)
           /\ SubSeq(case.names, 1, depth - 1) \in Seq(Segment) /\ case.names[depth] \in Segment
           /\ DirSegments \in Seq(Segment)
           /\ depth \in 1..Len(case.names) /\ Len(case.names) \in Nat \ {0}
<1>1. /\ case.names \in Seq(FileName) /\ Len(case.names) \in Nat \ {0} /\ depth \in 1..Len(case.names)
      /\ case.volume \in Text /\ case.root \in Text
    BY CaseFacts DEF TypeOK
<1>2. \A n \in FileName : n \in Segment
    BY NameFacts DEF Segment
<1>3. PICK names \in Seq(Segment) : names = case.names
    BY <1>1, <1>2
<1>4. SubSeq(names, 1, depth - 1) \in Seq(Segment) /\ names[depth] \in Segment
  <2>1. depth \in 1..Len(names) /\ depth - 1 \in 0..Len(names)
      BY <1>1, <1>3
  <2>2. Pre(names, depth - 1) \in Seq(Segment)
      BY <2>1, PreFacts
  <2>. QED
      BY <2>1, <2>2 DEF Pre
<1>5. RootSegments \in Seq(Segment) /\ Segments(case.volume) \in Seq(Segment)
  <2>1. <<>> \in Seq(Segment)
      OBVIOUS
  <2>. QED
      BY <1>1, <2>1, SegmentsType DEF RootSegments
<1>6. DirSegments \in Seq(Segment)
  <2>1. \A x, y, z \in Seq(Segment) : x \o y \o z \in Seq(Segment)
      OBVIOUS
  <2>. QED
      BY <1>3, <1>4, <1>5, <2>1 DEF DirSegments
<1>. QED
    BY <1>1, <1>3, <1>4, <1>5, <1>6

\* Where texts stand for what they mean, the code and the definition agree.
LEMMA RulesMean ==
    ASSUME IInv, Trail, pc \in Walking \ {"entry"}, Grounded, NEW q \in DOMAIN excludes
    PROVE  /\ RuleHits(excludes[q]) <=> Means(excludes[q], DirSegments, case.names[depth])
           /\ Prunes(excludes[q], full) <=> MeansAllIn(excludes[q], Append(DirSegments, case.names[depth]))
<1>1. TypeOK /\ RootStaysInside /\ TidyRel /\ RootEnds /\ full = normWinPath(volRoot \o Path)
    BY DEF IInv, Trail, FullIs
<1>2. Tidy(volRoot) /\ volRoot # <<>> /\ Last(volRoot) = Sep /\ FoldAll(Segments(volRoot)) = FoldAll(Segments(case.volume))
    BY <1>1 DEF Grounded, RootEnds, Tidy
<1>3. RelIsTidy
    BY <1>1 DEF Grounded, TidyRel
<1>4. PICK r \in RuleType : r = excludes[q] /\ Tidy(r.path) /\ r.path \notin {<<d>> : d \in Drives}
    BY <1>1, RuleFacts DEF Grounded
<1>5. PICK n \in FileName : n = case.names[depth] /\ n \in Segment
    BY <1>1, <1>2, DirPathFacts, NamesAre
<1>6. PICK B \in Text : B = DirPath
    BY <1>1, <1>2, DirPathFacts
<1>7. /\ Tidy(B) /\ Last(B) \in Separators /\ full = normWinPath(B \o n)
      /\ Segments(B) = Segments(volRoot) \o Segments(rel)
    BY <1>1, <1>2, <1>3, <1>5, <1>6, DirPathFacts
<1>8. PICK P \in Seq(Segment) : P = SubSeq(case.names, 1, depth - 1)
    BY <1>1, NamesAre
<1>9. PICK R \in Seq(Segment) : R = RootSegments
    BY <1>1, NamesAre
<1>10. PICK U \in Seq(Segment) : U = Segments(case.volume)
    BY <1>1, NamesAre
<1>11. (U \o R) \o P = U \o (R \o P)
    BY GroupedSegments, Zenon
<1>12. PICK W \in Seq(Segment) : W = Segments(volRoot) /\ FoldAll(W) = FoldAll(U)
    BY <1>1, <1>2, <1>10, SegmentsType DEF TypeOK
<1>13. PICK D \in Seq(Segment) : D = U \o R \o P
  <2>1. \A x, y, z \in Seq(Segment) : x \o y \o z \in Seq(Segment)
      OBVIOUS
  <2>. QED
      BY <2>1
<1>14. D = DirSegments
    BY <1>8, <1>9, <1>10, <1>13 DEF DirSegments
<1>15. Segments(rel) = R \o P
    BY <1>1, <1>8, <1>9 DEF RootStaysInside, Walking
<1>16. PICK S \in Seq(Segment) : S = Segments(B)
    BY SegmentsType
<1>17. FoldAll(S) = FoldAll(D)
  <2>1. R \o P \in Seq(Segment)
      BY ConcatFacts
  <2>2. PICK E \in Seq(Segment) : E = R \o P
      BY <2>1
  <2>3. S = W \o E
      BY <1>7, <1>12, <1>15, <1>16, <2>2
  <2>4. D = U \o E
      BY <1>11, <1>13, <2>2, Zenon
  <2>5. FoldAll(W \o E) = FoldAll(W) \o FoldAll(E) /\ FoldAll(U \o E) = FoldAll(U) \o FoldAll(E)
      BY FoldAllConcat
  <2>. QED
      BY <1>12, <2>3, <2>4, <2>5
<1>18. FoldAll(Append(S, n)) = FoldAll(Append(D, n))
  <2>1. FoldAll(Append(S, n)) = Append(FoldAll(S), Fold(n)) /\ FoldAll(Append(D, n)) = Append(FoldAll(D), Fold(n))
      BY <1>5, FoldAllAppend
  <2>. QED
      BY <1>17, <2>1
<1>19. /\ NameOf(full) = n
       /\ InScope(r, full) <=>
            \/ FoldAll(S) = FoldAll(Segments(r.path))
            \/ r.recursive /\ IsPrefix(FoldAll(Segments(r.path)), FoldAll(S))
       /\ Prunes(r, full) <=>
            /\ r.recursive /\ specMatchesAll(r.spec)
            /\ IsPrefix(FoldAll(Segments(r.path)), FoldAll(Append(S, n)))
    BY <1>4, <1>7, <1>16, ScopeMeans
<1>20. RuleHits(r) <=> Means(r, D, n)
    BY <1>17, <1>19 DEF RuleHits, Means
<1>21. Prunes(r, full) <=> MeansAllIn(r, Append(D, n))
    BY <1>18, <1>19 DEF MeansAllIn
<1>. QED
    BY <1>4, <1>5, <1>14, <1>20, <1>21

\* At the entry itself they are about what the property is about.
LEMMA AtEntryFacts ==
    ASSUME TypeOK, AtEntry
    PROVE  DirSegments = OriginalDir /\ case.names[depth] = Last(case.names)
<1>1. depth = Len(case.names)
    BY DEF AtEntry
<1>2. Front(case.names) = SubSeq(case.names, 1, depth - 1)
    BY <1>1 DEF Front
<1>. QED
    BY <1>1, <1>2 DEF DirSegments, OriginalDir, Last

\* A directory that is pruned on the way prunes the entry.
LEMMA PrunedCovers ==
    ASSUME TypeOK, ~AtEntry, NEW r \in RuleType, MeansAllIn(r, Append(DirSegments, case.names[depth]))
    PROVE  Covers(r)
<1>1. PICK names \in Seq(Segment) : names = case.names
    BY NamesAre
<1>2. PICK N \in Nat \ {0} : N = Len(names)
    BY <1>1, NamesAre
<1>3. depth \in 1..(N - 1) /\ depth \in Nat
    BY <1>1, <1>2, NamesAre DEF AtEntry
<1>4. PICK A \in Seq(Segment) : A = Segments(case.volume) \o RootSegments
  <2>1. \A x, y \in Seq(Segment) : x \o y \in Seq(Segment)
      OBVIOUS
  <2>. QED
      BY <2>1, NamesAre
<1>5. PICK F \in Seq(Segment) : F = Front(names) /\ Len(F) = N - 1 /\ \A m \in 1..(N - 1) : F[m] = names[m]
  <2>1. names # <<>>
      BY <1>2
  <2>. QED
      BY <1>2, <2>1, FrontFacts
<1>6. OriginalDir = A \o F
    BY <1>1, <1>4, <1>5 DEF OriginalDir
<1>7. PICK P \in Seq(Segment) : P = Pre(F, depth) /\ P = Append(SubSeq(names, 1, depth - 1), names[depth])
  <2>1. PICK e \in 0..(N - 1) : e = depth - 1 /\ e + 1 = depth
      BY <1>3
  <2>2. Pre(names, e + 1) = Append(Pre(names, e), names[e + 1])
    <3>1. e \in 0..(Len(names) - 1)
        BY <1>2, <2>1
    <3>. QED
        BY <3>1, PreFacts
  <2>3. PICK p : p = Pre(names, depth)
      OBVIOUS
  <2>4. PICK o : o = Pre(F, depth)
      OBVIOUS
  <2>5. p \in Seq(Segment) /\ Len(p) = depth /\ \A m \in 1..depth : p[m] = names[m]
    <3>1. depth \in 0..Len(names)
        BY <1>2, <1>3
    <3>. QED
        BY <2>3, <3>1, PreFacts
  <2>6. o \in Seq(Segment) /\ Len(o) = depth /\ \A m \in 1..depth : o[m] = F[m]
    <3>1. depth \in 0..Len(F)
        BY <1>2, <1>3, <1>5
    <3>. QED
        BY <2>4, <3>1, PreFacts
  <2>7. \A m \in 1..depth : m \in 1..(N - 1)
      BY <1>2, <1>3
  <2>8. \A m \in 1..depth : o[m] = p[m]
      BY <1>5, <2>5, <2>6, <2>7
  <2>9. o = p
      BY <1>3, <2>5, <2>6, <2>8
  <2>. QED
      BY <2>1, <2>2, <2>3, <2>4, <2>6, <2>9 DEF Pre
<1>8. PICK T \in Seq(Segment) : P \o T = F
  <2>1. depth \in 0..Len(F)
      BY <1>2, <1>3, <1>5
  <2>2. Rest(F, depth) \in Seq(Segment) /\ Pre(F, depth) \o Rest(F, depth) = F
      BY <2>1, RestFacts
  <2>. QED
      BY <1>7, <2>2
<1>9. Append(DirSegments, case.names[depth]) = A \o P
  <2>1. PICK Q \in Seq(Segment) : Q = SubSeq(names, 1, depth - 1)
      BY <1>1, NamesAre
  <2>2. PICK n \in Segment : n = names[depth]
      BY <1>1, NamesAre
  <2>3. P = Append(Q, n)
      BY <1>7, <2>1, <2>2
  <2>4. Append(A \o Q, n) = A \o P
    <3>1. Append(A \o Q, n) = A \o Append(Q, n)
        BY AppendConcat, Zenon
    <3>. QED
        BY <2>3, <3>1, Zenon
  <2>5. A \o Q = DirSegments
      BY <1>1, <1>4, <2>1 DEF DirSegments
  <2>. QED
      BY <1>1, <2>2, <2>4, <2>5, Zenon
<1>10. PICK scope \in Seq(Text) : scope = FoldAll(Segments(r.path))
    BY SegmentsType, FoldAllFacts DEF RuleType
<1>11. r.recursive /\ specMatchesAll(r.spec) /\ IsPrefix(scope, FoldAll(A \o P))
    BY <1>9, <1>10 DEF MeansAllIn
<1>12. IsPrefix(scope, FoldAll(A \o F))
  <2>1. IsPrefix(scope, FoldAll(A \o (P \o T)))
      BY <1>11, ScopeOnTheWay
  <2>. QED
      BY <1>8, <2>1
<1>13. Means(r, OriginalDir, Last(case.names))
    BY <1>6, <1>10, <1>11, <1>12 DEF Means
<1>14. MeansAllIn(r, Append(OriginalDir, Last(case.names)))
  <2>1. PICK l \in Segment : l = Last(case.names)
    <3>1. names # <<>>
        BY <1>2
    <3>. QED
        BY <1>1, <3>1, FrontFacts
  <2>2. PICK S \in Seq(Segment) : S = A \o F
      BY ConcatFacts
  <2>3. <<l>> \in Seq(Segment) /\ Append(S, l) = S \o <<l>>
    <3>1. \A x \in Seq(Segment) : \A z \in Segment : <<z>> \in Seq(Segment) /\ Append(x, z) = x \o <<z>>
        OBVIOUS
    <3>. QED
        BY <3>1, Zenon
  <2>4. IsPrefix(scope, FoldAll(S \o <<l>>))
      BY <1>12, <2>2, <2>3, ScopeBelow
  <2>. QED
      BY <1>6, <1>10, <1>11, <2>1, <2>2, <2>3, <2>4 DEF MeansAllIn
<1>. QED
    BY <1>13, <1>14 DEF Covers

\* Whatever the writers declare and wherever the volume was mounted: an entry is
\* left out exactly if a rule covers it, by the segments of its path and the
\* definition of a wildcard, and the rule that is named is the first one that
\* does (subtreeExcluded, ExcludeRule.Matches, matchSpec, matchExclude).
THEOREM DecidesRightly == Spec => []DecisionIsRight
<1>1. ASSUME IInv, Trail, pc = "decided", Grounded
      PROVE  /\ hit # 0 <=> \E m \in DOMAIN excludes : Covers(excludes[m])
             /\ hit # 0 /\ AtEntry => /\ Covers(excludes[hit])
                                      /\ \A m \in 1..(hit - 1) : ~Covers(excludes[m])
  <2>1. TypeOK /\ Decided /\ volRoot # <<>> /\ pc \in Walking \ {"entry"}
      BY <1>1 DEF IInv, Trail, Grounded, Tidy, Walking
  <2>2. /\ DOMAIN excludes = 1..Len(excludes) /\ Len(excludes) \in Nat /\ hit \in 0..Len(excludes)
      BY <2>1 DEF TypeOK
  <2>3. hit # 0 => hit \in DOMAIN excludes
      BY <2>2
  <2>4. \A m \in DOMAIN excludes : m \in Nat \ {0}
      BY <2>2
  <2>5. (\E m \in DOMAIN excludes : TRUE) => Matching
    <3>1. excludes \in Seq(RuleType)
        BY <2>1 DEF TypeOK
    <3>. QED
        BY <2>1, <2>2, <3>1 DEF Matching
  <2>6. \A m \in 1..(hit - 1) : m \in DOMAIN excludes /\ m < hit
      BY <2>2
  <2>7. CASE AtEntry
    <3>1. ASSUME NEW m \in DOMAIN excludes
          PROVE  Covers(excludes[m]) <=> IF Descends THEN Prunes(excludes[m], full) ELSE RuleHits(excludes[m])
        BY <1>1, <2>1, <2>7, AtEntryFacts, RulesMean DEF Covers, Descends
    <3>2. ASSUME NEW m \in DOMAIN excludes
          PROVE  (hit = 0 \/ m < hit => ~Covers(excludes[m])) /\ (m = hit => Covers(excludes[m]))
        BY <1>1, <2>1, <2>5, <3>1 DEF Decided
    <3>. QED
        BY <2>3, <2>6, <3>2
  <2>8. CASE ~AtEntry
    <3>1. hit # 0 /\ Descends /\ hit \in DOMAIN excludes
        BY <1>1, <2>1, <2>3, <2>8 DEF Decided, Descends
    <3>2. Prunes(excludes[hit], full)
        BY <1>1, <2>1, <2>5, <3>1 DEF Decided
    <3>3. MeansAllIn(excludes[hit], Append(DirSegments, case.names[depth]))
        BY <1>1, <2>1, <3>1, <3>2, RulesMean
    <3>4. Covers(excludes[hit])
        BY <2>1, <2>8, <3>1, <3>3, PrunedCovers, RuleFacts
    <3>. QED
        BY <2>8, <3>1, <3>4
  <2>. QED
      BY <2>7, <2>8
<1>2. IInv /\ Trail => DecisionIsRight
    BY <1>1 DEF DecisionIsRight
<1>. QED
    BY Invariance, TrailAlways, <1>2, PTL

=============================================================================
