------------------------ MODULE VolumeQueriesProofs ------------------------
(***************************************************************************)
(* Proofs about VolumeQueries.                                             *)
(***************************************************************************)
EXTENDS VolumeQueries, Induction, FiniteSetTheorems, SequenceTheorems

-----------------------------------------------------------------------------
(* Sequences. *)

\* What a sequence is when something is appended to it.
LEMMA Appended ==
    ASSUME NEW F, NEW t \in Seq(F), NEW e \in F
    PROVE  /\ Append(t, e) \in Seq(F) /\ Len(Append(t, e)) = Len(t) + 1
           /\ Append(t, e)[Len(t) + 1] = e /\ \A i \in 1..Len(t) : Append(t, e)[i] = t[i]
OBVIOUS

-----------------------------------------------------------------------------
(* The loop of appendRuns. *)

Run     == [NextVCN : Nat, LCN : Nat \cup {Hole}]
Extents == [FileOffset : Nat, VolumeOffset : Nat, Length : Nat \ {0}]

\* What one round makes of the extents so far, in f[n - 1].
Round(f, n, extents, start, runs, s) ==
    IF n = 0 THEN extents
    ELSE IF runs[n].LCN >= 0 THEN Append(f[n - 1], ExtentOf(start, runs, n, s)) ELSE f[n - 1]

\* The loop is defined, and appendRuns is where it ends.
LEMMA Loop ==
    ASSUME NEW extents, NEW start, NEW runs, NEW s, Len(runs) \in Nat
    PROVE  \E f : /\ f = [n \in 0..Len(runs) |-> Round(f, n, extents, start, runs, s)]
                  /\ appendRuns(extents, start, runs, s) = f[Len(runs)]
<1>. DEFINE IsLoop(f, k) == f = [n \in 0..k |-> Round(f, n, extents, start, runs, s)]
            Defined == {k \in Nat : \E f : IsLoop(f, k)}
<1>1. 0 \in Defined
  <2>1. IsLoop([n \in 0..0 |-> extents], 0)
    BY DEF Round
  <2>. QED
    BY <2>1
<1>2. ASSUME NEW k \in 0..(Len(runs) - 1), k \in Defined
      PROVE  k + 1 \in Defined
  <2>1. PICK f : IsLoop(f, k)
    BY <1>2
  <2>. DEFINE g == [n \in 0..(k + 1) |->
                       IF n = k + 1 THEN Round(f, k + 1, extents, start, runs, s) ELSE f[n]]
  <2>2. \A n \in 0..k : g[n] = f[n] /\ f[n] = Round(f, n, extents, start, runs, s)
    BY <2>1
  <2>3. ASSUME NEW n \in 0..(k + 1)
        PROVE  g[n] = Round(g, n, extents, start, runs, s)
    <3>1. n = 0 \/ n - 1 \in 0..k
      OBVIOUS
    <3>2. Round(g, n, extents, start, runs, s) = Round(f, n, extents, start, runs, s)
      BY <2>2, <3>1 DEF Round
    <3>3. g[n] = IF n = k + 1 THEN Round(f, k + 1, extents, start, runs, s) ELSE f[n]
      OBVIOUS
    <3>4. n # k + 1 => n \in 0..k
      OBVIOUS
    <3>. HIDE DEF g
    <3>. QED
      BY <2>2, <3>2, <3>3, <3>4
  <2>4. g = [n \in 0..(k + 1) |-> g[n]]
    OBVIOUS
  <2>. HIDE DEF g
  <2>5. IsLoop(g, k + 1)
    BY <2>3, <2>4
  <2>. QED
    BY <2>5
<1>3. Len(runs) \in Defined
  <2>. HIDE DEF Defined
  <2>1. \A k \in 0..(Len(runs) - 1) : k \in Defined => k + 1 \in Defined
    BY <1>2
  <2>2. \A k \in 0..Len(runs) : k \in Defined
    BY <1>1, <2>1, IntervalInduction
  <2>. QED
    BY <2>2
<1>4. PICK f : IsLoop(f, Len(runs))
    BY <1>3
<1>. DEFINE upTo == CHOOSE h : IsLoop(h, Len(runs))
<1>5. IsLoop(upTo, Len(runs))
    BY <1>4, Zenon
<1>6. appendRuns(extents, start, runs, s) = upTo[Len(runs)]
    BY Zenon DEF appendRuns, Round
<1>. QED
    BY <1>5, <1>6, Zenon

\* The extent of a run: where it begins and ends in the file.
LEMMA ExtentTyped ==
    ASSUME NEW start \in Nat, NEW runs \in Seq(Run), Monotonic(start, runs), NEW s \in Nat \ {0},
           NEW n \in 1..Len(runs)
    PROVE  /\ PrevVCN(start, runs, n) \in Nat /\ PrevVCN(start, runs, n + 1) \in Nat
           /\ PrevVCN(start, runs, n + 1) = runs[n].NextVCN
           /\ PrevVCN(start, runs, n) < PrevVCN(start, runs, n + 1)
           /\ PrevVCN(start, runs, n) * s <= PrevVCN(start, runs, n + 1) * s
           /\ runs[n].LCN >= 0 =>
                 \E e \in Extents : /\ e = ExtentOf(start, runs, n, s)
                                    /\ e.FileOffset = PrevVCN(start, runs, n) * s
                                    /\ e.FileOffset + e.Length = PrevVCN(start, runs, n + 1) * s
<1>. DEFINE a == PrevVCN(start, runs, n)
            b == PrevVCN(start, runs, n + 1)
            e == ExtentOf(start, runs, n, s)
<1>1. runs[n] \in Run /\ (n # 1 => runs[n - 1] \in Run)
    OBVIOUS
<1>2. a \in Nat /\ b = runs[n].NextVCN /\ b \in Nat
    BY <1>1 DEF PrevVCN, Run
<1>3. a < b
    BY <1>2 DEF Monotonic
<1>4. /\ a * s \in Nat /\ b * s \in Nat /\ a * s <= b * s
      /\ (b - a) * s = b * s - a * s /\ (b - a) * s \in Nat \ {0}
  <2>. HIDE DEF a, b
  <2>. QED
    BY <1>2, <1>3, Multiples
<1>5. runs[n].LCN >= 0 => runs[n].LCN * s \in Nat
  <2>1. runs[n].LCN >= 0 => runs[n].LCN \in Nat
    BY <1>1 DEF Run, Hole
  <2>. QED
    BY <2>1, Multiples
<1>6. e = [FileOffset |-> a * s, VolumeOffset |-> runs[n].LCN * s, Length |-> (b - a) * s]
    BY <1>2, Zenon DEF ExtentOf
<1>. HIDE DEF a, b, e
<1>7. runs[n].LCN >= 0 => e \in Extents /\ e.FileOffset = a * s /\ e.FileOffset + e.Length = b * s
  <2>. DEFINE low == a * s
              high == b * s
              lcn == runs[n].LCN * s
  <2>1. low \in Nat /\ high \in Nat /\ high - low \in Nat \ {0}
    BY <1>4
  <2>2. e = [FileOffset |-> low, VolumeOffset |-> lcn, Length |-> high - low]
    BY <1>4, <1>6
  <2>3. runs[n].LCN >= 0 => lcn \in Nat
    BY <1>5
  <2>. HIDE DEF low, high, lcn
  <2>4. runs[n].LCN >= 0 => e \in Extents
    BY <2>1, <2>2, <2>3 DEF Extents
  <2>5. e.FileOffset = low /\ e.FileOffset + e.Length = high
    BY <2>1, <2>2
  <2>. QED
    BY <2>4, <2>5 DEF low, high
<1>8. a \in Nat /\ b \in Nat /\ b = runs[n].NextVCN /\ a < b /\ a * s <= b * s
    BY <1>2, <1>3, <1>4
<1>9. runs[n].LCN >= 0 =>
          \E x \in Extents : x = e /\ x.FileOffset = a * s /\ x.FileOffset + x.Length = b * s
    BY <1>7
<1>. QED
    BY <1>8, <1>9 DEF a, b, e

\* The same of an extent that is known by another name.
LEMMA ExtentPlace ==
    ASSUME NEW start \in Nat, NEW runs \in Seq(Run), Monotonic(start, runs), NEW s \in Nat \ {0},
           NEW n \in 1..Len(runs), runs[n].LCN >= 0, NEW e, e = ExtentOf(start, runs, n, s)
    PROVE  /\ e.FileOffset = PrevVCN(start, runs, n) * s
           /\ e.FileOffset + e.Length = runs[n].NextVCN * s
<1>1. PICK x \in Extents : /\ x = ExtentOf(start, runs, n, s)
                           /\ x.FileOffset = PrevVCN(start, runs, n) * s
                           /\ x.FileOffset + x.Length = PrevVCN(start, runs, n + 1) * s
    BY ExtentTyped, Zenon
<1>2. PrevVCN(start, runs, n + 1) = runs[n].NextVCN
    BY ExtentTyped, Zenon
<1>. QED
    BY <1>1, <1>2, Zenon

\* The places of an extent are numbers.
LEMMA ExtentEnd ==
    ASSUME NEW e \in Extents
    PROVE  e.FileOffset \in Nat /\ e.Length \in Nat /\ e.FileOffset + e.Length \in Nat
<1>1. e.FileOffset \in Nat /\ e.Length \in Nat
    BY DEF Extents
<1>. QED
    BY <1>1

\* After n rounds the extents are those there were, then those of the first n
\* runs that are not holes, one after another between `start` and their end.
AppendedUpTo(es, n, extents, start, runs, s) ==
    /\ es \in Seq(Extents) /\ Len(extents) <= Len(es)
    /\ start <= PrevVCN(start, runs, n + 1)
    /\ \A i \in 1..Len(extents) : es[i] = extents[i]
    /\ \A i \in (Len(extents) + 1)..Len(es) :
          /\ \E m \in 1..n : runs[m].LCN >= 0 /\ es[i] = ExtentOf(start, runs, m, s)
          /\ start * s <= es[i].FileOffset
          /\ es[i].FileOffset + es[i].Length <= PrevVCN(start, runs, n + 1) * s
    /\ \A m \in 1..n : runs[m].LCN >= 0 =>
          \E i \in (Len(extents) + 1)..Len(es) : es[i] = ExtentOf(start, runs, m, s)
    /\ \A i \in (Len(extents) + 1)..(Len(es) - 1) :
          es[i].FileOffset + es[i].Length <= es[i + 1].FileOffset

\* One round of the loop.
LEMMA RoundAppends ==
    ASSUME NEW extents \in Seq(Extents), NEW start \in Nat, NEW runs \in Seq(Run),
           Monotonic(start, runs), NEW s \in Nat \ {0}, NEW n \in 1..Len(runs),
           NEW es, AppendedUpTo(es, n - 1, extents, start, runs, s), NEW es2,
           es2 = IF runs[n].LCN >= 0 THEN Append(es, ExtentOf(start, runs, n, s)) ELSE es
    PROVE  AppendedUpTo(es2, n, extents, start, runs, s)
<1>. DEFINE a == PrevVCN(start, runs, n)
            b == PrevVCN(start, runs, n + 1)
            e == ExtentOf(start, runs, n, s)
            L == Len(extents)
            base == start * s
            low == a * s
            high == b * s
            Mine(i, m) == runs[m].LCN >= 0 /\ es[i] = ExtentOf(start, runs, m, s)
<1>1. /\ a \in Nat /\ b \in Nat /\ a < b /\ low <= high
      /\ runs[n].LCN >= 0 => e \in Extents /\ e.FileOffset = low /\ e.FileOffset + e.Length = high
    BY ExtentTyped
<1>2. low \in Nat /\ high \in Nat /\ base \in Nat /\ (start <= a => base <= low)
  <2>. HIDE DEF a, b
  <2>. QED
    BY <1>1, Multiples
<1>0. n \in Nat /\ (n - 1) + 1 = n /\ \A m \in 1..n : m = n \/ m \in 1..(n - 1)
    OBVIOUS
<1>14. n \in 1..n
    OBVIOUS
<1>3. L \in Nat /\ es \in Seq(Extents) /\ L <= Len(es) /\ Len(es) \in Nat /\ start <= a
      /\ (\A i \in 1..L : es[i] = extents[i]) /\ \A i \in 1..L : i \in 1..Len(es)
    BY <1>0, <1>1 DEF AppendedUpTo
<1>4. \A i \in (L + 1)..Len(es) :
          /\ \E m \in 1..(n - 1) : Mine(i, m)
          /\ base <= es[i].FileOffset
          /\ es[i].FileOffset + es[i].Length <= low
    BY <1>0 DEF AppendedUpTo
<1>5. \A m \in 1..(n - 1) : runs[m].LCN >= 0 => \E i \in (L + 1)..Len(es) : Mine(i, m)
    BY DEF AppendedUpTo
<1>6. \A i \in (L + 1)..(Len(es) - 1) : es[i].FileOffset + es[i].Length <= es[i + 1].FileOffset
    BY DEF AppendedUpTo
<1>7. ASSUME NEW i \in 1..Len(es)
      PROVE  es[i].FileOffset + es[i].Length \in Nat
  <2>1. es[i] \in Extents
    BY <1>3
  <2>. QED
    BY <2>1, ExtentEnd
<1>8. CASE runs[n].LCN >= 0
  <2>. HIDE DEF a, b, e, L, base, low, high
  <2>1. es2 = Append(es, e)
    BY <1>8 DEF e
  <2>2. /\ es2 \in Seq(Extents) /\ Len(es2) = Len(es) + 1 /\ es2[Len(es) + 1] = e
        /\ \A i \in 1..Len(es) : es2[i] = es[i]
    BY <1>1, <1>3, <1>8, <2>1, Appended
  <2>3. \A i \in 1..L : es2[i] = extents[i]
    BY <1>3, <2>2
  <2>4. ASSUME NEW i \in (L + 1)..Len(es2)
        PROVE  /\ \E m \in 1..n : runs[m].LCN >= 0 /\ es2[i] = ExtentOf(start, runs, m, s)
               /\ base <= es2[i].FileOffset
               /\ es2[i].FileOffset + es2[i].Length <= high
    <3>1. CASE i = Len(es) + 1
      <4>1. es2[i] = e
        BY <2>2, <3>1
      <4>2. e.FileOffset = low /\ e.FileOffset + e.Length = high
        BY <1>1, <1>8
      <4>3. es2[i] = ExtentOf(start, runs, n, s)
        BY <4>1 DEF e
      <4>4. \E m \in 1..n : runs[m].LCN >= 0 /\ es2[i] = ExtentOf(start, runs, m, s)
        BY <1>8, <1>14, <4>3
      <4>5. es2[i].FileOffset = low /\ es2[i].FileOffset + es2[i].Length = high
        BY <4>1, <4>2
      <4>6. base <= low /\ high <= high
        BY <1>2, <1>3
      <4>. QED
        BY <4>4, <4>5, <4>6, Zenon
    <3>2. CASE i \in (L + 1)..Len(es)
      <4>1. es2[i] = es[i] /\ i \in 1..Len(es)
        BY <2>2, <3>2, <1>3
      <4>2. PICK m \in 1..(n - 1) : Mine(i, m)
        BY <1>4, <3>2
      <4>3. \E o \in 1..n : runs[o].LCN >= 0 /\ es2[i] = ExtentOf(start, runs, o, s)
        BY <4>1, <4>2
      <4>4. base <= es[i].FileOffset /\ es[i].FileOffset + es[i].Length <= low
        BY <1>4, <3>2
      <4>5. es[i].FileOffset + es[i].Length \in Nat
        BY <1>7, <4>1
      <4>6. es[i].FileOffset + es[i].Length <= high
        BY <4>4, <4>5, <1>1, <1>2
      <4>. QED
        BY <4>1, <4>3, <4>4, <4>6
    <3>. QED
      BY <3>1, <3>2, <2>2, <1>3
  <2>5. ASSUME NEW m \in 1..n, runs[m].LCN >= 0
        PROVE  \E i \in (L + 1)..Len(es2) : es2[i] = ExtentOf(start, runs, m, s)
    <3>1. CASE m = n
      BY <3>1, <2>2, <1>3 DEF e
    <3>2. CASE m \in 1..(n - 1)
      <4>1. PICK i \in (L + 1)..Len(es) : Mine(i, m)
        BY <1>5, <2>5, <3>2
      <4>2. i \in (L + 1)..Len(es2) /\ es2[i] = es[i]
        BY <2>2, <1>3
      <4>. QED
        BY <4>1, <4>2
    <3>. QED
      BY <3>1, <3>2, <1>0
  <2>6. ASSUME NEW i \in (L + 1)..(Len(es2) - 1)
        PROVE  es2[i].FileOffset + es2[i].Length <= es2[i + 1].FileOffset
    <3>1. i \in (L + 1)..Len(es) /\ es2[i] = es[i] /\ i \in 1..Len(es)
      BY <2>2, <1>3
    <3>2. CASE i = Len(es)
      <4>1. es2[i + 1] = e /\ e.FileOffset = low
        BY <2>2, <3>2, <1>1, <1>8
      <4>. QED
        BY <4>1, <3>1, <1>4
    <3>3. CASE i \in (L + 1)..(Len(es) - 1)
      <4>1. es2[i + 1] = es[i + 1]
        BY <2>2, <3>3, <1>3
      <4>. QED
        BY <4>1, <3>1, <3>3, <1>6
    <3>. QED
      BY <3>1, <3>2, <3>3
  <2>7. start <= b /\ L <= Len(es2)
    BY <1>1, <1>3, <2>2
  <2>. QED
    BY <2>2, <2>3, <2>4, <2>5, <2>6, <2>7 DEF AppendedUpTo, L, b, base, high
<1>9. CASE ~(runs[n].LCN >= 0)
  <2>. HIDE DEF a, b, e, L, base, low, high
  <2>1. es2 = es
    BY <1>9
  <2>2. ASSUME NEW i \in (L + 1)..Len(es)
        PROVE  /\ \E m \in 1..n : Mine(i, m)
               /\ base <= es[i].FileOffset
               /\ es[i].FileOffset + es[i].Length <= high
    <3>1. i \in 1..Len(es)
      BY <1>3
    <3>2. es[i].FileOffset + es[i].Length \in Nat /\ es[i].FileOffset + es[i].Length <= low
      <4>1. es[i].FileOffset + es[i].Length \in Nat
        BY <1>7, <3>1
      <4>2. es[i].FileOffset + es[i].Length <= low
        BY <1>4
      <4>. QED
        BY <4>1, <4>2
    <3>3. es[i].FileOffset + es[i].Length <= high
      BY <3>2, <1>1, <1>2
    <3>4. PICK m \in 1..(n - 1) : Mine(i, m)
      BY <1>4
    <3>. QED
      BY <3>3, <3>4, <1>4
  <2>3. ASSUME NEW m \in 1..n, runs[m].LCN >= 0
        PROVE  \E i \in (L + 1)..Len(es) : Mine(i, m)
    <3>1. m \in 1..(n - 1)
      BY <1>9, <2>3, <1>0
    <3>. QED
      BY <1>5, <2>3, <3>1
  <2>4. start <= b
    BY <1>1, <1>3
  <2>5. AppendedUpTo(es, n, extents, start, runs, s)
    BY <2>2, <2>3, <2>4, <1>3, <1>6 DEF AppendedUpTo, L, b, base, high
  <2>. QED
    BY <2>1, <2>5
<1>. QED
    BY <1>8, <1>9

\* What appendRuns returns for monotonic runs.
LEMMA AppendRuns ==
    ASSUME NEW extents \in Seq(Extents), NEW start \in Nat, NEW runs \in Seq(Run),
           Monotonic(start, runs), NEW s \in Nat \ {0}
    PROVE  AppendedUpTo(appendRuns(extents, start, runs, s), Len(runs), extents, start, runs, s)
<1>1. Len(runs) \in Nat
    OBVIOUS
<1>2. PICK f : /\ f = [n \in 0..Len(runs) |-> Round(f, n, extents, start, runs, s)]
               /\ appendRuns(extents, start, runs, s) = f[Len(runs)]
    BY <1>1, Loop
<1>3. \A n \in 0..Len(runs) : f[n] = Round(f, n, extents, start, runs, s)
    BY <1>2
<1>. DEFINE Good == {n \in 0..Len(runs) : AppendedUpTo(f[n], n, extents, start, runs, s)}
<1>4. 0 \in Good
  <2>1. f[0] = extents /\ 0 \in 0..Len(runs)
    BY <1>1, <1>3 DEF Round
  <2>2. AppendedUpTo(extents, 0, extents, start, runs, s)
    BY DEF AppendedUpTo, PrevVCN
  <2>. QED
    BY <2>1, <2>2
<1>5. ASSUME NEW k \in 0..(Len(runs) - 1), k \in Good
      PROVE  k + 1 \in Good
  <2>. DEFINE n == k + 1
  <2>1. n \in 1..Len(runs) /\ n \in 0..Len(runs) /\ n # 0 /\ n - 1 = k
    BY <1>1
  <2>. HIDE DEF n
  <2>2. f[n] = IF runs[n].LCN >= 0 THEN Append(f[k], ExtentOf(start, runs, n, s)) ELSE f[k]
    BY <1>3, <2>1 DEF Round
  <2>3. AppendedUpTo(f[k], n - 1, extents, start, runs, s)
    BY <1>5, <2>1
  <2>4. AppendedUpTo(f[n], n, extents, start, runs, s)
    BY <2>1, <2>2, <2>3, RoundAppends
  <2>. QED
    BY <2>1, <2>4 DEF n
<1>6. Len(runs) \in Good
  <2>. HIDE DEF Good
  <2>1. \A k \in 0..(Len(runs) - 1) : k \in Good => k + 1 \in Good
    BY <1>5
  <2>2. \A k \in 0..Len(runs) : k \in Good
    BY <1>1, <1>4, <2>1, IntervalInduction
  <2>. QED
    BY <1>1, <2>2
<1>. QED
    BY <1>2, <1>6

-----------------------------------------------------------------------------
(* A layout, the runs in it, and the replies about it. *)

Cluster == Nat \cup {Hole}

\* Up to the next end of a run the clusters are one after another, or holes.
LEMMA RunIsContiguous ==
    ASSUME NEW layout \in Seq(Cluster), NEW a \in Nat, NEW b \in Nat, a < b, b <= Len(layout),
           \A m \in (a + 1)..(b - 1) : ~EndsRun(layout, m)
    PROVE  \A k \in 0..(b - a - 1) :
              /\ layout[a + 1] = Hole => layout[a + k + 1] = Hole
              /\ layout[a + 1] # Hole => layout[a + k + 1] # Hole /\ layout[a + k + 1] = layout[a + 1] + k
<1>. DEFINE N == b - a - 1
            first == layout[a + 1]
            P == {k \in 0..N : /\ first = Hole => layout[a + k + 1] = Hole
                               /\ first # Hole => layout[a + k + 1] # Hole /\ layout[a + k + 1] = first + k}
<1>1. N \in Nat /\ first \in Cluster
    OBVIOUS
<1>2. 0 \in P
  <2>1. a + 0 + 1 = a + 1
    OBVIOUS
  <2>2. first # Hole => first \in Nat /\ first + 0 = first
    BY <1>1 DEF Cluster
  <2>. QED
    BY <1>1, <2>1, <2>2
<1>3. ASSUME NEW k \in 0..(N - 1), k \in P
      PROVE  k + 1 \in P
  <2>. DEFINE m == a + k + 1
  <2>1. m \in (a + 1)..(b - 1) /\ m + 1 = a + (k + 1) + 1 /\ m # Len(layout) /\ k + 1 \in 0..N
    BY <1>1
  <2>2. ~EndsRun(layout, m)
    BY <2>1
  <2>3. \/ layout[m] = Hole /\ layout[m + 1] = Hole
        \/ layout[m] # Hole /\ layout[m + 1] = layout[m] + 1
    BY <2>1, <2>2 DEF EndsRun
  <2>4. layout[m + 1] \in Cluster
    BY <2>1
  <2>5. first = Hole => layout[m] = Hole
    BY <1>3
  <2>6. first # Hole => layout[m] # Hole /\ layout[m] = first + k
    BY <1>3
  <2>. HIDE DEF m, first
  <2>7. first = Hole => layout[m + 1] = Hole
    BY <2>3, <2>5
  <2>8. first # Hole => layout[m + 1] # Hole /\ layout[m + 1] = first + (k + 1)
    BY <2>3, <2>6, <1>1 DEF Cluster, Hole
  <2>. QED
    BY <2>1, <2>7, <2>8 DEF first, m
<1>4. \A k \in 0..N : k \in P
  <2>. HIDE DEF P, N
  <2>1. \A k \in 0..(N - 1) : k \in P => k + 1 \in P
    BY <1>3
  <2>. QED
    BY <1>1, <1>2, <2>1, IntervalInduction
<1>. QED
    BY <1>4

\* What a reply that is accepted is: runs that end where runs of the file end,
\* from `start`, which is not after v, to where the last of them ends.
Genuine(reply, layout, v) ==
    LET runs == reply.runs
        end  == PrevVCN(reply.start, runs, Len(runs) + 1)
    IN  /\ reply.start \in Starts(layout, v) /\ reply.start \in 0..v
        /\ runs \in Seq(Run) /\ Len(runs) >= 1
        /\ end \in (v + 1)..Len(layout) /\ EndsRun(layout, end) /\ Last(runs).NextVCN = end
        /\ reply.more <=> end # Len(layout)
        /\ \A n \in 1..Len(runs) :
              LET from == PrevVCN(reply.start, runs, n)
              IN  /\ from \in Nat /\ runs[n].NextVCN \in (from + 1)..Len(layout)
                  /\ runs[n].LCN = layout[from + 1]
                  /\ \A m \in (from + 1)..(runs[n].NextVCN - 1) : ~EndsRun(layout, m)

\* Right replies are genuine.
LEMMA RightIsGenuine ==
    ASSUME NEW layout \in Seq(Cluster), NEW v \in Nat, v < Len(layout), NEW reply \in RightReplies(layout, v)
    PROVE  Genuine(reply, layout, v)
<1>2. PICK s \in Starts(layout, v), ends \in Ends(layout, v) :
          reply = [more |-> Last(ends) # Len(layout), start |-> s, runs |-> RunsOf(layout, s, ends)]
    BY DEF RightReplies
<1>. DEFINE runs == RunsOf(layout, s, ends)
<1>3. reply.start = s /\ reply.runs = runs /\ (reply.more <=> Last(ends) # Len(layout))
    BY <1>2
<1>4. PICK k \in 1..PageSize : ends \in [1..k -> (v + 1)..Len(layout)]
    BY DEF Ends
<1>5. PageSize \in Nat /\ k \in Nat /\ k >= 1 /\ Len(layout) \in Nat
    BY QueryAssumption
<1>6. /\ DOMAIN ends = 1..k /\ Len(ends) = k /\ ends \in Seq((v + 1)..Len(layout))
      /\ Last(ends) = ends[k] /\ ends[k] \in (v + 1)..Len(layout)
  <2>1. ends \in Seq((v + 1)..Len(layout)) /\ Len(ends) = k
    BY <1>4, <1>5
  <2>. QED
    BY <1>4, <1>5, <2>1 DEF Last
<1>7. \A n \in 1..k :
          LET before == IF n = 1 THEN v ELSE ends[n - 1]
          IN  /\ before < ends[n] /\ EndsRun(layout, ends[n])
              /\ \A m \in (before + 1)..(ends[n] - 1) : ~EndsRun(layout, m)
    BY <1>6 DEF Ends
<1>8. s \in 0..v /\ \A m \in (s + 1)..v : ~EndsRun(layout, m)
    BY DEF Starts
<1>9. /\ DOMAIN runs = 1..k
      /\ \A n \in 1..k : runs[n] = [NextVCN |-> ends[n], LCN |-> layout[PrevVCN(s, runs, n) + 1]]
  <2>1. \A n \in 1..k : runs[n] = [NextVCN |-> ends[n],
                                   LCN |-> layout[(IF n = 1 THEN s ELSE ends[n - 1]) + 1]]
    BY <1>6 DEF RunsOf
  <2>2. DOMAIN runs = 1..k
    BY <1>6 DEF RunsOf
  <2>. HIDE DEF runs
  <2>3. \A n \in 1..k : n # 1 => n - 1 \in 1..k
    BY <1>5
  <2>4. \A n \in 1..k : PrevVCN(s, runs, n) = IF n = 1 THEN s ELSE ends[n - 1]
    <3>1. ASSUME NEW n \in 1..k PROVE runs[n].NextVCN = ends[n]
      <4>1. runs[n] = [NextVCN |-> ends[n],
                       LCN |-> layout[(IF n = 1 THEN s ELSE ends[n - 1]) + 1]]
        BY <2>1
      <4>. QED
        BY <4>1
    <3>. QED
      BY <2>3, <3>1 DEF PrevVCN
  <2>. QED
    BY <2>1, <2>2, <2>4
<1>. HIDE DEF runs
<1>10. ASSUME NEW n \in 1..k
       PROVE  LET from == PrevVCN(s, runs, n)
              IN  /\ from \in Nat /\ from + 1 \in 1..Len(layout) /\ runs[n].NextVCN \in (from + 1)..Len(layout)
                  /\ runs[n].LCN = layout[from + 1] /\ runs[n] \in Run
                  /\ \A m \in (from + 1)..(runs[n].NextVCN - 1) : ~EndsRun(layout, m)
  <2>. DEFINE from == PrevVCN(s, runs, n)
              before == IF n = 1 THEN v ELSE ends[n - 1]
  <2>1. ends[n] \in (v + 1)..Len(layout) /\ runs[n].NextVCN = ends[n] /\ runs[n].LCN = layout[from + 1]
    BY <1>4, <1>9
  <2>2. n # 1 => ends[n - 1] \in (v + 1)..Len(layout) /\ from = ends[n - 1] /\ before = from
    <3>1. n # 1 => n - 1 \in 1..k
      BY <1>5
    <3>2. n # 1 => runs[n - 1].NextVCN = ends[n - 1]
      BY <1>9, <3>1
    <3>. QED
      BY <1>4, <3>1, <3>2 DEF PrevVCN
  <2>3. n = 1 => from = s /\ before = v
    BY DEF PrevVCN
  <2>4. before < ends[n] /\ \A m \in (before + 1)..(ends[n] - 1) : ~EndsRun(layout, m)
    BY <1>7
  <2>. HIDE DEF from, before
  <2>5. before \in Nat /\ from \in Nat /\ from <= before
    BY <1>8, <2>2, <2>3
  <2>6. \A m \in (from + 1)..(ends[n] - 1) : ~EndsRun(layout, m)
    <3>1. \A m \in (from + 1)..(ends[n] - 1) : m \in (before + 1)..(ends[n] - 1) \/ (n = 1 /\ m \in (s + 1)..v)
      BY <2>1, <2>2, <2>3, <2>5, <1>8
    <3>. QED
      BY <3>1, <2>4, <1>8
  <2>7. from + 1 \in 1..Len(layout) /\ ends[n] \in (from + 1)..Len(layout)
    BY <2>1, <2>4, <2>5, <1>5
  <2>8. layout[from + 1] \in Cluster
    BY <2>7
  <2>9. runs[n] \in Run
    <3>1. runs[n] = [NextVCN |-> ends[n], LCN |-> layout[from + 1]] /\ ends[n] \in Nat
      BY <1>9, <2>1 DEF from
    <3>. QED
      BY <3>1, <2>8 DEF Run, Cluster
  <2>. QED
    BY <2>1, <2>5, <2>6, <2>7, <2>9 DEF from
<1>11. runs \in Seq(Run) /\ Len(runs) = k
  <2>1. runs = [n \in 1..k |-> runs[n]]
    BY <1>9 DEF runs, RunsOf
  <2>2. runs \in [1..k -> Run]
    BY <2>1, <1>10
  <2>. QED
    BY <1>5, <2>2
<1>12. PrevVCN(s, runs, k + 1) = ends[k] /\ Last(runs).NextVCN = ends[k]
    BY <1>5, <1>9, <1>11 DEF PrevVCN, Last
<1>13. EndsRun(layout, ends[k])
    BY <1>5, <1>7
<1>. QED
    BY <1>3, <1>6, <1>8, <1>10, <1>11, <1>12, <1>13, <1>5 DEF Genuine

\* Of the replies to its question the code accepts only genuine ones.
LEMMA AcceptedIsGenuine ==
    ASSUME NEW layout \in Seq(Cluster), NEW v \in Nat, v < Len(layout),
           NEW reply \in Replies(layout, v), reply.runs # << >>, Monotonic(reply.start, reply.runs)
    PROVE  Genuine(reply, layout, v)
<1>1. reply # [more |-> FALSE, start |-> v, runs |-> <<[NextVCN |-> v, LCN |-> 0]>>]
  <2>1. ASSUME reply = [more |-> FALSE, start |-> v, runs |-> <<[NextVCN |-> v, LCN |-> 0]>>]
        PROVE  FALSE
    <3>1. reply.start = v /\ reply.runs = <<[NextVCN |-> v, LCN |-> 0]>>
      BY <2>1
    <3>2. 1 \in DOMAIN reply.runs /\ reply.runs[1].NextVCN = v /\ PrevVCN(reply.start, reply.runs, 1) = v
      BY <3>1 DEF PrevVCN
    <3>. QED
      BY <3>2 DEF Monotonic
  <2>. QED
    BY <2>1
<1>2. reply # [more |-> TRUE, start |-> v, runs |-> << >>]
    OBVIOUS
<1>3. reply \in RightReplies(layout, v)
    BY <1>1, <1>2 DEF Replies
<1>. QED
    BY <1>3, RightIsGenuine

\* The runs of a genuine reply move on, and there is one.
LEMMA GenuineMovesOn ==
    ASSUME NEW layout \in Seq(Cluster), NEW v \in Nat, NEW reply, Genuine(reply, layout, v)
    PROVE  Monotonic(reply.start, reply.runs)
<1>1. reply.runs \in Seq(Run) /\ Len(layout) \in Nat
    BY DEF Genuine
<1>2. ASSUME NEW n \in 1..Len(reply.runs) PROVE reply.runs[n].NextVCN > PrevVCN(reply.start, reply.runs, n)
  <2>1. /\ PrevVCN(reply.start, reply.runs, n) \in Nat
        /\ reply.runs[n].NextVCN \in (PrevVCN(reply.start, reply.runs, n) + 1)..Len(layout)
    BY DEF Genuine
  <2>. QED
    BY <1>1, <2>1
<1>. QED
    BY <1>1, <1>2 DEF Monotonic

\* A stale reply was right for an earlier question.
LEMMA StaleIsGenuine ==
    ASSUME NEW layout \in Seq(Cluster), NEW v \in Nat, v < Len(layout), NEW reply \in StaleReplies(layout, v)
    PROVE  \E u \in Nat : Genuine(reply, layout, u) /\ Monotonic(reply.start, reply.runs)
<1>1. PICK u \in 0..(v - 1) : reply \in RightReplies(layout, u)
    BY DEF StaleReplies
<1>2. u \in Nat /\ u < Len(layout)
    BY <1>1
<1>. QED
    BY <1>1, <1>2, RightIsGenuine, GenuineMovesOn

\* Every cluster that the runs cover is in one of them.
LEMMA InSomeRun ==
    ASSUME NEW start \in Nat, NEW runs \in Seq(Run), Monotonic(start, runs), NEW c \in Nat,
           start <= c, c < PrevVCN(start, runs, Len(runs) + 1)
    PROVE  \E n \in 1..Len(runs) : PrevVCN(start, runs, n) <= c /\ c < runs[n].NextVCN
<1>. DEFINE T == {n \in 1..Len(runs) : c < runs[n].NextVCN}
<1>1. Len(runs) \in 1..Len(runs) /\ c < runs[Len(runs)].NextVCN
  <2>1. Len(runs) \in Nat /\ (Len(runs) + 1) - 1 = Len(runs)
    OBVIOUS
  <2>2. Len(runs) # 0
    BY DEF PrevVCN
  <2>. QED
    BY <2>1, <2>2 DEF PrevVCN
<1>2. PICK n \in T : \A m \in T : n <= m
  <2>1. T \subseteq Nat /\ T # {}
    BY <1>1
  <2>. HIDE DEF T
  <2>. QED
    BY <2>1, Least
<1>3. PrevVCN(start, runs, n) <= c
  <2>1. CASE n = 1
    BY <2>1 DEF PrevVCN
  <2>2. CASE n # 1
    <3>1. n - 1 \in 1..Len(runs) /\ n - 1 \notin T
      BY <1>2, <2>2
    <3>2. ~(c < runs[n - 1].NextVCN)
      BY <3>1
    <3>3. runs[n - 1] \in Run
      BY <3>1
    <3>4. runs[n - 1].NextVCN \in Nat
      BY <3>3 DEF Run
    <3>. QED
      BY <2>2, <3>2, <3>4 DEF PrevVCN
  <2>. QED
    BY <2>1, <2>2
<1>. QED
    BY <1>3

\* What TrueOf says of each of the extents.
TrueExtent(e, layout, s) ==
    LET first == e.FileOffset \div s
        count == e.Length \div s
    IN  /\ e.FileOffset = first * s /\ e.Length = count * s
        /\ first + count <= Len(layout)
        /\ \A c \in 0..(count - 1) :
              layout[first + c + 1] # Hole /\ e.VolumeOffset + c * s = layout[first + c + 1] * s

LEMMA TrueEach ==
    ASSUME NEW es, NEW layout, NEW s
    PROVE  TrueOf(es, layout, s) <=> \A n \in DOMAIN es : TrueExtent(es[n], layout, s)
BY DEF TrueOf, TrueExtent

\* The extent of a run of a genuine reply is true of the file.
LEMMA GenuineIsTrue ==
    ASSUME NEW layout \in Seq(Cluster), NEW v \in Nat, NEW s \in Nat \ {0}, NEW reply,
           Genuine(reply, layout, v), Monotonic(reply.start, reply.runs),
           NEW n \in 1..Len(reply.runs), reply.runs[n].LCN >= 0
    PROVE  TrueExtent(ExtentOf(reply.start, reply.runs, n, s), layout, s)
<1>. DEFINE runs == reply.runs
            a == PrevVCN(reply.start, runs, n)
            b == runs[n].NextVCN
            lcn == runs[n].LCN
            e == ExtentOf(reply.start, runs, n, s)
<1>1. /\ a \in Nat /\ b \in (a + 1)..Len(layout) /\ lcn = layout[a + 1]
      /\ \A m \in (a + 1)..(b - 1) : ~EndsRun(layout, m)
    BY DEF Genuine
<1>2. b \in Nat /\ a < b /\ b <= Len(layout) /\ Len(layout) \in Nat
    BY <1>1
<1>3. e = [FileOffset |-> a * s, VolumeOffset |-> lcn * s, Length |-> (b - a) * s]
    BY DEF ExtentOf
<1>4. lcn # Hole /\ lcn \in Nat
  <2>1. lcn \in Cluster
    BY <1>1, <1>2
  <2>. QED
    BY <2>1 DEF Hole, Cluster
<1>. HIDE DEF runs, a, b, lcn, e
<1>5. \A k \in 0..(b - a - 1) : layout[a + k + 1] # Hole /\ layout[a + k + 1] = lcn + k
    BY <1>1, <1>2, <1>4, RunIsContiguous
<1>6. (a * s) \div s = a /\ ((b - a) * s) \div s = b - a
  <2>1. b - a \in Nat
    BY <1>1, <1>2
  <2>. HIDE DEF a, b
  <2>2. (a * s) \div s = a
    BY <1>1, Multiples
  <2>3. \A d \in Nat : (d * s) \div s = d
    BY Multiples
  <2>. QED
    BY <2>1, <2>2, <2>3
<1>7. e.FileOffset \div s = a /\ e.Length \div s = b - a
    BY <1>3, <1>6
<1>8. ASSUME NEW k \in 0..(b - a - 1)
      PROVE  layout[a + k + 1] # Hole /\ e.VolumeOffset + k * s = layout[a + k + 1] * s
  <2>1. lcn * s + k * s = (lcn + k) * s
    BY <1>4, <1>1, <1>2, Multiples
  <2>. QED
    BY <2>1, <1>3, <1>5
<1>9. a + (b - a) <= Len(layout) /\ e.FileOffset = a * s /\ e.Length = (b - a) * s
    BY <1>1, <1>2, <1>3
<1>10. TrueExtent(e, layout, s)
  <2>. DEFINE first == e.FileOffset \div s
              count == e.Length \div s
  <2>1. first = a /\ count = b - a
    BY <1>7
  <2>. HIDE DEF first, count
  <2>2. \A c \in 0..(count - 1) :
           layout[first + c + 1] # Hole /\ e.VolumeOffset + c * s = layout[first + c + 1] * s
    BY <2>1, <1>8
  <2>3. e.FileOffset = first * s /\ e.Length = count * s /\ first + count <= Len(layout)
    BY <2>1, <1>9
  <2>. QED
    BY <2>2, <2>3, Zenon DEF TrueExtent, first, count
<1>. QED
    BY <1>10 DEF e, runs

Ordered(es) == \A n \in 1..(Len(es) - 1) : es[n].FileOffset + es[n].Length <= es[n + 1].FileOffset

\* The extents are those of the clusters of the layout before v.
ExactTo(es, layout, s, v) ==
    /\ TrueOf(es, layout, s)
    /\ \A c \in 0..(v - 1) : layout[c + 1] # Hole => Covered(es, s, c)
    /\ Ordered(es)
    /\ \A n \in 1..Len(es) : es[n].FileOffset + es[n].Length <= v * s

\* A page that begins at v, where a run begins, takes the extents from exact up
\* to v to exact up to its own end.
LEMMA PageIsExact ==
    ASSUME NEW layout \in Seq(Cluster), NEW v \in Nat, v < Len(layout), v = 0 \/ EndsRun(layout, v),
           NEW s \in Nat \ {0}, NEW reply, Genuine(reply, layout, v), Monotonic(reply.start, reply.runs),
           NEW es \in Seq(Extents), ExactTo(es, layout, s, v)
    PROVE  ExactTo(appendRuns(es, reply.start, reply.runs, s), layout, s,
                   PrevVCN(reply.start, reply.runs, Len(reply.runs) + 1))
<1>. DEFINE runs == reply.runs
            r == appendRuns(es, reply.start, runs, s)
            end == PrevVCN(reply.start, runs, Len(runs) + 1)
            K == Len(es)
            base == v * s
            high == end * s
<1>1. /\ runs \in Seq(Run) /\ Len(runs) >= 1 /\ end \in (v + 1)..Len(layout)
      /\ reply.start \in Starts(layout, v) /\ reply.start \in 0..v
    BY DEF Genuine
<1>2. reply.start = v
  <2>1. CASE v = 0
    BY <1>1, <2>1
  <2>2. CASE v # 0
    <3>1. EndsRun(layout, v)
      BY <2>2
    <3>2. v \notin (reply.start + 1)..v \/ reply.start = v
      BY <1>1, <3>1 DEF Starts
    <3>. QED
      BY <3>2, <1>1
  <2>. QED
    BY <2>1, <2>2
<1>3. Monotonic(v, runs)
    BY <1>2
<1>4. AppendedUpTo(r, Len(runs), es, v, runs, s)
    BY <1>1, <1>2, <1>3, AppendRuns
<1>5. end \in Nat /\ v < end /\ base \in Nat /\ high \in Nat /\ base <= high /\ K \in Nat
  <2>1. end \in Nat /\ v < end
    BY <1>1
  <2>. HIDE DEF end
  <2>2. base \in Nat /\ high \in Nat /\ base <= high
    BY <2>1, Multiples
  <2>. QED
    BY <2>1, <2>2
<1>6. /\ r \in Seq(Extents) /\ K <= Len(r) /\ Len(r) \in Nat
      /\ \A i \in 1..K : r[i] = es[i]
  <2>1. r \in Seq(Extents) /\ K <= Len(r) /\ \A i \in 1..K : r[i] = es[i]
    BY <1>4 DEF AppendedUpTo
  <2>. QED
    BY <2>1
<1>7. \A i \in (K + 1)..Len(r) :
          /\ \E m \in 1..Len(runs) : runs[m].LCN >= 0 /\ r[i] = ExtentOf(v, runs, m, s)
          /\ base <= r[i].FileOffset
          /\ r[i].FileOffset + r[i].Length <= high
    BY <1>2, <1>4 DEF AppendedUpTo
<1>8. \A m \in 1..Len(runs) : runs[m].LCN >= 0 =>
          \E i \in (K + 1)..Len(r) : r[i] = ExtentOf(v, runs, m, s)
    BY <1>4 DEF AppendedUpTo
<1>9. \A i \in (K + 1)..(Len(r) - 1) : r[i].FileOffset + r[i].Length <= r[i + 1].FileOffset
    BY <1>4 DEF AppendedUpTo
<1>10. /\ TrueOf(es, layout, s) /\ Ordered(es)
       /\ \A c \in 0..(v - 1) : layout[c + 1] # Hole => Covered(es, s, c)
       /\ \A n \in 1..K : es[n].FileOffset + es[n].Length <= base
    BY DEF ExactTo
<1>11. \A i \in 1..Len(r) : r[i].FileOffset \in Nat /\ r[i].Length \in Nat
  <2>1. \A i \in 1..Len(r) : r[i] \in Extents
    BY <1>6
  <2>. QED
    BY <2>1 DEF Extents
<1>12. \A n \in 1..Len(runs) : runs[n].LCN >= 0 => TrueExtent(ExtentOf(v, runs, n, s), layout, s)
    BY <1>2, GenuineIsTrue
<1>13. ASSUME NEW n \in 1..Len(runs)
       PROVE  LET a == PrevVCN(v, runs, n)
                  b == runs[n].NextVCN
              IN  /\ a \in Nat /\ b \in (a + 1)..Len(layout) /\ runs[n].LCN = layout[a + 1]
                  /\ \A m \in (a + 1)..(b - 1) : ~EndsRun(layout, m)
    BY <1>2 DEF Genuine
<1>14. DOMAIN r = 1..Len(r) /\ DOMAIN es = 1..K
    BY <1>6
<1>. HIDE DEF r, runs, end, K, base, high
<1>15. TrueOf(r, layout, s)
  <2>1. \A i \in 1..K : TrueExtent(es[i], layout, s)
    BY <1>10, <1>14, TrueEach
  <2>2. ASSUME NEW i \in 1..Len(r) PROVE TrueExtent(r[i], layout, s)
    <3>1. i \in 1..K \/ i \in (K + 1)..Len(r)
      BY <1>5, <1>6
    <3>2. CASE i \in 1..K
      <4>1. r[i] = es[i] /\ TrueExtent(es[i], layout, s)
        BY <3>2, <2>1, <1>6
      <4>. QED
        BY <4>1
    <3>3. CASE i \in (K + 1)..Len(r)
      BY <3>3, <1>7, <1>12
    <3>. QED
      BY <3>1, <3>2, <3>3
  <2>3. \A i \in DOMAIN r : TrueExtent(r[i], layout, s)
    BY <2>2, <1>14
  <2>. QED
    BY <2>3, TrueEach
<1>16. ASSUME NEW c \in 0..(end - 1), layout[c + 1] # Hole
       PROVE  Covered(r, s, c)
  <2>1. CASE c \in 0..(v - 1)
    <3>1. PICK i \in 1..K : es[i].FileOffset <= c * s /\ c * s < es[i].FileOffset + es[i].Length
      BY <2>1, <1>10, <1>14, <1>16 DEF Covered
    <3>2. i \in DOMAIN r /\ r[i] = es[i]
      BY <1>6, <1>14, <1>5
    <3>. QED
      BY <3>1, <3>2 DEF Covered
  <2>2. CASE v <= c
    <3>1. PICK n \in 1..Len(runs) : PrevVCN(v, runs, n) <= c /\ c < runs[n].NextVCN
      <4>1. c \in Nat /\ c < PrevVCN(v, runs, Len(runs) + 1)
        BY <1>2, <1>5 DEF end
      <4>. QED
        BY <4>1, <2>2, <1>1, <1>3, InSomeRun
    <3>. DEFINE a == PrevVCN(v, runs, n)
                b == runs[n].NextVCN
    <3>2. /\ a \in Nat /\ b \in Nat /\ a < b /\ b <= Len(layout) /\ runs[n].LCN = layout[a + 1]
          /\ \A m \in (a + 1)..(b - 1) : ~EndsRun(layout, m)
      BY <1>13
    <3>3. a <= c /\ c < b /\ c \in Nat
      BY <3>1, <1>5
    <3>. HIDE DEF a, b
    <3>4. c - a \in 0..(b - a - 1) /\ a + (c - a) + 1 = c + 1
      BY <3>2, <3>3
    <3>5. layout[a + 1] = Hole => layout[c + 1] = Hole
      <4>1. layout[a + 1] = Hole => \A k \in 0..(b - a - 1) : layout[a + k + 1] = Hole
        BY <3>2, RunIsContiguous
      <4>. QED
        BY <4>1, <3>4
    <3>6. runs[n].LCN >= 0
      <4>1. runs[n] \in Run
        BY <1>1
      <4>2. runs[n].LCN \in Nat \cup {Hole}
        BY <4>1 DEF Run
      <4>. QED
        BY <4>2, <3>2, <3>5, <1>16
    <3>7. PICK i \in (K + 1)..Len(r) : r[i] = ExtentOf(v, runs, n, s)
      BY <3>6, <1>8
    <3>8. r[i].FileOffset = a * s /\ r[i].FileOffset + r[i].Length = b * s
      BY <3>6, <3>7, <1>1, <1>3, ExtentPlace DEF a, b
    <3>9. a * s <= c * s /\ c * s < b * s
      BY <3>2, <3>3, Multiples
    <3>10. i \in DOMAIN r
      BY <1>14, <1>5
    <3>. QED
      BY <3>8, <3>9, <3>10 DEF Covered
  <2>. QED
    BY <2>1, <2>2, <1>5
<1>17. ASSUME NEW i \in 1..(Len(r) - 1)
       PROVE  r[i].FileOffset + r[i].Length <= r[i + 1].FileOffset
  <2>1. CASE i \in 1..(K - 1)
    <3>1. r[i] = es[i] /\ r[i + 1] = es[i + 1]
      BY <2>1, <1>5, <1>6
    <3>. QED
      BY <2>1, <3>1, <1>10 DEF Ordered, K
  <2>2. CASE i = K
    <3>1. r[i].FileOffset + r[i].Length <= base
      BY <2>2, <1>5, <1>6, <1>10
    <3>2. base <= r[i + 1].FileOffset
      BY <2>2, <1>5, <1>6, <1>7
    <3>3. r[i].FileOffset + r[i].Length \in Nat /\ r[i + 1].FileOffset \in Nat
      BY <1>6, <1>11
    <3>. QED
      BY <3>1, <3>2, <3>3, <1>5
  <2>3. CASE i \in (K + 1)..(Len(r) - 1)
    BY <2>3, <1>9
  <2>. QED
    BY <2>1, <2>2, <2>3, <1>5, <1>6
<1>18. ASSUME NEW i \in 1..Len(r)
       PROVE  r[i].FileOffset + r[i].Length <= high
  <2>1. i \in 1..K \/ i \in (K + 1)..Len(r)
    BY <1>5, <1>6
  <2>2. CASE i \in 1..K
    <3>1. r[i].FileOffset + r[i].Length <= base /\ r[i].FileOffset + r[i].Length \in Nat
      BY <2>2, <1>6, <1>10, <1>11
    <3>. QED
      BY <3>1, <1>5
  <2>. QED
    BY <2>1, <2>2, <1>7
<1>19. ExactTo(r, layout, s, end)
    BY <1>15, <1>16, <1>17, <1>18 DEF ExactTo, Ordered, high
<1>. QED
    BY <1>19 DEF r, end, runs

-----------------------------------------------------------------------------
(* The inductive invariant. *)

Found == [name : {listed[m].name : m \in DOMAIN listed},
          mount : {""} \cup {listed[m].mount : m \in DOMAIN listed}]

SequencesOK == out \in Seq(Extents) /\ found \in Seq(Found)

\* Which call is where; only a Snapshot asks about a copy, and one that was
\* behind the device name when the call began.
CallsOK ==
    /\ pc \in {"load", "query", "open", "page"} => query.call \in {"Snapshot.FileExtents", "Volume.FileExtents"}
    /\ pc = "ioctl" => query.call = "DiskExtents"
    /\ pc = "find" => query.call = "EnumerateVolumes"
    /\ query.call # "Snapshot.FileExtents" => query.volume = Live
    /\ query.call = "Snapshot.FileExtents" /\ pc # "idle" =>
          query.volume \in Copies /\ query.volume \in gone \cup {holder}

\* The volume asked about is still there, and what is known of it is known
\* under its own name.
There == query.volume = Live \/ (query.id /\ query.volume = holder)

\* The cache says of a volume that is still there what its cluster size is.
CacheTrue == \A v \in Volumes \cap DOMAIN cache : cache[v] = size[v] \/ v \in gone

\* The handles of a call are of the volume asked about.
HandlesOK ==
    /\ pc \in {"open", "page"} => cs \in Sizes /\ (There => cs = size[query.volume])
    /\ pc = "page" => opened \in Volumes /\ (There => opened = query.volume)
    /\ pc \in {"load", "query", "open"} => out = << >>

\* A snapshot's file is read run by run: the next page begins where one ends.
PagesOK ==
    query.call = "Snapshot.FileExtents" /\ query.id /\ query.volume = holder /\ ~astray =>
        LET layout == file[holder]
        IN  /\ pc = "page" => /\ vcn = 0 \/ (vcn \in 1..Len(layout) /\ EndsRun(layout, vcn))
                              /\ ExactTo(out, layout, size[holder], vcn)
            /\ pc = "returned" => ExactTo(out, layout, size[holder], Len(layout))

\* The volumes found are those before place n of the list, in its order.
FoundBefore(n) ==
    \E at \in [DOMAIN found -> WithGuid] :
        /\ \A i \in DOMAIN found : found[i].name = listed[at[i]].name /\ at[i] < n
        /\ \A i, j \in DOMAIN found : i < j => at[i] < at[j]
        /\ \A m \in WithGuid : m < n => \E i \in DOMAIN found : at[i] = m

FoundOK ==
    /\ pc \in {"find", "returned"} /\ query.call = "EnumerateVolumes" => FoundBefore(next)
    /\ pc = "find" => Len(found) < maxVolumes /\ next <= Len(listed)
    /\ pc = "returned" /\ query.call = "EnumerateVolumes" => next = Len(listed) + 1 \/ Len(found) = maxVolumes

IInv == TypeOK /\ SequencesOK /\ CallsOK /\ CacheTrue /\ HandlesOK /\ PagesOK /\ FoundOK

-----------------------------------------------------------------------------
(* What a step is, and what it leaves alone. *)

\* Every error path is a Fail, whatever the call was doing.
LEMMA Kinds ==
    ASSUME [Next]_vars
    PROVE  \/ CopyDeleted \/ CopyCreated \/ LiveFileChanges \/ DisksChange
           \/ AskFileExtents \/ AskDiskExtents \/ AskEnumerate
           \/ CacheHit \/ CacheMiss \/ QueryGeometry \/ OpenFile \/ EndOfFile \/ Page \/ StalePage \/ EmptyPage
           \/ DisksFit \/ MoreDisks \/ FindVolume \/ (Fail /\ pc # "idle") \/ UNCHANGED vars
<1>1. GeometryFails \/ OpenFails \/ RefusePage \/ PageFails \/ DiskExtentsFails \/ FindVolumeFails
      => Fail /\ pc # "idle"
    BY DEF GeometryFails, OpenFails, RefusePage, PageFails, DiskExtentsFails, FindVolumeFails
<1>. QED
    BY <1>1 DEF Next, System, Step

\* The steps that change each part of the state.
LEMMA Changes ==
    ASSUME [Next]_vars
    PROVE  /\ UNCHANGED <<size, listed>>
           /\ UNCHANGED gone \/ CopyDeleted
           /\ UNCHANGED holder \/ CopyDeleted \/ CopyCreated
           /\ UNCHANGED file \/ LiveFileChanges
           /\ UNCHANGED disks \/ DisksChange
           /\ UNCHANGED cache \/ QueryGeometry
           /\ UNCHANGED query \/ AskFileExtents
           /\ UNCHANGED cs \/ AskFileExtents \/ CacheHit \/ QueryGeometry \/ Fail
           /\ UNCHANGED opened \/ AskFileExtents \/ OpenFile \/ Fail
           /\ UNCHANGED vcn \/ AskFileExtents \/ OpenFile \/ Page \/ StalePage \/ Fail
           /\ UNCHANGED out \/ AskFileExtents \/ Page \/ StalePage \/ Fail
           /\ UNCHANGED again \/ AskFileExtents \/ Page \/ StalePage \/ Fail
           /\ UNCHANGED astray \/ AskFileExtents \/ StalePage \/ EmptyPage \/ Fail
           /\ UNCHANGED <<room, answer>> \/ AskDiskExtents \/ DisksFit \/ MoreDisks
           /\ UNCHANGED <<found, next>> \/ AskEnumerate \/ FindVolume
<1>1. CASE CopyDeleted \/ CopyCreated \/ LiveFileChanges \/ DisksChange
    BY <1>1 DEF CopyDeleted, CopyCreated, LiveFileChanges, DisksChange, fileVars, replyVars, otherVars
<1>2. CASE AskFileExtents \/ AskDiskExtents \/ AskEnumerate \/ UNCHANGED vars
    BY <1>2 DEF AskFileExtents, AskDiskExtents, AskEnumerate, vars, diskVars, fileVars, replyVars, otherVars
<1>3. CASE CacheHit \/ CacheMiss \/ QueryGeometry \/ OpenFile \/ Fail
    BY <1>3 DEF CacheHit, CacheMiss, QueryGeometry, OpenFile, Fail, diskVars, fileVars, replyVars, otherVars
<1>4. CASE EndOfFile \/ EmptyPage
    BY <1>4 DEF EndOfFile, EmptyPage, diskVars, fileVars, replyVars, otherVars
<1>6. CASE Page \/ StalePage
    BY <1>6 DEF Page, StalePage, TakeFrom, diskVars, otherVars
<1>5. CASE DisksFit \/ MoreDisks \/ FindVolume
    BY <1>5 DEF DisksFit, MoreDisks, FindVolume, diskVars, fileVars, replyVars, otherVars
<1>. QED
    BY <1>1, <1>2, <1>3, <1>4, <1>5, <1>6, Kinds

\* What the names are.
LEMMA Names ==
    /\ Live \in Volumes /\ Live \notin Copies /\ None \notin Volumes /\ Device \notin Volumes
    /\ Copies \subseteq Volumes /\ \A v \in Volumes : v = Live \/ v \in Copies
BY QueryAssumption DEF Volumes

\* The parts of the type invariant that the other lemmas need.
LEMMA Types ==
    ASSUME TypeOK
    PROVE  /\ holder \in Copies \cup {None} /\ gone \subseteq Copies /\ holder \notin gone
           /\ size \in [Volumes -> Sizes] /\ file \in [Volumes -> Layouts] /\ listed \in Listed
           /\ \A v \in Volumes : size[v] \in Sizes /\ size[v] \in Nat \ {0} /\ file[v] \in Seq(Cluster)
           /\ DOMAIN cache \subseteq Keys /\ \A k \in DOMAIN cache : cache[k] \in Sizes
           /\ query.call \in Calls /\ query.volume \in Volumes /\ query.id \in BOOLEAN
           /\ cs \in Sizes \cup {0} /\ vcn \in Nat /\ next \in 1..(Len(listed) + 1)
<1>1. Sizes \subseteq Nat \ {0} /\ \A layout \in Layouts : layout \in Seq(Cluster)
    BY QueryAssumption DEF Cluster
<1>2. \A k \in DOMAIN cache : cache[k] \in Sizes
    BY DEF TypeOK, Range
<1>3. query.call \in Calls /\ query.volume \in Volumes /\ query.id \in BOOLEAN
    BY DEF TypeOK
<1>4. \A v \in Volumes : size[v] \in Sizes /\ file[v] \in Layouts
    BY DEF TypeOK
<1>. QED
    BY <1>1, <1>2, <1>3, <1>4 DEF TypeOK

-----------------------------------------------------------------------------
(* The volume asked about, and the handles on it. *)

\* A copy that is there after a step of a call was there before it: a deleted
\* one does not come back.
LEMMA ThereBefore ==
    ASSUME TypeOK, CallsOK, [Next]_vars, UNCHANGED query, pc # "idle", There'
    PROVE  There /\ (query.volume # Live => holder' = holder)
<1>1. CASE query.volume = Live
    BY <1>1 DEF There
<1>2. CASE query.volume # Live
  <2>1. query.volume = holder' /\ query.id /\ query.volume \in Copies
    BY <1>2, Types, Names DEF There
  <2>2. query.call = "Snapshot.FileExtents" /\ query.volume \in gone \cup {holder}
    BY <1>2 DEF CallsOK
  <2>3. CASE CopyDeleted
    BY <2>1, <2>3, Names DEF CopyDeleted
  <2>4. CASE CopyCreated
    <3>1. holder = None /\ holder' \notin gone
      BY <2>4 DEF CopyCreated
    <3>. QED
      BY <2>1, <2>2, <3>1, Names
  <2>5. CASE UNCHANGED holder
    BY <2>1, <2>5 DEF There
  <2>. QED
    BY <2>3, <2>4, <2>5, Changes
<1>. QED
    BY <1>1, <1>2

\* The handle of a volume that is there is a handle of that volume.
LEMMA BehindThere ==
    ASSUME TypeOK, There
    PROVE  Behind = query.volume /\ cacheKey(query) = query.volume
BY Names, Types DEF There, Behind, cacheKey

LEMMA BehindTyped ==
    ASSUME TypeOK, Behind # None
    PROVE  Behind \in Volumes
BY Names, Types DEF Behind

\* CallsOK is kept.
LEMMA CallsStay ==
    ASSUME TypeOK, CallsOK, [Next]_vars
    PROVE  CallsOK'
<1>1. CASE CopyDeleted
  <2>1. UNCHANGED <<pc, query>> /\ gone' \cup {holder'} = gone \cup {holder, None}
    BY <1>1 DEF CopyDeleted
  <2>. QED
    BY <2>1 DEF CallsOK
<1>2. CASE CopyCreated
  <2>1. UNCHANGED <<pc, query, gone>> /\ holder = None
    BY <1>2 DEF CopyCreated
  <2>2. query.volume # None
    BY Types, Names
  <2>. QED
    BY <2>1, <2>2 DEF CallsOK
<1>3. CASE LiveFileChanges \/ DisksChange \/ UNCHANGED vars
  <2>1. UNCHANGED <<pc, query, gone, holder>>
    BY <1>3 DEF LiveFileChanges, DisksChange, vars, diskVars
  <2>. QED
    BY <2>1 DEF CallsOK
<1>4. CASE AskFileExtents
  <2>1. pc' = "load" /\ UNCHANGED <<gone, holder>>
    BY <1>4 DEF AskFileExtents, diskVars
  <2>2. CASE query.call = "Snapshot.FileExtents"
    <3>1. holder # None /\ holder \in Copies
      BY <1>4, <2>2, Types DEF AskFileExtents
    <3>2. query'.call = "Snapshot.FileExtents" /\ query'.volume = holder
      BY <1>4, <2>2, <3>1 DEF AskFileExtents, TypeOK
    <3>. QED
      BY <2>1, <3>1, <3>2 DEF CallsOK
  <2>3. CASE query.call # "Snapshot.FileExtents"
    <3>1. UNCHANGED query /\ query.call = "Volume.FileExtents" /\ query.volume = Live
      BY <1>4, <2>3 DEF AskFileExtents, CallsOK
    <3>. QED
      BY <2>1, <3>1 DEF CallsOK
  <2>. QED
    BY <2>2, <2>3
<1>5. CASE AskDiskExtents \/ AskEnumerate
  <2>1. UNCHANGED <<query, gone, holder>>
    BY <1>5 DEF AskDiskExtents, AskEnumerate, diskVars
  <2>2. \/ query.call = "DiskExtents" /\ pc' = "ioctl"
        \/ query.call = "EnumerateVolumes" /\ pc' \in {"find", "failed"}
    BY <1>5 DEF AskDiskExtents, AskEnumerate
  <2>. QED
    BY <2>1, <2>2 DEF CallsOK
<1>6. CASE \/ CacheHit \/ CacheMiss \/ QueryGeometry \/ OpenFile
           \/ EndOfFile \/ Page \/ StalePage \/ EmptyPage
  <2>1. UNCHANGED <<query, gone, holder>>
    BY <1>6 DEF CacheHit, CacheMiss, QueryGeometry, OpenFile, EndOfFile, Page, StalePage, EmptyPage, TakeFrom, diskVars
  <2>2. pc \in {"load", "query", "open", "page"} /\ pc' \in {"query", "open", "page", "returned"}
    BY <1>6 DEF CacheHit, CacheMiss, QueryGeometry, OpenFile, EndOfFile, Page, StalePage, EmptyPage, TakeFrom
  <2>. QED
    BY <2>1, <2>2 DEF CallsOK
<1>7. CASE DisksFit \/ MoreDisks \/ FindVolume
  <2>1. UNCHANGED <<query, gone, holder>>
    BY <1>7 DEF DisksFit, MoreDisks, FindVolume, diskVars
  <2>2. \/ pc = "ioctl" /\ pc' \in {"ioctl", "returned"}
        \/ pc = "find" /\ pc' \in {"find", "returned"}
    <3>1. DisksFit => pc = "ioctl" /\ pc' = "returned"
      BY DEF DisksFit
    <3>2. MoreDisks => pc = "ioctl" /\ pc' = "ioctl"
      BY DEF MoreDisks
    <3>3. FindVolume => pc = "find" /\ pc' \in {"find", "returned"}
      BY DEF FindVolume
    <3>. QED
      BY <1>7, <3>1, <3>2, <3>3
  <2>. QED
    BY <2>1, <2>2 DEF CallsOK
<1>8. CASE Fail /\ pc # "idle"
  <2>1. UNCHANGED <<query, gone, holder>> /\ pc' = "failed" /\ pc # "idle"
    BY <1>8 DEF Fail, diskVars
  <2>. QED
    BY <2>1 DEF CallsOK
<1>. QED
    BY <1>1, <1>2, <1>3, <1>4, <1>5, <1>6, <1>7, <1>8, Kinds

\* CacheTrue is kept: only the volume behind the handle is asked, and only its
\* own name is the key.
LEMMA CacheStays ==
    ASSUME TypeOK, CallsOK, CacheTrue, [Next]_vars
    PROVE  CacheTrue'
<1>1. size' = size /\ gone \subseteq gone'
    BY Changes DEF CopyDeleted
<1>2. CASE UNCHANGED cache
    BY <1>1, <1>2 DEF CacheTrue
<1>3. CASE QueryGeometry
  <2>. DEFINE key == cacheKey(query)
  <2>1. /\ pc = "query" /\ Behind # None
        /\ cache' = [k \in DOMAIN cache \cup {key} |-> IF k = key THEN size[Behind] ELSE cache[k]]
    BY <1>3 DEF QueryGeometry
  <2>2. key \in Volumes => size[Behind] = size[key] \/ key \in gone
    <3>1. CASE query.volume = Live
      BY <3>1, Names DEF cacheKey, Behind
    <3>2. CASE query.volume # Live /\ key \in Volumes
      <4>1. key = query.volume /\ Behind = holder
        BY <3>2, Names DEF cacheKey, Behind
      <4>2. query.volume \in gone \cup {holder}
        BY <2>1, <3>2 DEF CallsOK
      <4>. QED
        BY <4>1, <4>2
    <3>. QED
      BY <3>1, <3>2
  <2>. HIDE DEF key
  <2>3. ASSUME NEW v \in Volumes \cap DOMAIN cache' PROVE cache'[v] = size[v] \/ v \in gone
    <3>1. CASE v = key
      BY <2>1, <2>2, <3>1
    <3>2. CASE v # key
      <4>1. v \in DOMAIN cache /\ cache'[v] = cache[v]
        BY <2>1, <3>2
      <4>. QED
        BY <4>1 DEF CacheTrue
    <3>. QED
      BY <3>1, <3>2
  <2>. QED
    BY <1>1, <2>3 DEF CacheTrue
<1>. QED
    BY <1>2, <1>3, Changes

\* A step that is not the one that gives a handle its value leaves what HandlesOK
\* says of it.
LEMMA HandlesLeft ==
    ASSUME TypeOK, CallsOK, HandlesOK, [Next]_vars, UNCHANGED query
    PROVE  /\ UNCHANGED cs /\ pc \in {"open", "page"} =>
                cs' \in Sizes /\ (There' => cs' = size'[query'.volume])
           /\ UNCHANGED opened /\ pc = "page" =>
                opened' \in Volumes /\ (There' => opened' = query'.volume)
<1>1. size' = size
    BY Changes
<1>2. pc # "idle" /\ There' => There
    BY ThereBefore
<1>3. UNCHANGED cs /\ pc \in {"open", "page"} =>
          cs' \in Sizes /\ (There' => cs' = size'[query'.volume])
  <2>1. pc \in {"open", "page"} => pc # "idle" /\ cs \in Sizes /\ (There => cs = size[query.volume])
    BY DEF HandlesOK
  <2>. QED
    BY <1>1, <1>2, <2>1
<1>4. UNCHANGED opened /\ pc = "page" => opened' \in Volumes /\ (There' => opened' = query'.volume)
  <2>1. pc = "page" => pc # "idle" /\ opened \in Volumes /\ (There => opened = query.volume)
    BY DEF HandlesOK
  <2>. QED
    BY <1>2, <2>1
<1>. QED
    BY <1>3, <1>4

\* HandlesOK is kept.
LEMMA HandlesStay ==
    ASSUME TypeOK, CallsOK, CacheTrue, HandlesOK, [Next]_vars
    PROVE  HandlesOK'
<1>1. CASE AskFileExtents
    BY <1>1 DEF AskFileExtents, HandlesOK
<1>2. CASE CacheHit
  <2>1. /\ pc = "load" /\ pc' = "open" /\ cacheKey(query) \in DOMAIN cache /\ cs' = cache[cacheKey(query)]
        /\ UNCHANGED <<holder, gone, size, query, out>>
    BY <1>2 DEF CacheHit, diskVars
  <2>2. cs' \in Sizes /\ out = << >>
    BY <2>1, Types DEF HandlesOK
  <2>3. There => cs' = size[query.volume]
    <3>1. There => cacheKey(query) = query.volume /\ query.volume \notin gone
      BY BehindThere, Types, Names DEF There
    <3>2. query.volume \in Volumes
      BY Types
    <3>. QED
      BY <2>1, <3>1, <3>2 DEF CacheTrue
  <2>4. There' <=> There
    BY <2>1 DEF There
  <2>. QED
    BY <2>1, <2>2, <2>3, <2>4 DEF HandlesOK
<1>3. CASE QueryGeometry
  <2>1. pc = "query" /\ pc' = "open" /\ Behind # None /\ cs' = size[Behind]
        /\ UNCHANGED <<holder, size, query, out>>
    BY <1>3 DEF QueryGeometry, diskVars
  <2>2. cs' \in Sizes /\ out = << >>
    BY <2>1, Types, BehindTyped DEF HandlesOK
  <2>3. There' <=> There
    BY <2>1 DEF There
  <2>4. There => Behind = query.volume
    BY BehindThere
  <2>. QED
    BY <2>1, <2>2, <2>3, <2>4 DEF HandlesOK
<1>4. CASE OpenFile
  <2>1. pc = "open" /\ pc' = "page" /\ Behind # None /\ opened' = Behind
        /\ UNCHANGED <<holder, query, cs>>
    BY <1>4 DEF OpenFile, diskVars
  <2>2. There' <=> There
    BY <2>1 DEF There
  <2>3. opened' \in Volumes /\ (There' => opened' = query.volume)
    BY <2>1, <2>2, BehindThere, BehindTyped
  <2>4. cs' \in Sizes /\ (There' => cs' = size'[query'.volume])
    BY <2>1, HandlesLeft
  <2>. QED
    BY <2>1, <2>3, <2>4 DEF HandlesOK
<1>5. CASE UNCHANGED <<query, pc, cs, opened, out>>
  <2>1. pc \in {"open", "page"} => cs' \in Sizes /\ (There' => cs' = size'[query'.volume])
    BY <1>5, HandlesLeft
  <2>2. pc = "page" => opened' \in Volumes /\ (There' => opened' = query'.volume)
    BY <1>5, HandlesLeft
  <2>. QED
    BY <1>5, <2>1, <2>2 DEF HandlesOK
<1>6. CASE Page \/ StalePage
  <2>1. pc = "page" /\ pc' \in {"page", "returned"} /\ UNCHANGED <<query, cs, opened>>
    BY <1>6 DEF Page, StalePage, TakeFrom
  <2>2. /\ cs' \in Sizes /\ (There' => cs' = size'[query'.volume])
        /\ opened' \in Volumes /\ (There' => opened' = query'.volume)
    BY <2>1, HandlesLeft
  <2>. QED
    BY <2>1, <2>2 DEF HandlesOK
<1>7. CASE CacheMiss
  <2>1. pc = "load" /\ pc' = "query" /\ UNCHANGED out
    BY <1>7 DEF CacheMiss, fileVars
  <2>. QED
    BY <2>1 DEF HandlesOK
<1>8. CASE pc' \in {"ioctl", "find", "returned", "failed"}
    BY <1>8 DEF HandlesOK
<1>9. CopyDeleted \/ CopyCreated \/ LiveFileChanges \/ DisksChange \/ UNCHANGED vars
      => UNCHANGED <<query, pc, cs, opened, out>>
    BY DEF CopyDeleted, CopyCreated, LiveFileChanges, DisksChange, vars, fileVars
<1>10. AskDiskExtents \/ AskEnumerate \/ EndOfFile \/ EmptyPage \/ Fail
       => pc' \in {"ioctl", "find", "returned", "failed"}
    BY DEF AskDiskExtents, AskEnumerate, EndOfFile, EmptyPage, Fail
<1>11. DisksFit \/ MoreDisks \/ FindVolume => pc' \in {"ioctl", "find", "returned", "failed"}
    BY DEF DisksFit, MoreDisks, FindVolume
<1>. QED
    BY <1>1, <1>2, <1>3, <1>4, <1>5, <1>6, <1>7, <1>8, <1>9, <1>10, <1>11, Kinds

-----------------------------------------------------------------------------
(* The extents. *)

\* The exact extents of a snapshot that is asked about are of a file that does
\* not change, on a volume that is still there.
LEMMA SnapshotStays ==
    ASSUME TypeOK, CallsOK, [Next]_vars, UNCHANGED query, pc # "idle",
           query.call = "Snapshot.FileExtents", query.id, query.volume = holder'
    PROVE  /\ holder' = holder /\ holder \in Copies /\ query.volume = holder /\ There
           /\ file'[holder] = file[holder] /\ size' = size
<1>1. query.volume \in Copies /\ query.volume # Live
    BY Names DEF CallsOK
<1>2. There'
    BY DEF There
<1>3. holder' = holder /\ There
    BY <1>1, <1>2, ThereBefore
<1>4. file'[holder] = file[holder]
    BY Changes DEF LiveFileChanges
<1>. QED
    BY <1>1, <1>3, <1>4, Changes

\* What there is to know about a page that is accepted: a right one begins at the
\* cluster asked for, a stale one somewhere.
Accepted(reply, layout, v) ==
    /\ Genuine(reply, layout, v) /\ Monotonic(reply.start, reply.runs)
    /\ out' = appendRuns(out, reply.start, reply.runs, cs)
    /\ IF reply.more
       THEN vcn' = Last(reply.runs).NextVCN /\ UNCHANGED pc
       ELSE pc' = "returned" /\ UNCHANGED vcn

LEMMA PageOf ==
    ASSUME TypeOK, HandlesOK, Page \/ StalePage
    PROVE  LET layout == file[opened]
           IN  /\ pc = "page" /\ opened \in Volumes /\ layout \in Seq(Cluster) /\ cs \in Nat \ {0}
               /\ vcn \in Nat /\ vcn < Len(layout) /\ UNCHANGED <<holder, size, file, query, cs, opened>>
               /\ \E reply : \E v \in Nat : Accepted(reply, layout, v) /\ (Page => v = vcn)
<1>1. pc = "page" /\ vcn < Len(file[opened]) /\ UNCHANGED <<holder, size, file, query, cs, opened>>
    BY DEF Page, StalePage, TakeFrom, diskVars
<1>2. opened \in Volumes /\ cs \in Nat \ {0} /\ vcn \in Nat
    BY <1>1, Types, QueryAssumption DEF HandlesOK
<1>3. file[opened] \in Seq(Cluster)
    BY <1>2, Types
<1>4. \E reply : \E v \in Nat :
          /\ Genuine(reply, file[opened], v) /\ Monotonic(reply.start, reply.runs) /\ TakeFrom(reply.start, reply)
          /\ Page => v = vcn
  <2>1. CASE Page
    <3>1. PICK reply \in Replies(file[opened], vcn) :
              reply.runs # << >> /\ Monotonic(reply.start, reply.runs) /\ TakeFrom(reply.start, reply)
      BY <2>1 DEF Page
    <3>2. Genuine(reply, file[opened], vcn)
      BY <1>1, <1>2, <1>3, <3>1, AcceptedIsGenuine
    <3>. QED
      BY <1>2, <3>1, <3>2
  <2>2. CASE StalePage /\ ~Page
    <3>1. PICK reply \in StaleReplies(file[opened], vcn) : TakeFrom(reply.start, reply)
      BY <2>2 DEF StalePage
    <3>2. \E u \in Nat : Genuine(reply, file[opened], u) /\ Monotonic(reply.start, reply.runs)
      BY <1>1, <1>2, <1>3, <3>1, StaleIsGenuine
    <3>. QED
      BY <2>2, <3>1, <3>2
  <2>. QED
    BY <2>1, <2>2
<1>5. PICK reply : \E v \in Nat :
          /\ Genuine(reply, file[opened], v) /\ Monotonic(reply.start, reply.runs) /\ TakeFrom(reply.start, reply)
          /\ Page => v = vcn
    BY <1>4
<1>6. PICK v \in Nat :
          /\ Genuine(reply, file[opened], v) /\ Monotonic(reply.start, reply.runs) /\ TakeFrom(reply.start, reply)
          /\ Page => v = vcn
    BY <1>5
<1>7. PrevVCN(reply.start, reply.runs, Len(reply.runs) + 1) = Last(reply.runs).NextVCN
    BY <1>6 DEF Genuine
<1>8. Accepted(reply, file[opened], v)
    BY <1>6, <1>7 DEF Accepted, TakeFrom
<1>. QED
    BY <1>1, <1>2, <1>3, <1>6, <1>8

\* A page adds extents, and gives VCN its place.
LEMMA PageTyped ==
    ASSUME TypeOK, HandlesOK, SequencesOK, Page \/ StalePage
    PROVE  out' \in Seq(Extents) /\ vcn' \in Nat /\ pc' \in {"page", "returned"}
<1>. DEFINE layout == file[opened]
<1>1. /\ pc = "page" /\ layout \in Seq(Cluster) /\ cs \in Nat \ {0} /\ vcn \in Nat
      /\ \E reply : \E v \in Nat : Accepted(reply, layout, v)
    BY PageOf
<1>2. PICK reply : \E v \in Nat : Accepted(reply, layout, v)
    BY <1>1
<1>3. PICK v \in Nat : Accepted(reply, layout, v)
    BY <1>2
<1>4. /\ Genuine(reply, layout, v)
      /\ out' = appendRuns(out, reply.start, reply.runs, cs)
      /\ IF reply.more
         THEN vcn' = Last(reply.runs).NextVCN /\ UNCHANGED pc
         ELSE pc' = "returned" /\ UNCHANGED vcn
    BY <1>3 DEF Accepted
<1>5. reply.start \in Nat /\ reply.runs \in Seq(Run) /\ Last(reply.runs).NextVCN \in Nat
  <2>1. reply.start \in 0..v /\ reply.runs \in Seq(Run)
    BY <1>4 DEF Genuine
  <2>2. Last(reply.runs).NextVCN \in (v + 1)..Len(layout)
    BY <1>4 DEF Genuine
  <2>. QED
    BY <1>1, <2>1, <2>2
<1>6. out' \in Seq(Extents)
  <2>1. Monotonic(reply.start, reply.runs)
    BY <1>3 DEF Accepted
  <2>2. AppendedUpTo(out', Len(reply.runs), out, reply.start, reply.runs, cs)
    BY <1>1, <1>4, <1>5, <2>1, AppendRuns DEF SequencesOK
  <2>. QED
    BY <2>2 DEF AppendedUpTo
<1>. QED
    BY <1>1, <1>4, <1>5, <1>6

\* PagesOK is kept.
LEMMA PagesStay ==
    ASSUME TypeOK, SequencesOK, CallsOK, HandlesOK, PagesOK, [Next]_vars
    PROVE  PagesOK'
<1>1. CASE AskFileExtents
    BY <1>1 DEF AskFileExtents, PagesOK
<1>2. CASE pc = "idle" /\ ~AskFileExtents
  <2>1. UNCHANGED pc \/ pc' \in {"ioctl", "find", "failed"}
    <3>1. CopyDeleted \/ CopyCreated \/ LiveFileChanges \/ DisksChange \/ UNCHANGED vars => UNCHANGED pc
      BY DEF CopyDeleted, CopyCreated, LiveFileChanges, DisksChange, vars
    <3>2. AskDiskExtents \/ AskEnumerate => pc' \in {"ioctl", "find", "failed"}
      BY DEF AskDiskExtents, AskEnumerate
    <3>3. ~(\/ CacheHit \/ CacheMiss \/ QueryGeometry \/ OpenFile
            \/ EndOfFile \/ Page \/ StalePage \/ EmptyPage)
      BY <1>2 DEF CacheHit, CacheMiss, QueryGeometry, OpenFile, EndOfFile, Page, StalePage, EmptyPage
    <3>4. ~(DisksFit \/ MoreDisks \/ FindVolume)
      BY <1>2 DEF DisksFit, MoreDisks, FindVolume
    <3>. QED
      BY <1>2, <3>1, <3>2, <3>3, <3>4, Kinds
  <2>. QED
    BY <1>2, <2>1 DEF PagesOK
<1>3. CASE pc # "idle" /\ ~AskFileExtents
  <2>1. UNCHANGED query
    BY <1>3, Changes
  <2>2. SUFFICES ASSUME query.call = "Snapshot.FileExtents", query.id, query.volume = holder', ~astray'
                 PROVE  LET layout == file'[holder']
                        IN  /\ pc' = "page" =>
                                  /\ vcn' = 0 \/ (vcn' \in 1..Len(layout) /\ EndsRun(layout, vcn'))
                                  /\ ExactTo(out', layout, size'[holder'], vcn')
                            /\ pc' = "returned" => ExactTo(out', layout, size'[holder'], Len(layout))
    BY <2>1 DEF PagesOK
  <2>. DEFINE layout == file[holder]
              s == size[holder]
  <2>3. /\ holder' = holder /\ holder \in Copies /\ query.volume = holder /\ There
        /\ file'[holder'] = layout /\ size'[holder'] = s
    BY <1>3, <2>1, <2>2, SnapshotStays
  <2>4. layout \in Seq(Cluster) /\ s \in Nat \ {0}
    BY <2>3, Names, Types
  <2>5. SUFFICES /\ pc' = "page" => /\ vcn' = 0 \/ (vcn' \in 1..Len(layout) /\ EndsRun(layout, vcn'))
                                    /\ ExactTo(out', layout, s, vcn')
                 /\ pc' = "returned" => ExactTo(out', layout, s, Len(layout))
    BY <2>3
  <2>16. SUFFICES ASSUME ~Fail
                  PROVE  /\ pc' = "page" => /\ vcn' = 0 \/ (vcn' \in 1..Len(layout) /\ EndsRun(layout, vcn'))
                                            /\ ExactTo(out', layout, s, vcn')
                         /\ pc' = "returned" => ExactTo(out', layout, s, Len(layout))
    BY DEF Fail
  <2>17. ~StalePage /\ ~EmptyPage /\ ~astray
    <3>1. ~StalePage /\ ~EmptyPage
      BY <2>2 DEF StalePage, EmptyPage
    <3>. QED
      BY <1>3, <2>2, <2>16, <3>1, Changes
  <2>6. /\ pc = "page" => /\ vcn = 0 \/ (vcn \in 1..Len(layout) /\ EndsRun(layout, vcn))
                          /\ ExactTo(out, layout, s, vcn)
        /\ pc = "returned" => ExactTo(out, layout, s, Len(layout))
    BY <2>2, <2>3, <2>17 DEF PagesOK
  <2>7. pc = "page" => opened = holder
    BY <2>3 DEF HandlesOK
  <2>. HIDE DEF layout, s
  <2>8. CASE UNCHANGED <<pc, vcn, out>>
    BY <2>6, <2>8
  <2>9. CASE pc' \in {"load", "query", "open", "ioctl", "find", "failed"}
    BY <2>9
  <2>10. CASE OpenFile
    <3>1. vcn' = 0 /\ out' = << >> /\ pc' = "page"
      BY <2>10 DEF OpenFile, HandlesOK
    <3>2. ExactTo(<< >>, layout, s, 0)
      BY DEF ExactTo, TrueOf, Ordered
    <3>. QED
      BY <3>1, <3>2
  <2>11. CASE EndOfFile
    <3>1. pc = "page" /\ pc' = "returned" /\ out' = out /\ vcn >= Len(layout)
      BY <2>7, <2>11 DEF EndOfFile, fileVars, layout
    <3>2. vcn = Len(layout)
      BY <2>4, <2>6, <3>1
    <3>. QED
      BY <2>6, <3>1, <3>2
  <2>12. CASE Page
    <3>1. /\ pc = "page" /\ vcn \in Nat /\ vcn < Len(layout) /\ cs = s
          /\ \E reply : \E v \in Nat : Accepted(reply, layout, v) /\ v = vcn
      <4>1. pc = "page" /\ opened = holder
        BY <2>7, <2>12 DEF Page
      <4>2. cs = s
        BY <2>3, <4>1 DEF HandlesOK, s
      <4>. QED
        BY <2>12, <4>1, <4>2, PageOf DEF layout
    <3>9. PICK reply : Accepted(reply, layout, vcn)
      BY <3>1
    <3>2. /\ Genuine(reply, layout, vcn) /\ Monotonic(reply.start, reply.runs)
          /\ out' = appendRuns(out, reply.start, reply.runs, cs)
          /\ IF reply.more
             THEN vcn' = Last(reply.runs).NextVCN /\ UNCHANGED pc
             ELSE pc' = "returned" /\ UNCHANGED vcn
      BY <3>9 DEF Accepted
    <3>. DEFINE end == PrevVCN(reply.start, reply.runs, Len(reply.runs) + 1)
    <3>3. ExactTo(out', layout, s, end)
      <4>1. vcn = 0 \/ EndsRun(layout, vcn)
        BY <2>6, <3>1
      <4>2. ExactTo(out, layout, s, vcn) /\ out \in Seq(Extents)
        BY <2>6, <3>1 DEF SequencesOK
      <4>. QED
        BY <2>4, <3>1, <3>2, <4>1, <4>2, PageIsExact
    <3>4. /\ end \in (vcn + 1)..Len(layout) /\ EndsRun(layout, end) /\ Last(reply.runs).NextVCN = end
          /\ reply.more <=> end # Len(layout)
      BY <3>2 DEF Genuine
    <3>. HIDE DEF end
    <3>5. end \in 1..Len(layout)
      BY <3>1, <3>4
    <3>6. CASE reply.more
      BY <3>1, <3>2, <3>3, <3>4, <3>5, <3>6
    <3>7. CASE ~reply.more
      BY <3>2, <3>3, <3>4, <3>7
    <3>. QED
      BY <3>6, <3>7
  <2>13. CopyDeleted \/ CopyCreated \/ LiveFileChanges \/ DisksChange \/ UNCHANGED vars
         => UNCHANGED <<pc, vcn, out>>
    BY DEF CopyDeleted, CopyCreated, LiveFileChanges, DisksChange, vars, fileVars
  <2>14. CacheHit \/ CacheMiss \/ QueryGeometry \/ AskDiskExtents \/ AskEnumerate \/ Fail
         => pc' \in {"load", "query", "open", "ioctl", "find", "failed"}
    BY DEF CacheHit, CacheMiss, QueryGeometry, AskDiskExtents, AskEnumerate, Fail
  <2>15. ~(DisksFit \/ MoreDisks \/ FindVolume)
    BY <2>2 DEF DisksFit, MoreDisks, FindVolume, CallsOK
  <2>. QED
    BY <1>3, <2>8, <2>9, <2>10, <2>11, <2>12, <2>13, <2>14, <2>15, <2>17, Kinds
<1>. QED
    BY <1>1, <1>2, <1>3

-----------------------------------------------------------------------------
(* The volumes found. *)

LEMMA ListTyped ==
    ASSUME TypeOK
    PROVE  /\ Len(listed) \in Nat /\ DOMAIN listed = 1..Len(listed) /\ listed \in Seq(Range(listed))
           /\ \A m \in DOMAIN listed : listed[m].guid \in BOOLEAN
<1>1. listed \in Seq(Range(listed)) /\ \A m \in DOMAIN listed : listed[m].guid \in BOOLEAN
    BY Types, QueryAssumption
<1>. QED
    BY <1>1

\* The volume at `next` is found, or passed over.
LEMMA FoundTyped ==
    ASSUME TypeOK, SequencesOK, FindVolume
    PROVE  /\ next \in DOMAIN listed /\ next' = next + 1 /\ UNCHANGED listed
           /\ IF listed[next].guid
              THEN \E e \in Found : found' = Append(found, e) /\ e.name = listed[next].name
              ELSE found' = found
<1>1. next <= Len(listed) /\ next' = next + 1 /\ UNCHANGED listed
    BY DEF FindVolume, diskVars
<1>2. next \in DOMAIN listed
    BY <1>1, Types, ListTyped
<1>3. PICK mount \in {listed[next].mount, ""} :
          found' = IF listed[next].guid
                   THEN Append(found, [name |-> listed[next].name, mount |-> mount]) ELSE found
    BY DEF FindVolume
<1>4. [name |-> listed[next].name, mount |-> mount] \in Found
    BY <1>2 DEF Found
<1>. QED
    BY <1>1, <1>2, <1>3, <1>4

\* SequencesOK is kept.
LEMMA SequencesStay ==
    ASSUME TypeOK, HandlesOK, SequencesOK, [Next]_vars
    PROVE  SequencesOK'
<1>1. out' \in Seq(Extents)
  <2>1. UNCHANGED out \/ AskFileExtents \/ Fail => out' \in {out, << >>}
    BY DEF AskFileExtents, Fail
  <2>3. out \in Seq(Extents) /\ << >> \in Seq(Extents)
    BY DEF SequencesOK
  <2>2. Page \/ StalePage => out' \in Seq(Extents)
    BY PageTyped
  <2>. QED
    BY <2>1, <2>2, <2>3, Changes
<1>2. found' \in Seq(Found)
  <2>1. UNCHANGED <<found, next>> \/ AskEnumerate => found' \in {found, << >>}
    BY DEF AskEnumerate
  <2>3. found \in Seq(Found) /\ << >> \in Seq(Found)
    BY DEF SequencesOK
  <2>2. ASSUME FindVolume PROVE found' \in Seq(Found)
    <3>1. found \in Seq(Found)
      BY DEF SequencesOK
    <3>2. CASE listed[next].guid
      <4>1. PICK e \in Found : found' = Append(found, e)
        BY <2>2, <3>2, FoundTyped
      <4>. QED
        BY <3>1, <4>1, Appended
    <3>3. CASE ~listed[next].guid
      BY <2>2, <3>1, <3>3, FoundTyped
    <3>. QED
      BY <3>2, <3>3
  <2>. QED
    BY <2>1, <2>2, <2>3, Changes
<1>3. Found' = Found
    BY Changes DEF Found
<1>. QED
    BY <1>1, <1>2, <1>3 DEF SequencesOK

\* When the volume at `next` is looked at, it joins those found before it.
LEMMA FindsNext ==
    ASSUME TypeOK, SequencesOK, FoundBefore(next), FindVolume
    PROVE  FoundBefore(next)'
<1>1. /\ next \in DOMAIN listed /\ next' = next + 1 /\ UNCHANGED listed /\ next \in Nat
      /\ IF listed[next].guid
         THEN \E e \in Found : found' = Append(found, e) /\ e.name = listed[next].name
         ELSE found' = found
    BY FoundTyped, Types, ListTyped
<1>2. WithGuid' = WithGuid /\ WithGuid \subseteq Nat
    BY <1>1, ListTyped DEF WithGuid
<1>3. PICK at \in [DOMAIN found -> WithGuid] :
        /\ \A i \in DOMAIN found : found[i].name = listed[at[i]].name /\ at[i] < next
        /\ \A i, j \in DOMAIN found : i < j => at[i] < at[j]
        /\ \A m \in WithGuid : m < next => \E i \in DOMAIN found : at[i] = m
    BY DEF FoundBefore
<1>. DEFINE k == Len(found)
<1>4. found \in Seq(Found) /\ k \in Nat /\ DOMAIN found = 1..k
    BY DEF SequencesOK
<1>5. CASE listed[next].guid
  <2>1. next \in WithGuid
    BY <1>1, <1>5 DEF WithGuid
  <2>2. PICK e \in Found : found' = Append(found, e) /\ e.name = listed[next].name
    BY <1>1, <1>5
  <2>. DEFINE to == [i \in 1..(k + 1) |-> IF i \in 1..k THEN at[i] ELSE next]
  <2>3. /\ DOMAIN found' = 1..(k + 1) /\ found'[k + 1] = e /\ \A i \in 1..k : found'[i] = found[i]
    <3>1. found' \in Seq(Found) /\ Len(found') = k + 1 /\ found'[k + 1] = e
          /\ \A i \in 1..k : found'[i] = found[i]
      BY <1>4, <2>2, Appended
    <3>. QED
      BY <3>1
  <2>4. to[k + 1] = next /\ \A i \in 1..k : to[i] = at[i]
    BY <1>4
  <2>5. \A i \in 1..(k + 1) : i = k + 1 \/ i \in 1..k
    BY <1>4
  <2>6. \A i \in 1..k : at[i] \in WithGuid /\ at[i] \in Nat
    BY <1>2, <1>3, <1>4
  <2>7. to \in [1..(k + 1) -> WithGuid]
    BY <2>1, <2>6
  <2>. HIDE DEF to, k
  <2>8. \A i \in 1..(k + 1) : found'[i].name = listed[to[i]].name /\ to[i] < next + 1
    <3>1. found'[k + 1].name = listed[to[k + 1]].name /\ to[k + 1] < next + 1
      BY <1>1, <2>2, <2>3, <2>4
    <3>2. ASSUME NEW i \in 1..k PROVE found'[i].name = listed[to[i]].name /\ to[i] < next + 1
      <4>1. found[i].name = listed[at[i]].name /\ at[i] < next
        BY <1>3, <1>4
      <4>. QED
        BY <1>1, <2>3, <2>4, <2>6, <4>1
    <3>. QED
      BY <2>5, <3>1, <3>2
  <2>9. ASSUME NEW i \in 1..(k + 1), NEW j \in 1..(k + 1), i < j PROVE to[i] < to[j]
    <3>1. i \in 1..k /\ to[i] = at[i]
      BY <1>4, <2>4, <2>9
    <3>2. CASE j = k + 1
      BY <1>3, <1>4, <2>4, <3>1, <3>2
    <3>3. CASE j \in 1..k
      BY <1>3, <1>4, <2>4, <2>9, <3>1, <3>3
    <3>. QED
      BY <2>5, <3>2, <3>3
  <2>10. ASSUME NEW m \in WithGuid, m < next + 1 PROVE \E i \in 1..(k + 1) : to[i] = m
    <3>1. m = next \/ m < next
      BY <1>1, <1>2, <2>10
    <3>2. CASE m = next
      BY <1>4, <2>4, <3>2
    <3>3. CASE m < next
      <4>1. PICK i \in 1..k : at[i] = m
        BY <1>3, <1>4, <3>3
      <4>. QED
        BY <1>4, <2>4, <4>1
    <3>. QED
      BY <3>1, <3>2, <3>3
  <2>11. /\ to \in [DOMAIN found' -> WithGuid']
         /\ \A i \in DOMAIN found' : found'[i].name = listed'[to[i]].name /\ to[i] < next'
         /\ \A i, j \in DOMAIN found' : i < j => to[i] < to[j]
         /\ \A m \in WithGuid' : m < next' => \E i \in DOMAIN found' : to[i] = m
    BY <1>1, <1>2, <2>3, <2>7, <2>8, <2>9, <2>10
  <2>. QED
    BY <2>11, Zenon DEF FoundBefore
<1>6. CASE ~listed[next].guid
  <2>1. found' = found /\ next \notin WithGuid
    BY <1>1, <1>6 DEF WithGuid
  <2>2. \A m \in WithGuid : m < next + 1 => m < next
    BY <1>1, <1>2, <2>1
  <2>3. \A i \in DOMAIN found : at[i] < next + 1
    <3>1. \A i \in DOMAIN found : at[i] \in Nat /\ at[i] < next
      BY <1>2, <1>3
    <3>. QED
      BY <1>1, <3>1
  <2>. QED
    BY <1>1, <1>2, <1>3, <2>1, <2>2, <2>3 DEF FoundBefore
<1>. QED
    BY <1>5, <1>6

\* FoundOK is kept.
LEMMA FoundStays ==
    ASSUME TypeOK, SequencesOK, CallsOK, FoundOK, [Next]_vars
    PROVE  FoundOK'
<1>1. listed' = listed /\ Len(listed) \in Nat
    BY Changes, ListTyped
<1>2. CASE UNCHANGED <<pc, query, found, next>>
  <2>1. FoundBefore(next)' <=> FoundBefore(next)
    BY <1>1, <1>2 DEF FoundBefore, WithGuid
  <2>. QED
    BY <1>1, <1>2, <2>1 DEF FoundOK
<1>3. CASE pc' \in {"idle", "load", "query", "open", "page", "ioctl", "failed"}
    BY <1>3 DEF FoundOK
<1>4. CASE AskEnumerate /\ pc' = "find"
  <2>1. found' = << >> /\ next' = 1 /\ UNCHANGED query /\ listed # << >>
    BY <1>4 DEF AskEnumerate
  <2>2. FoundBefore(next)'
    <3>1. \A m \in WithGuid' : ~(m < 1)
      BY <1>1, ListTyped DEF WithGuid
    <3>. DEFINE none == [i \in {} |-> 1]
    <3>2. none \in [{} -> WithGuid'] /\ DOMAIN found' = {}
      BY <2>1
    <3>. HIDE DEF none
    <3>. QED
      BY <2>1, <3>1, <3>2 DEF FoundBefore
  <2>3. 1 <= Len(listed) /\ 0 < maxVolumes
    <3>1. listed \in Seq(Range(listed))
      BY ListTyped
    <3>. QED
      BY <2>1, <3>1, QueryAssumption
  <2>. QED
    BY <1>1, <1>4, <2>1, <2>2, <2>3 DEF FoundOK
<1>5. CASE FindVolume
  <2>1. pc = "find" /\ query.call = "EnumerateVolumes" /\ UNCHANGED query
    BY <1>5 DEF FindVolume, CallsOK
  <2>2. FoundBefore(next)'
    <3>1. FoundBefore(next)
      BY <2>1 DEF FoundOK
    <3>. QED
      BY <1>5, <3>1, FindsNext
  <2>3. /\ next \in 1..Len(listed) /\ next' = next + 1
        /\ pc' = IF next = Len(listed) \/ Len(found') = maxVolumes THEN "returned" ELSE "find"
    <3>1. /\ next <= Len(listed) /\ next' = next + 1
          /\ pc' = IF next = Len(listed) \/ Len(found') = maxVolumes THEN "returned" ELSE "find"
      BY <1>5 DEF FindVolume
    <3>2. next \in 1..(Len(listed) + 1)
      BY Types
    <3>. QED
      BY <1>1, <3>1, <3>2
  <2>4. Len(found') \in Nat /\ Len(found') <= maxVolumes
    <3>1. found \in Seq(Found) /\ Len(found) < maxVolumes
      BY <2>1 DEF SequencesOK, FoundOK
    <3>2. CASE listed[next].guid
      <4>1. PICK e \in Found : found' = Append(found, e)
        BY <1>5, <3>2, FoundTyped
      <4>2. Len(found') = Len(found) + 1
        BY <3>1, <4>1, Appended
      <4>. QED
        BY <3>1, <4>2, QueryAssumption
    <3>3. CASE ~listed[next].guid
      BY <1>5, <3>1, <3>3, FoundTyped, QueryAssumption
    <3>. QED
      BY <3>2, <3>3
  <2>5. pc' = "find" => Len(found') < maxVolumes /\ next' <= Len(listed)
    BY <1>1, <2>3, <2>4, QueryAssumption
  <2>6. pc' = "returned" => next' = Len(listed) + 1 \/ Len(found') = maxVolumes
    BY <2>3
  <2>. QED
    BY <1>1, <2>2, <2>5, <2>6 DEF FoundOK
<1>6. CASE pc' = "returned" /\ query'.call # "EnumerateVolumes"
    BY <1>6 DEF FoundOK
<1>7. CopyDeleted \/ CopyCreated \/ LiveFileChanges \/ DisksChange \/ UNCHANGED vars
      => UNCHANGED <<pc, query, found, next>>
    BY DEF CopyDeleted, CopyCreated, LiveFileChanges, DisksChange, vars, otherVars
<1>8. AskFileExtents \/ AskDiskExtents \/ CacheHit \/ CacheMiss \/ QueryGeometry \/ OpenFile \/ MoreDisks \/ Fail
      => pc' \in {"idle", "load", "query", "open", "page", "ioctl", "failed"}
    BY DEF AskFileExtents, AskDiskExtents, CacheHit, CacheMiss, QueryGeometry, OpenFile, MoreDisks, Fail
<1>9. AskEnumerate => pc' \in {"failed", "find"}
    BY DEF AskEnumerate
<1>10. EndOfFile \/ Page \/ StalePage \/ EmptyPage
       => pc' \in {"page", "returned"} /\ query'.call # "EnumerateVolumes"
    BY DEF EndOfFile, Page, StalePage, EmptyPage, TakeFrom, CallsOK
<1>11. DisksFit => pc' = "returned" /\ query'.call # "EnumerateVolumes"
    BY DEF DisksFit, CallsOK
<1>. QED
    BY <1>2, <1>3, <1>4, <1>5, <1>6, <1>7, <1>8, <1>9, <1>10, <1>11, Kinds

\* An increasing list of as many places as there are names all of them.
LEMMA AllOfThem ==
    ASSUME NEW k \in Nat, NEW W, \A m \in W : m \in Nat, IsFiniteSet(W), Cardinality(W) <= k,
           NEW at, at \in [1..k -> W], \A i \in 1..k : \A j \in 1..k : i < j => at[i] < at[j]
    PROVE  \A m \in W : \E i \in 1..k : at[i] = m
<1>1. ASSUME NEW i \in 1..k, NEW j \in 1..k, at[i] = at[j] PROVE i = j
  <2>1. at[i] \in Nat /\ at[j] \in Nat
    OBVIOUS
  <2>2. ~(i < j) /\ ~(j < i)
    BY <1>1, <2>1
  <2>. QED
    BY <2>2
<1>2. at \in Injection(1..k, W)
    BY <1>1 DEF Injection, IsInjective
<1>3. IsFiniteSet(1..k) /\ Cardinality(1..k) = k
    BY FS_Interval
<1>4. Cardinality(W) \in Nat
    BY FS_CardinalityType
<1>5. Cardinality(1..k) <= Cardinality(W) /\ (Cardinality(1..k) = Cardinality(W) <=> at \in Surjection(1..k, W))
    BY <1>2, FS_Injection
<1>6. at \in Surjection(1..k, W)
    BY <1>3, <1>4, <1>5
<1>. QED
    BY <1>6 DEF Surjection

-----------------------------------------------------------------------------
(* The types. *)

LEMMA SystemTyped ==
    ASSUME TypeOK, CallsOK, [Next]_vars
    PROVE  /\ (holder \in Copies \cup {None} /\ gone \subseteq Copies /\ holder \notin gone)'
           /\ (size \in [Volumes -> Sizes] /\ file \in [Volumes -> Layouts])'
           /\ (disks \in 0..MaxDisks /\ listed \in Listed)'
<1>1. (holder \in Copies \cup {None} /\ gone \subseteq Copies /\ holder \notin gone)'
  <2>1. CASE CopyDeleted
    <3>1. holder \in Copies /\ None \notin Copies
      BY <2>1, Types, Names DEF CopyDeleted
    <3>. QED
      BY <2>1, <3>1, Types DEF CopyDeleted
  <2>2. CASE CopyCreated
    BY <2>2, Types DEF CopyCreated
  <2>3. CASE UNCHANGED <<holder, gone>>
    BY <2>3, Types
  <2>. QED
    BY <2>1, <2>2, <2>3, Changes
<1>2. file' \in [Volumes -> Layouts]
  <2>1. CASE LiveFileChanges
    <3>1. PICK layout \in Layouts : file' = [file EXCEPT ![Live] = layout]
      BY <2>1 DEF LiveFileChanges
    <3>. QED
      BY <3>1, Types
  <2>2. CASE UNCHANGED file
    BY <2>2, Types
  <2>. QED
    BY <2>1, <2>2, Changes
<1>3. disks' \in 0..MaxDisks
    BY Changes DEF TypeOK, DisksChange
<1>. QED
    BY <1>1, <1>2, <1>3, Types, Changes

LEMMA CacheTyped ==
    ASSUME TypeOK, [Next]_vars
    PROVE  (DOMAIN cache \subseteq Keys /\ Range(cache) \subseteq Sizes)'
<1>1. CASE UNCHANGED cache
    BY <1>1 DEF TypeOK, Range
<1>2. CASE QueryGeometry
  <2>. DEFINE key == cacheKey(query)
  <2>1. key \in Keys /\ size[Behind] \in Sizes
    BY <1>2, BehindTyped, Types DEF QueryGeometry, cacheKey, Keys
  <2>2. cache' = [k \in DOMAIN cache \cup {key} |-> IF k = key THEN size[Behind] ELSE cache[k]]
    BY <1>2 DEF QueryGeometry
  <2>3. DOMAIN cache' \subseteq Keys
    BY <2>1, <2>2, Types
  <2>4. ASSUME NEW k \in DOMAIN cache' PROVE cache'[k] \in Sizes
    BY <2>1, <2>2, Types
  <2>. QED
    BY <2>3, <2>4 DEF Range
<1>. QED
    BY <1>1, <1>2, Changes

LEMMA QueryTyped ==
    ASSUME TypeOK, CallsOK, [Next]_vars
    PROVE  (query \in [call : Calls, volume : Volumes, id : BOOLEAN])'
<1>1. query \in [call : Calls, volume : Volumes, id : BOOLEAN]
    BY DEF TypeOK
<1>2. CASE AskFileExtents
  <2>1. CASE UNCHANGED query
    BY <1>1, <2>1
  <2>2. CASE query.call = "Snapshot.FileExtents"
    <3>1. holder \in Volumes
      BY <1>2, <2>2, Types, Names DEF AskFileExtents
    <3>2. PICK id \in BOOLEAN : query' = [query EXCEPT !.volume = holder, !.id = id]
      BY <1>2, <2>2 DEF AskFileExtents
    <3>. QED
      BY <1>1, <3>1, <3>2
  <2>. QED
    BY <1>2, <2>1, <2>2 DEF AskFileExtents
<1>. QED
    BY <1>1, <1>2, Changes

LEMMA PcTyped ==
    ASSUME TypeOK, [Next]_vars
    PROVE  (pc \in {"idle", "load", "query", "open", "page", "ioctl", "find", "returned", "failed"})'
<1>1. CASE UNCHANGED pc
    BY <1>1 DEF TypeOK
<1>2. CopyDeleted \/ CopyCreated \/ LiveFileChanges \/ DisksChange \/ MoreDisks \/ UNCHANGED vars
      => UNCHANGED pc
    BY DEF CopyDeleted, CopyCreated, LiveFileChanges, DisksChange, MoreDisks, vars
<1>3. AskFileExtents \/ CacheHit \/ CacheMiss \/ QueryGeometry \/ OpenFile
      => pc' \in {"load", "query", "open", "page"}
    BY DEF AskFileExtents, CacheHit, CacheMiss, QueryGeometry, OpenFile
<1>4. AskDiskExtents \/ AskEnumerate \/ EndOfFile \/ EmptyPage \/ Fail
      => pc' \in {"ioctl", "find", "returned", "failed"}
    BY DEF AskDiskExtents, AskEnumerate, EndOfFile, EmptyPage, Fail
<1>5. DisksFit \/ FindVolume => pc' \in {"find", "returned"}
    BY DEF DisksFit, FindVolume
<1>6. Page \/ StalePage => pc' = "returned" \/ UNCHANGED pc
    BY DEF Page, StalePage, TakeFrom
<1>. QED
    BY <1>1, <1>2, <1>3, <1>4, <1>5, <1>6, Kinds

LEMMA FileTyped ==
    ASSUME TypeOK, SequencesOK, HandlesOK, [Next]_vars
    PROVE  (/\ cs \in Sizes \cup {0} /\ opened \in Volumes \cup {None} /\ vcn \in Nat
            /\ again \in BOOLEAN /\ astray \in BOOLEAN)'
<1>1. cs \in Sizes \cup {0} /\ opened \in Volumes \cup {None} /\ vcn \in Nat
    BY DEF TypeOK
<1>2. cs' \in Sizes \cup {0}
  <2>1. CacheHit => cs' \in Sizes
    BY Types DEF CacheHit
  <2>2. QueryGeometry => cs' \in Sizes
    BY Types, BehindTyped DEF QueryGeometry
  <2>3. AskFileExtents \/ Fail => cs' = 0
    BY DEF AskFileExtents, Fail
  <2>. QED
    BY <1>1, <2>1, <2>2, <2>3, Changes
<1>3. opened' \in Volumes \cup {None}
  <2>1. OpenFile => opened' \in Volumes
    BY BehindTyped DEF OpenFile
  <2>2. AskFileExtents \/ Fail => opened' = None
    BY DEF AskFileExtents, Fail
  <2>. QED
    BY <1>1, <2>1, <2>2, Changes
<1>4. vcn' \in Nat
  <2>1. AskFileExtents \/ OpenFile \/ Fail => vcn' = 0
    BY DEF AskFileExtents, OpenFile, Fail
  <2>2. Page \/ StalePage => vcn' \in Nat
    BY PageTyped
  <2>. QED
    BY <1>1, <2>1, <2>2, Changes
<1>5. again' \in BOOLEAN
  <2>1. again \in BOOLEAN
    BY DEF TypeOK
  <2>2. Page \/ StalePage => again' \in {again, ~again}
    BY DEF Page, StalePage, TakeFrom
  <2>3. AskFileExtents \/ Fail => again' = FALSE
    BY DEF AskFileExtents, Fail
  <2>. QED
    BY <2>1, <2>2, <2>3, Changes
<1>6. astray' \in BOOLEAN
  <2>1. astray \in BOOLEAN
    BY DEF TypeOK
  <2>2. StalePage \/ EmptyPage \/ AskFileExtents \/ Fail => astray' \in BOOLEAN
    BY DEF StalePage, EmptyPage, AskFileExtents, Fail
  <2>. QED
    BY <2>1, <2>2, Changes
<1>. QED
    BY <1>2, <1>3, <1>4, <1>5, <1>6

LEMMA DisksTyped ==
    ASSUME TypeOK, [Next]_vars
    PROVE  (room \in {FirstRoom} \cup 0..MaxDisks /\ answer \in 0..room)'
<1>1. /\ room \in {FirstRoom} \cup 0..MaxDisks /\ answer \in 0..room /\ disks \in 0..MaxDisks
      /\ FirstRoom \in Nat /\ MaxDisks \in Nat
    BY QueryAssumption DEF TypeOK
<1>2. CASE AskDiskExtents
    BY <1>1, <1>2 DEF AskDiskExtents
<1>3. CASE DisksFit
    BY <1>1, <1>3 DEF DisksFit
<1>4. CASE MoreDisks
  <2>1. PICK count \in 0..MaxDisks : count > room /\ room' = count
    BY <1>4 DEF MoreDisks
  <2>2. answer' = answer
    BY <1>4 DEF MoreDisks
  <2>. QED
    BY <1>1, <2>1, <2>2
<1>5. CASE UNCHANGED <<room, answer>>
    BY <1>1, <1>5
<1>. QED
    BY <1>2, <1>3, <1>4, <1>5, Changes

LEMMA PlaceTyped ==
    ASSUME TypeOK, SequencesOK, CallsOK, FoundOK, [Next]_vars
    PROVE  (Len(found) <= maxVolumes /\ next \in 1..(Len(listed) + 1))'
<1>1. listed' = listed /\ Len(listed) \in Nat
    BY Changes, ListTyped
<1>2. CASE UNCHANGED <<found, next>>
    BY <1>1, <1>2 DEF TypeOK
<1>3. CASE AskEnumerate
  <2>1. found' = << >> /\ next' = 1
    BY <1>3 DEF AskEnumerate
  <2>2. Len(found') = 0 /\ 0 <= maxVolumes
    BY <2>1, QueryAssumption
  <2>. QED
    BY <1>1, <2>1, <2>2
<1>4. CASE FindVolume
  <2>1. found \in Seq(Found) /\ Len(found) < maxVolumes /\ Len(found) \in Nat
    <3>1. pc = "find"
      BY <1>4 DEF FindVolume
    <3>2. found \in Seq(Found) /\ Len(found) < maxVolumes
      BY <3>1 DEF FoundOK, SequencesOK
    <3>. QED
      BY <3>2
  <2>2. Len(found') <= maxVolumes
    <3>1. CASE listed[next].guid
      <4>1. PICK e \in Found : found' = Append(found, e)
        BY <1>4, <3>1, FoundTyped
      <4>2. Len(found') = Len(found) + 1
        BY <2>1, <4>1, Appended
      <4>. QED
        BY <2>1, <4>2, QueryAssumption
    <3>2. CASE ~listed[next].guid
      BY <1>4, <2>1, <3>2, FoundTyped, QueryAssumption
    <3>. QED
      BY <3>1, <3>2
  <2>3. next' \in 1..(Len(listed) + 1)
    BY <1>1, <1>4, FoundTyped, ListTyped
  <2>. QED
    BY <1>1, <2>2, <2>3
<1>. QED
    BY <1>2, <1>3, <1>4, Changes

LEMMA ExtentsTyped ==
    ASSUME NEW es \in Seq(Extents)
    PROVE  \A n \in DOMAIN es : es[n].FileOffset \in Nat /\ es[n].VolumeOffset \in Nat /\ es[n].Length > 0
<1>1. \A n \in DOMAIN es : es[n] \in Extents
    OBVIOUS
<1>. QED
    BY <1>1 DEF Extents

\* TypeOK is kept.
LEMMA TypesStay ==
    ASSUME TypeOK, SequencesOK, CallsOK, HandlesOK, FoundOK, [Next]_vars, SequencesOK'
    PROVE  TypeOK'
<1>1. (\A n \in DOMAIN out : out[n].FileOffset \in Nat /\ out[n].VolumeOffset \in Nat /\ out[n].Length > 0)'
    BY ExtentsTyped DEF SequencesOK
<1>. QED
    BY <1>1, SystemTyped, CacheTyped, QueryTyped, PcTyped, FileTyped, DisksTyped, PlaceTyped DEF TypeOK

-----------------------------------------------------------------------------
(* The theorems. *)

LEMMA InitIInv ==
    ASSUME Init
    PROVE  IInv
<1>1. /\ query \in [call : Calls, volume : {Live}, id : {TRUE}] /\ pc = "idle" /\ gone = {} /\ cache = << >>
      /\ cs = 0 /\ opened = None /\ vcn = 0 /\ out = << >> /\ room = FirstRoom /\ answer = 0
      /\ again = FALSE /\ astray = FALSE /\ found = << >> /\ next = 1
    BY DEF Init
<1>2. query.call \in Calls /\ query.volume = Live /\ query.id = TRUE
    BY <1>1
<1>3. holder \in Copies \cup {None} /\ size \in [Volumes -> Sizes] /\ file \in [Volumes -> Layouts]
  <2>1. CASE query.call = "Snapshot.FileExtents"
    BY <2>1 DEF Init
  <2>2. CASE query.call # "Snapshot.FileExtents"
    <3>1. holder = None /\ \E s \in Sizes, layout \in Layouts :
                size = [v \in Volumes |-> s] /\ file = [v \in Volumes |-> layout]
      BY <2>2 DEF Init
    <3>. QED
      BY <3>1
  <2>. QED
    BY <2>1, <2>2
<1>4. disks \in 0..MaxDisks
    BY QueryAssumption DEF Init
<1>5. listed \in Listed \cup {<< >>}
    BY DEF Init
<1>6. TypeOK
  <2>1. listed \in Listed
    BY <1>5, QueryAssumption
  <2>2. DOMAIN cache = {} /\ Range(cache) = {} /\ DOMAIN out = {}
    BY <1>1 DEF Range
  <2>3. query \in [call : Calls, volume : Volumes, id : BOOLEAN]
    BY <1>1, Names
  <2>4. Len(found) <= maxVolumes /\ next \in 1..(Len(listed) + 1)
    <3>1. Len(listed) \in Nat
      BY <2>1, QueryAssumption
    <3>. QED
      BY <1>1, <3>1, QueryAssumption
  <2>5. room \in {FirstRoom} \cup 0..MaxDisks /\ answer \in 0..room
    BY <1>1, QueryAssumption
  <2>. QED
    BY <1>1, <1>3, <1>4, <2>1, <2>2, <2>3, <2>4, <2>5 DEF TypeOK
<1>7. SequencesOK
  <2>1. << >> \in Seq(Extents) /\ << >> \in Seq(Found)
    OBVIOUS
  <2>. QED
    BY <1>1, <2>1 DEF SequencesOK
<1>8. CallsOK /\ CacheTrue /\ HandlesOK /\ PagesOK /\ FoundOK
    BY <1>1, <1>2 DEF CallsOK, CacheTrue, HandlesOK, PagesOK, FoundOK
<1>. QED
    BY <1>6, <1>7, <1>8 DEF IInv

LEMMA NextIInv ==
    ASSUME IInv, [Next]_vars
    PROVE  IInv'
<1>1. TypeOK /\ SequencesOK /\ CallsOK /\ CacheTrue /\ HandlesOK /\ PagesOK /\ FoundOK
    BY DEF IInv
<1>2. SequencesOK'
    BY <1>1, SequencesStay
<1>3. TypeOK'
    BY <1>1, <1>2, TypesStay
<1>. QED
    BY <1>1, <1>2, <1>3, CallsStay, CacheStays, HandlesStay, PagesStay, FoundStays DEF IInv

\* The invariant holds in every state of every behaviour.
THEOREM Invariant == Spec => []IInv
<1>. QED
    BY InitIInv, NextIInv, PTL DEF Spec

\* Every variable keeps its type: what FileExtents returns is never an extent
\* without a cluster, and neither DiskExtents nor EnumerateVolumes leaves its
\* bounds.
THEOREM TypeCorrect == Spec => []TypeOK
<1>1. IInv => TypeOK
    BY DEF IInv
<1>. QED
    BY <1>1, Invariant, PTL

\* FileExtents of a snapshot that is still there answers exactly where the
\* clusters of the file are (Snapshot.FileExtents), for every layout, page size
\* and cluster size, as long as each reply is of what was asked.
THEOREM Exact == Spec => []ExactExtents
<1>1. ASSUME IInv PROVE ExactExtents
  <2>1. SUFFICES ASSUME pc = "returned", query.call = "Snapshot.FileExtents", query.id, query.volume = holder,
                        ~astray
                 PROVE  LET layout == file[holder]
                        IN  /\ TrueOf(out, layout, size[holder])
                            /\ \A v \in 0..(Len(layout) - 1) :
                                  layout[v + 1] # Hole => Covered(out, size[holder], v)
                            /\ \A n \in 1..(Len(out) - 1) :
                                  out[n].FileOffset + out[n].Length <= out[n + 1].FileOffset
    BY DEF ExactExtents
  <2>2. ExactTo(out, file[holder], size[holder], Len(file[holder]))
    BY <1>1, <2>1 DEF IInv, PagesOK
  <2>. QED
    BY <2>2 DEF ExactTo, Ordered
<1>. QED
    BY <1>1, Invariant, PTL

\* EnumerateVolumes lists every volume of the system once and in order, for
\* every list of volumes that is within its limit.
THEOREM Enumerates == Spec => []EnumeratesAll
<1>1. ASSUME IInv PROVE EnumeratesAll
  <2>1. SUFFICES ASSUME pc = "returned", query.call = "EnumerateVolumes", Cardinality(WithGuid) <= maxVolumes
                 PROVE  \E at \in [DOMAIN found -> WithGuid] :
                           /\ \A n \in DOMAIN found : found[n].name = listed[at[n]].name
                           /\ \A n, o \in DOMAIN found : n < o => at[n] < at[o]
                           /\ \A m \in WithGuid : \E n \in DOMAIN found : at[n] = m
    BY DEF EnumeratesAll
  <2>2. PICK at \in [DOMAIN found -> WithGuid] :
            /\ \A i \in DOMAIN found : found[i].name = listed[at[i]].name /\ at[i] < next
            /\ \A i, j \in DOMAIN found : i < j => at[i] < at[j]
            /\ \A m \in WithGuid : m < next => \E i \in DOMAIN found : at[i] = m
    BY <1>1, <2>1 DEF IInv, FoundOK, FoundBefore
  <2>3. found \in Seq(Found) /\ DOMAIN found = 1..Len(found) /\ Len(found) \in Nat
    BY <1>1 DEF IInv, SequencesOK
  <2>4. WithGuid \subseteq 1..Len(listed) /\ Len(listed) \in Nat
    BY <1>1, ListTyped DEF IInv, WithGuid
  <2>5. \A m \in WithGuid : \E n \in DOMAIN found : at[n] = m
    <3>1. CASE next = Len(listed) + 1
      <4>1. \A m \in WithGuid : m < next
        BY <2>4, <3>1
      <4>. QED
        BY <2>2, <4>1
    <3>2. CASE Len(found) = maxVolumes
      <4>. DEFINE k == Len(found)
                  W == WithGuid
                  S == 1..Len(listed)
      <4>1. IsFiniteSet(S) /\ W \in SUBSET S /\ W \subseteq Nat
        BY <2>4, FS_Interval
      <4>2. IsFiniteSet(W) /\ \A m \in W : m \in Nat
        <5>. HIDE DEF S, W
        <5>. QED
          BY <4>1, FS_Subset
      <4>3. k \in Nat /\ at \in [1..k -> W] /\ Cardinality(W) <= k
        BY <2>1, <2>3, <3>2
      <4>4. \A i \in 1..k : \A j \in 1..k : i < j => at[i] < at[j]
        BY <2>2, <2>3
      <4>. HIDE DEF k, W
      <4>5. \A m \in W : \E i \in 1..k : at[i] = m
        BY <4>2, <4>3, <4>4, AllOfThem
      <4>. QED
        BY <2>3, <4>5 DEF k, W
    <3>. QED
      BY <1>1, <2>1, <3>1, <3>2 DEF IInv, FoundOK
  <2>. QED
    BY <2>2, <2>5
<1>. QED
    BY <1>1, Invariant, PTL

\* What a page adds is true of the file on the live volume as it is at that
\* moment, whatever the file was when the pages before were read
\* (fileExtentsUnder).
THEOREM OfTheMoment == Spec => ExtentsOfTheMoment
<1>1. ASSUME IInv, [Next]_vars, out' # out, out' # << >>, query.volume = Live
      PROVE  TrueOf(SubSeq(out', Len(out) + 1, Len(out')), file[Live], size[Live])
  <2>1. Page \/ StalePage
    BY <1>1, Changes DEF AskFileExtents, Fail
  <2>2. /\ TypeOK /\ HandlesOK /\ out \in Seq(Extents)
    BY <1>1 DEF IInv, SequencesOK
  <2>. DEFINE layout == file[Live]
              s == size[Live]
  <2>3. pc = "page" /\ opened = Live /\ cs = s
    BY <1>1, <2>1, <2>2 DEF Page, StalePage, HandlesOK, There
  <2>13. PICK reply : \E v \in Nat : Accepted(reply, layout, v)
    BY <2>1, <2>2, <2>3, PageOf
  <2>14. PICK v \in Nat : Accepted(reply, layout, v)
    BY <2>13
  <2>4. /\ Genuine(reply, layout, v) /\ Monotonic(reply.start, reply.runs)
        /\ out' = appendRuns(out, reply.start, reply.runs, s)
    BY <2>3, <2>14 DEF Accepted
  <2>5. layout \in Seq(Cluster) /\ s \in Nat \ {0} /\ vcn \in Nat
    BY <2>2, Names, Types
  <2>. HIDE DEF layout, s
  <2>6. reply.start \in Nat /\ reply.runs \in Seq(Run)
    BY <2>4, <2>5 DEF Genuine
  <2>7. AppendedUpTo(out', Len(reply.runs), out, reply.start, reply.runs, s)
    BY <2>2, <2>4, <2>5, <2>6, AppendRuns
  <2>8. /\ out' \in Seq(Extents) /\ Len(out) <= Len(out') /\ Len(out) \in Nat /\ Len(out') \in Nat
        /\ \A i \in (Len(out) + 1)..Len(out') :
              \E m \in 1..Len(reply.runs) : reply.runs[m].LCN >= 0 /\ out'[i] = ExtentOf(reply.start, reply.runs, m, s)
    <3>1. out' \in Seq(Extents)
      BY <2>7 DEF AppendedUpTo
    <3>. QED
      BY <2>2, <2>7, <3>1 DEF AppendedUpTo
  <2>9. \A i \in (Len(out) + 1)..Len(out') : TrueExtent(out'[i], layout, s)
    BY <2>4, <2>5, <2>8, GenuineIsTrue
  <2>. DEFINE new == SubSeq(out', Len(out) + 1, Len(out'))
  <2>10. /\ DOMAIN new = 1..(Len(out') - Len(out))
         /\ \A i \in 1..(Len(out') - Len(out)) : new[i] = out'[Len(out) + i]
    BY <2>8
  <2>. HIDE DEF new
  <2>11. \A i \in DOMAIN new : TrueExtent(new[i], layout, s)
    <3>1. \A i \in 1..(Len(out') - Len(out)) : Len(out) + i \in (Len(out) + 1)..Len(out')
      BY <2>8
    <3>. QED
      BY <2>9, <2>10, <3>1
  <2>12. TrueOf(new, layout, s)
    BY <2>11, TrueEach
  <2>. QED
    BY <2>12 DEF new, layout, s
<1>. QED
    BY <1>1, Invariant, PTL DEF Spec, ExtentsOfTheMoment
=============================================================================
