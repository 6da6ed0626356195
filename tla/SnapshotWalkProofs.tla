------------------------- MODULE SnapshotWalkProofs -------------------------
(***************************************************************************)
(* Proofs about SnapshotWalk, for trees of any size and any set of rules:  *)
(* a Walk that returns nil has accounted for every entry, the order of its *)
(* reports depends on the tree alone, and it does not leave the snapshot.  *)
(***************************************************************************)
EXTENDS SnapshotWalk, SequenceTheorems, WellFoundedInduction, TLAPS

Frame == [dir : Nodes, rest : SUBSET Entries]

Tree == \A n \in Entries : parent[n] < n /\ parent[n] \in Traversable

\* The calls of walkDir on the stack lead down from the root argument, each to
\* a directory among the entries of the call before it, whose remaining
\* entries come after it.
Down(i) ==
    /\ frames[i].dir \in Entries /\ kind[frames[i].dir] = "dir"
    /\ parent[frames[i].dir] = frames[i - 1].dir
    /\ \A b \in frames[i - 1].rest : frames[i].dir < b

Placed(i) ==
    /\ i = 1 => frames[i].dir = start
    /\ i > 1 => Down(i)
    /\ frames[i].rest \subseteq Children(frames[i].dir)
    /\ i <= frames[i].dir + 1
    /\ \A j \in 1..i : frames[j].dir \in Path(frames[i].dir)

Stack ==
    /\ Len(frames) = 0 <=> pc = "returned"
    /\ result = "none" <=> pc # "returned"
    /\ pc = "readDir" => Top.rest = {}
    /\ \A i \in 1..Len(frames) : Placed(i)

\* What is reported comes before what is still to come.
Ordered ==
    /\ \A i \in DOMAIN frames : \A b \in frames[i].rest :
          \A k \in DOMAIN log : Precedes(log[k].node, b)
    /\ pc = "readDir" =>
          \A k \in DOMAIN log : Precedes(log[k].node, Top.dir)
                                \/ (log[k].node = Top.dir /\ ~log[k].err)

\* The walk still has the entry before it, or a directory above it.
ToCome(n) ==
    \/ \E i \in DOMAIN frames : \E b \in frames[i].rest : b \in Path(n)
    \/ pc = "readDir" /\ Top.dir \in Above(n)

Accounted ==
    (result \in {"none", "nil"} /\ \A c \in skipped : ~c.err) =>
        \A n \in Below : CompleteBut(n) \/ ToCome(n)

IInv == TypeOK /\ Tree /\ Stack /\ StaysInside /\ Deterministic /\ Ordered /\ Accounted

-----------------------------------------------------------------------------
(* The least of a set, and stacks. *)

LEMMA LeastExists ==
    ASSUME NEW S \in SUBSET Nat, S # {}
    PROVE  Min(S) \in S /\ \A y \in S : Min(S) <= y
<1>1. IsWellFoundedOn({ss \in Nat \X Nat : ss[1] < ss[2]}, Nat)
    BY NatLessThanWellFounded DEF OpToRel
<1>2. PICK x \in S : \A y \in S : <<y, x>> \notin {ss \in Nat \X Nat : ss[1] < ss[2]}
    BY <1>1, WFMin
<1>3. x \in Nat /\ S \subseteq Nat
    BY <1>2
<1>4. ASSUME NEW y \in S
      PROVE  x <= y
  <2>1. <<y, x>> \in Nat \X Nat /\ <<y, x>>[1] = y /\ <<y, x>>[2] = x
    BY <1>3
  <2>2. ~(<<y, x>>[1] < <<y, x>>[2])
    BY <1>2, <2>1, Zenon
  <2>. QED
    BY <1>3, <2>1, <2>2
<1>. QED
    BY <1>2, <1>4 DEF Min

LEMMA Shortened ==
    ASSUME NEW F, NEW s \in Seq(F), Len(s) > 0
    PROVE  /\ SubSeq(s, 1, Len(s) - 1) \in Seq(F) /\ Len(SubSeq(s, 1, Len(s) - 1)) = Len(s) - 1
           /\ \A i \in 1..(Len(s) - 1) : SubSeq(s, 1, Len(s) - 1)[i] = s[i]
<1>1. SubSeq(s, 1, Len(s) - 1) \in Seq(F)
    OBVIOUS
<1>2. Len(SubSeq(s, 1, Len(s) - 1)) = Len(s) - 1
  <2>1. PICK n \in Nat : n = Len(s) - 1
    OBVIOUS
  <2>2. Len(SubSeq(s, 1, n)) = n
    BY <2>1
  <2>. QED
    BY <2>1, <2>2, Zenon
<1>3. \A i \in 1..(Len(s) - 1) : SubSeq(s, 1, Len(s) - 1)[i] = s[i]
    OBVIOUS
<1>. QED
    BY <1>1, <1>2, <1>3, Zenon

\* A stack with another innermost element, and one with one more.
WithLast(s, f) == Append(SubSeq(s, 1, Len(s) - 1), f)
WithMore(s, f) == Append(s, f)

LEMMA Grown ==
    ASSUME NEW F, NEW s \in Seq(F), NEW f \in F
    PROVE  /\ WithMore(s, f) \in Seq(F) /\ Len(WithMore(s, f)) = Len(s) + 1
           /\ WithMore(s, f)[Len(s) + 1] = f /\ \A i \in 1..Len(s) : WithMore(s, f)[i] = s[i]
BY DEF WithMore

LEMMA Replaced ==
    ASSUME NEW F, NEW s \in Seq(F), Len(s) > 0, NEW f \in F
    PROVE  /\ WithLast(s, f) \in Seq(F) /\ Len(WithLast(s, f)) = Len(s)
           /\ WithLast(s, f)[Len(s)] = f /\ \A i \in 1..(Len(s) - 1) : WithLast(s, f)[i] = s[i]
<1>1. PICK u \in Seq(F) : u = SubSeq(s, 1, Len(s) - 1) /\ Len(u) = Len(s) - 1
                          /\ \A i \in 1..(Len(s) - 1) : u[i] = s[i]
    BY Shortened, Zenon
<1>2. WithLast(s, f) = WithMore(u, f)
    BY <1>1, Zenon DEF WithLast, WithMore
<1>3. Len(s) \in Nat /\ Len(u) + 1 = Len(s) /\ Len(u) = Len(s) - 1
    BY <1>1
<1>4. /\ WithMore(u, f) \in Seq(F) /\ Len(WithMore(u, f)) = Len(u) + 1
      /\ WithMore(u, f)[Len(u) + 1] = f /\ \A i \in 1..Len(u) : WithMore(u, f)[i] = u[i]
    BY Grown
<1>. QED
    BY <1>1, <1>2, <1>3, <1>4, Zenon

-----------------------------------------------------------------------------
(* Paths. *)

LEMMA PathSelf ==
    ASSUME NEW n \in Nodes
    PROVE  n \in Path(n) /\ Path(n) \subseteq Nodes
BY DEF Path

LEMMA PathInPath ==
    ASSUME NEW n \in Nodes, NEW a \in Path(n)
    PROVE  Path(a) \subseteq Path(n)
BY DEF Path

LEMMA PathParent ==
    ASSUME TypeOK, Tree, NEW n \in Entries
    PROVE  Path(n) = {n} \cup Path(parent[n])
<1>1. n \in Nodes /\ n # 0 /\ parent[n] \in Nodes
    BY SizeAssumption DEF TypeOK, Entries, Nodes
<1>2. parent[n] \in Path(n)
    BY <1>1 DEF Path
<1>3. ASSUME NEW a \in Path(n), a # n, NEW S \in SUBSET Nodes,
             parent[n] \in S, \A m \in S \ {0} : parent[m] \in S
      PROVE  a \in S
  <2>1. S \cup {n} \in SUBSET Nodes
    BY <1>1
  <2>2. \A m \in (S \cup {n}) \ {0} : parent[m] \in S \cup {n}
    BY <1>3
  <2>3. a \in S \cup {n}
    BY <1>3, <2>1, <2>2 DEF Path
  <2>. QED
    BY <1>3, <2>3
<1>4. Path(n) \subseteq {n} \cup Path(parent[n])
    BY <1>1, <1>3 DEF Path
<1>. QED
    BY <1>1, <1>2, <1>4, PathSelf, PathInPath

LEMMA PathUp ==
    ASSUME TypeOK, Tree, NEW n \in Nodes, NEW a \in Path(n)
    PROVE  a <= n
<1> DEFINE S == {m \in Nodes : m <= n}
<1>1. S \in SUBSET Nodes /\ n \in S
    BY SizeAssumption DEF Nodes
<1>2. \A m \in S \ {0} : parent[m] \in S
    BY SizeAssumption DEF Tree, TypeOK, Entries, Nodes
<1>3. a \in S
    BY <1>1, <1>2 DEF Path
<1>. QED
    BY <1>3

LEMMA AboveParent ==
    ASSUME TypeOK, Tree, NEW n \in Entries
    PROVE  Above(n) = Path(parent[n])
<1>1. n \in Nodes /\ parent[n] \in Nodes /\ parent[n] < n
    BY SizeAssumption DEF TypeOK, Tree, Entries, Nodes
<1>2. n \notin Path(parent[n])
    BY <1>1, PathUp, SizeAssumption DEF Nodes
<1>. QED
    BY <1>2, PathParent DEF Above

\* A directory above an entry has a child that is the entry or above it.
LEMMA NextDown ==
    ASSUME TypeOK, Tree, NEW n \in Nodes, NEW d \in Above(n)
    PROVE  \E a \in Children(d) : a \in Path(n)
<1> SUFFICES ASSUME \A a \in Path(n) \ {0} : parent[a] # d
    PROVE  FALSE
    BY PathSelf DEF Children, Nodes, Entries
<1> DEFINE S == Path(n) \ {d}
<1>1. S \in SUBSET Nodes /\ n \in S
    BY PathSelf DEF Above
<1>2. \A m \in Path(n) \ {0} : parent[m] \in Path(n)
  <2>1. \A m \in Path(n) \ {0} : m \in Entries /\ m \in Nodes /\ parent[m] \in Nodes
    BY PathSelf, SizeAssumption DEF TypeOK, Entries, Nodes
  <2>. QED
    BY <2>1, PathParent, PathInPath, PathSelf
<1>3. \A m \in S \ {0} : parent[m] \in S
    BY <1>2
<1>4. d \in S
    BY <1>1, <1>3 DEF Path, Above
<1>. QED
    BY <1>4

\* What has something beneath it has a listing.
LEMMA AboveListed ==
    ASSUME TypeOK, Tree, NEW n \in Entries, NEW d \in Above(n)
    PROVE  d \in Traversable
<1>1. n \in Nodes
    BY DEF Entries, Nodes
<1>2. PICK a \in Children(d) : a \in Path(n)
    BY <1>1, NextDown
<1>. QED
    BY <1>2 DEF Children, Tree

LEMMA PrecedesDown ==
    ASSUME TypeOK, Tree, NEW m \in Nodes, NEW n \in Entries, Precedes(m, parent[n]) \/ m = parent[n]
    PROVE  Precedes(m, n)
<1>1. parent[n] \in Nodes
    BY DEF TypeOK
<1>. QED
    BY <1>1, AboveParent, PathParent, PathSelf DEF Precedes, Above

-----------------------------------------------------------------------------
(* The tree does not change. *)

LEMMA TreeStays ==
    ASSUME UNCHANGED treeVars
    PROVE  /\ Tree = Tree'
           /\ \A n \in Nodes : Path(n)' = Path(n) /\ Above(n)' = Above(n)
           /\ \A d \in Nodes : Children(d)' = Children(d)
           /\ Below' = Below
           /\ \A m, n \in Nodes : Precedes(m, n)' = Precedes(m, n)
           /\ \A n \in Entries : MayBeLeftOut(n)' = MayBeLeftOut(n)
BY DEF treeVars, Tree, Traversable, Path, Above, Children, Below, Precedes, MayBeLeftOut, Descend,
       matchExclude, Matches

-----------------------------------------------------------------------------
(* The effects of a step on the stack. *)

LEMMA TopFrame ==
    ASSUME TypeOK, Stack, pc # "returned"
    PROVE  /\ frames \in Seq(Frame) /\ Len(frames) \in Nat \ {0}
           /\ Top \in Frame /\ Top = frames[Len(frames)] /\ Placed(Len(frames))
           /\ \A i \in 1..Len(frames) : frames[i] \in Frame
<1>1. frames \in Seq(Frame)
    BY DEF TypeOK, Frame
<1>2. Len(frames) \in Nat /\ Len(frames) # 0
    BY <1>1 DEF Stack
<1>. QED
    BY <1>1, <1>2 DEF Stack, Top

\* The innermost frame is f; and after that another one is g.
SameButTop(f) ==
    /\ frames' \in Seq(Frame) /\ Len(frames') = Len(frames) /\ frames'[Len(frames)] = f
    /\ \A i \in 1..(Len(frames) - 1) : frames'[i] = frames[i]

SameAndPushed(f, g) ==
    /\ frames' \in Seq(Frame) /\ Len(frames') = Len(frames) + 1
    /\ frames'[Len(frames)] = f /\ frames'[Len(frames) + 1] = g
    /\ \A i \in 1..(Len(frames) - 1) : frames'[i] = frames[i]

LEMMA ReplaceTop ==
    ASSUME NEW f \in Frame, frames \in Seq(Frame), Len(frames) > 0, frames' = Append(Pop, f)
    PROVE  SameButTop(f)
<1>. DEFINE u == WithLast(frames, f)
<1>1. frames' = u
    BY Zenon DEF Pop, WithLast
<1>2. /\ u \in Seq(Frame) /\ Len(u) = Len(frames)
      /\ u[Len(frames)] = f /\ \A i \in 1..(Len(frames) - 1) : u[i] = frames[i]
    BY Replaced
<1>. HIDE DEF u
<1>. QED
    BY <1>1, <1>2, Zenon DEF SameButTop

LEMMA ReplaceTopAndPush ==
    ASSUME NEW f \in Frame, NEW g \in Frame, frames \in Seq(Frame), Len(frames) > 0,
           frames' = Append(Append(Pop, f), g)
    PROVE  SameAndPushed(f, g)
<1>. DEFINE u == WithLast(frames, f)
<1>1. frames' = WithMore(u, g)
    BY Zenon DEF Pop, WithLast, WithMore
<1>2. /\ u \in Seq(Frame) /\ Len(u) = Len(frames)
      /\ u[Len(frames)] = f /\ \A i \in 1..(Len(frames) - 1) : u[i] = frames[i]
    BY Replaced
<1>. HIDE DEF u
<1>. DEFINE v == WithMore(u, g)
<1>3. /\ v \in Seq(Frame) /\ Len(v) = Len(u) + 1
      /\ v[Len(u) + 1] = g /\ \A i \in 1..Len(u) : v[i] = u[i]
    BY <1>2 DEF WithMore
<1>4. Len(frames) \in 1..Len(frames) /\ 1..(Len(frames) - 1) \subseteq 1..Len(frames)
    OBVIOUS
<1>. QED
    BY <1>1, <1>2, <1>3, <1>4, Zenon DEF SameAndPushed

LEMMA PlaceKept ==
    ASSUME UNCHANGED treeVars, NEW i \in 1..Len(frames), frames \in Seq(Frame), Placed(i),
           \A j \in 1..i : frames'[j].dir = frames[j].dir,
           frames'[i].rest \subseteq Children(frames[i].dir),
           i > 1 => frames'[i - 1].rest \subseteq frames[i - 1].rest
    PROVE  Placed(i)'
<1>1. i \in Nat /\ i \in 1..i /\ frames[i] \in Frame /\ \A j \in 1..i : frames[j] \in Frame
    OBVIOUS
<1>2. PICK d \in Nodes : d = frames[i].dir /\ frames'[i].dir = d
    BY <1>1 DEF Frame
<1>3. Path(d)' = Path(d) /\ Children(d)' = Children(d)
    BY TreeStays
<1>4. \A j \in 1..i : frames'[j].dir \in Path(d)'
    BY <1>2, <1>3 DEF Placed
<1>5. i > 1 => Down(i)'
    BY <1>1, <1>2 DEF Placed, Down, treeVars
<1>6. frames'[i].rest \subseteq Children(d)'
    BY <1>2, <1>3
<1>7. (i = 1 => frames'[i].dir = start') /\ i <= frames'[i].dir + 1
    BY <1>2 DEF Placed, treeVars
<1>. QED
    BY <1>2, <1>4, <1>5, <1>6, <1>7 DEF Placed

\* An entry that follows in an outer directory comes after whatever lies in the
\* innermost one.
LEMMA OuterLater ==
    ASSUME TypeOK, Tree, Stack, NEW i \in 1..(Len(frames) - 1), NEW b \in frames[i].rest,
           NEW n \in Nodes, Top.dir \in Path(n)
    PROVE  Precedes(n, b)
<1>1. frames \in Seq(Frame) /\ Len(frames) \in Nat /\ pc # "returned"
    BY DEF TypeOK, Stack, Frame
<1>2. i + 1 \in 1..Len(frames) /\ i \in 1..Len(frames) /\ i + 1 > 1 /\ (i + 1) - 1 = i
    BY <1>1
<1>3. Placed(i + 1) /\ Placed(i) /\ Placed(Len(frames)) /\ frames[i] \in Frame
    BY <1>1, <1>2 DEF Stack
<1> DEFINE a == frames[i + 1].dir
<1>4. a \in Entries /\ parent[a] = frames[i].dir /\ a < b
    BY <1>2, <1>3 DEF Placed, Down
<1>5. b \in Entries /\ parent[b] = frames[i].dir /\ b \in Nodes
    BY <1>3 DEF Placed, Children, Entries, Nodes
<1>6. a \in Path(Top.dir)
    BY <1>2, <1>3, <1>1 DEF Placed, Top
<1>7. a \in Path(n) /\ b \in Path(b) /\ a # 0 /\ b # 0
    BY <1>4, <1>5, <1>6, PathInPath, PathSelf DEF Entries
<1>. QED
    BY <1>4, <1>5, <1>7 DEF Precedes

LEMMA SiblingLater ==
    ASSUME TypeOK, Stack, pc # "returned", NEW n \in Top.rest, NEW b \in Top.rest, n < b
    PROVE  Precedes(n, b)
<1>1. n \in Entries /\ b \in Entries /\ parent[n] = Top.dir /\ parent[b] = Top.dir
    BY TopFrame DEF Placed, Children
<1>2. n \in Path(n) /\ b \in Path(b) /\ n # 0 /\ b # 0
    BY <1>1, PathSelf DEF Entries, Nodes
<1>. QED
    BY <1>1, <1>2 DEF Precedes

\* The innermost frame is replaced.
LEMMA TopChanged ==
    ASSUME TypeOK, Stack, StaysInside, UNCHANGED treeVars, pc # "returned", NEW f \in Frame,
           f.dir = Top.dir, f.rest \subseteq Children(Top.dir),
           SameButTop(f), pc' = "entry", result' = result
    PROVE  Top' = f /\ Stack' /\ StaysInside'
<1>a. frames \in Seq(Frame) /\ Len(frames) > 0
    BY TopFrame
<1>b. Len(frames) \in Nat \ {0}
    BY TopFrame
<1>c. Top \in Frame /\ Top = frames[Len(frames)]
    BY TopFrame
<1>d. \A i \in 1..Len(frames) : Placed(i)
    BY DEF Stack
<1>e. \A i \in 1..Len(frames) : frames[i] \in Frame
    BY TopFrame
<1>2. /\ frames' \in Seq(Frame) /\ Len(frames') = Len(frames) /\ frames'[Len(frames)] = f
      /\ \A i \in 1..(Len(frames) - 1) : frames'[i] = frames[i]
    BY DEF SameButTop
<1>3. Top' = f
    BY <1>2, Zenon DEF Top
<1>4. \A j \in 1..Len(frames) : frames'[j].dir = frames[j].dir
    BY <1>b, <1>c, <1>2
<1>5. ASSUME NEW i \in 1..Len(frames)
      PROVE  Placed(i)'
  <2>1. \A j \in 1..i : frames'[j].dir = frames[j].dir
    BY <1>b, <1>4
  <2>2. frames'[i].rest \subseteq Children(frames[i].dir)
    <3>1. CASE i = Len(frames)
      BY <1>c, <1>2, <3>1
    <3>2. CASE i # Len(frames)
      BY <1>b, <1>d, <1>2, <3>2 DEF Placed
    <3>. QED
      BY <3>1, <3>2
  <2>3. i > 1 => frames'[i - 1].rest \subseteq frames[i - 1].rest
    BY <1>b, <1>2
  <2>. QED
    BY <1>a, <1>d, <2>1, <2>2, <2>3, PlaceKept
<1>6. Stack'
    BY <1>b, <1>2, <1>5 DEF Stack
<1>7. StaysInside'
  <2>1. \A i \in 1..Len(frames) : frames[i].dir \in Nodes
    BY <1>e DEF Frame
  <2>2. start \in Nodes
    BY DEF TypeOK
  <2>. QED
    BY <1>a, <1>2, <1>4, <2>1, <2>2, TreeStays DEF StaysInside, treeVars
<1>. QED
    BY <1>3, <1>6, <1>7

\* The innermost call returns nil.
LEMMA TopReturned ==
    ASSUME TypeOK, Stack, StaysInside, UNCHANGED treeVars, pc # "returned", ReturnNil
    PROVE  /\ frames' \in Seq(Frame) /\ Len(frames') = Len(frames) - 1
           /\ \A i \in 1..(Len(frames) - 1) : frames'[i] = frames[i]
           /\ pc' \in {"entry", "returned"} /\ result' \in {"none", "nil"}
           /\ Stack' /\ StaysInside'
<1>a. frames \in Seq(Frame) /\ Len(frames) > 0
    BY TopFrame
<1>b. Len(frames) \in Nat \ {0}
    BY TopFrame
<1>c. Top \in Frame /\ Top = frames[Len(frames)]
    BY TopFrame
<1>d. \A i \in 1..Len(frames) : Placed(i)
    BY DEF Stack
<1>e. \A i \in 1..Len(frames) : frames[i] \in Frame
    BY TopFrame
<1>2. /\ frames' \in Seq(Frame) /\ Len(frames') = Len(frames) - 1
      /\ \A i \in 1..(Len(frames) - 1) : frames'[i] = frames[i]
    BY <1>a, Shortened, Zenon DEF Pop, ReturnNil
<1>3. ASSUME NEW i \in 1..(Len(frames) - 1)
      PROVE  Placed(i)'
  <2>1. i \in 1..Len(frames) /\ \A j \in 1..i : frames'[j].dir = frames[j].dir
    BY <1>b, <1>2
  <2>2. /\ frames'[i].rest \subseteq Children(frames[i].dir)
        /\ i > 1 => frames'[i - 1].rest \subseteq frames[i - 1].rest
    BY <1>b, <1>d, <1>2, <2>1 DEF Placed
  <2>. QED
    BY <1>a, <1>d, <2>1, <2>2, PlaceKept
<1>4. /\ pc' \in {"entry", "returned"} /\ result' \in {"none", "nil"}
      /\ Len(frames') = 0 <=> pc' = "returned"
      /\ result' = "none" <=> pc' # "returned"
    BY <1>b, <1>2 DEF ReturnNil, Stack
<1>5. Stack'
    BY <1>b, <1>2, <1>3, <1>4 DEF Stack
<1>6. StaysInside'
  <2>1. \A i \in 1..Len(frames) : frames[i].dir \in Nodes
    BY <1>e DEF Frame
  <2>2. start \in Nodes
    BY DEF TypeOK
  <2>. QED
    BY <1>a, <1>b, <1>2, <2>1, <2>2, TreeStays DEF StaysInside, treeVars
<1>. QED
    BY <1>2, <1>4, <1>5, <1>6

\* The next entry is a directory that is descended into.
LEMMA Descended ==
    ASSUME TypeOK, Tree, Stack, StaysInside, UNCHANGED treeVars, pc # "returned",
           NEW n \in Top.rest, \A b \in Top.rest : n <= b, kind[n] = "dir",
           NEW f \in Frame, f.dir = Top.dir, f.rest = Top.rest \ {n},
           NEW g \in Frame, g.dir = n, g.rest = {},
           SameAndPushed(f, g), pc' = "readDir", result' = result
    PROVE  Top' = g /\ Stack' /\ StaysInside'
<1>a. frames \in Seq(Frame) /\ Len(frames) > 0
    BY TopFrame
<1>b. Len(frames) \in Nat \ {0}
    BY TopFrame
<1>c. Top \in Frame /\ Top = frames[Len(frames)]
    BY TopFrame
<1>d. \A i \in 1..Len(frames) : Placed(i)
    BY DEF Stack
<1>e. \A i \in 1..Len(frames) : frames[i] \in Frame
    BY TopFrame
<1>2. n \in Entries /\ n \in Nodes /\ parent[n] = Top.dir /\ Top.dir < n
    BY <1>b, <1>c, <1>d DEF Placed, Children, Entries, Nodes, Tree
<1>3. f.dir = Top.dir /\ f.rest = Top.rest \ {n}
    OBVIOUS
<1>g. g.dir = n /\ g.rest = {}
    OBVIOUS
<1>5. frames' \in Seq(Frame) /\ Len(frames') = Len(frames) + 1 /\ frames'[Len(frames) + 1] = g
    BY DEF SameAndPushed
<1>6. /\ frames'[Len(frames)] = f
      /\ \A i \in 1..(Len(frames) - 1) : frames'[i] = frames[i]
    BY DEF SameAndPushed
<1>7. Top' = g
    BY <1>5, Zenon DEF Top
<1>8. \A j \in 1..Len(frames) : frames'[j].dir = frames[j].dir
    BY <1>b, <1>c, <1>3, <1>6
<1>9. ASSUME NEW i \in 1..Len(frames)
      PROVE  Placed(i)'
  <2>1. \A j \in 1..i : frames'[j].dir = frames[j].dir
    BY <1>b, <1>8
  <2>2. frames'[i].rest \subseteq Children(frames[i].dir)
    <3>1. CASE i = Len(frames)
      BY <1>c, <1>d, <1>3, <1>6, <3>1 DEF Placed
    <3>2. CASE i # Len(frames)
      BY <1>b, <1>d, <1>6, <3>2 DEF Placed
    <3>. QED
      BY <3>1, <3>2
  <2>3. i > 1 => frames'[i - 1].rest \subseteq frames[i - 1].rest
    BY <1>b, <1>6
  <2>. QED
    BY <1>a, <1>d, <2>1, <2>2, <2>3, PlaceKept
<1>k. PICK k \in Nat : k = Len(frames) + 1 /\ k - 1 = Len(frames) /\ k > 1
    BY <1>b
<1>10. Placed(k)'
  <2>1. frames'[k].dir = n /\ frames'[k].rest = {}
    BY <1>k, <1>g, <1>5
  <2>2. Down(k)'
    <3>1. /\ n \in Entries /\ kind'[n] = "dir" /\ parent'[n] = frames'[k - 1].dir
          /\ \A b \in frames'[k - 1].rest : n < b
      BY <1>2, <1>3, <1>6, <1>c, <1>k DEF treeVars, Frame, Entries
    <3>. QED
      BY <2>1, <3>1 DEF Down
  <2>3. Len(frames) <= Top.dir + 1
    BY <1>b, <1>c, <1>d DEF Placed
  <2>4. k <= n + 1
    BY <1>b, <1>c, <1>k, <1>2, <2>3, SizeAssumption DEF Frame, Nodes, Entries
  <2>5. \A j \in 1..Len(frames) : frames[j].dir \in Path(Top.dir)
    BY <1>b, <1>c, <1>d DEF Placed
  <2>6. Path(n) = {n} \cup Path(Top.dir)
    BY <1>2, PathParent
  <2>7. \A j \in 1..k : frames'[j].dir \in Path(n)
    BY <1>b, <1>k, <1>8, <2>1, <2>5, <2>6
  <2>8. Path(n)' = Path(n)
    BY <1>2, TreeStays
  <2>. QED
    BY <1>k, <2>1, <2>2, <2>4, <2>7, <2>8 DEF Placed
<1>11. Stack'
  <2>1. \A i \in 1..Len(frames') : Placed(i)'
    BY <1>b, <1>k, <1>5, <1>9, <1>10
  <2>2. Top'.rest = {}
    BY <1>7, <1>g
  <2>. QED
    BY <1>b, <1>5, <2>1, <2>2 DEF Stack
<1>12. StaysInside'
  <2>1. ASSUME \A a \in Path(start) \ {0} : kind[a] = "dir",
               NEW i \in 1..(Len(frames) + 1), NEW a \in Path(frames'[i].dir) \ {0}
        PROVE  kind[a] = "dir"
    <3>1. \A j \in 1..Len(frames) : \A b \in Path(frames[j].dir) \ {0} : kind[b] = "dir"
      BY <1>a, <2>1 DEF StaysInside
    <3>2. CASE i \in 1..Len(frames)
      BY <1>8, <2>1, <3>1, <3>2
    <3>3. CASE i = Len(frames) + 1
      <4>1. a = n \/ a \in Path(Top.dir)
        BY <1>2, <1>5, <1>g, <2>1, <3>3, PathParent
      <4>2. Len(frames) \in 1..Len(frames)
        BY <1>b
      <4>. QED
        BY <1>c, <2>1, <3>1, <4>1, <4>2
    <3>. QED
      BY <1>b, <3>2, <3>3
  <2>2. \A i \in 1..(Len(frames) + 1) : frames'[i].dir \in Nodes
    BY <1>b, <1>e, <1>5, <1>8, <1>g, <1>2 DEF Frame
  <2>3. start \in Nodes
    BY DEF TypeOK
  <2>. QED
    BY <1>5, <2>1, <2>2, <2>3, TreeStays DEF StaysInside, treeVars
<1>. QED
    BY <1>7, <1>11, <1>12

-----------------------------------------------------------------------------
(* The effects of a step on the log, and what is accounted for. *)

\* Nothing, or the one call in C, is logged.
Logged(C) ==
    /\ log' \in Seq(Calls)
    /\ \A k \in 1..Len(log) : k \in 1..Len(log') /\ log'[k] = log[k]
    /\ \A k \in 1..Len(log') : k \in 1..Len(log) \/ (k = Len(log) + 1 /\ log'[k] \in C)
    /\ \A c \in C : \E k \in 1..Len(log') : log'[k] = c

LEMMA NotCalled ==
    ASSUME TypeOK, UNCHANGED log
    PROVE  Logged({})
<1>1. log \in Seq(Calls) /\ Len(log') = Len(log)
    BY DEF TypeOK
<1>. QED
    BY <1>1 DEF Logged

LEMMA Called ==
    ASSUME TypeOK, NEW c \in Calls, CallFn(c)
    PROVE  Logged({c})
<1>. DEFINE u == WithMore(log, c)
<1>1. log' = u
    BY Zenon DEF CallFn, WithMore
<1>2. log \in Seq(Calls)
    BY DEF TypeOK
<1>3. /\ u \in Seq(Calls) /\ Len(u) = Len(log) + 1
      /\ u[Len(log) + 1] = c /\ \A i \in 1..Len(log) : u[i] = log[i]
    BY <1>2, Grown
<1>. HIDE DEF u
<1>4. PICK l \in Nat : l = Len(log)
    BY <1>2
<1>5. /\ \A k \in 1..l : k \in 1..(l + 1)
      /\ \A k \in 1..(l + 1) : k \in 1..l \/ k = l + 1
      /\ l + 1 \in 1..(l + 1)
    OBVIOUS
<1>. QED
    BY <1>1, <1>3, <1>4, <1>5, Zenon DEF Logged

\* The call may come next.
MayFollow(c) ==
    \A k \in 1..Len(log) : \/ Precedes(log[k].node, c.node)
                           \/ log[k].node = c.node /\ ~log[k].err /\ c.err

LEMMA OrderKept ==
    ASSUME TypeOK, Deterministic, UNCHANGED treeVars, NEW C \in SUBSET Calls, Logged(C),
           \A c \in C : MayFollow(c)
    PROVE  Deterministic'
<1>1. log \in Seq(Calls) /\ log' \in Seq(Calls) /\ Len(log) \in Nat /\ Len(log') \in Nat
    BY DEF TypeOK, Logged
<1>2. ASSUME NEW i \in 1..Len(log'), NEW j \in 1..Len(log'), i < j
      PROVE  \/ Precedes(log'[i].node, log'[j].node)
             \/ log'[i].node = log'[j].node /\ ~log'[i].err /\ log'[j].err
  <2>1. i \in 1..Len(log) /\ log'[i] = log[i]
    BY <1>1, <1>2 DEF Logged
  <2>2. CASE j \in 1..Len(log)
    BY <1>1, <1>2, <2>1, <2>2 DEF Deterministic, Logged
  <2>3. CASE log'[j] \in C
    BY <2>1, <2>3 DEF MayFollow
  <2>. QED
    BY <2>2, <2>3 DEF Logged
<1>3. \A k \in 1..Len(log') : log'[k].node \in Nodes
  <2>1. \A k \in 1..Len(log') : log'[k] \in Calls
    BY <1>1
  <2>. QED
    BY <2>1 DEF Calls
<1>4. \A m, n \in Nodes : Precedes(m, n)' = Precedes(m, n)
    BY TreeStays
<1>5. DOMAIN log' = 1..Len(log')
    BY <1>1
<1>6. ASSUME NEW i \in 1..Len(log'), NEW j \in 1..Len(log'), i < j
      PROVE  \/ Precedes(log[i].node, log[j].node)'
             \/ log'[i].node = log'[j].node /\ ~log'[i].err /\ log'[j].err
  <2>1. PICK m \in Nodes : m = log'[i].node
    BY <1>3
  <2>2. PICK n \in Nodes : n = log'[j].node
    BY <1>3
  <2>3. Precedes(m, n) => Precedes(m, n)'
    BY <1>4
  <2>. QED
    BY <1>2, <1>6, <2>1, <2>2, <2>3
<1>. QED
    BY <1>5, <1>6 DEF Deterministic

\* What is accounted for stays so.
LEMMA CompleteKept ==
    ASSUME TypeOK, UNCHANGED treeVars, NEW C \in SUBSET Calls, Logged(C), skipped \subseteq skipped',
           NEW n \in Entries, CompleteBut(n)
    PROVE  CompleteBut(n)'
<1>1. log \in Seq(Calls) /\ log' \in Seq(Calls)
    BY DEF TypeOK, Logged
<1>2. Reported \subseteq Reported' /\ Failed \subseteq Failed'
  <2>1. DOMAIN log = 1..Len(log) /\ DOMAIN log' = 1..Len(log')
    BY <1>1
  <2>. QED
    BY <2>1 DEF Reported, Failed, Logged
<1>3. n \in Nodes /\ Path(n)' = Path(n) /\ Above(n)' = Above(n) /\ Below' = Below
    BY TreeStays DEF Entries, Nodes
<1>4. SkippedByFn(n) => SkippedByFn(n)'
    BY <1>3 DEF SkippedByFn, treeVars
<1>5. OutOfReach(n) => OutOfReach(n)'
    BY <1>2, <1>3 DEF OutOfReach, treeVars
<1>6. MayBeLeftOut(n)' = MayBeLeftOut(n)
    BY TreeStays
<1>. QED
    BY <1>2, <1>4, <1>5, <1>6 DEF CompleteBut

LEMMA AccountKept ==
    ASSUME TypeOK, Stack, Accounted, pc # "returned", UNCHANGED treeVars,
           NEW C \in SUBSET Calls, Logged(C), skipped \subseteq skipped',
           \A n \in Below : ToCome(n) => CompleteBut(n)' \/ ToCome(n)'
    PROVE  Accounted'
<1>1. SUFFICES ASSUME \A c \in skipped' : ~c.err, NEW n \in Below
               PROVE  CompleteBut(n)' \/ ToCome(n)'
    BY TreeStays DEF Accounted
<1>2. n \in Entries /\ result = "none"
    BY DEF Below, Stack
<1>3. CompleteBut(n) \/ ToCome(n)
    BY <1>1, <1>2 DEF Accounted
<1>. QED
    BY <1>2, <1>3, CompleteKept

LEMMA TypeKept ==
    ASSUME TypeOK, UNCHANGED treeVars, frames' \in Seq(Frame), Stack', ctxDone' \in BOOLEAN,
           pc' \in {"readDir", "entry", "returned"}, result' \in {"none", "nil", "ctx", "fn"},
           log' \in Seq(Calls), skipped' \in SUBSET Calls
    PROVE  TypeOK'
<1>1. Len(frames') <= N + 1
  <2>1. CASE Len(frames') = 0
    BY <2>1, SizeAssumption
  <2>2. CASE Len(frames') # 0
    <3>1. PICK k \in 1..Len(frames') : k = Len(frames') /\ k \in Nat
      BY <2>2
    <3>2. Placed(k)' /\ frames'[k] \in Frame
      BY <3>1 DEF Stack
    <3>3. k <= frames'[k].dir + 1 /\ frames'[k].dir \in 0..N
      BY <3>2 DEF Placed, Frame, Nodes
    <3>. QED
      BY <3>1, <3>3, SizeAssumption
  <2>. QED
    BY <2>1, <2>2
<1>. QED
    BY <1>1, Zenon DEF TypeOK, treeVars, Frame

\* The order of what is to come, whatever is logged.
LEMMA RestKept ==
    ASSUME TypeOK, UNCHANGED treeVars, NEW C \in SUBSET Calls, Logged(C),
           frames' \in Seq(Frame),
           \A i \in 1..Len(frames') : \A b \in frames'[i].rest :
               /\ \A k \in 1..Len(log) : Precedes(log[k].node, b)
               /\ \A c \in C : Precedes(c.node, b)
    PROVE  \A i \in DOMAIN frames' : \A b \in frames'[i].rest :
               \A k \in DOMAIN log' : Precedes(log[k].node, b)'
<1>1. log \in Seq(Calls) /\ log' \in Seq(Calls)
    BY DEF TypeOK, Logged
<1>2. DOMAIN frames' = 1..Len(frames') /\ DOMAIN log' = 1..Len(log')
    BY <1>1
<1>3. SUFFICES ASSUME NEW i \in 1..Len(frames'), NEW b \in frames'[i].rest, NEW k \in 1..Len(log')
               PROVE  Precedes(log[k].node, b)'
    BY <1>2
<1>4. Precedes(log'[k].node, b)
    BY DEF Logged
<1>5. PICK m \in Nodes : m = log'[k].node
  <2>1. log'[k] \in Calls
    BY <1>1
  <2>. QED
    BY <2>1 DEF Calls
<1>6. b \in Nodes
  <2>1. frames'[i] \in Frame
    OBVIOUS
  <2>. QED
    BY <2>1 DEF Frame, Entries, Nodes
<1>7. Precedes(m, b)' = Precedes(m, b)
    BY <1>6, TreeStays
<1>. QED
    BY <1>4, <1>5, <1>7

-----------------------------------------------------------------------------
(* The ways a step ends. *)

LEMMA Unwound ==
    ASSUME IInv, pc # "returned", UNCHANGED <<treeVars, ctxDone>>,
           NEW C \in SUBSET Calls, Logged(C), \A c \in C : MayFollow(c),
           NEW how \in {"ctx", "fn", "nil"}, Unwind(how), how = "nil" => \E c \in skipped' : c.err,
           skipped' \in SUBSET Calls
    PROVE  IInv'
<1>1. TypeOK /\ Tree /\ Deterministic
    BY DEF IInv
<1>2. frames' = <<>> /\ Len(frames') = 0 /\ pc' = "returned" /\ result' = how
    BY DEF Unwind
<1>3. frames' \in Seq(Frame)
    BY <1>2
<1>4. Stack' /\ StaysInside' /\ Ordered'
    BY <1>2 DEF Stack, StaysInside, Ordered
<1>5. Deterministic'
    BY <1>1, OrderKept
<1>6. Accounted'
    BY <1>2 DEF Accounted
<1>7. TypeOK'
    BY <1>1, <1>2, <1>3, <1>4, TypeKept DEF Logged, TypeOK
<1>8. Tree'
    BY <1>1, TreeStays
<1>. QED
    BY <1>4, <1>5, <1>6, <1>7, <1>8 DEF IInv

LEMMA Returned ==
    ASSUME IInv, pc # "returned", UNCHANGED <<treeVars, ctxDone>>,
           NEW C \in SUBSET Calls, Logged(C), \A c \in C : MayFollow(c) /\ Top.dir \in Path(c.node),
           ReturnNil, skipped \subseteq skipped', skipped' \in SUBSET Calls,
           \A n \in Below : \A b \in Top.rest : b \in Path(n) => CompleteBut(n)',
           pc = "readDir" => \A n \in Below : Top.dir \in Above(n) => CompleteBut(n)'
    PROVE  IInv'
<1>1. TypeOK /\ Tree /\ Stack /\ StaysInside /\ Deterministic /\ Ordered /\ Accounted
    BY DEF IInv
<1>2. /\ frames' \in Seq(Frame) /\ Len(frames') = Len(frames) - 1
      /\ \A i \in 1..(Len(frames) - 1) : frames'[i] = frames[i]
      /\ pc' \in {"entry", "returned"} /\ result' \in {"none", "nil"}
      /\ Stack' /\ StaysInside'
    BY <1>1, TopReturned
<1>3. frames \in Seq(Frame) /\ Len(frames) \in Nat \ {0} /\ Top = frames[Len(frames)]
    BY <1>1, TopFrame
<1>4. DOMAIN frames = 1..Len(frames) /\ DOMAIN frames' = 1..(Len(frames) - 1)
      /\ DOMAIN log = 1..Len(log)
    BY <1>1, <1>2, <1>3 DEF TypeOK
<1>5. Ordered'
  <2>1. ASSUME NEW i \in 1..Len(frames'), NEW b \in frames'[i].rest
        PROVE  /\ \A k \in 1..Len(log) : Precedes(log[k].node, b)
               /\ \A c \in C : Precedes(c.node, b)
    <3>1. i \in 1..(Len(frames) - 1) /\ i \in 1..Len(frames) /\ b \in frames[i].rest
      BY <1>2, <1>3
    <3>2. \A c \in C : Precedes(c.node, b)
      BY <1>1, <3>1, OuterLater DEF Calls
    <3>. QED
      BY <1>1, <1>4, <3>1, <3>2 DEF Ordered
  <2>2. \A i \in DOMAIN frames' : \A b \in frames'[i].rest :
            \A k \in DOMAIN log' : Precedes(log[k].node, b)'
    BY <1>1, <1>2, <2>1, RestKept
  <2>. QED
    BY <1>2, <2>2 DEF Ordered
<1>6. Accounted'
  <2>1. ASSUME NEW n \in Below, ToCome(n)
        PROVE  CompleteBut(n)' \/ ToCome(n)'
    <3>1. CASE pc = "readDir" /\ Top.dir \in Above(n)
      BY <3>1
    <3>2. ASSUME NEW i \in 1..Len(frames), NEW b \in frames[i].rest, b \in Path(n)
          PROVE  CompleteBut(n)' \/ ToCome(n)'
      <4>1. CASE i = Len(frames)
        BY <1>3, <3>2, <4>1
      <4>2. CASE i \in 1..(Len(frames) - 1)
        <5>1. n \in Nodes /\ Path(n)' = Path(n)
          BY TreeStays DEF Below, Entries, Nodes
        <5>. QED
          BY <1>2, <1>4, <3>2, <4>2, <5>1 DEF ToCome
      <4>. QED
        BY <1>3, <4>1, <4>2
    <3>. QED
      BY <1>4, <2>1, <3>1, <3>2 DEF ToCome
  <2>. QED
    BY <1>1, <2>1, AccountKept
<1>7. Deterministic'
    BY <1>1, OrderKept
<1>8. TypeOK'
    BY <1>1, <1>2, TypeKept DEF Logged, TypeOK
<1>9. Tree'
    BY <1>1, TreeStays
<1>. QED
    BY <1>2, <1>5, <1>6, <1>7, <1>8, <1>9 DEF IInv

LEMMA WentOn ==
    ASSUME IInv, pc # "returned", UNCHANGED <<treeVars, ctxDone>>,
           NEW C \in SUBSET Calls, Logged(C), \A c \in C : MayFollow(c) /\ Top.dir \in Path(c.node),
           NEW f \in Frame, f.dir = Top.dir, f.rest \subseteq Children(Top.dir), SameButTop(f),
           pc' = "entry", result' = result, skipped \subseteq skipped', skipped' \in SUBSET Calls,
           \A b \in f.rest : /\ \A k \in 1..Len(log) : Precedes(log[k].node, b)
                             /\ \A c \in C : Precedes(c.node, b),
           \A n \in Below : \A b \in Top.rest :
               b \in Path(n) => b \in f.rest \/ CompleteBut(n)',
           pc = "readDir" => \A n \in Below : Top.dir \in Above(n) => \E b \in f.rest : b \in Path(n)
    PROVE  IInv'
<1>1. TypeOK /\ Tree /\ Stack /\ StaysInside /\ Deterministic /\ Ordered /\ Accounted
    BY DEF IInv
<1>2. Stack' /\ StaysInside'
    BY <1>1, TopChanged
<1>3. frames \in Seq(Frame) /\ Len(frames) \in Nat \ {0} /\ Top = frames[Len(frames)]
    BY <1>1, TopFrame
<1>4. /\ frames' \in Seq(Frame) /\ Len(frames') = Len(frames) /\ frames'[Len(frames)] = f
      /\ \A i \in 1..(Len(frames) - 1) : frames'[i] = frames[i]
    BY DEF SameButTop
<1>5. DOMAIN frames = 1..Len(frames) /\ DOMAIN frames' = 1..Len(frames) /\ DOMAIN log = 1..Len(log)
    BY <1>1, <1>3, <1>4 DEF TypeOK
<1>6. Ordered'
  <2>1. ASSUME NEW i \in 1..Len(frames'), NEW b \in frames'[i].rest
        PROVE  /\ \A k \in 1..Len(log) : Precedes(log[k].node, b)
               /\ \A c \in C : Precedes(c.node, b)
    <3>1. CASE i = Len(frames)
      BY <1>4, <2>1, <3>1
    <3>2. CASE i \in 1..(Len(frames) - 1)
      <4>1. b \in frames[i].rest /\ i \in 1..Len(frames)
        BY <1>3, <1>4, <2>1, <3>2
      <4>2. \A c \in C : Precedes(c.node, b)
        BY <1>1, <3>2, <4>1, OuterLater DEF Calls
      <4>. QED
        BY <1>1, <1>5, <4>1, <4>2 DEF Ordered
    <3>. QED
      BY <1>3, <1>4, <3>1, <3>2
  <2>2. \A i \in DOMAIN frames' : \A b \in frames'[i].rest :
            \A k \in DOMAIN log' : Precedes(log[k].node, b)'
    BY <1>1, <1>4, <2>1, RestKept
  <2>. QED
    BY <2>2 DEF Ordered
<1>7. Accounted'
  <2>1. ASSUME NEW n \in Below, ToCome(n)
        PROVE  CompleteBut(n)' \/ ToCome(n)'
    <3>1. n \in Nodes /\ Path(n)' = Path(n)
      BY TreeStays DEF Below, Entries, Nodes
    <3>2. ASSUME NEW b \in f.rest, b \in Path(n)
          PROVE  ToCome(n)'
      BY <1>3, <1>4, <1>5, <3>1, <3>2 DEF ToCome
    <3>3. CASE pc = "readDir" /\ Top.dir \in Above(n)
      BY <3>2, <3>3
    <3>4. ASSUME NEW i \in 1..Len(frames), NEW b \in frames[i].rest, b \in Path(n)
          PROVE  CompleteBut(n)' \/ ToCome(n)'
      <4>1. CASE i = Len(frames)
        BY <1>3, <3>2, <3>4, <4>1
      <4>2. CASE i \in 1..(Len(frames) - 1)
        BY <1>4, <1>5, <3>1, <3>4, <4>2 DEF ToCome
      <4>. QED
        BY <1>3, <4>1, <4>2
    <3>. QED
      BY <1>5, <2>1, <3>3, <3>4 DEF ToCome
  <2>. QED
    BY <1>1, <2>1, AccountKept
<1>8. Deterministic'
    BY <1>1, OrderKept
<1>9. TypeOK'
    BY <1>1, <1>2, <1>4, TypeKept DEF Logged, TypeOK
<1>10. Tree'
    BY <1>1, TreeStays
<1>. QED
    BY <1>2, <1>6, <1>7, <1>8, <1>9, <1>10 DEF IInv

LEMMA WentDown ==
    ASSUME IInv, pc = "entry", UNCHANGED <<treeVars, ctxDone>>,
           NEW n \in Top.rest, \A b \in Top.rest : n <= b, kind[n] = "dir",
           NEW c \in Calls, c.node = n, ~c.err, Logged({c}),
           NEW f \in Frame, f.dir = Top.dir, f.rest = Top.rest \ {n},
           NEW g \in Frame, g.dir = n, g.rest = {}, SameAndPushed(f, g),
           pc' = "readDir", result' = result, UNCHANGED skipped,
           \A k \in 1..Len(log) : Precedes(log[k].node, n),
           \A b \in f.rest : /\ \A k \in 1..Len(log) : Precedes(log[k].node, b)
                             /\ Precedes(n, b),
           Top.dir \in Path(n)
    PROVE  IInv'
<1>1. TypeOK /\ Tree /\ Stack /\ StaysInside /\ Deterministic /\ Ordered /\ Accounted
    BY DEF IInv
<1>2. Top' = g /\ Stack' /\ StaysInside'
    BY <1>1, Descended
<1>3. frames \in Seq(Frame) /\ Len(frames) \in Nat \ {0} /\ Top = frames[Len(frames)]
    BY <1>1, TopFrame
<1>4. /\ frames' \in Seq(Frame) /\ Len(frames') = Len(frames) + 1
      /\ frames'[Len(frames)] = f /\ frames'[Len(frames) + 1] = g
      /\ \A i \in 1..(Len(frames) - 1) : frames'[i] = frames[i]
    BY DEF SameAndPushed
<1>5. DOMAIN frames = 1..Len(frames) /\ DOMAIN frames' = 1..(Len(frames) + 1)
      /\ DOMAIN log = 1..Len(log) /\ DOMAIN log' = 1..Len(log')
    BY <1>1, <1>3, <1>4 DEF TypeOK, Logged
<1>6. n \in Nodes /\ {c} \in SUBSET Calls
    BY DEF Calls
<1>7. Ordered'
  <2>1. ASSUME NEW i \in 1..Len(frames'), NEW b \in frames'[i].rest
        PROVE  /\ \A k \in 1..Len(log) : Precedes(log[k].node, b)
               /\ \A d \in {c} : Precedes(d.node, b)
    <3>1. CASE i = Len(frames)
      BY <1>4, <2>1, <3>1
    <3>2. CASE i \in 1..(Len(frames) - 1)
      <4>1. b \in frames[i].rest /\ i \in 1..Len(frames)
        BY <1>3, <1>4, <2>1, <3>2
      <4>2. Precedes(n, b)
        BY <1>1, <1>6, <3>2, <4>1, OuterLater
      <4>. QED
        BY <1>1, <1>5, <4>1, <4>2 DEF Ordered
    <3>3. i # Len(frames) + 1
      BY <1>4, <2>1
    <3>. QED
      BY <1>3, <1>4, <3>1, <3>2, <3>3
  <2>2. \A i \in DOMAIN frames' : \A b \in frames'[i].rest :
            \A k \in DOMAIN log' : Precedes(log[k].node, b)'
    BY <1>1, <1>4, <1>6, <2>1, RestKept
  <2>3. ASSUME NEW k \in 1..Len(log')
        PROVE  \/ Precedes(log[k].node, n)'
               \/ log'[k].node = n /\ ~log'[k].err
    <3>1. CASE k \in 1..Len(log)
      <4>1. log'[k] \in Calls
        BY DEF Logged
      <4>2. PICK m \in Nodes : m = log'[k].node
        BY <4>1 DEF Calls
      <4>3. Precedes(m, n)
        BY <3>1, <4>2 DEF Logged
      <4>4. Precedes(m, n)'
        BY <1>6, <4>3, TreeStays
      <4>. QED
        BY <4>2, <4>4
    <3>2. CASE log'[k] \in {c}
      BY <3>2
    <3>. QED
      BY <3>1, <3>2 DEF Logged
  <2>4. ASSUME NEW k \in DOMAIN log'
        PROVE  Precedes(log[k].node, Top.dir)' \/ (log'[k].node = Top'.dir /\ ~log'[k].err)
    <3>1. Top'.dir = n
      BY <1>2
    <3>. QED
      BY <1>5, <2>3, <3>1
  <2>. QED
    BY <2>2, <2>4 DEF Ordered
<1>8. Accounted'
  <2>1. ASSUME NEW e \in Below, ToCome(e)
        PROVE  CompleteBut(e)' \/ ToCome(e)'
    <3>1. e \in Nodes /\ Path(e)' = Path(e) /\ Above(e)' = Above(e)
      BY TreeStays DEF Below, Entries, Nodes
    <3>2. PICK i \in 1..Len(frames) : \E b \in frames[i].rest : b \in Path(e)
      BY <1>5, <2>1 DEF ToCome
    <3>3. PICK b \in frames[i].rest : b \in Path(e)
      BY <3>2
    <3>4. CASE i \in 1..(Len(frames) - 1)
      <4>1. i \in DOMAIN frames' /\ b \in frames'[i].rest
        BY <1>3, <1>4, <1>5, <3>3, <3>4
      <4>. QED
        BY <3>1, <3>3, <4>1 DEF ToCome
    <3>5. CASE i = Len(frames) /\ b # n
      <4>1. i \in DOMAIN frames' /\ b \in frames'[i].rest
        BY <1>3, <1>4, <1>5, <3>3, <3>5
      <4>. QED
        BY <3>1, <3>3, <4>1 DEF ToCome
    <3>6. CASE b = n /\ e # n
      <4>1. n \in Above(e) /\ Top'.dir = n
        BY <1>2, <3>3, <3>6 DEF Above
      <4>. QED
        BY <3>1, <4>1 DEF ToCome
    <3>7. CASE b = n /\ e = n
      <4>1. n \in Reported'
        BY <1>5 DEF Logged, Reported
      <4>. QED
        BY <3>7, <4>1 DEF CompleteBut
    <3>. QED
      BY <1>3, <3>4, <3>5, <3>6, <3>7
  <2>. QED
    BY <1>1, <1>6, <2>1, AccountKept
<1>9. Deterministic'
  <2>1. MayFollow(c)
    BY DEF MayFollow
  <2>. QED
    BY <1>1, <1>6, <2>1, OrderKept
<1>10. TypeOK'
    BY <1>1, <1>2, <1>4, TypeKept DEF Logged, TypeOK
<1>11. Tree'
    BY <1>1, TreeStays
<1>. QED
    BY <1>2, <1>7, <1>8, <1>9, <1>10, <1>11 DEF IInv

-----------------------------------------------------------------------------
(* The steps of walkDir. *)

LEMMA ReadDirStep ==
    ASSUME IInv, ReadDir
    PROVE  IInv'
<1>1. TypeOK /\ Tree /\ Stack /\ Ordered /\ pc = "readDir" /\ pc # "returned"
    BY DEF IInv, ReadDir
<1>2. /\ frames \in Seq(Frame) /\ Len(frames) > 0 /\ Top \in Frame
      /\ Top = frames[Len(frames)] /\ Placed(Len(frames)) /\ Top.rest = {}
    BY <1>1, TopFrame DEF Stack
<1>3. UNCHANGED <<treeVars, ctxDone>> /\ Top.dir \in Nodes /\ DOMAIN log = 1..Len(log)
    BY <1>1, <1>2 DEF ReadDir, Frame, TypeOK
<1>4. CASE Unwind("ctx") /\ UNCHANGED <<log, skipped>>
    BY <1>1, <1>3, <1>4, NotCalled, Unwound DEF TypeOK
<1>5. CASE /\ frames' = Append(Pop, [Top EXCEPT !.rest = Children(Top.dir)])
           /\ pc' = "entry" /\ UNCHANGED <<result, log, skipped>>
  <2>1. PICK f \in Frame : /\ f = [Top EXCEPT !.rest = Children(Top.dir)]
                           /\ f.dir = Top.dir /\ f.rest = Children(Top.dir)
    <3>1. [Top EXCEPT !.rest = Children(Top.dir)] \in Frame
      BY <1>2 DEF Frame, Children
    <3>2. /\ [Top EXCEPT !.rest = Children(Top.dir)].dir = Top.dir
          /\ [Top EXCEPT !.rest = Children(Top.dir)].rest = Children(Top.dir)
      BY <1>2 DEF Frame, Children
    <3>. QED
      BY <3>1, <3>2, Zenon
  <2>2. SameButTop(f)
    <3>1. frames' = Append(Pop, f)
      BY <1>5, <2>1, Zenon
    <3>. QED
      BY <1>2, <3>1, ReplaceTop
  <2>3. ASSUME NEW b \in f.rest, NEW k \in 1..Len(log)
        PROVE  Precedes(log[k].node, b)
    <3>1. b \in Entries /\ parent[b] = Top.dir
      BY <2>1 DEF Children
    <3>2. Precedes(log[k].node, parent[b]) \/ log[k].node = parent[b]
      BY <1>1, <1>3, <3>1 DEF Ordered
    <3>3. log[k] \in Calls
      BY <1>1 DEF TypeOK
    <3>4. log[k].node \in Nodes
      BY <3>3 DEF Calls
    <3>. QED
      BY <1>1, <3>1, <3>2, <3>4, PrecedesDown
  <2>4. ASSUME NEW n \in Below, Top.dir \in Above(n)
        PROVE  \E b \in f.rest : b \in Path(n)
    BY <1>1, <2>1, <2>4, NextDown DEF Below, Entries, Nodes
  <2>5. Logged({}) /\ {} \in SUBSET Calls
    BY <1>1, <1>5, NotCalled
  <2>. QED
    BY <1>1, <1>2, <1>3, <1>5, <2>1, <2>2, <2>3, <2>4, <2>5, WentOn DEF TypeOK
<1>6. ASSUME NEW c \in Calls, c = [node |-> Top.dir, err |-> TRUE], CallFn(c),
             \/ ReturnNil /\ UNCHANGED skipped
             \/ Unwind("nil") /\ skipped' = skipped \cup {c}
             \/ Unwind("fn") /\ UNCHANGED skipped
      PROVE  IInv'
  <2>1. Logged({c}) /\ {c} \in SUBSET Calls /\ c.node = Top.dir /\ c.err
    BY <1>1, <1>6, Called
  <2>2. MayFollow(c)
    BY <1>1, <1>3, <2>1 DEF MayFollow, Ordered
  <2>3. Top.dir \in Path(c.node)
    BY <1>3, <2>1, PathSelf
  <2>4. CASE ReturnNil /\ UNCHANGED skipped
    <3>1. ASSUME NEW n \in Below, Top.dir \in Above(n)
          PROVE  CompleteBut(n)'
      <4>1. Top.dir \in Failed'
        <5>1. PICK k \in 1..Len(log') : log'[k] = c
          BY <2>1 DEF Logged
        <5>2. k \in DOMAIN log'
          BY <2>1 DEF Logged
        <5>. QED
          BY <2>1, <5>1, <5>2 DEF Failed
      <4>2. Above(n)' = Above(n)
        BY <1>3, TreeStays DEF Below, Entries, Nodes
      <4>. QED
        BY <3>1, <4>1, <4>2 DEF CompleteBut, OutOfReach
    <3>. QED
      BY <1>1, <1>2, <1>3, <2>1, <2>2, <2>3, <2>4, <3>1, Returned DEF TypeOK
  <2>5. CASE Unwind("nil") /\ skipped' = skipped \cup {c}
    BY <1>1, <1>3, <2>1, <2>2, <2>5, Unwound DEF TypeOK
  <2>6. CASE Unwind("fn") /\ UNCHANGED skipped
    BY <1>1, <1>3, <2>1, <2>2, <2>6, Unwound DEF TypeOK
  <2>. QED
    BY <1>6, <2>4, <2>5, <2>6
<1>7. [node |-> Top.dir, err |-> TRUE] \in Calls
    BY <1>3 DEF Calls
<1>. QED
    BY <1>4, <1>5, <1>6, <1>7 DEF ReadDir

\* What lies under an entry that is not descended into is in a link.
LEMMA BelowFlat ==
    ASSUME TypeOK, Tree, NEW e \in Below, ~Descend(e), NEW n \in Entries, e \in Above(n)
    PROVE  OutOfReach(n)
<1>1. e \in Traversable /\ e \in Entries
    BY AboveListed DEF Below
<1>2. kind[e] = "dirlink"
    BY <1>1 DEF TypeOK, Kinds, Descend, Traversable, Entries
<1>. QED
    BY <1>2 DEF OutOfReach

\* A rule that drops an entry covers it and what lies under it.
LEMMA Covered ==
    ASSUME TypeOK, Tree, NEW e \in Below, Excluded(e), NEW n \in Entries, e \in Path(n)
    PROVE  CompleteBut(n)
<1>1. e \in Entries /\ e \in Nodes /\ n \in Nodes /\ parent[n] \in Nodes
    BY DEF Below, Entries, Nodes, TypeOK
<1>2. CASE Descend(e)
  <2>1. PICK r \in rules : r.recursive /\ r.all /\ r.scope \in Path(e)
    BY <1>1, <1>2, PathSelf DEF Excluded, subtreeExcluded, Above
  <2>2. CASE Descend(n)
    BY <1>1, <2>1, <2>2, PathInPath DEF CompleteBut, MayBeLeftOut
  <2>3. CASE ~Descend(n)
    <3>1. e \in Path(parent[n])
      BY <1>2, <2>3, PathParent
    <3>2. r.scope \in Path(parent[n])
      BY <1>1, <2>1, <3>1, PathInPath
    <3>3. Matches(r, n)
      BY <2>1, <3>2 DEF Matches, Above
    <3>. QED
      BY <2>3, <3>3 DEF CompleteBut, MayBeLeftOut, matchExclude
  <2>. QED
    BY <2>2, <2>3
<1>3. CASE ~Descend(e)
  <2>1. CASE e = n
    BY <1>3, <2>1 DEF Excluded, CompleteBut, MayBeLeftOut
  <2>2. CASE e # n
    BY <1>3, <2>2, BelowFlat DEF CompleteBut, Above
  <2>. QED
    BY <2>1, <2>2
<1>. QED
    BY <1>2, <1>3

LEMMA EntryStep ==
    ASSUME IInv, Entry
    PROVE  IInv'
<1>1. TypeOK /\ Tree /\ Stack /\ Ordered /\ pc = "entry" /\ pc # "returned"
    BY DEF IInv, Entry
<1>2. /\ frames \in Seq(Frame) /\ Len(frames) \in Nat \ {0} /\ Len(frames) > 0 /\ Top \in Frame
      /\ Top = frames[Len(frames)] /\ Placed(Len(frames))
    BY <1>1, TopFrame
<1>3. UNCHANGED <<treeVars, ctxDone>> /\ Top.dir \in Nodes /\ Top.rest \subseteq Entries
      /\ DOMAIN log = 1..Len(log) /\ DOMAIN frames = 1..Len(frames)
    BY <1>1, <1>2 DEF Entry, Frame, TypeOK
<1>4. PICK e \in Top.rest : e = Min(Top.rest) /\ \A b \in Top.rest : e <= b
  <2>1. Top.rest \in SUBSET Nat /\ Top.rest # {}
    BY <1>3 DEF Entry, Entries
  <2>. QED
    BY <2>1, LeastExists
<1>5. /\ e \in Entries /\ e \in Nodes /\ e \in Nat /\ kind[e] \in Kinds /\ parent[e] = Top.dir
      /\ Top.dir \in Path(e) /\ e \in Path(e)
  <2>1. e \in Entries /\ e \in Nodes /\ e \in Nat /\ kind[e] \in Kinds /\ parent[e] = Top.dir
    BY <1>1, <1>2, <1>3 DEF Entries, Nodes, TypeOK, Placed, Children
  <2>. QED
    BY <1>1, <1>3, <2>1, PathParent, PathSelf
<1>6. e \in Below
  <2>1. 1 \in 1..Len(frames) /\ 1 \in Nat
    BY <1>2
  <2>2. frames[1].dir = start
    BY <1>1, <2>1 DEF Stack, Placed
  <2>3. start \in Path(Top.dir)
    BY <1>2, <2>1, <2>2 DEF Placed
  <2>. QED
    BY <1>1, <1>5, <2>3, AboveParent DEF Below
<1>7. PICK f \in Frame : /\ f = [Top EXCEPT !.rest = @ \ {e}]
                         /\ f.dir = Top.dir /\ f.rest = Top.rest \ {e}
  <2>1. [Top EXCEPT !.rest = @ \ {e}] \in Frame
    BY <1>2 DEF Frame
  <2>2. /\ [Top EXCEPT !.rest = @ \ {e}].dir = Top.dir
        /\ [Top EXCEPT !.rest = @ \ {e}].rest = Top.rest \ {e}
    BY <1>2 DEF Frame
  <2>. QED
    BY <2>1, <2>2, Zenon
<1>8. \A b \in Top.rest : \A k \in 1..Len(log) : Precedes(log[k].node, b)
  <2>1. Len(frames) \in DOMAIN frames
    BY <1>2, <1>3
  <2>. QED
    BY <1>1, <1>2, <1>3, <2>1 DEF Ordered
<1>9. \A b \in f.rest : b \in Entries /\ e < b /\ Precedes(e, b) /\ parent[b] = Top.dir
  <2>1. ASSUME NEW b \in f.rest
        PROVE  b \in Entries /\ b \in Top.rest /\ e < b /\ parent[b] = Top.dir
    BY <1>2, <1>3, <1>4, <1>5, <1>7 DEF Entries, Placed, Children
  <2>. QED
    BY <1>1, <2>1, SiblingLater
<1>10. f.rest \subseteq Children(Top.dir)
    BY <1>9 DEF Children
<1>11. \A n \in Below : n \in Entries /\ n \in Nodes
    BY DEF Below, Entries, Nodes
<1>12. ASSUME SameButTop(f), pc' = "entry", result' = result,
              NEW C \in SUBSET Calls, Logged(C), \A c \in C : c.node = e,
              skipped \subseteq skipped', skipped' \in SUBSET Calls,
              \A n \in Below : e \in Path(n) => CompleteBut(n)'
       PROVE  IInv'
  <2>1. \A c \in C : MayFollow(c) /\ Top.dir \in Path(c.node)
    BY <1>4, <1>5, <1>8, <1>12 DEF MayFollow
  <2>2. \A n \in Below : \A b \in Top.rest : b \in Path(n) => b \in f.rest \/ CompleteBut(n)'
    BY <1>7, <1>12
  <2>3. \A b \in f.rest : /\ \A k \in 1..Len(log) : Precedes(log[k].node, b)
                          /\ \A c \in C : Precedes(c.node, b)
    BY <1>7, <1>8, <1>9, <1>12
  <2>. QED
    BY <1>1, <1>3, <1>7, <1>10, <1>12, <2>1, <2>2, <2>3, WentOn
<1>13. CASE /\ Excluded(e) /\ ~include
            /\ frames' = Append(Pop, f) /\ UNCHANGED <<pc, result, log, skipped>>
  <2>1. SameButTop(f)
    BY <1>2, <1>13, ReplaceTop
  <2>2. Logged({}) /\ {} \in SUBSET Calls
    BY <1>1, <1>13, NotCalled
  <2>3. skipped \subseteq skipped' /\ skipped' \in SUBSET Calls
    BY <1>1, <1>13 DEF TypeOK
  <2>4. ASSUME NEW n \in Below, e \in Path(n)
        PROVE  CompleteBut(n)'
    BY <1>1, <1>3, <1>6, <1>11, <1>13, <2>2, <2>3, <2>4, Covered, CompleteKept
  <2>. QED
    BY <1>1, <1>12, <1>13, <2>1, <2>2, <2>3, <2>4
<1>14. ASSUME NEW c \in Calls, c = [node |-> e, err |-> FALSE], CallFn(c),
              \/ /\ IF Descend(e) /\ ~Excluded(e)
                    THEN frames' = Append(Append(Pop, f), [dir |-> e, rest |-> {}]) /\ pc' = "readDir"
                    ELSE frames' = Append(Pop, f) /\ UNCHANGED pc
                 /\ UNCHANGED <<result, skipped>>
              \/ /\ skipped' = skipped \cup {c}
                 /\ IF kind[e] # "file"
                    THEN frames' = Append(Pop, f) /\ UNCHANGED <<pc, result>>
                    ELSE ReturnNil
              \/ Unwind("fn") /\ UNCHANGED skipped
       PROVE  IInv'
  <2>1. Logged({c}) /\ {c} \in SUBSET Calls /\ c.node = e /\ ~c.err
    BY <1>1, <1>14, Called
  <2>2. MayFollow(c)
    BY <1>4, <1>8, <2>1 DEF MayFollow
  <2>3. skipped \subseteq skipped' /\ skipped' \in SUBSET Calls
    BY <1>1, <1>14 DEF TypeOK
  <2>4. e \in Reported'
    <3>1. PICK k \in 1..Len(log') : log'[k] = c
      BY <2>1 DEF Logged
    <3>2. k \in DOMAIN log'
      BY <2>1 DEF Logged
    <3>. QED
      BY <2>1, <3>1, <3>2 DEF Reported
  <2>5. \A n \in Nodes : Path(n)' = Path(n) /\ Above(n)' = Above(n)
    BY <1>3, TreeStays
  <2>6. CASE Descend(e) /\ ~Excluded(e) /\ UNCHANGED <<result, skipped>>
             /\ frames' = Append(Append(Pop, f), [dir |-> e, rest |-> {}]) /\ pc' = "readDir"
    <3>1. PICK g \in Frame : g = [dir |-> e, rest |-> {}] /\ g.dir = e /\ g.rest = {}
      <4>1. [dir |-> e, rest |-> {}] \in Frame
        BY <1>5 DEF Frame
      <4>. QED
        BY <4>1
    <3>2. SameAndPushed(f, g)
      <4>1. frames' = Append(Append(Pop, f), g)
        BY <2>6, <3>1, Zenon
      <4>. QED
        BY <1>2, <4>1, ReplaceTopAndPush
    <3>3. kind[e] = "dir"
      BY <2>6 DEF Descend
    <3>. QED
      BY <1>1, <1>3, <1>4, <1>5, <1>7, <1>8, <1>9, <2>1, <2>6, <3>1, <3>2, <3>3, WentDown
  <2>7. CASE ~(Descend(e) /\ ~Excluded(e)) /\ frames' = Append(Pop, f) /\ UNCHANGED <<pc, result, skipped>>
    <3>1. SameButTop(f)
      BY <1>2, <2>7, ReplaceTop
    <3>2. ASSUME NEW n \in Below, e \in Path(n)
          PROVE  CompleteBut(n)'
      <4>1. CASE n = e
        BY <2>4, <4>1 DEF CompleteBut
      <4>2. CASE n # e
        <5>1. CompleteBut(n)
          <6>1. CASE Excluded(e)
            BY <1>1, <1>6, <1>11, <3>2, <6>1, Covered
          <6>2. CASE ~Descend(e)
            BY <1>1, <1>6, <1>11, <3>2, <4>2, <6>2, BelowFlat DEF CompleteBut, Above
          <6>. QED
            BY <2>7, <6>1, <6>2
        <5>. QED
          BY <1>1, <1>3, <1>11, <2>1, <2>3, <5>1, CompleteKept
      <4>. QED
        BY <4>1, <4>2
    <3>. QED
      BY <1>1, <1>12, <2>1, <2>3, <2>7, <3>1, <3>2
  <2>8. CASE /\ skipped' = skipped \cup {c} /\ kind[e] # "file"
             /\ frames' = Append(Pop, f) /\ UNCHANGED <<pc, result>>
    <3>1. SameButTop(f)
      BY <1>2, <2>8, ReplaceTop
    <3>2. ASSUME NEW n \in Below, e \in Path(n)
          PROVE  CompleteBut(n)'
      <4>1. CASE n = e
        BY <2>4, <4>1 DEF CompleteBut
      <4>2. CASE n # e
        <5>1. e \in Above(n)'
          BY <1>11, <2>5, <3>2, <4>2 DEF Above
        <5>. QED
          BY <2>1, <2>8, <5>1 DEF CompleteBut, SkippedByFn
      <4>. QED
        BY <4>1, <4>2
    <3>. QED
      BY <1>1, <1>12, <2>1, <2>3, <2>8, <3>1, <3>2
  <2>9. CASE skipped' = skipped \cup {c} /\ kind[e] = "file" /\ ReturnNil
    <3>1. ASSUME NEW n \in Below, NEW b \in Top.rest, b \in Path(n)
          PROVE  CompleteBut(n)'
      <4>1. CASE b = e /\ n = e
        BY <2>4, <4>1 DEF CompleteBut
      <4>2. CASE b = e /\ n # e
        <5>1. OutOfReach(n)
          BY <1>1, <1>6, <1>11, <2>9, <3>1, <4>2, BelowFlat DEF Above, Descend
        <5>. QED
          BY <1>1, <1>3, <1>11, <2>1, <2>3, <5>1, CompleteKept DEF CompleteBut
      <4>3. CASE b # e
        <5>1. b \in f.rest /\ b \in Path(n)' /\ b # 0
          BY <1>3, <1>7, <1>11, <2>5, <3>1, <4>3 DEF Entries
        <5>2. parent'[b] = parent'[e] /\ b > e /\ kind'[e] = "file"
          BY <1>3, <1>5, <1>9, <2>9, <5>1 DEF treeVars, Entries
        <5>. QED
          BY <2>1, <2>9, <5>1, <5>2 DEF CompleteBut, SkippedByFn
      <4>. QED
        BY <4>1, <4>2, <4>3
    <3>. QED
      BY <1>1, <1>3, <1>5, <2>1, <2>2, <2>3, <2>9, <3>1, Returned
  <2>10. CASE Unwind("fn") /\ UNCHANGED skipped
    BY <1>1, <1>3, <2>1, <2>2, <2>3, <2>10, Unwound
  <2>. QED
    BY <1>1, <1>14, <2>6, <2>7, <2>8, <2>9, <2>10
<1>15. [node |-> e, err |-> FALSE] \in Calls
    BY <1>5 DEF Calls
<1>. QED
    BY <1>4, <1>7, <1>13, <1>14, <1>15, Zenon DEF Entry

LEMMA LastEntryStep ==
    ASSUME IInv, LastEntry
    PROVE  IInv'
<1>1. TypeOK /\ pc = "entry" /\ pc # "returned" /\ Top.rest = {}
    BY DEF IInv, LastEntry
<1>2. UNCHANGED <<treeVars, ctxDone>> /\ ReturnNil /\ UNCHANGED <<log, skipped>>
    BY DEF LastEntry
<1>3. Logged({}) /\ {} \in SUBSET Calls
    BY <1>1, <1>2, NotCalled
<1>4. skipped \subseteq skipped' /\ skipped' \in SUBSET Calls
    BY <1>1, <1>2 DEF TypeOK
<1>. QED
    BY <1>1, <1>2, <1>3, <1>4, Returned

LEMMA IdleStep ==
    ASSUME IInv, CtxDone \/ UNCHANGED vars
    PROVE  IInv'
<1>1. UNCHANGED <<treeVars, frames, pc, result, log, skipped>> /\ (ctxDone' = TRUE \/ UNCHANGED ctxDone)
    BY DEF CtxDone, vars
<1>2. TypeOK'
    BY <1>1 DEF IInv, TypeOK, treeVars
<1>3. Tree'
    BY <1>1, TreeStays DEF IInv
<1>4. Stack'
    BY <1>1 DEF IInv, Stack, Placed, Down, Top, Children, Path, treeVars
<1>5. StaysInside'
    BY <1>1 DEF IInv, StaysInside, Path, treeVars
<1>6. Deterministic' /\ Ordered'
    BY <1>1 DEF IInv, Deterministic, Ordered, Precedes, Path, Above, Top, treeVars
<1>7. Accounted'
  <2>1. \A n \in Entries : CompleteBut(n)' = CompleteBut(n) /\ ToCome(n)' = ToCome(n)
    BY <1>1 DEF CompleteBut, ToCome, Top, Below, Reported, Failed, SkippedByFn, OutOfReach,
                MayBeLeftOut, matchExclude, Matches, Descend, Path, Above, treeVars
  <2>2. Below' = Below /\ Below \subseteq Entries
    BY <1>1, TreeStays DEF Below
  <2>. QED
    BY <1>1, <2>1, <2>2 DEF IInv, Accounted
<1>. QED
    BY <1>2, <1>3, <1>4, <1>5, <1>6, <1>7 DEF IInv

-----------------------------------------------------------------------------

LEMMA InvInit ==
    ASSUME Init
    PROVE  IInv
<1>1. PICK f \in Frame : f = [dir |-> start, rest |-> {}] /\ f.dir = start /\ f.rest = {}
  <2>1. start \in Nodes
    BY SizeAssumption DEF Init, Traversable, Nodes, Entries
  <2>2. [dir |-> start, rest |-> {}] \in Frame
    BY <2>1 DEF Frame
  <2>. QED
    BY <2>2
<1>2. frames = <<f>> /\ pc = "readDir" /\ result = "none" /\ log = <<>> /\ skipped = {}
    BY <1>1, Zenon DEF Init
<1>3. frames \in Seq(Frame) /\ Len(frames) = 1 /\ frames[1] = f /\ Top = f
    BY <1>2 DEF Top
<1>4. TypeOK
  <2>1. start \in Nodes /\ rules \subseteq Rules
    BY SizeAssumption, RulesAssumption DEF Init, Traversable, Nodes, Entries
  <2>2. parent \in [Entries -> Nodes] /\ kind \in [Entries -> Kinds]
    BY DEF Init
  <2>3. log \in Seq(Calls) /\ Len(frames) <= N + 1
    BY <1>2, <1>3, SizeAssumption
  <2>. QED
    BY <1>2, <1>3, <2>1, <2>2, <2>3 DEF Init, TypeOK, Frame
<1>5. Tree
    BY DEF Init, Tree
<1>6. Stack
  <2>1. f.dir \in Nat
    BY SizeAssumption DEF Frame, Nodes
  <2>2. start \in Path(start)
    BY <1>4, PathSelf DEF TypeOK
  <2>3. Placed(1)
    BY <1>1, <1>3, <2>1, <2>2 DEF Placed
  <2>. QED
    BY <1>1, <1>2, <1>3, <2>3 DEF Stack
<1>7. StaysInside
    BY <1>1, <1>3 DEF StaysInside
<1>8. Deterministic /\ Ordered
    BY <1>2 DEF Deterministic, Ordered
<1>9. Accounted
    BY <1>1, <1>2, <1>3 DEF Accounted, ToCome, Below
<1>. QED
    BY <1>4, <1>5, <1>6, <1>7, <1>8, <1>9 DEF IInv

\* IInv is invariant, for every tree, set of rules, callback and cancellation.
THEOREM InvHolds == Spec => []IInv
<1>1. Init => IInv
    BY InvInit
<1>2. IInv /\ [Next]_vars => IInv'
    BY ReadDirStep, EntryStep, LastEntryStep, IdleStep DEF Next
<1>. QED
    BY <1>1, <1>2, PTL DEF Spec

\* The variables of the walk keep their types: the stack of walkDir calls is
\* never deeper than the tree.
THEOREM WalkTypeCorrect == Spec => []TypeOK
<1>1. IInv => TypeOK
    BY DEF IInv
<1>. QED
    BY <1>1, InvHolds, PTL

\* Fail closed: a Walk that returns nil has accounted for every entry beneath
\* its root (walkDir, subtreeExcluded).
THEOREM NothingIsMissing == Spec => []NothingMissing
<1>1. IInv => NothingMissing
  <2>1. SUFFICES ASSUME IInv, result = "nil", \A c \in skipped : ~c.err, NEW n \in Below
                 PROVE  CompleteBut(n)
      BY DEF NothingMissing
  <2>2. pc = "returned" /\ Len(frames) = 0 /\ frames \in Seq(Frame)
      BY <2>1 DEF IInv, Stack, TypeOK, Frame
  <2>3. ~ToCome(n)
      BY <2>2 DEF ToCome
  <2>. QED
      BY <2>1, <2>3 DEF IInv, Accounted
<1>. QED
    BY <1>1, InvHolds, PTL

\* The order of the reports depends on the tree alone (readDir sorts).
THEOREM OrderIsFixed == Spec => []Deterministic
<1>1. IInv => Deterministic
    BY DEF IInv
<1>. QED
    BY <1>1, InvHolds, PTL

\* No directory is read through a link (e.IsDir without ReparsePoint).
THEOREM NeverLeaves == Spec => []StaysInside
<1>1. IInv => StaysInside
    BY DEF IInv
<1>. QED
    BY <1>1, InvHolds, PTL
=============================================================================
