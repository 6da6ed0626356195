---------------------------- MODULE SnapshotWalk ----------------------------
(***************************************************************************)
(* Snapshot.Walk: the recursive enumeration of one shadow copy for a       *)
(* manifest, with exclude rules, reparse points, unreadable directories,   *)
(* a callback that may answer anything, and a context that may be done at  *)
(* any moment.  The Go call stack is the variable frames.                  *)
(*                                                                         *)
(* Entries are numbered so that siblings are in readDir's order.  What is  *)
(* under a directory link is what the link leads to, outside the snapshot. *)
(***************************************************************************)
EXTENDS Integers, Sequences, FiniteSets, FiniteSetsExt

CONSTANTS
    N,              \* bound: entries below the volume root, which is 0
    RuleSets        \* bound: what WalkOptions.Excludes may be

ASSUME SizeAssumption == N \in Nat

VARIABLES
    parent, kind,       \* the tree
    rules, include,     \* WalkOptions.Excludes and IncludeExcluded
    start,              \* the root argument
    ctxDone,
    frames,             \* the active walkDir calls, the outermost first
    pc, result,
    log,                \* the calls of fn, in order
    skipped             \* those it answered with SkipDir

treeVars == <<parent, kind, rules, include, start>>
vars == <<treeVars, ctxDone, frames, pc, result, log, skipped>>

Entries == 1..N
Nodes   == 0..N
Kinds   == {"file", "dir", "dirlink"}

\* An ExcludeRule: its directory, whether it is recursive, and its FileSpec,
\* one that matches every name or one that matches the names of some entries.
Rules == [scope : Nodes, recursive : BOOLEAN, all : BOOLEAN, names : SUBSET Entries]

ASSUME RulesAssumption == RuleSets \subseteq SUBSET Rules

Calls == [node : Nodes, err : BOOLEAN]

Traversable == {0} \cup {n \in Entries : kind[n] # "file"}     \* what has a directory listing

TypeOK ==
    /\ parent \in [Entries -> Nodes] /\ kind \in [Entries -> Kinds]
    /\ rules \subseteq Rules /\ include \in BOOLEAN /\ start \in Nodes
    /\ ctxDone \in BOOLEAN
    /\ frames \in Seq([dir : Nodes, rest : SUBSET Entries]) /\ Len(frames) <= N + 1
    /\ pc \in {"readDir", "entry", "returned"} /\ result \in {"none", "nil", "ctx", "fn"}
    /\ log \in Seq(Calls) /\ skipped \subseteq Calls

Init ==
    /\ parent \in {p \in [Entries -> Nodes] : \A n \in Entries : p[n] < n}
    /\ kind \in [Entries -> Kinds]
    /\ \A n \in Entries : parent[n] \in Traversable
    /\ rules \in RuleSets /\ \A r \in rules : r.scope \in Traversable
    /\ include \in BOOLEAN
    /\ start \in Traversable
    /\ ctxDone = FALSE
    /\ frames = <<[dir |-> start, rest |-> {}]>> /\ pc = "readDir" /\ result = "none"
    /\ log = <<>> /\ skipped = {}

-----------------------------------------------------------------------------
(* The tree and the rules. *)

\* The nodes from the root to n: the least set that has n and the parents of
\* its members.
Path(n) == {a \in Nodes : \A S \in SUBSET Nodes :
                n \in S /\ (\A m \in S \ {0} : parent[m] \in S) => a \in S}

Above(n) == Path(n) \ {n}

Children(d) == {n \in Entries : parent[n] = d}

\* ExcludeRule.Matches of an entry's absolute path.
Matches(r, n) ==
    /\ r.scope = parent[n] \/ (r.recursive /\ r.scope \in Above(parent[n]))
    /\ r.all \/ n \in r.names

matchExclude(n) == \E r \in rules : Matches(r, n)

\* Mutant: a match-all rule that is not recursive prunes, too.
SubtreeOfFlatRule(d) ==
    \E r \in rules : r.all /\ (r.scope = d \/ r.scope \in Above(d))

\* Only a recursive rule for every name prunes a directory.
subtreeExcluded(d) ==
    \E r \in rules : r.recursive /\ r.all /\ (r.scope = d \/ r.scope \in Above(d))

\* Mutant: a directory link is a directory like another.
DescendAnyDir(n) == kind[n] \in {"dir", "dirlink"}

Descend(n) == kind[n] = "dir"       \* e.IsDir and no reparse point

Excluded(n) == IF Descend(n) THEN subtreeExcluded(n) ELSE matchExclude(n)

-----------------------------------------------------------------------------
(* walkDir. *)

Top == frames[Len(frames)]

\* Mutant: a call that is over stays on the stack.
KeepCaller == frames

Pop == SubSeq(frames, 1, Len(frames) - 1)

\* The innermost walkDir returns nil: its caller goes on with the next entry,
\* or Walk returns nil.
ReturnNil ==
    /\ frames' = Pop
    /\ IF Len(frames) = 1 THEN pc' = "returned" /\ result' = "nil"
       ELSE pc' = "entry" /\ UNCHANGED result

\* It returns an error: every walkDir passes it on.
Unwind(how) == frames' = <<>> /\ pc' = "returned" /\ result' = how

CallFn(call) == log' = Append(log, call)

\* The head of walkDir, and readDir.  The listing of a directory that cannot
\* be read goes to fn, whose answer is walkDir's result; Walk turns a SkipDir
\* that gets there into nil.
ReadDir ==
    /\ pc = "readDir"
    /\ \/ ctxDone /\ Unwind("ctx") /\ UNCHANGED <<log, skipped>>
       \/ /\ ~ctxDone
          /\ frames' = Append(Pop, [Top EXCEPT !.rest = Children(Top.dir)])
          /\ pc' = "entry" /\ UNCHANGED <<result, log, skipped>>
       \/ /\ ~ctxDone /\ CallFn([node |-> Top.dir, err |-> TRUE])
          /\ \/ ReturnNil /\ UNCHANGED skipped
             \/ Unwind("nil") /\ skipped' = skipped \cup {[node |-> Top.dir, err |-> TRUE]}
             \/ Unwind("fn") /\ UNCHANGED skipped
    /\ UNCHANGED <<treeVars, ctxDone>>

\* Mutant: entries in the order the file system lists them.
UnsortedEntry ==
    /\ pc = "entry" /\ Top.rest # {}
    /\ \E n \in Top.rest :
       LET here == Append(Pop, [Top EXCEPT !.rest = @ \ {n}])
           call == [node |-> n, err |-> FALSE]
       IN  IF Excluded(n) /\ ~include
           THEN frames' = here /\ UNCHANGED <<pc, result, log, skipped>>
           ELSE /\ CallFn(call) /\ UNCHANGED <<result, skipped>>
                /\ IF Descend(n) /\ ~Excluded(n)
                   THEN frames' = Append(here, [dir |-> n, rest |-> {}]) /\ pc' = "readDir"
                   ELSE frames' = here /\ UNCHANGED pc
    /\ UNCHANGED <<treeVars, ctxDone>>

\* One entry of the innermost directory: dropped, or given to fn and, if fn
\* does not object, descended into.
Entry ==
    /\ pc = "entry" /\ Top.rest # {}
    /\ LET n    == Min(Top.rest)
           here == Append(Pop, [Top EXCEPT !.rest = @ \ {n}])
           call == [node |-> n, err |-> FALSE]
       IN  IF Excluded(n) /\ ~include
           THEN frames' = here /\ UNCHANGED <<pc, result, log, skipped>>
           ELSE /\ CallFn(call)
                /\ \/ /\ IF Descend(n) /\ ~Excluded(n)
                         THEN frames' = Append(here, [dir |-> n, rest |-> {}]) /\ pc' = "readDir"
                         ELSE frames' = here /\ UNCHANGED pc
                      /\ UNCHANGED <<result, skipped>>
                   \/ /\ skipped' = skipped \cup {call}
                      /\ IF kind[n] # "file"
                         THEN frames' = here /\ UNCHANGED <<pc, result>>
                         ELSE ReturnNil
                   \/ Unwind("fn") /\ UNCHANGED skipped
    /\ UNCHANGED <<treeVars, ctxDone>>

LastEntry ==
    /\ pc = "entry" /\ Top.rest = {}
    /\ ReturnNil
    /\ UNCHANGED <<treeVars, ctxDone, log, skipped>>

CtxDone ==
    /\ ~ctxDone /\ pc # "returned" /\ ctxDone' = TRUE
    /\ UNCHANGED <<treeVars, frames, pc, result, log, skipped>>

Next == ReadDir \/ Entry \/ LastEntry \/ CtxDone

Spec == Init /\ [][Next]_vars

-----------------------------------------------------------------------------
(* Properties. *)

Reported  == {log[i].node : i \in {j \in DOMAIN log : ~log[j].err}}
Failed    == {log[i].node : i \in {j \in DOMAIN log : log[j].err}}
Below     == {n \in Entries : start \in Above(n)}       \* what Walk is asked for

\* fn's own answers leave the entry out: SkipDir for a directory above it, or
\* for a file that comes before it, or before a directory above it.
SkippedByFn(n) ==
    \E c \in skipped :
        \/ ~c.err /\ c.node \in Above(n)
        \/ ~c.err /\ kind[c.node] = "file"
           /\ \E m \in Path(n) \ {0} : parent[m] = parent[c.node] /\ m > c.node

\* A directory above it is a link, or could not be read and fn was told so.
OutOfReach(n) ==
    \E a \in Above(n) : (a \in Below /\ kind[a] = "dirlink") \/ a \in Failed

\* A rule of the caller covers it.
MayBeLeftOut(n) ==
    IF Descend(n) THEN \E r \in rules : r.recursive /\ r.all /\ r.scope \in Path(n)
    ELSE matchExclude(n)

\* Fail closed, for manifests: a Walk that returns nil has reported every entry
\* beneath its root, but for what a rule matches, what fn skipped and what lies
\* in a link or in a directory fn was told could not be read; pruning a subtree
\* leaves out no file that no rule matches.
CompleteBut(n) == n \in Reported \/ SkippedByFn(n) \/ OutOfReach(n) \/ MayBeLeftOut(n)

NothingMissing ==
    result = "nil" /\ (\A c \in skipped : ~c.err) => \A n \in Below : CompleteBut(n)

\* Two walks of a snapshot give the same manifest: entries come once, in an
\* order that depends on the tree alone, directories before their contents.
Precedes(m, n) ==
    \/ m \in Above(n)
    \/ \E a \in Path(m) \ {0}, b \in Path(n) \ {0} : parent[a] = parent[b] /\ a < b

Deterministic ==
    \A i, j \in DOMAIN log :
        i < j => Precedes(log[i].node, log[j].node)
                 \/ (log[i].node = log[j].node /\ ~log[i].err /\ log[j].err)

\* The walk of a root inside the snapshot never leaves it: no directory is read
\* through a link, annotated or not.
StaysInside ==
    (\A a \in Path(start) \ {0} : kind[a] = "dir") =>
        \A i \in DOMAIN frames : \A a \in Path(frames[i].dir) \ {0} : kind[a] = "dir"

(* What comments and documents say of the code, and the code does not do. *)

\* walk.go:56 "Return SkipDir for a directory to not descend into it": the
\* answer leaves out that directory and nothing else, also when it answers an
\* error.
SkipDirSkipsTheDirectory ==
    result = "nil" => \A n \in Below : CompleteBut(n)
=============================================================================
