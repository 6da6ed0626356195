-------------------------- MODULE ManifestExcludes --------------------------
(***************************************************************************)
(* How one entry of a snapshot comes to be in a manifest or not: the       *)
(* writers' exclude declarations are collected while the set is created    *)
(* (collectExcludeRules), the engine hands them to Snapshot.Walk, and the  *)
(* walk goes down to the entry and holds it against the rules, pruning     *)
(* directories on its way.  The loop of matchSpec is here step by step.    *)
(***************************************************************************)
EXTENDS ExcludeRules

CONSTANT Cases          \* sets of what a behaviour of the model may decide

\* declared     the writers' declarations, one sequence of rules per writer
\* sick         writers whose metadata may fail to be read; 0 is their number
\* volume       where the volume is mounted; VolumePath is in it, or empty
\* Root         WalkOptions.Root; system: the engine adds SystemExcludes
\* root, names  Walk's argument, and the entry's names below it
\* kind         what the entry is
FileName ==
    {n \in Text : /\ n \notin {<<>>, <<".">>, <<".", ".">>}
                  /\ Range(n) \cap (Separators \cup Drives \cup {"*", "?"}) = {}}

CaseType ==
    {c \in [declared : Seq(Seq(RuleType)), sick : SUBSET Nat, volume : Text, VolumePath : Text, Root : Text,
            system : BOOLEAN, root : Text, names : Seq(FileName), kind : {"file", "dir", "reparse"}] :
        c.sick \subseteq 0..Len(c.declared) /\ c.names # <<>>}

ASSUME CaseAssumption == \A family \in Cases : family \subseteq CaseType

VARIABLES
    case,
    pc,
    i, j,                   \* the writer and its declaration being read
    rules,                  \* SnapshotSet.excludes
    errs, named,            \* the writers an error of whom is joined; those whose error says whose it is
    excludes, volRoot,      \* WalkOptions.Excludes; the walker's volRoot
    rel, depth,             \* the directory the walk is in, and how deep it is
    full,                   \* the normalised absolute path held against the rules
    k,                      \* the rule being tried
    pattern, name, pi, ni, star, mark,  \* matchSpec's variables
    hit                     \* the rule that decided, or 0

collectVars == <<i, j, rules, errs, named>>
walkVars    == <<excludes, volRoot, rel, depth, full>>
matchVars   == <<pattern, name, pi, ni, star, mark>>
vars == <<case, pc, collectVars, walkVars, k, matchVars, hit>>

TypeOK ==
    /\ case \in CaseType
    /\ pc \in {"count", "writers", "declarations", "collected", "refused", "entry", "excluded?", "rules", "matchSpec", "decided"}
    /\ i \in 1..(Len(case.declared) + 1) /\ j \in Nat \ {0} /\ errs \subseteq case.sick /\ named \subseteq errs
    /\ rules \in Seq(RuleType) /\ excludes \in Seq(RuleType)
    /\ Len(excludes) \in {0, Len(rules), Len(rules) + 2}
    /\ {volRoot, rel, full, pattern, name} \subseteq Text
    /\ depth \in 1..Len(case.names) /\ k \in 0..(Len(excludes) + 1) /\ hit \in 0..Len(excludes)
    /\ pc = "matchSpec" => /\ pi \in 0..Len(pattern) /\ star \in -1..(pi - 1)
                           /\ ni \in 0..Len(name) /\ mark \in 0..Len(name)

Init ==
    /\ \E family \in Cases : case \in family
    /\ pc = "count"
    /\ i = 1 /\ j = 1 /\ rules = <<>> /\ errs = {} /\ named = {}
    /\ excludes = <<>> /\ volRoot = <<>> /\ rel = <<>> /\ depth = 1 /\ full = <<>>
    /\ k = 0 /\ pattern = <<>> /\ name = <<>> /\ pi = 0 /\ ni = 0 /\ star = -1 /\ mark = 0 /\ hit = 0

-----------------------------------------------------------------------------
(* collectExcludeRules. *)

CountWriters ==
    /\ pc = "count" /\ pc' = "writers"
    /\ UNCHANGED <<case, collectVars, walkVars, k, matchVars, hit>>

CountFails ==
    /\ pc = "count" /\ 0 \in case.sick
    /\ errs' = {0} /\ pc' = "collected"
    /\ UNCHANGED <<case, i, j, rules, named, walkVars, k, matchVars, hit>>

GetWriterMetadata ==
    /\ pc = "writers" /\ i <= Len(case.declared)
    /\ pc' = "declarations" /\ j' = 1
    /\ UNCHANGED <<case, i, rules, errs, named, walkVars, k, matchVars, hit>>

NextWriter ==
    /\ pc' = "writers" /\ i' = i + 1
    /\ UNCHANGED <<case, j, walkVars, k, matchVars, hit>>

\* Mutant: the first writer that fails ends the collection.
WriterFailsAll ==
    /\ pc \in {"writers", "declarations"} /\ i \in case.sick
    /\ pc' = "collected" /\ errs' = errs \cup {i} /\ named' = named \cup {i}
    /\ UNCHANGED <<case, i, j, rules, walkVars, k, matchVars, hit>>

\* GetWriterMetadata fails, or in the function literal FileCounts, ExcludeFile(j)
\* or ruleFromFiledesc: what was read of the writer stays, and the error has the
\* writer's number or name.
WriterFails ==
    /\ pc \in {"writers", "declarations"} /\ i \in case.sick
    /\ errs' = errs \cup {i} /\ named' = named \cup {i} /\ NextWriter
    /\ UNCHANGED rules

\* WriterName fails, before the first declaration is read: its error goes into
\* the join as it is and does not say whose it is.
WriterNameFails ==
    /\ pc = "declarations" /\ j = 1 /\ i \in case.sick
    /\ errs' = errs \cup {i} /\ NextWriter
    /\ UNCHANGED <<rules, named>>

\* ExpandEnvironmentStrings of the one variable there is, "%T%".
Expanded(path) ==
    IF path # <<>> /\ path[1] = "%T%" THEN <<"C:", Sep, "t">> \o Tail(path) ELSE path

\* ExcludeFile(j), ruleFromFiledesc and expandEnv, which returns its input
\* when it fails; a declaration without a path is passed over.
ReadRule ==
    /\ pc = "declarations" /\ j <= Len(case.declared[i])
    /\ j' = j + 1
    /\ LET rule == case.declared[i][j]
       IN  IF rule.path = <<>> THEN UNCHANGED rules
           ELSE \E path \in {Expanded(rule.path)} \cup (IF i \in case.sick THEN {rule.path} ELSE {}) :
                    rules' = Append(rules, [rule EXCEPT !.path = path])
    /\ UNCHANGED <<case, pc, i, errs, named, walkVars, k, matchVars, hit>>

WriterDone ==
    /\ pc = "declarations" /\ j > Len(case.declared[i])
    /\ NextWriter
    /\ UNCHANGED <<rules, errs, named>>

Collected ==
    /\ pc = "writers" /\ i > Len(case.declared)
    /\ pc' = "collected"
    /\ UNCHANGED <<case, collectVars, walkVars, k, matchVars, hit>>

-----------------------------------------------------------------------------
(* Walk, down to the entry. *)

\* The root of the original volume, as Walk has it from its options.
EffectiveRoot ==
    LET given == IF case.Root # <<>> THEN case.Root ELSE case.VolumePath
    IN  IF given = <<>> THEN <<>> ELSE WithSep(given)

RefuseRoot ==
    /\ pc = "collected" /\ validateVolumeRelativePath(case.root) = {}
    /\ pc' = "refused"
    /\ UNCHANGED <<case, collectVars, walkVars, k, matchVars, hit>>

StartWalk ==
    /\ pc = "collected"
    /\ \E norm \in validateVolumeRelativePath(case.root) : rel' = norm
    /\ excludes' = rules \o (IF case.system THEN SystemExcludes(case.VolumePath) ELSE <<>>)
    /\ volRoot' = EffectiveRoot
    /\ pc' = "entry"
    /\ UNCHANGED <<case, collectVars, depth, full, k, matchVars, hit>>

Path     == (IF rel = <<>> THEN <<>> ELSE Append(rel, Sep)) \o case.names[depth]    \* Entry.Path
Matching == volRoot # <<>> /\ excludes # <<>>
AtEntry  == depth = Len(case.names)
Descends == ~AtEntry \/ case.kind = "dir"       \* a directory that is no reparse point

\* abs, and what subtreeExcluded and Matches first make of it.
NextEntry ==
    /\ pc = "entry"
    /\ full' = normWinPath(volRoot \o Path)
    /\ pc' = "excluded?"
    /\ UNCHANGED <<case, collectVars, excludes, volRoot, rel, depth, k, matchVars, hit>>

Decide(rule) == pc' = "decided" /\ hit' = rule

\* subtreeExcluded finds a rule: neither the directory nor what is in it.
PruneDir ==
    /\ pc = "excluded?" /\ Descends /\ Matching
    /\ \E r \in DOMAIN excludes :
          /\ Prunes(excludes[r], full) /\ \A q \in 1..(r - 1) : ~Prunes(excludes[q], full)
          /\ Decide(r)
    /\ UNCHANGED <<case, collectVars, walkVars, k, matchVars>>

KeepDir ==
    /\ pc = "excluded?" /\ Descends
    /\ Matching => \A r \in DOMAIN excludes : ~Prunes(excludes[r], full)
    /\ IF AtEntry
       THEN Decide(0) /\ UNCHANGED <<rel, depth>>
       ELSE rel' = Path /\ depth' = depth + 1 /\ pc' = "entry" /\ UNCHANGED hit
    /\ UNCHANGED <<case, collectVars, excludes, volRoot, full, k, matchVars>>

UnmatchedEntry ==
    /\ pc = "excluded?" /\ ~Descends /\ ~Matching
    /\ Decide(0)
    /\ UNCHANGED <<case, collectVars, walkVars, k, matchVars>>

-----------------------------------------------------------------------------
(* matchExclude on a file or a reparse point: rule k after rule k. *)

MatchEntry ==
    /\ pc = "excluded?" /\ ~Descends /\ Matching
    /\ pc' = "rules" /\ k' = 1
    /\ UNCHANGED <<case, collectVars, walkVars, matchVars, hit>>

NoRuleLeft ==
    /\ pc = "rules" /\ k > Len(excludes)
    /\ Decide(0)
    /\ UNCHANGED <<case, collectVars, walkVars, k, matchVars>>

OutOfScope ==
    /\ pc = "rules" /\ k <= Len(excludes) /\ ~InScope(excludes[k], full)
    /\ k' = k + 1
    /\ UNCHANGED <<case, pc, collectVars, walkVars, matchVars, hit>>

MatchesAll ==
    /\ pc = "rules" /\ k <= Len(excludes) /\ InScope(excludes[k], full)
    /\ specMatchesAll(excludes[k].spec)
    /\ Decide(k)
    /\ UNCHANGED <<case, collectVars, walkVars, k, matchVars>>

CallMatchSpec ==
    /\ pc = "rules" /\ k <= Len(excludes) /\ InScope(excludes[k], full)
    /\ ~specMatchesAll(excludes[k].spec)
    /\ pattern' = Fold(excludes[k].spec) /\ name' = Fold(NameOf(full))
    /\ pc' = "matchSpec" /\ pi' = 0 /\ ni' = 0 /\ star' = -1 /\ mark' = 0
    /\ UNCHANGED <<case, collectVars, walkVars, k, hit>>

\* The cases of the loop, in their order; its variables count from 0.
InLoop    == pc = "matchSpec" /\ ni < Len(name)
IsLiteral == pi < Len(pattern) /\ pattern[pi + 1] \in {"?", name[ni + 1]}
IsStar    == pi < Len(pattern) /\ pattern[pi + 1] = "*"

Literal ==
    /\ InLoop /\ IsLiteral
    /\ pi' = pi + 1 /\ ni' = ni + 1
    /\ UNCHANGED <<case, pc, collectVars, walkVars, pattern, name, k, star, mark, hit>>

\* Mutant: what comes after the star is remembered.
StarNext ==
    /\ InLoop /\ ~IsLiteral /\ IsStar
    /\ star' = pi + 1 /\ mark' = ni /\ pi' = pi + 1
    /\ UNCHANGED <<case, pc, collectVars, walkVars, pattern, name, k, ni, hit>>

Star ==
    /\ InLoop /\ ~IsLiteral /\ IsStar
    /\ star' = pi /\ mark' = ni /\ pi' = pi + 1
    /\ UNCHANGED <<case, pc, collectVars, walkVars, pattern, name, k, ni, hit>>

\* Mutant: the mark of the star stays where it was.
BacktrackInPlace ==
    /\ InLoop /\ ~IsLiteral /\ ~IsStar /\ star >= 0
    /\ pi' = star + 1 /\ ni' = mark
    /\ UNCHANGED <<case, pc, collectVars, walkVars, pattern, name, k, star, mark, hit>>

Backtrack ==
    /\ InLoop /\ ~IsLiteral /\ ~IsStar /\ star >= 0
    /\ mark' = mark + 1 /\ pi' = star + 1 /\ ni' = mark + 1
    /\ UNCHANGED <<case, pc, collectVars, walkVars, pattern, name, k, star, hit>>

NoMatch ==
    /\ pc' = "rules" /\ k' = k + 1
    /\ UNCHANGED <<case, collectVars, walkVars, matchVars, hit>>

Mismatch ==
    /\ InLoop /\ ~IsLiteral /\ ~IsStar /\ star < 0
    /\ NoMatch

\* The loop over trailing stars, and pi == len(p).
RestMatches == \A q \in (pi + 1)..Len(pattern) : pattern[q] = "*"

SpecMatches ==
    /\ pc = "matchSpec" /\ ni = Len(name) /\ RestMatches
    /\ Decide(k)
    /\ UNCHANGED <<case, collectVars, walkVars, k, matchVars>>

SpecFails ==
    /\ pc = "matchSpec" /\ ni = Len(name) /\ ~RestMatches
    /\ NoMatch

-----------------------------------------------------------------------------

Collect ==
    \/ CountWriters \/ CountFails \/ GetWriterMetadata \/ WriterFails \/ WriterNameFails \/ ReadRule \/ WriterDone \/ Collected

WalkDown ==
    \/ RefuseRoot \/ StartWalk \/ NextEntry \/ PruneDir \/ KeepDir \/ UnmatchedEntry

Match ==
    \/ MatchEntry \/ NoRuleLeft \/ OutOfScope \/ MatchesAll \/ CallMatchSpec
    \/ Literal \/ Star \/ Backtrack \/ Mismatch \/ SpecMatches \/ SpecFails

Next == Collect \/ WalkDown \/ Match

Spec     == Init /\ [][Next]_vars
FairSpec == Spec /\ WF_vars(Next)       \* one goroutine, and calls that return

-----------------------------------------------------------------------------
(* Properties. *)

\* One writer that cannot be read costs the backup no other writer's rules,
\* no more than the rest of its own, and its error is returned: without an error
\* every declaration with a path has become a rule, in the order of declaration.
\* The error says which writer it is, or none of that writer's rules is there:
\* nobody's rules are cut short unsaid, though a writer without an identity that
\* can be read is missing under no name (collectExcludeRules, "one broken writer
\* doesn't fail the snapshot").
HasPath(rule) == rule.path # <<>>

Places        == UNION {{w} \X DOMAIN case.declared[w] : w \in DOMAIN case.declared}
DeclaredAt(p) == case.declared[p[1]][p[2]]
Before(p, q)  == p[1] < q[1] \/ (p[1] = q[1] /\ p[2] < q[2])

CollectIsHonest ==
    pc \notin {"count", "writers", "declarations"} /\ 0 \notin errs =>
        \E at \in [DOMAIN rules -> {p \in Places : HasPath(DeclaredAt(p))}] :
            /\ \A n \in DOMAIN rules :
                  rules[n] \in {DeclaredAt(at[n]), [DeclaredAt(at[n]) EXCEPT !.path = Expanded(@)]}
            /\ \A n, o \in DOMAIN rules : n < o => Before(at[n], at[o])
            /\ \A p \in Places : HasPath(DeclaredAt(p)) =>
                  \/ \E n \in DOMAIN rules : at[n] = p
                  \/ p[1] \in errs /\ \A n \in DOMAIN rules :
                                        at[n][1] = p[1] => Before(at[n], p) /\ p[1] \in named

\* What the walk's argument and the names found below it say, segment by segment.
RootSegments == IF case.root = <<".">> THEN <<>> ELSE Segments(case.root)

\* An accepted root never leads out of the snapshot, however its separators
\* are written: what is walked are its segments and then the names found, and
\* none is a drive or a dot segment, which nothing behind \\?\ would resolve
\* (validateVolumeRelativePath, "we reject rather than repair").
RootStaysInside ==
    pc \in {"entry", "excluded?", "rules", "matchSpec", "decided"} =>
        /\ Segments(rel) = RootSegments \o SubSeq(case.names, 1, depth - 1)
        /\ rel # <<>> => rel[1] \notin Separators
        /\ \A m \in DOMAIN Segments(rel) :
              Segments(rel)[m] \notin {<<".">>, <<".", ".">>} /\ Range(Segments(rel)[m]) \cap Drives = {}

\* What the rule says of the entry, at its place on the original volume.
OriginalDir == Segments(case.volume) \o RootSegments \o Front(case.names)

Covers(rule) ==
    IF case.kind = "dir" THEN MeansAllIn(rule, Append(OriginalDir, Last(case.names)))
                         ELSE Means(rule, OriginalDir, Last(case.names))

\* A path that does not begin with a separator and has none doubled.
Tidy(t) ==
    /\ t # <<>> /\ t[1] \notin Separators
    /\ \A m \in 2..Len(t) : t[m - 1] \notin Separators \/ t[m] \notin Separators

\* Where texts stand for what they mean: the walk was told the root of the
\* volume, its own root has no trailing separator, paths are tidy, and the root
\* directory of a drive is not written without its separator in a rule.
Grounded ==
    /\ FoldAll(Segments(volRoot)) = FoldAll(Segments(case.volume)) /\ Tidy(volRoot)
    /\ case.root = <<>> \/ Last(case.root) \notin Separators
    /\ \A m \in DOMAIN excludes : Tidy(excludes[m].path) /\ excludes[m].path \notin {<<d>> : d \in Drives}

\* An entry is excluded exactly if a rule covers it, by the segments of its
\* path and the definition of a wildcard: pruning loses no entry that is in no
\* rule, what pruning lets through is found by matchExclude and the
\* backtracking of matchSpec, and ExcludedBy is "the first rule" that covers
\* the entry (subtreeExcluded, ExcludeRule.Matches, matchExclude).
DecisionIsRight ==
    pc = "decided" /\ Grounded =>
        /\ hit # 0 <=> \E m \in DOMAIN excludes : Covers(excludes[m])
        /\ hit # 0 /\ AtEntry => /\ Covers(excludes[hit])
                                /\ \A m \in 1..(hit - 1) : ~Covers(excludes[m])

\* The collection, the walk down and every wildcard match come to an end
\* (matchSpec, whose loop goes back to the last star).
Decides == <>(pc \in {"refused", "decided"})

\* walk.go:67-68 of WalkOptions: "Matching runs against the original-volume
\* absolute path (Root + entry path)", with Root by default VolumePath.
MatchesOriginalPath ==
    pc = "decided" /\ hit # 0 /\ case.Root = <<>> /\ IsPrefix(Segments(case.volume), Segments(case.VolumePath))
        => Covers(excludes[hit])
=============================================================================
