---------------------------- MODULE ExcludeRules ----------------------------
(***************************************************************************)
(* Windows paths, exclude rules and what they scope over, and the          *)
(* validation of a path given to a snapshot.  A text is a sequence of      *)
(* characters; a drive letter with its colon counts as one.                *)
(*                                                                         *)
(* The second half says what the rules mean, on the segments of a path and *)
(* by the definition of a wildcard, for the checks to compare with.        *)
(***************************************************************************)
EXTENDS Integers, Sequences, FiniteSets, SequencesExt

CONSTANT Upper      \* the case folding of a character, strings.ToUpper

Sep        == "\\"
Separators == {"\\", "/"}
Drives     == {"C:", "c:"}

Character == DOMAIN Upper
Text      == Seq(Character)
RuleType  == [path : Text, spec : Text, recursive : BOOLEAN]

\* Folding leaves what is no letter alone and turns nothing else into it.
ASSUME UpperAssumption ==
    /\ Upper \in [Character -> Character]
    /\ Separators \cup Drives \cup {".", "*", "?", "p", "s", "t", "%T%"} \subseteq Character
    /\ \A c \in Separators \cup {".", "*", "?", "%T%"} : \A d \in Character : Upper[d] = c <=> d = c
    /\ \A d \in Character : Upper[d] \in Drives <=> d \in Drives

Fold(t) == [i \in DOMAIN t |-> Upper[t[i]]]

Backslashed(t) == [i \in DOMAIN t |-> IF t[i] = "/" THEN Sep ELSE t[i]]

WithSep(t) == IF t # <<>> /\ Last(t) = Sep THEN t ELSE Append(t, Sep)

normWinPath(p) ==
    LET q == Backslashed(p)
        trimmed(n) == n > 1 /\ q[n] = Sep /\ ~(n = 2 /\ q[1] \in Drives)
    IN  SubSeq(q, 1, CHOOSE n \in 0..Len(q) :
                         (n > 0 => ~trimmed(n)) /\ \A m \in (n + 1)..Len(q) : trimmed(m))

LastSep(t) == Max({0} \cup {i \in DOMAIN t : t[i] = Sep})

\* The directory and the name of a path, as ExcludeRule.Matches splits them.
DirOf(full) ==
    LET dir == SubSeq(full, 1, LastSep(full) - 1)
    IN  IF Len(dir) = 1 /\ dir[1] \in Drives THEN Append(dir, Sep) ELSE dir

NameOf(full) == SubSeq(full, LastSep(full) + 1, Len(full))

specMatchesAll(spec) == spec \in {<<>>, <<"*">>, <<"*", ".", "*">>}

\* Mutant: the prefix of a scope is taken without its separator.
InScopePrefix(r, full) ==
    LET du == Fold(DirOf(full))
        ru == Fold(normWinPath(r.path))
    IN  /\ LastSep(full) > 0 /\ NameOf(full) # <<>> /\ ru # <<>>
        /\ du = ru \/ (r.recursive /\ IsPrefix(ru, du))

\* The first half of ExcludeRule.Matches, on the normalised path.
InScope(r, full) ==
    LET du == Fold(DirOf(full))
        ru == Fold(normWinPath(r.path))
    IN  /\ LastSep(full) > 0 /\ NameOf(full) # <<>> /\ ru # <<>>
        /\ du = ru \/ (r.recursive /\ IsPrefix(WithSep(ru), du))

\* The body of the loop of subtreeExcluded, on the normalised path.
Prunes(r, full) ==
    LET d     == Fold(full)
        scope == Fold(normWinPath(r.path))
    IN  /\ r.recursive /\ specMatchesAll(r.spec) /\ d # <<>> /\ scope # <<>>
        /\ d = scope \/ IsPrefix(WithSep(scope), d)

\* SystemExcludes: files in the volume root whose content the kernel scrubs
\* ("p" for the four names), and all of System Volume Information ("s").
SystemExcludes(volumeRoot) ==
    << [path |-> WithSep(volumeRoot), spec |-> <<"p">>, recursive |-> FALSE],
       [path |-> Append(WithSep(volumeRoot), "s"), spec |-> <<"*">>, recursive |-> TRUE] >>

SplitAt(t, seps) ==
    LET cuts == {i \in DOMAIN t : t[i] \in seps}
    IN  {SubSeq(t, c[1] + 1, c[2] - 1) : c \in
            {d \in ({0} \cup cuts) \X (cuts \cup {Len(t) + 1}) :
                 d[1] < d[2] /\ \A m \in cuts : m <= d[1] \/ m >= d[2]}}

\* Mutant: segments are looked at before slashes are turned.
ValidatedBySep(rel) ==
    LET norm == Backslashed(rel)
        body == IF norm # <<>> /\ Last(norm) = Sep THEN Front(rel) ELSE rel
    IN  IF rel \in {<<>>, <<".">>} THEN {<<>>}
        ELSE IF \/ \E i \in DOMAIN rel : rel[i] \in Drives
                \/ norm[1] = Sep
                \/ SplitAt(body, {Sep}) \cap {<<>>, <<".">>, <<".", ".">>} # {}
             THEN {} ELSE {norm}

\* validateVolumeRelativePath: the normalised path, or none.
validateVolumeRelativePath(rel) ==
    LET norm == Backslashed(rel)
        body == IF norm # <<>> /\ Last(norm) = Sep THEN Front(norm) ELSE norm
    IN  IF rel \in {<<>>, <<".">>} THEN {<<>>}
        ELSE IF \/ \E i \in DOMAIN rel : rel[i] \in Drives
                \/ norm[1] = Sep
                \/ SplitAt(body, {Sep}) \cap {<<>>, <<".">>, <<".", ".">>} # {}
             THEN {} ELSE {norm}

-----------------------------------------------------------------------------
(* What it means. *)

\* The segments of a path, in order; separators only separate.  of[n] are
\* those of its first n characters.
Segments(p) ==
    LET of[n \in 0..Len(p)] ==
            IF n = 0 THEN <<>>
            ELSE IF p[n] \in Separators THEN of[n - 1]
            ELSE IF n = 1 \/ p[n - 1] \in Separators THEN Append(of[n - 1], <<p[n]>>)
            ELSE Append(Front(of[n - 1]), Append(Last(of[n - 1]), p[n]))
    IN  of[Len(p)]

\* A pattern matches a name if its characters can be laid on the name from left
\* to right: up to[q] characters of the name are used up by the first q.
Wildcard(pattern, name) ==
    \E to \in [DOMAIN pattern -> 0..Len(name)] :
        LET used(q) == IF q = 0 THEN 0 ELSE to[q]
        IN  /\ used(Len(pattern)) = Len(name)
            /\ \A q \in DOMAIN pattern :
                  IF pattern[q] = "*" THEN used(q - 1) <= used(q)
                  ELSE /\ used(q) = used(q - 1) + 1
                       /\ pattern[q] = "?" \/ Upper[pattern[q]] = Upper[name[used(q)]]

FoldAll(segments) == [k \in DOMAIN segments |-> Fold(segments[k])]

\* The rule covers the file `name` of the directory with these segments.
Means(r, dir, name) ==
    LET scope == FoldAll(Segments(r.path))
    IN  /\ FoldAll(dir) = scope \/ (r.recursive /\ IsPrefix(scope, FoldAll(dir)))
        /\ specMatchesAll(r.spec) \/ Wildcard(r.spec, name)

\* The rule covers whatever is in the directory with these segments, or below.
MeansAllIn(r, dir) ==
    r.recursive /\ specMatchesAll(r.spec) /\ IsPrefix(FoldAll(Segments(r.path)), FoldAll(dir))
=============================================================================
