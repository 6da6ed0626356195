------------------------- MODULE MCManifestExcludes -------------------------
(* Small instances of ManifestExcludes for TLC: a handful of characters. *)
EXTENDS ManifestExcludes

Characters == {"A", "a", "B", "b", "P", "p", "s", "S", "t", "T", ".", "*", "?", "C:", "c:", "%T%", "\\", "/"}

MCUpper ==
    [c \in Characters |->
        CASE c = "a" -> "A" [] c = "b" -> "B" [] c = "p" -> "P" [] c = "s" -> "S" [] c = "t" -> "T"
          [] c = "c:" -> "C:" [] OTHER -> c]

Texts(chars, from, to) == UNION {[1..n -> chars] : n \in from..to}

Drive == <<"C:", "\\">>
Mount == <<"C:", "\\", "b", "\\">>

Rule(path, spec, recursive) == [path |-> path, spec |-> spec, recursive |-> recursive]

Case0 == [declared |-> << >>, sick |-> {}, volume |-> Drive, VolumePath |-> Drive, Root |-> <<>>,
          system |-> FALSE, root |-> <<>>, names |-> <<<<"a">>>>, kind |-> "file"]

\* Every wildcard of up to four characters against every name of up to four.
WildcardCases ==
    {[Case0 EXCEPT !.declared = <<<<Rule(Drive, s, FALSE)>>>>, !.names = <<n>>] :
        s \in Texts({"A", "b", "*", "?"}, 0, 4), n \in Texts({"a", "b"}, 1, 4)}

Names == {<<"a">>, <<"B">>, <<"a", "b">>}
Entries == Texts(Names, 1, 2) \cup Texts({<<"a">>, <<"B">>}, 3, 3)

\* Where a rule is and how it is written against where the entry is and what.
ScopeRules ==
    {Rule(p, s, r) :
        p \in {<<>>, <<"C:">>, Drive, <<"c:", "/", "A">>, <<"C:", "\\", "a", "\\", "b", "\\">>,
               <<"%T%">>, <<"%T%", "\\", "a">>},
        s \in {<<>>, <<"*", ".", "*">>, <<"b">>, <<"a", "*">>},
        r \in BOOLEAN}

ScopeCases ==
    {[Case0 EXCEPT !.declared = <<<<rule>>>>, !.names = n, !.kind = kind, !.root = root] :
        rule \in ScopeRules, n \in Entries, kind \in {"file", "dir", "reparse"},
        root \in {<<>>, <<"a">>, <<"a", "/">>}}

\* Two writers, each of whom may fail, and the rules of the engine.
PairRules ==
    {Rule(<<>>, <<"b">>, TRUE), Rule(<<"C:", "\\", "a">>, <<"*">>, TRUE), Rule(Drive, <<"*", "b">>, TRUE),
     Rule(<<"%T%">>, <<"b">>, FALSE), Rule(<<"C:", "/">>, <<>>, TRUE)}

WriterCases ==
    {[Case0 EXCEPT !.declared = <<d, <<e>>>>, !.sick = sick, !.system = system, !.names = n] :
        d \in Texts(PairRules, 0, 2), e \in PairRules,
        sick \in {{}, {1}, {0, 1, 2}}, system \in BOOLEAN,
        n \in {<<<<"b">>>>, <<<<"a">>, <<"b">>>>, <<<<"t">>, <<"b">>>>, <<<<"p">>>>, <<<<"s">>, <<"b">>>>}}

\* Where the volume is and what the walk is told of it.
VolumeCases ==
    {[Case0 EXCEPT !.declared = <<<<rule>>>>, !.volume = v, !.VolumePath = p, !.Root = r,
                   !.system = system, !.names = n] :
        rule \in {Rule(<<"c:", "\\", "b">>, <<"*">>, FALSE), Rule(<<"C:", "\\", "B", "\\", "a">>, <<>>, TRUE)},
        v \in {Drive, Mount}, p \in {<<>>, Drive, Mount, <<"C:", "\\", "b">>},
        r \in {<<>>, <<"c:">>, Drive, Mount}, system \in BOOLEAN,
        n \in Texts({<<"b">>, <<"a">>, <<"p">>}, 1, 2)}

\* Every argument of Walk of up to four characters.
RootCases ==
    {[Case0 EXCEPT !.declared = <<<<Rule(<<"C:", "\\", "a">>, <<"b">>, FALSE)>>>>, !.root = root,
                   !.names = <<<<"b">>>>] :
        root \in Texts({"a", ".", "\\", "/", "C:"}, 0, 4)}

MCCases == {WildcardCases, ScopeCases, WriterCases, VolumeCases, RootCases}
=============================================================================
