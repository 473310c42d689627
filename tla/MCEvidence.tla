----------------------------- MODULE MCEvidence -----------------------------
(* Small instances of PythonEvidence, ContextIndex and LanguageProfile.  They *)
(* run one at a time: the initial state chooses which.                        *)
EXTENDS PythonEvidence, ContextIndex, LanguageProfile

\* The package at the root, a module, a package and a module in it; identifiers that
\* name modules too.
MCFiles == <<<<"__init__">>, <<"a">>, <<"p", "__init__">>, <<"p", "b">>>>
MCBases == {<<>>, <<<<"a">>, <<"p", "a">>, <<"b">>, <<"x">>>>}
MCRouterTables == {"r" :> <<>> @@ "s" :> <<"v1">>}
MCDecorators ==
    {<<>>, <<<<"r", "GET", <<"i">>>>, <<"s", "GET", <<"i">>>>>>}
MCImports == {<<<<"a">>, None>>, <<<<"p", "b">>, None>>, <<<<"p">>, "a">>}
MCFromImports == {<<0, <<"p", "b">>, "a", None>>, <<1, <<>>, "a", None>>,
                  <<1, <<"a">>, "C", "b">>, <<2, <<"a">>, "a", "x">>}
MCExportLists == {<<"a", "b">>}

\* Files of up to three lines: short, blank, one that fills a chunk, one that is
\* longer than two, and one that str.splitlines takes for two.
Piece(length)  == [length |-> length, blank |-> FALSE]
MCLines        == {<<Piece(1)>>, <<[length |-> 1, blank |-> TRUE]>>, <<Piece(3)>>,
                   <<Piece(7)>>, <<Piece(1), Piece(2)>>}
MCContents     == BoundedSeq(MCLines, 3)
MCSpans(lines) ==
    {<<>>} \cup UNION {{<<[id |-> 1, type |-> t, first |-> i, last |-> j]>> :
                           t \in {"CLASS", "CONSTANT"}, j \in i .. Len(lines)} : i \in DOMAIN lines}
IndexFile(path, category, lines, found) ==
    [path |-> path, category |-> category, generated |-> FALSE, vendored |-> FALSE,
     secrets |-> FALSE, lines |-> lines, symbols |-> found]
MCExcluded == LET f == IndexFile(1, "SOURCE", <<<<Piece(1)>>>>, <<>>)
              IN  {[f EXCEPT !.category = "OTHER"], [f EXCEPT !.generated = TRUE],
                   [f EXCEPT !.vendored = TRUE], [f EXCEPT !.secrets = TRUE]}
MCIndexFiles ==
    UNION {{{IndexFile(2, "SOURCE", lines, found)} : found \in MCSpans(lines)} : lines \in MCContents}
    \cup {{f, IndexFile(2, c, <<<<Piece(7)>>>>, <<>>)} :
             f \in MCExcluded, c \in IndexedCategories}

\* Inventories of up to three of these files.
ProfiledFile(id, extension, size, name, directory) ==
    [id |-> id, extension |-> extension, filename |-> "NONE", shebang |-> "NONE",
     category |-> "SOURCE", generated |-> FALSE, vendored |-> FALSE, size |-> size,
     name |-> name, directory |-> directory]
MCProfilePool == {
    ProfiledFile(1, "Python", 95, "a.py", <<>>),
    [ProfiledFile(2, "Python", 40, "b.py", <<"vendor">>) EXCEPT !.vendored = TRUE],
    ProfiledFile(3, "Go", 5, "c.go", <<"svc">>),
    [ProfiledFile(4, "Go", 90, "d.go", <<"gen">>) EXCEPT !.generated = TRUE],
    [ProfiledFile(5, "Go", 0, "e.go", <<>>) EXCEPT !.category = "TEST"],
    [ProfiledFile(6, "NONE", 3, "run", <<>>) EXCEPT !.shebang = "Python"],
    [ProfiledFile(7, "NONE", 4, "mystery", <<>>) EXCEPT !.category = "OTHER"],
    [ProfiledFile(8, "NONE", 4, "go.mod", <<"svc">>) EXCEPT !.category = "DEPENDENCY"],
    [ProfiledFile(9, "NONE", 2, "web.json", <<>>) EXCEPT !.category = "DEPENDENCY"],
    [ProfiledFile(10, "Ruby", 4, "f.rb", <<"svc", "x">>) EXCEPT !.shebang = "Python"],
    [ProfiledFile(11, "NONE", 4, "Rakefile", <<>>) EXCEPT !.filename = "Ruby"]}
MCInventories == UNION {kSubset(n, MCProfilePool) : n \in 0 .. 4}
MCLanguageOrder == <<"Go", "Python", "Ruby">>
MCMarkers == "go.mod" :> {"Go"} @@ "web.json" :> {"Python", "Ruby"}

MCInit ==
    \/ EvidenceInit /\ IndexIdle /\ ProfileIdle
    \/ EvidenceInit /\ IndexInit /\ ProfileIdle
    \/ EvidenceInit /\ IndexIdle /\ ProfileInit

\* The extraction runs when the other two are idle.
MCNext ==
    \/ /\ indexing = "idle" /\ profiling = "idle"
       /\ EvidenceNext
       /\ UNCHANGED <<indexVars, profileVars>>
    \/ IndexNext /\ UNCHANGED <<vars, profileVars>>
    \/ ProfileNext /\ UNCHANGED <<vars, indexVars>>

MCSpec == MCInit /\ [][MCNext]_<<vars, indexVars, profileVars>>
=============================================================================
