----------------------------- MODULE MCAnswers ------------------------------
(* Small instances for GroundedAnswer and StructuralTraversal.  A question is   *)
(* asked of a small scan; or the assembler alone is given candidates that       *)
(* differ in everything it reads, far less orderly ones than the retrievals of  *)
(* today produce; or a walk of any depth is asked for, of which a question      *)
(* takes but one step.                                                          *)
EXTENDS GroundedAnswer, StructuralTraversal, TLC

CONSTANTS s1, s2, s3

\* Graphs of three relationships over three symbols, walked from s1; the other two are
\* interchangeable.
MCSymbols  == {s1, s2, s3}
MCEdges    == 1..3
MCTypeOf   == [e \in MCEdges |-> IF e = 3 THEN "CALLS" ELSE "IMPORTS"]
MCSymmetry == Permutations({s2, s3})

\* A recorded, complete candidate of the scan; the pool changes single fields.
Candidate(id, slot, trust, rank, tokens) ==
    [id |-> id, slot |-> slot, scan |-> "this", trust |-> trust, rank |-> rank,
     tokens |-> tokens, status |-> "RECORDED", inputRefs |-> FALSE,
     completeness |-> "COMPLETE", resolution |-> "NONE"]

Target   == Candidate(1, "unique_target", "EXACT_SYMBOL", 1, 16)
Importer == Candidate(3, "import_edges", "RESOLVED_GRAPH", 1, 16)

MCPool == {
    Target,
    Candidate(2, "unique_target", "EXACT_SYMBOL", 2, 24),                \* a second target
    Candidate(1, "unique_target", "FULL_TEXT", 1, 8),                   \* the same id again
    [Target EXCEPT !.id = 4, !.scan = "other"],
    [Target EXCEPT !.id = 5, !.status = "GENERATED", !.trust = "GENERATED"],
    Importer,
    [Importer EXCEPT !.id = 6, !.rank = 2, !.resolution = "AMBIGUOUS"],
    [Importer EXCEPT !.id = 7, !.trust = "HEURISTIC_GRAPH", !.tokens = 24],
    [Importer EXCEPT !.id = 8, !.completeness = "EMPTY", !.tokens = 8],
    [Importer EXCEPT !.id = 9, !.status = "DERIVED", !.trust = "DERIVED", !.rank = 0],
    [Importer EXCEPT !.id = 10, !.status = "DERIVED", !.trust = "DERIVED",
                 !.inputRefs = TRUE, !.rank = 0, !.tokens = 8],
    [Importer EXCEPT !.id = 11, !.slot = "unasked"] }

MCContracts ==
    {[slots |-> <<"unique_target", "import_edges">>, supported |-> b] : b \in BOOLEAN}

----------------------------------------------------------------------------
\* Names, and the words of each.
App == 1
AppConfig == 2
Config == 3
Lib == 4
LibConfig == 5
AppItems == 6
Items == 7
SomeOrAll == 8
LibSomeOrAll == 9
FastAPI == 10
LibLoad == 11
Load == 12
TestApp == 13
Unknown == 14
Cfg == 15
LibSave == 16
Save == 17
LongName == 18

MCWordsOf == <<
    <<"app">>,
    <<"app", "config">>,
    <<"config">>,
    <<"lib">>,
    <<"lib", "config">>,
    <<"app", "get", "items">>,
    <<"get", "items">>,
    <<"some", "or", "all">>,
    <<"lib", "some", "or", "all">>,
    <<"fast", "api">>,
    <<"lib", "load">>,
    <<"load">>,
    <<"test", "app">>,
    <<"unknown">>,
    <<"cfg">>,
    <<"lib", "save">>,
    <<"save">>,
    <<"long", "name">> >>
MCWithin == {<<Config, AppConfig>>, <<Config, LibConfig>>, <<App, App>>, <<App, AppConfig>>,
             <<App, AppItems>>, <<App, TestApp>>, <<Load, LibLoad>>}

\* Files: app.py, lib.py, test_app.py and web.js.
MCPathWords  == <<<<"app", "py">>, <<"lib", "py">>, <<"test", "app", "py">>, <<"web", "js">>>>
MCCategoryOf == <<"SOURCE", "SOURCE", "TEST", "SOURCE">>

Symbol(id, type, qualified, name, parent, file, line) ==
    [id |-> id, type |-> type, qualified |-> qualified, name |-> name, parent |-> parent,
     file |-> file, line |-> line, end |-> line + 2]
Modules == {Symbol(1, "MODULE", App, App, 0, 1, 1), Symbol(2, "MODULE", Lib, Lib, 0, 2, 1),
            Symbol(3, "MODULE", TestApp, TestApp, 0, 3, 1)}
Members == {Symbol(4, "CLASS", AppConfig, Config, 1, 1, 2),
            Symbol(5, "CLASS", LibConfig, Config, 2, 2, 2),
            Symbol(6, "ROUTE", AppItems, Items, 1, 1, 5),
            Symbol(7, "FUNCTION", LibSomeOrAll, SomeOrAll, 2, 2, 5),
            Symbol(8, "FUNCTION", LibLoad, Load, 2, 2, 8),
            Symbol(9, "FUNCTION", LibSave, Save, 2, 2, 12)}

\* An edge from one symbol to another, and one whose target has only a name.
Resolution(id, type, from, to, file, line, alias) ==
    [id |-> id, type |-> type, source |-> from, target |-> to, file |-> file,
     line |-> line, end |-> line, alias |-> alias,
     resolution |-> "RESOLVED", unresolved |-> NoName]
NameOnly(id, type, from, name, file, line) ==
    [Resolution(id, type, from, 0, file, line, NoName)
     EXCEPT !.resolution = "UNRESOLVED", !.unresolved = name]
Relationships == {Resolution(1, "IMPORTS", 3, 4, 3, 1, Cfg),
                  Resolution(2, "IMPORTS", 2, 4, 2, 1, NoName),
                  Resolution(3, "IMPORTS", 2, 4, 2, 9, Cfg),
                  Resolution(4, "INHERITS", 5, 4, 2, 2, NoName),
                  NameOnly(5, "IMPORTS", 1, Config, 1, 1)}

Line(words, framework) ==
    [words |-> words \o MCWordsOf[framework], constructs |-> framework]
Text(words) == [words |-> words, constructs |-> NoName]
Document(id, file, start, score, lines) ==
    [id |-> id, file |-> file, start |-> start, score |-> score, lines |-> lines]
Documents == {
    Document(1, 1, 1, 3, <<Text(<<"import", "fast", "api">>), Line(<<"app">>, FastAPI)>>),
    Document(2, 3, 1, 1, <<Line(<<"client">>, FastAPI)>>),
    Document(3, 2, 4, 2, <<Text(<<"fast", "lib">>), Line(<<"seems", "to">>, FastAPI),
                           Line(<<"old">>, FastAPI)>>),
    Document(4, 4, 1, 2, <<Line(<<"web">>, FastAPI)>>) }

Index(symbols, edges, documents) ==
    [symbols |-> symbols, documents |-> documents,
     edges   |-> {e \in edges : {e.source, e.target} \subseteq {s.id : s \in symbols} \cup {0}}]

MCIndexes ==
    {Index(Modules \cup members, edges, {}) : members \in SUBSET Members,
                                             edges \in SUBSET Relationships}
    \cup {Index(Modules, {}, documents) : documents \in SUBSET Documents}
    \cup {Index({}, {}, Documents)}

\* A question with some wordings, and one that also names things.
Wording(words) == [words |-> words, quoted |-> NoName, named |-> <<>>, capitalised |-> <<>>,
                   module |-> NoName, alias |-> NoName]
About(words, name) == [Wording(words) EXCEPT !.quoted = name]

MCQuestions ==
    {Wording(words) : words \in {{}, {"why", "defined"}, {"runtime", "routes"},
                                 {"calls", "imports"}, {"routes"}, {"routes", "defined"},
                                 {"created"}, {"symbols"}, {"defined"}, {"imports"}}}
    \cup {About({w}, n) : w \in {"defined", "imports", "inherits", "symbols"},
                         n \in {Config, AppConfig, Unknown}}
    \cup {About({"imports", "tests"}, AppConfig), About({"created"}, FastAPI),
          About({"created"}, LongName),
          About({"functions", "symbols"}, Lib), About({"symbols"}, Load),
          About({"defined"}, SomeOrAll),
          [About({"imports"}, AppConfig) EXCEPT !.alias = Cfg],
          [About({"imports", "tests"}, AppConfig) EXCEPT !.alias = Cfg],
          [Wording({"functions"}) EXCEPT !.module = Lib, !.capitalised = <<Config>>],
          [Wording({"defined"}) EXCEPT !.named = <<Load>>, !.capitalised = <<Config>>],
          [Wording({"defined"}) EXCEPT !.capitalised = <<Load, AppConfig>>]}

\* Three classes of a module inherit from app.Config, and one of app from its bare name.
OmissionIndexes ==
    LET app     == Symbol(1, "MODULE", App, App, 0, 1, 1)
        lib     == Symbol(2, "MODULE", Lib, Lib, 0, 2, 1)
        base    == Symbol(4, "CLASS", AppConfig, Config, 1, 1, 2)
        local   == Symbol(6, "CLASS", AppItems, Items, 1, 1, 5)
        heirs   == {Symbol(7, "CLASS", LibSomeOrAll, SomeOrAll, 2, 2, 5),
                    Symbol(8, "CLASS", LibLoad, Load, 2, 2, 8),
                    Symbol(9, "CLASS", LibSave, Save, 2, 2, 12)}
        inherits == {Resolution(s.id, "INHERITS", s.id, base.id, s.file, s.line, NoName)
                     : s \in heirs}
    IN  {Index({app, lib, base, local} \cup heirs,
               inherits \cup {NameOnly(6, "INHERITS", local.id, Config, 1, 5)}, {})}
OmissionQuestions == {About({"inherits"}, AppConfig)}

----------------------------------------------------------------------------
\* The hypothesis of AnswersAreTrueTheorem.
ASSUME TwoTargetsFit == TargetsFit

\* The hypothesis of AbstentionsTheorem.
ASSUME WordsAreShared == NamesHaveWords

\* What does not run: no question is asked, and a walk was refused before it began.
NothingAsked ==
    /\ question = Wording({})
    /\ index = Index({}, {}, {})
    /\ claims = {}
    /\ answer = NoAnswer

WalkIdle ==
    /\ source = [e \in Edges |-> Start] /\ target = [e \in Edges |-> Start]
    /\ direction = "BOTH" /\ types = {} /\ maxDepth = 0 /\ limit = 0
    /\ pc = "refused" /\ depth = 0
    /\ frontier = {Start} /\ nextFrontier = {}
    /\ visitedNodes = {Start} /\ visitedEdges = {}
    /\ candidates = {} /\ results = <<>>

AssemblerIdle ==
    /\ contract = Asking
    /\ offered = {} /\ todo = {} /\ accepted = {} /\ omissions = {} /\ seen = {}
    /\ tokensUsed = Reserved
    /\ slotStatus = [s \in {} |-> "NONE"]
    /\ decision = "NONE"

MCInit ==
    \/ AnswerInit /\ WalkIdle
    \/ stage = "assembler" /\ Init /\ NothingAsked /\ WalkIdle
    \/ stage = "walk" /\ WalkInit /\ AssemblerIdle /\ NothingAsked

\* A question was answered or refused, or the assembler has decided.
Ended == stage \in {"ended", "refused"} \/ (stage = "assembler" /\ decision # "NONE")

MCNext ==
    \/ AnswerNext /\ UNCHANGED walkVars
    \/ /\ stage = "assembler"
       /\ Next
       /\ UNCHANGED <<stage, question, index, claims, answer, walkVars>>
    \/ stage = "walk" /\ WalkNext /\ UNCHANGED answerVars
    \/ Ended /\ UNCHANGED <<answerVars, walkVars>>

MCSpec == MCInit /\ [][MCNext]_<<answerVars, walkVars>>
============================================================================
