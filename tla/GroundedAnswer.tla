--------------------------- MODULE GroundedAnswer ---------------------------
(***************************************************************************)
(* How one question becomes an answer, on a cache miss of QuestionService. *)
(* The question is classified (context/classifier.py), evidence is         *)
(* retrieved from the rows of its completed scan (QuestionService._retrieve*)
(* with retrieval/structural.py and retrieval/full_text.py), the package   *)
(* is assembled step by step as in ContextAssembler, claims are rendered,  *)
(* validated (grounding/) and stored.                                      *)
(*                                                                         *)
(* Text is a sequence of words: identifier tokens, of which none joins two *)
(* qualifiers by camel case.  Names, files and rows are numbers; what the  *)
(* queries order by path or name is ordered by these numbers.              *)
(***************************************************************************)
EXTENDS ContextAssembler

CONSTANTS
    Questions,          \* wordings that may be asked, with what they name
    Indexes,            \* [symbols, edges, documents] of completed scans
    NoName,             \* 0: no subject, no alias, nothing constructed
    DefaultFramework,   \* "FastAPI" where a retrieval has no subject
    WordsOf,            \* the words of each name
    Within,             \* pairs of names: the first is a substring of the second
    PathWords,          \* the words of each file's path
    CategoryOf,         \* the category of each file
    RowIds,             \* row and file numbers are below it
    Overlong,           \* names of more than 256 characters
    ExactLimit, ListLimit, GraphLimit, TextLimit    \* 20, 100, 100, 20

Texts == Seq(STRING)

\* A row with a place in a file.
IsPlaced(row) ==
    /\ row.id \in 0 .. RowIds - 1 /\ {row.line, row.end} \subseteq Nat
    /\ row.file \in DOMAIN PathWords

\* The rows of a completed scan: ids are keys, and so are qualified names, of which
\* _persist_extraction_result makes the ids; an edge has the id of a target exactly
\* when it is RESOLVED, and the name it could not resolve when it is not.
IsScanned(rows) ==
    /\ IsFiniteSet(rows.symbols) /\ IsFiniteSet(rows.edges) /\ IsFiniteSet(rows.documents)
    /\ \A s \in rows.symbols : IsPlaced(s) /\ {s.qualified, s.name} \subseteq DOMAIN WordsOf
    /\ \A s, t \in rows.symbols : s.id = t.id \/ s.qualified = t.qualified => s = t
    /\ \A e \in rows.edges :
         /\ IsPlaced(e)
         /\ \E s \in rows.symbols : s.id = e.source
         /\ e.resolution = "RESOLVED" <=> \E s \in rows.symbols : s.id = e.target
         /\ e.unresolved \in IF e.resolution = "RESOLVED" THEN {NoName} ELSE DOMAIN WordsOf
    /\ \A e, f \in rows.edges : e.id = f.id => e = f
    /\ \A d \in rows.documents :
         /\ d.id \in 0 .. RowIds - 1 /\ {d.start, d.score} \subseteq Nat
         /\ d.file \in DOMAIN PathWords
         /\ d.lines \in Seq([words : Texts, constructs : Nat])
    /\ \A d, e \in rows.documents : d.id = e.id => d = e

ASSUME AnswerConstants ==
    /\ {ExactLimit, ListLimit, GraphLimit, TextLimit} \subseteq Nat \ {0}
    /\ RowIds \in Nat
    /\ DOMAIN PathWords = DOMAIN CategoryOf /\ DOMAIN PathWords \subseteq 0 .. RowIds - 1
    /\ \A f \in DOMAIN PathWords : PathWords[f] \in Texts /\ CategoryOf[f] \in STRING
    /\ DOMAIN WordsOf \subseteq Nat \ {NoName}
    /\ \A n \in DOMAIN WordsOf : WordsOf[n] \in Texts
    /\ UniqueTarget = "unique_target"
    /\ \A rows \in Indexes : IsScanned(rows)

VARIABLES
    stage,      \* where the question is
    question,   \* what is asked
    index,      \* the rows of the scan it is bound to
    claims,     \* the drafts that were rendered
    answer      \* what _finalize stores: status, claims, gaps

answerVars == <<vars, stage, question, index, claims, answer>>

NoAnswer == [status |-> "RUNNING", claims |-> {}, gaps |-> {}]

----------------------------------------------------------------------------
\* The wordings in the order in which classify tries them, and what it makes of
\* each; the last one is that of every question.
Rule(wording, intent, slots) == [wording |-> wording, intent |-> intent, slots |-> slots]

Rules == <<
    Rule("why",       "UNSUPPORTED_RATIONALE",  <<"recorded_decision">>),
    Rule("runtime",   "UNSUPPORTED_RUNTIME",    <<"runtime_observation">>),
    Rule("calls",     "UNSUPPORTED_CAPABILITY", <<"unsupported_capability">>),
    Rule("routes",    "LIST_ROUTES",            <<"route_symbols">>),
    Rule("imports",   "FIND_IMPORTERS",         <<"unique_target", "import_edges">>),
    Rule("inherits",  "FIND_INHERITORS",        <<"unique_target", "inheritance_edges">>),
    Rule("defined",   "LOCATE_DEFINITION",      <<"unique_target">>),
    Rule("created",   "LOCATE_FRAMEWORK_CONSTRUCTION",
                      <<"framework_construction", "containing_module">>),
    Rule("functions", "FUNCTIONS_IN_MODULE",    <<"unique_module", "function_symbols">>),
    Rule("symbols",   "LIST_SYMBOLS",           <<"full_text_evidence">>),
    Rule("any",       "UNSUPPORTED_UNKNOWN",    <<"unsupported_capability">>) >>

UnsupportedWordings == {"why", "runtime", "calls"}
UnsupportedIntents  ==
    {"UNSUPPORTED_RATIONALE", "UNSUPPORTED_RUNTIME", "UNSUPPORTED_CAPABILITY",
     "UNSUPPORTED_UNKNOWN"}

RuleOf(q) ==
    LET fits == {i \in DOMAIN Rules : Rules[i].wording \in q.words \cup {"any"}}
    IN  Rules[CHOOSE i \in fits : \A j \in fits : i <= j]

\* _extract_subject: the quoted identifier, else the first that follows "where
\* is" or a verb and is no question word, else the last capitalised one.
Subject(q) ==
    IF q.quoted # NoName THEN q.quoted
    ELSE IF q.named # <<>> THEN Head(q.named)
    ELSE IF q.capitalised # <<>> THEN q.capitalised[Len(q.capitalised)]
    ELSE NoName

\* _module_subject
ModuleSubject(q) == IF q.module # NoName THEN q.module ELSE Subject(q)

Contract(q) ==
    LET rule == RuleOf(q) IN
    [intent    |-> rule.intent,
     slots     |-> IF rule.intent = "FIND_IMPORTERS" /\ "tests" \in q.words
                   THEN Append(rule.slots, "file_categories")
                   ELSE rule.slots,
     subject   |-> IF rule.intent = "FUNCTIONS_IN_MODULE" THEN ModuleSubject(q)
                                                          ELSE Subject(q),
     supported |-> rule.intent \notin UnsupportedIntents]

Asking == [intent |-> "NONE", slots |-> <<>>, subject |-> NoName, supported |-> FALSE]

AnswerInit ==
    /\ question \in Questions
    /\ index \in Indexes
    /\ stage = "asked"
    /\ contract = Asking
    /\ offered = {} /\ todo = {} /\ accepted = {} /\ omissions = {} /\ seen = {}
    /\ tokensUsed = Reserved
    /\ slotStatus = [s \in {} |-> "NONE"]
    /\ decision = "NONE"
    /\ claims = {}
    /\ answer = NoAnswer

Classify ==
    /\ stage = "asked"
    /\ contract' = Contract(question)
    /\ slotStatus' = [s \in {contract'.slots[i] : i \in DOMAIN contract'.slots} |-> "NONE"]
    /\ stage' = "classified"
    /\ UNCHANGED <<offered, todo, accepted, omissions, seen, tokensUsed, decision,
                   question, index, claims, answer>>

----------------------------------------------------------------------------
\* ORDER BY and LIMIT: the rows of a query come in the order of their keys, a
\* function of the row.
Position(row, rows, keys) ==
    1 + Cardinality({other \in rows : Less(keys[other], keys[row])})

FirstRows(rows, keys, limit) ==
    {row \in rows : Position(row, rows, keys) <= limit}

ByName  == [s \in index.symbols |-> <<s.qualified, s.file, s.line, s.id>>]
ByPlace == [s \in index.symbols |-> <<s.file, s.line, s.id>>]

SymbolWithId(id) == CHOOSE s \in index.symbols : s.id = id

\* Item ids: a kind of artifact and its row, in the order of the id strings.
Kinds == [construction |-> 1, category |-> 2, relationship |-> 3, symbol |-> 4,
          module |-> 5]
ItemId(kind, row) == RowIds * Kinds[kind] + row

\* A recorded, complete candidate of the scan.
Evidence(item, artifact, slot, trust, rank, text) ==
    [id |-> item, artifact |-> artifact.id, slot |-> slot, trust |-> trust,
     rank |-> rank, file |-> artifact.file, line |-> artifact.line,
     end |-> artifact.end, text |-> text, tokens |-> Len(text), scan |-> ScanId,
     status |-> "RECORDED", inputRefs |-> FALSE, completeness |-> "COMPLETE",
     resolution |-> "NONE"]

\* The contents of a symbol, of a route and of an entry of an inventory.
DefinitionText(s) == WordsOf[s.qualified] \o <<"is", "defined", "in">> \o PathWords[s.file]
SymbolText == [s \in index.symbols |-> DefinitionText(s)]
RouteText  == [s \in index.symbols |->
    WordsOf[s.name] \o <<"is", "defined", "in">> \o PathWords[s.file]]
EntryText  == [s \in index.symbols |-> WordsOf[s.qualified] \o PathWords[s.file]]

SymbolCandidates(rows, keys, slot, texts) ==
    {Evidence(ItemId("symbol", s.id), s, slot, "EXACT_SYMBOL",
              Position(s, rows, keys), texts[s])
     : s \in rows}

----------------------------------------------------------------------------
\* Bug: one match is enough.
ExactSymbolsOne(subject) ==
    FirstRows({s \in index.symbols : subject \in {s.name, s.qualified}}, ByName, 1)

\* StructuralRetriever.exact_symbols
ExactSymbols(subject) ==
    FirstRows({s \in index.symbols : subject \in {s.name, s.qualified}}, ByName,
              ExactLimit)

\* traverse, one step against the edges; see StructuralTraversal for the walk.
ByEnds == [e \in {f \in index.edges : f.resolution = "RESOLVED"} |->
    <<SymbolWithId(e.source).qualified, SymbolWithId(e.target).qualified,
      e.file, e.line, e.id>>]

\* Bug: the walk stops one edge before its limit.
IncomingButOne(target, type) ==
    FirstRows({e \in index.edges : e.target = target /\ e.type = type}, ByEnds,
              GraphLimit - 1)

Incoming(target, type) ==
    FirstRows({e \in index.edges : e.target = target /\ e.type = type}, ByEnds,
              GraphLimit)

\* Only now are the edges compared with the alias the question asks for.
Aliased(rows) == {e \in rows : question.alias \in {NoName, e.alias}}

EdgeText(e) ==
    WordsOf[SymbolWithId(e.source).qualified] \o WordsOf[SymbolWithId(e.target).qualified]
        \o PathWords[e.file]

EdgeCandidates(rows, slot) ==
    {[Evidence(ItemId("relationship", e.id), e, slot, "RESOLVED_GRAPH",
               Position(e, rows, ByEnds), EdgeText(e)) EXCEPT !.resolution = "RESOLVED"]
     : e \in rows}

\* For a question about tests, the category of each file with an edge.
CategoryCandidates(rows) ==
    {[Evidence(ItemId("category", e.file), e, "file_categories", "DERIVED",
               Position(e, rows, ByEnds), Append(PathWords[e.file], CategoryOf[e.file]))
      EXCEPT !.status = "DERIVED", !.inputRefs = TRUE]
     : e \in rows}

GraphCandidates ==
    LET symbols == ExactSymbols(contract.subject)
        target  == CHOOSE s \in symbols : TRUE
        slot    == contract.slots[2]
        type    == IF contract.intent = "FIND_IMPORTERS" THEN "IMPORTS" ELSE "INHERITS"
        rows    == Aliased(Incoming(target.id, type))
    IN  SymbolCandidates(symbols, ByName, "unique_target", SymbolText)
        \cup IF Cardinality(symbols) # 1 THEN {}
             ELSE EdgeCandidates(rows, slot)
                  \cup IF "file_categories" \in Slots THEN CategoryCandidates(rows) ELSE {}

\* _route_candidates
RouteCandidates ==
    SymbolCandidates(FirstRows({s \in index.symbols : s.type = "ROUTE"}, ByPlace, ListLimit),
                     ByPlace, "route_symbols", RouteText)

\* _general_symbol_candidates: the subject is looked for in the limited list.
InventoryCandidates ==
    {c \in SymbolCandidates(FirstRows(index.symbols, ByPlace, ListLimit), ByPlace,
                            "full_text_evidence", EntryText) :
        \/ contract.subject = NoName
        \/ <<contract.subject, SymbolWithId(c.artifact).qualified>> \in Within}

\* _function_candidates
FunctionCandidates ==
    LET modules == FirstRows({s \in index.symbols : /\ s.type = "MODULE"
                                                    /\ s.qualified = contract.subject},
                             ByPlace, 1)
        children == {s \in index.symbols : /\ s.type = "FUNCTION"
                                           /\ \E m \in modules : s.parent = m.id}
    IN  SymbolCandidates(modules, ByPlace, "unique_module", SymbolText)
        \cup SymbolCandidates(FirstRows(children, ByName, ListLimit), ByName,
                              "function_symbols", SymbolText)

\* FullTextRetriever.search: documents with every word of the query, the best
\* first; lower is better.
DocumentWords(d) == UNION {Range(d.lines[i].words) : i \in DOMAIN d.lines}
ByScore == [d \in index.documents |-> <<d.score, d.file, d.start, d.id>>]
Hits(query) ==
    FirstRows({d \in index.documents : Range(WordsOf[query]) \subseteq DocumentWords(d)},
              ByScore, TextLimit)

\* The line looks like "x = Framework(", in a source file.
Constructs(d, i, framework) ==
    d.lines[i].constructs = framework /\ CategoryOf[d.file] = "SOURCE"

\* _framework_candidates: the first hit that constructs the framework, at the
\* first such line, and the module of its file.
FrameworkCandidates ==
    LET framework == IF contract.subject = NoName THEN DefaultFramework
                                                  ELSE contract.subject
        found == FirstRows({d \in Hits(framework) :
                               \E i \in DOMAIN d.lines : Constructs(d, i, framework)},
                           ByScore, 1)
        LineIn(d) == CHOOSE i \in DOMAIN d.lines :
                        /\ Constructs(d, i, framework)
                        /\ \A j \in 1 .. i - 1 : ~Constructs(d, j, framework)
        Place(d, id) == [id |-> id, file |-> d.file, line |-> d.start + LineIn(d) - 1,
                         end |-> d.start + LineIn(d) - 1]
        Construction(d) ==
            Evidence(ItemId("construction", d.id), Place(d, d.id),
                     "framework_construction", "FULL_TEXT", 1,
                     d.lines[LineIn(d)].words \o PathWords[d.file])
        Module(d, m) ==
            Evidence(ItemId("module", m.id), Place(d, m.id), "containing_module",
                     "EXACT_SYMBOL", 2, WordsOf[m.qualified] \o d.lines[LineIn(d)].words)
    IN  {Construction(d) : d \in found}
        \cup UNION {{Module(d, m) : m \in {s \in index.symbols : /\ s.type = "MODULE"
                                                                 /\ s.file = d.file}}
                    : d \in found}

\* What _retrieve finds for a supported contract.
Candidates ==
    CASE contract.intent = "LIST_ROUTES"                   -> RouteCandidates
      [] contract.intent = "LOCATE_FRAMEWORK_CONSTRUCTION" -> FrameworkCandidates
      [] contract.intent = "FUNCTIONS_IN_MODULE"           -> FunctionCandidates
      [] contract.intent = "LIST_SYMBOLS"                  -> InventoryCandidates
      [] contract.intent = "LOCATE_DEFINITION" ->
            SymbolCandidates(ExactSymbols(contract.subject), ByName, "unique_target",
                             SymbolText)
      [] contract.intent \in {"FIND_IMPORTERS", "FIND_INHERITORS"} -> GraphCandidates
      [] OTHER -> {}

NeedsSubject == {"LOCATE_DEFINITION", "FIND_IMPORTERS", "FIND_INHERITORS"}

\* INVALID_RETRIEVAL_ARGUMENT: exact_symbols refuses an empty query, the full-text
\* search one of more than MAX_FULL_TEXT_QUERY_CHARACTERS.
InvalidArgument ==
    \/ contract.intent \in NeedsSubject /\ contract.subject = NoName
    \/ contract.intent = "LOCATE_FRAMEWORK_CONSTRUCTION" /\ contract.subject \in Overlong

\* The 422 of a refused query; the transaction is rolled back.
Refuse ==
    /\ stage = "classified"
    /\ InvalidArgument
    /\ stage' = "refused"
    /\ UNCHANGED <<vars, question, index, claims, answer>>

Retrieve ==
    /\ stage = "classified"
    /\ ~InvalidArgument
    /\ offered' = Candidates
    /\ todo' = offered'
    /\ stage' = "assembling"
    /\ UNCHANGED <<contract, accepted, omissions, seen, tokensUsed, slotStatus, decision,
                   question, index, claims, answer>>

\* ContextAssembler.assemble
Assemble ==
    /\ stage = "assembling"
    /\ Next
    /\ UNCHANGED <<stage, question, index, claims, answer>>

----------------------------------------------------------------------------
\* A gate abstains: a task with named gaps and without an answer or claims.
AbstainUncovered ==
    /\ stage = "assembling"
    /\ decision = "ABSTAIN"
    /\ answer' = [status |-> "ABSTAINED", claims |-> {},
                  gaps |-> {<<"MISSING_ESSENTIAL_SLOT", s>>
                            : s \in {t \in Slots : slotStatus[t] \notin Passing}}]
    /\ stage' = "ended"
    /\ UNCHANGED <<vars, question, index, claims>>

\* The slot whose items become claims, and the claims' type.
ClaimSlot == [
    LOCATE_DEFINITION             |-> "unique_target",
    FIND_IMPORTERS                |-> "import_edges",
    FIND_INHERITORS               |-> "inheritance_edges",
    LIST_ROUTES                   |-> "route_symbols",
    LOCATE_FRAMEWORK_CONSTRUCTION |-> "framework_construction",
    FUNCTIONS_IN_MODULE           |-> "function_symbols",
    LIST_SYMBOLS                  |-> "full_text_evidence"]

SubjectWords(default) ==
    IF contract.subject = NoName THEN default ELSE WordsOf[contract.subject]

\* What the claim about an item says, and the entities it names.
TextOf(c) ==
    CASE contract.intent = "LOCATE_DEFINITION" ->
            SubjectWords(<<"symbol">>) \o <<"is", "defined", "in">> \o PathWords[c.file]
      [] contract.intent \in {"FIND_IMPORTERS", "FIND_INHERITORS"} ->
            PathWords[c.file]
                \o <<IF contract.intent = "FIND_IMPORTERS" THEN "imports" ELSE "inherits">>
                \o SubjectWords(<<"none">>)
      [] contract.intent = "LIST_ROUTES" ->
            WordsOf[SymbolWithId(c.artifact).name] \o <<"is", "defined", "in">>
                \o PathWords[c.file]
      [] contract.intent = "LOCATE_FRAMEWORK_CONSTRUCTION" ->
            SubjectWords(<<"application">>) \o <<"application", "is", "created", "in">>
                \o PathWords[c.file]
      [] contract.intent = "FUNCTIONS_IN_MODULE" ->
            WordsOf[SymbolWithId(c.artifact).qualified] \o <<"is", "a", "function", "in">>
                \o SubjectWords(<<"module">>)
      [] OTHER -> c.text

EntitiesOf(c) ==
    CASE contract.intent \in NeedsSubject ->
            {SubjectWords(<<"symbol">>), PathWords[c.file]}
      [] contract.intent = "LIST_ROUTES" ->
            {WordsOf[SymbolWithId(c.artifact).name], PathWords[c.file]}
      [] contract.intent = "LOCATE_FRAMEWORK_CONSTRUCTION" ->
            {SubjectWords(<<"application">>), PathWords[c.file]}
      [] contract.intent = "FUNCTIONS_IN_MODULE" ->
            {WordsOf[SymbolWithId(c.artifact).qualified], SubjectWords(<<"module">>)}
      [] OTHER -> {PathWords[c.file]}

\* The structural assertion of a claim about an edge, {} for any other.
EdgeOf(c) == CHOOSE e \in index.edges : e.id = c.artifact
AssertionOf(c) ==
    IF contract.intent \in {"FIND_IMPORTERS", "FIND_INHERITORS"}
    THEN {<<EdgeOf(c).source, EdgeOf(c).type, EdgeOf(c).target>>}
    ELSE {}

Draft(c) == [item |-> c.id, artifact |-> c.artifact, file |-> c.file, line |-> c.line,
             end |-> c.end, text |-> TextOf(c), entities |-> EntitiesOf(c),
             asserts |-> AssertionOf(c)]

\* _render_deterministic
Render ==
    /\ stage = "assembling"
    /\ decision = "READY"
    /\ claims' = {Draft(c) : c \in ItemsOf(ClaimSlot[contract.intent])}
    /\ stage' = "rendered"
    /\ UNCHANGED <<vars, question, index, answer>>

----------------------------------------------------------------------------
\* Bug: the last line of a span cannot be cited.
ResolvedBeforeEnd(claim) ==
    {c \in accepted : /\ c.scan = ScanId /\ c.file = claim.file /\ c.id = claim.item
                      /\ c.line <= claim.line /\ claim.end < c.end}

\* resolve_citation: the admitted spans that hold the cited lines.
Resolved(claim) ==
    {c \in accepted : /\ c.scan = ScanId /\ c.file = claim.file /\ c.id = claim.item
                      /\ c.line <= claim.line /\ claim.end <= c.end}

EvidenceWords(claim) ==
    IF Resolved(claim) = {} THEN <<>> ELSE (CHOOSE c \in Resolved(claim) : TRUE).text

\* _contains_token_sequence, and _has_phrase over whole words.
Contains(text, words) ==
    words # <<>> /\ \E i \in 0 .. Len(text) - Len(words) :
                        SubSeq(text, i + 1, i + Len(words)) = words

\* check_structural_support; the edges of the rendered claims are the evidence.
Matching(claim) == {e \in index.edges : <<e.source, e.type, e.target>> \in claim.asserts
                                        /\ \E other \in claims : other.artifact = e.id}
Conflicting(claim) == \E e \in Matching(claim) : e.resolution # "RESOLVED"
StructureSupported(claim) ==
    claim.asserts = {} \/ (Matching(claim) # {} /\ ~Conflicting(claim))

\* check_lexical_support
LexicallySupported(claim) ==
    \A words \in claim.entities : Contains(EvidenceWords(claim), words)

\* The qualifiers of check_qualifier_preservation, <<weaker, stronger>>.
Phrases(words) == {<<w>> : w \in words}
Transformations == {
    <<Phrases({"may", "might", "could"}), Phrases({"must", "will"})>>,
    <<Phrases({"usually", "often", "sometimes", "occasionally"}), Phrases({"always"})>>,
    <<Phrases({"some"}), Phrases({"all", "every"})>>,
    <<Phrases({"most"}), Phrases({"always", "all", "every"})>>,
    <<{<<"appears", "to">>, <<"seems", "to">>}, Phrases({"is", "are"})>>,
    <<Phrases({"likely", "probably"}),
      Phrases({"certain", "certainly", "definitely", "guaranteed"})>>}

QualifiersPreserved(claim) ==
    \A t \in Transformations :
        ~ /\ \E weaker \in t[1] : Contains(EvidenceWords(claim), weaker)
          /\ \E stronger \in t[2] : Contains(claim.text, stronger)

\* DeterministicClaimValidator.validate: the codes of the checks that fail.  The
\* drafts request SUPPORTED, so that no inference label is needed.
Failures(claim) ==
    {code \in {"CITATION_SPAN_NOT_FOUND", "STRUCTURAL_EDGE_MISSING",
               "LEXICAL_ENTITY_MISSING", "QUALIFIER_STRENGTHENED"} :
        \/ code = "CITATION_SPAN_NOT_FOUND" /\ Resolved(claim) = {}
        \/ code = "STRUCTURAL_EDGE_MISSING" /\ ~StructureSupported(claim)
        \/ code = "LEXICAL_ENTITY_MISSING" /\ ~LexicallySupported(claim)
        \/ code = "QUALIFIER_STRENGTHENED" /\ ~QualifiersPreserved(claim)}

Verdict(claim) ==
    IF Conflicting(claim) THEN "CONFLICTING"
    ELSE IF Failures(claim) # {} THEN "UNSUPPORTED" ELSE "SUPPORTED"

\* evaluate_coverage: slots with an item, or known to be empty.
Covered(slot) == ItemsOf(slot) # {} \/ slotStatus[slot] = "FILLED_EMPTY"

\* decide_answer: all claims are essential, so that one failure abstains.
Decision ==
    IF \/ \E s \in Slots : ~Covered(s)
       \/ \E claim \in claims : Verdict(claim) \in {"UNSUPPORTED", "CONFLICTING"}
       \/ claims = {}
    THEN "ABSTAINED"
    ELSE IF \E claim \in claims : Failures(claim) # {} THEN "PARTIAL" ELSE "ANSWERED"

Gaps ==
    IF \E s \in Slots : ~Covered(s)
    THEN {<<"MISSING_ESSENTIAL_SLOT", s>> : s \in {t \in Slots : ~Covered(t)}}
    ELSE UNION {{<<code, claim.item>> : code \in Failures(claim)} : claim \in claims}
         \cup IF claims = {} THEN {<<"NO_SUPPORTED_CLAIMS", 0>>} ELSE {}

\* The claims are validated, the answer is decided and _finalize stores it.
Answer ==
    /\ stage = "rendered"
    /\ answer' = [status |-> Decision,
                  claims |-> IF Decision = "ABSTAINED" THEN {} ELSE claims,
                  gaps   |-> Gaps]
    /\ stage' = "ended"
    /\ UNCHANGED <<vars, question, index, claims>>

AnswerNext ==
    \/ Classify \/ Refuse \/ Retrieve \/ Assemble
    \/ AbstainUncovered \/ Render \/ Answer

AnswerSpec == AnswerInit /\ [][AnswerNext]_answerVars

----------------------------------------------------------------------------
\* What the scan has to say, told without limits, budgets or gates.
Named(name)     == {s \in index.symbols : name \in {s.name, s.qualified}}
Asks(wording)   == RuleOf(question).wording = wording
EdgesTo(s, type) == {e \in index.edges : /\ e.target = s.id /\ e.type = type
                                         /\ question.alias \in {NoName, e.alias}}
FunctionsOf(name) ==
    {s \in index.symbols : /\ s.type = "FUNCTION"
                           /\ \E m \in index.symbols : /\ m.id = s.parent
                                                       /\ m.type = "MODULE"
                                                       /\ m.qualified = name}
Constructions(framework) ==
    UNION {{<<d.file, d.start + i - 1>> :
              i \in {j \in DOMAIN d.lines : d.lines[j].constructs = framework}}
           : d \in {e \in index.documents : CategoryOf[e.file] = "SOURCE"}}
Rows(records) == {<<r.id, r.file, r.line>> : r \in records}

\* The rows that answer the question, when there are some.
AnswerRows ==
    CASE Asks("routes")    -> Rows({s \in index.symbols : s.type = "ROUTE"})
      [] Asks("defined")   -> Rows(Named(Subject(question)))
      [] Asks("imports")   -> Rows(UNION {EdgesTo(s, "IMPORTS") : s \in Named(Subject(question))})
      [] Asks("inherits")  -> Rows(UNION {EdgesTo(s, "INHERITS") : s \in Named(Subject(question))})
      [] Asks("functions") -> Rows(FunctionsOf(ModuleSubject(question)))
      [] Asks("symbols")   -> Rows({s \in index.symbols :
                                       \/ Subject(question) = NoName
                                       \/ <<Subject(question), s.qualified>> \in Within})
      [] OTHER -> {}

Answered == stage = "ended" /\ answer.status = "ANSWERED"
TargetIsUnique ==
    RuleOf(question).intent \in NeedsSubject => Cardinality(Named(Subject(question))) = 1

\* An answer is true: every stored claim cites a row of the scan that is one of
\* those asked for, at its lines; a question about one symbol is not answered
\* when several have its name; and no wording the classifier calls unsupported
\* is ever answered.
AnswersAreTrue ==
    Answered =>
        /\ question.words \cap UnsupportedWordings = {}
        /\ TargetIsUnique
        /\ \A c \in answer.claims :
             IF Asks("created")
             THEN <<c.file, c.line>> \in
                    Constructions(IF Subject(question) = NoName THEN DefaultFramework
                                                                ELSE Subject(question))
             ELSE <<c.artifact, c.file, c.line>> \in AnswerRows

\* Any two symbols of a scan are found by a query for exact symbols and, as targets,
\* fit the package and its slot.
TargetsFit ==
    /\ ExactLimit >= 2 /\ MaxItems >= 2
    /\ \A rows \in Indexes : \A s, t \in rows.symbols :
         LET tokens == Len(DefinitionText(s)) + Len(DefinitionText(t))
         IN  tokens <= MaxTokensPerSlot /\ Reserved + tokens <= MaxTokens

\* Names and paths have words (not so one of signs or of letters beyond ASCII alone);
\* a qualified name has those of the name it ends with, that of a function those of
\* the module it begins with, and a line that constructs a framework those of its name.
NamesHaveWords ==
    /\ \A n \in DOMAIN WordsOf : WordsOf[n] # <<>>
    /\ \A f \in DOMAIN PathWords : PathWords[f] # <<>>
    /\ \A rows \in Indexes :
         /\ \A s \in rows.symbols :
              /\ Contains(WordsOf[s.qualified], WordsOf[s.name])
              /\ s.type = "FUNCTION" => \A m \in rows.symbols :
                   m.type = "MODULE" /\ s.parent = m.id
                       => Contains(WordsOf[s.qualified], WordsOf[m.qualified])
         /\ \A d \in rows.documents : \A i \in DOMAIN d.lines :
              LET framework == d.lines[i].constructs
              IN  framework # NoName => /\ framework \in DOMAIN WordsOf
                                        /\ Contains(d.lines[i].words, WordsOf[framework])

\* No query of retrieval meets its limit.
RowsUncut ==
    /\ Cardinality(index.symbols) <= ListLimit
    /\ Cardinality(Named(Subject(question))) <= ExactLimit
    /\ \A s \in index.symbols :
         Cardinality({e \in index.edges : e.target = s.id}) <= GraphLimit
    /\ Cardinality(index.documents) <= TextLimit

\* Nothing was cut off by a limit of retrieval or a budget of the package.
Uncut == RowsUncut /\ \A o \in omissions : o[2] \notin BudgetReasons

\* An answer has a claim about the row r, or the package an omission that names it.
Claimed(r) == \E c \in answer.claims : c.artifact = r[1]
LeftOut(r) ==
    \E o \in omissions : /\ o[2] \in BudgetReasons
                         /\ o[1].slot = ClaimSlot[contract.intent]
                         /\ o[1].artifact = r[1]

\* Within the limits of retrieval an answer about one symbol, a module or a list
\* passes over no resolved row: each one asked for is claimed or is named as omitted
\* for a budget.  (Of several constructions only the first is claimed; rows that were
\* not resolved, or cut off by a limit, are the subject of OmissionsAreNamed.)
ResolvedRowsAreAnswered ==
    Answered /\ RowsUncut /\ TargetIsUnique =>
        \A r \in AnswerRows : Claimed(r) \/ LeftOut(r)

\* The edges of the type asked for that could not be resolved and give the name of a
\* symbol the question is about.
UnresolvedRows ==
    LET names == UNION {{s.name, s.qualified} : s \in Named(Subject(question))}
    IN  Rows({e \in index.edges : /\ \/ Asks("imports") /\ e.type = "IMPORTS"
                                     \/ Asks("inherits") /\ e.type = "INHERITS"
                                  /\ e.unresolved \in names
                                  /\ question.alias \in {NoName, e.alias}})

\* What the documents say of an incomplete answer: a list that leaves out what could
\* not be resolved says so, and every truncation is named.  A row that is neither
\* claimed nor omitted by name needs a gap.
OmissionsAreNamed ==
    Answered =>
        \/ answer.gaps # {}
        \/ \A r \in AnswerRows \cup UnresolvedRows : Claimed(r) \/ LeftOut(r)

\* Each construction of the framework is in a file that has a module.
InModules ==
    \A p \in Constructions(Subject(question)) :
        \E s \in index.symbols : s.type = "MODULE" /\ s.file = p[1]

\* An abstention has a cause that the question or the scan explains: what the
\* scan records is answered, unless a qualifier was made stronger, something was
\* cut off, or the framework was not named.
AbstentionsAreExplained ==
    stage = "ended" /\ answer.status = "ABSTAINED" =>
        \/ ~contract.supported
        \/ ~TargetIsUnique \/ (AnswerRows = {} /\ ~Asks("created"))
        \/ ~Uncut
        \/ \E g \in answer.gaps : g[1] = "QUALIFIER_STRENGTHENED"
        \/ Asks("created") /\ Subject(question) = NoName
        \/ Asks("created") /\ (Constructions(Subject(question)) = {} \/ ~InModules)
=============================================================================
