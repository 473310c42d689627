# A verified model of the adaptive agentic engineering platform

The platform scans Git repositories into immutable inventories, extracts symbols,
relationships and text documents from them, and answers questions from that evidence
only.  Its promises are about trust: a scan is sealed once and never changes, an
answer cites the scan it was asked of, missing evidence leads to an abstention.  This
directory holds TLA+ modules translated from the code, TLC configurations that check
them on small instances, and proofs that the TLA+ proof system checks for every
instance.  `PROJECT.json` lists components, runs, theorems, hazards and findings, and
maps every definition to the lines it models.

Paths below are relative to `src/backend/adaptive_platform/`.

## 1. Inventory

| Component | State | Operations | What makes it correct |
|---|---|---|---|
| Scan service (`services/repositories.py`, `api/repositories.py`) | `repository_scans` rows and their children, lifecycle trace events; a queue of background tasks in memory | request, execute with its failure handler, readers of files, profile, symbols, relationships | one atomic outcome per scan, no partial inventory, no change after COMPLETED, concurrent executions do not mix, every request ends |
| Schema and guards (`database/models.py`, `database/migrations`) | unique keys; ORM listeners and PostgreSQL triggers | refuse updates of completed scans, of their children, of answers and of trace events | no sequence of service calls gets around a guard |
| Repository scanner (`repository/scanner.py`) | the commit, dirtiness and files it has read so far | validate, read HEAD and status, list, read and hash files under limits | the inventory is of one moment; limits hold; the commit recorded is the one scanned |
| Extraction of evidence (`extraction/`) | scope stack and import bindings of a file; symbols and relationships of the scan | second, hash-checked reads; AST visit; resolution of targets; writing of the rows | symbols hang where they are defined; an edge names what the source says; rows are whole |
| Context document index (`retrieval/indexing.py`) | the chunk being filled; drafts | exclusions, third read, symbol texts, chunking | no part of a text is lost or doubled, limits hold, a symbol's text is its lines |
| Language profiler (`languages/`) | counts per language | detection, shares, markers, type of repository | only first-party source decides |
| Question service (`qa/service.py`, `api/tasks.py`) | tasks, context packages, answers, claims, their trace | ask, get, trace, feedback; one retrieval and one rendering per intent | only sealed scans are read; stored tasks are whole; the cache returns what was stored; the trace accounts for every response; answers are true and complete |
| Query classifier (`context/classifier.py`) | none | from a question to intent, subject and slots | an unsupported question is never answered |
| Context assembler (`context/assembly.py`) | the package under construction | one pass over sorted candidates, then slot statuses and the gate | budgets, trust order, READY only with grounded slots |
| Retrieval (`retrieval/structural.py`, `retrieval/full_text.py`) | the frontier of a traversal | exact lookup, bounded breadth-first traversal, ranked search | edges within depth and limit, nearest first |
| Grounding (`grounding/`) | none | citation, structural, lexical and qualifier checks; the decision | a retained claim passed every check; what the scan answers is not refused |
| Agent gateway, trace recorder, schemas and review page, evaluation harness | none, a JSON-lines file, none, none | refusal of disabled profiles; appends; serialisation; offline scoring | not modelled (section 6) |

The components meet in the database.  `POST /scans` creates a PENDING row and queues
one call of `execute` in the memory of the process; `execute` calls the scanner, the
extractors and the indexer inside one transaction and seals the scan; readers and the
question service look at COMPLETED scans only; the question service calls classifier,
retrieval, assembler and grounding in one transaction of its own.

What is hard: several sessions at READ COMMITTED (nothing locks a scan row between
the PENDING test and the update), transactions that wait for a unique key, exceptions
between flushes, a process that dies with its queue, a working tree that is edited
while it is read three times, requests that look up a cache before either is stored,
budgets that compete, names that resolve before or after all files were read, limits
applied before filters, and a validator that looks for words which retrieval and
rendering wrote independently.  `PROJECT.json` lists each hazard at its line with the
properties that cover it, or the reason why none does.

## 2. Modules

**ImmutableScan** is the abstract promise: a scan is created, begins, and fails with
no content or completes with its whole content in one step.

**ScanLifecycle** is the code.  A call of `execute` is an *attempt* with a program
counter; it is cut where another session can act: at commits, at the first flush
(which waits for the unique profile key), at the reads of the working tree that may
raise, and at the rollback of the handler.

| Model | Code |
|---|---|
| `status`, `failureCode`, `artifacts`, `events` | committed rows of `repository_scans`, its children, `trace_events` |
| `staged`, `profileHolder` | rows flushed by an open transaction; who holds the key `repository_language_profiles.scan_id` |
| `Request` | `ScanService.request` and `add_task` of the handler |
| `CallExecute` | another caller of `execute` on an existing scan (constant `DirectCalls`) |
| `Load`, `Start`, `StartRefused` | `execute` up to its first commit; the trigger on completed scans |
| `PolicyUnavailable` | `settings.scan_policy()` raising outside the `try` |
| `FlushInventory`, `Extract`, `Index`, `Seal` | the body of the `try`, by its flushes; sealing is one commit |
| `Abort`, `MarkFailed`, `MarkFailedRefused` | `except`: rollback, re-read, commit of FAILED or refusal |
| `Crash` | the process dies, queue and transactions with it, and is restarted |
| `OpenScan`, `ReadArtifacts` | the two statements of every reader |

Rows are abstracted to `<<attempt, kind>>`: which execution wrote which kind of
artifact.  That is what mixing, doubling and loss can be told from.

**SnapshotInventory** is one scan reading a tree that people edit.  A file's content
is a version number that grows with every change; a hash is the version read.  The
passes of scanner, source loader and indexer are program counter values over one set
`todo`, since all three visit paths in sorted order.  `moment` is a history variable:
the tree when the inventory pass ended.

**QuestionService** composes the questions with the scans by
`Scan == INSTANCE ImmutableScan`: the promise that ScanLifecycle keeps is all that
`ask` relies on.  One `ask` is cut at its reads: scan, cache, two retrieval
statements, commit.  What the gates would find for a question (`outcome`) is chosen
once, because classifier, assembler and validator are deterministic; a scan without
the evidence is a coverage abstention.  Task and call share a name, as an uncached
call stores one task.

**ContextAssembler** is `assemble`, one action for each way a candidate can go, then
`Decide`.  A candidate is a record of the fields the code looks at; `rank` stands for
the rank, score, path and line of the sort key, and tokens are a number.

**StructuralTraversal** is `traverse`, one action for the argument check, one for the
head of the loop (`StartDepth`: fetch, drop what was returned, materialize), one for
each edge appended and one for the end of a depth.  Relationships are numbered by the
part of the sort key that does not depend on the walk; `Before` puts direction first.
The graph is chosen by `WalkInit`: a sealed scan does not change under a walk.

**PythonEvidence** is `PythonAstExtractor.extract` and `_persist_extraction_result`.
The source text is grown statement by statement: an action for each kind of statement
the visitor handles (`VisitClassDef`, `VisitFunctionDef` with its routes, `VisitAssign`,
`VisitImport`, `VisitImportFrom`, `VisitDynamicImport`, `VisitAll`), `Leave` for the end
of a block, `EndOfFile` for the exports, `SyntaxError` for a file that does not parse.
When all files were read `Resolve` rewrites the edges, and `PersistSymbols` and
`PersistRelationships` store them or raise.  A dotted name is the sequence of its
parts; the package at the root is named "", so that its members have the parts "" and
"C" of the code's ".C".  `bound` and `meant` are history variables: which statement bound a name, and
hence what the name of an edge means in Python; only a property reads them.

**ContextIndex** is `build_context_documents` and `persist_context_documents`: the
exclusions, the texts of a file and its symbols, and one action per round of the
chunking loop.  A line of the Python parser is a sequence of the pieces that
`str.splitlines` makes of it, since the code counts lines in both ways; a piece is a
length and whether it is blank.

**LanguageProfile** is `detect_language` and `profile_repository_languages`: one
action per file of the first loop, one for the markers, one for the summary.

**GroundedAnswer** is what `ask` does between a cache miss and its commit.  It EXTENDS
ContextAssembler and composes with it: `Classify` makes a contract of the question,
`Retrieve` computes the candidates of its intent from the rows of the scan (each query
with its filter, ORDER BY and LIMIT), the steps of the assembler run on them, and
`Render` and `Answer` are the claims, their validation and the decision.  `Refuse` is
the 422 of an empty subject, or of a framework's name too long for the search.  Text is a sequence of words, because the lexical and
qualifier checks compare token sequences; names and files are numbers in the order the
queries sort them.  `Rules` lists the classifier's patterns in the order in which they
are tried; that a regular expression recognises a wording is an input.  The walk along
edges is the one-step case of StructuralTraversal.

The `MC` modules hold values for the constants.  Definitions whose comment begins
"Bug:" are not part of a specification: each is a plausible mistake in the definition
that follows it, and shows that a property would notice it.

## 3. Runs

| Run | Instance | Shows |
|---|---|---|
| ScanApi | 2 scans, 3 attempts, one crash, settings good or bad | the code implements ImmutableScan when each scan has one execution; orphans stay as they are; requested scans end; a COMPLETED scan has no failure code |
| ScanContention | 2 scans, 3 attempts, several on one scan | TypeOK, NoPartialInventory, OneInventory, ReadsAgree, TrailMatchesStatus, SingleWriter, CompletedScansAreImmutable; EveryCallEnds |
| Snapshot | a file of each kind, 2 edits, limit below the number of files | EvidenceIsOneMoment, LimitsHold, ScanEnds |
| Questions | 1 scan still running, 2 questions, 3 requests, 1 feedback | answers come from sealed content and agree, stored tasks are whole, hits are traced, corrections stay in their trace |
| Answers | 33 questions of some 500 scans; the assembler alone with any 5 of 12 unlike candidates, budgets too small for them; walks over all graphs of 3 relationships, of two types, over 3 symbols, with all directions, type filters, depths 0..4 and limits 0..4 | AccountedFor, BudgetsKept, BudgetGoesToTrust, ReadyIsGrounded; AnswersAreTrue, ResolvedRowsAreAnswered, AbstentionsAreExplained; TypeOK, ResultsAreBounded, DepthIsDistance, NothingNearerIsMissing, ResultsAreSorted |
| Evidence | 4 files and any 3 statements in them; files of up to 3 lines; inventories of up to 4 of 11 files | SymbolsNest, EdgesAreWhole, ClearNamesAreExact; ChunksTile, SymbolTextIsItsLines; ProfileIsFirstParty |
| ScanDoubleStart, SnapshotClean, QuestionRepeats, QuestionCache, RedefinedName, SilentOmissions | the smallest that shows it | a sentence of the repository that the code does not keep (section 5) |

*Bounds.*  Three attempts on one scan are one more than a race needs: one seals or
fails, one waits, one comes late.  A second scan shows that they do not disturb each
other.  One crash is enough because nothing that survives a crash depends on how many
came before.  Two edits let a file change between any two of its reads and another
one elsewhere.  Three requests are a pair that overlaps and one that comes after.
Five candidates allow a target, an edge, a duplicate, one over budget and one after it.
The scans of Answers have three modules and any of six members and five edges, so that
a name is defined twice, an import has an alias or no target, and an exact lookup, a
list and a walk each meet their limit (2, 6, 2) with one row more and one less; their
documents are any of four, of which a search returns two.  Budgets, 3000 tokens a slot
in the code, are so small here (40 words, 64 in all) that lists overrun them.
Three statements make a nested method, a rebinding or a relative import that another
file exports; the files are the package at the root, a module at the root, a package
and a module in it, whose names are also identifiers.  Chunks hold three characters and two lines: a line fills
one, a line of seven needs three.  The components of Evidence do not interact and run
one at a time, as do a question, the assembler alone and a walk in Answers: the initial
state chooses which.
Three relationships make a path of the greatest depth, a cycle with a tail, parallel
edges and loops; limits above and below their number cut a depth in the middle.

*Fairness.*  `ScanLifecycle!FairSpec` assumes that a running process goes on with its
tasks (`WF` of an attempt's own steps) and that a guard raises when it applies.  It
does not assume that extraction succeeds, that clients call or that crashes happen or
stop; a crash ends attempts, and RequestedScansTerminate excepts it by name, as it
does settings that `scan_policy` rejects.  `SnapshotInventory!FairSpec` assumes that
the scan, one synchronous call, goes on while others edit.  Deadlock is checked
in Answers, where a question, a package and a walk step on until they have ended; the
other instances have finitely many calls, files or statements, and stop when they are
done.

## 4. Proofs

Every theorem holds for arbitrary constants.  TLC checked the invariants before they
were proved.

What is assumed of the constants is stated where they are declared and evaluated by
every run.  Besides ranges of limits it says what kind of data a component is given,
as the types and callers in the code have it: a candidate has a status, a class of
trust and a number of tokens (`IsCandidate`); a profiled file has a size and at most a
registered language of each kind of evidence (`IsProfiled`), the inventory is finite
and the languages are distinct; an indexed file has lines of at least one piece, and
the spans of its classes and functions are lines that the parser counted
(`IsIndexed`); the rows a question reads are those of a completed scan (`IsScanned`):
ids are keys, and so are qualified names, because `_persist_extraction_result` makes
the ids of the names, and a relationship has the id of a symbol exactly when it is
RESOLVED and only a name when it is not, as EdgesAreWhole says of the rows that
extraction stores.

*Data.*  The library's induction theorems take an operator as a parameter, which the
provers cannot instantiate.  **DataLemmas** therefore makes each induction once, by the
choice of a least counterexample: a set of naturals has a least and, when bounded, a
greatest element, a family of finite sets has a smallest member, iterations exist and
are unique.  From these come the laws of `SumFunction` and `MapThenSumSet` (a sum
unfolds at a point, grows with an element, is monotonic, joins disjoint sets), and in
ProfileIndexProofs those of `FlattenSeq` (it appends, keeps a property of all members,
keeps a type).

* **ScanLifecycleProofs.**  NoPartialInventory and OneInventory are not inductive: they
  hold because of who may write.  The invariant adds `SingleWriter`: from its first
  flush an attempt alone holds the profile key of its scan, the scan is not COMPLETED
  (so the guards let it write) and what it staged is what its stage says; a call's
  scan exists; a reader's scan is COMPLETED.  The critical step is `Seal`: the
  attempt's key excludes another sealer, its scan was not COMPLETED and hence had no
  artifact, so the committed set becomes exactly its own inventory.  ReadsAgree
  follows because a scan that a reader has opened does not change.  TrailTheorem rests on a lemma
  about the last element of an extended sequence.
  CompletedScansAreImmutable comes from the same invariant: an action that writes a row either has a guard that excludes COMPLETED or belongs to
  the holder of the key.  PromiseTheorem is the refinement, under the assumption
  `~DirectCalls`: `ApiInv` says that a scan has one attempt and that its program
  counter determines the status, so each write is the step of ImmutableScan with that
  `from` status, and all other actions stutter.  With direct calls it is false, as
  ScanDoubleStart shows.
  NoFailureCodeTheorem has the same assumption: an execution finds its row as it left
  it, so a scan that is sealed was never failed.  OrphansTheorem needs neither: a
  write to a row comes from an attempt of that scan that has not ended.
* **SnapshotInventoryProofs.**  The invariant behind OneMomentTheorem: versions only
  grow, every version recorded or seen at `moment` is at most the present one, and a
  verified path has its recorded version now or had it after `moment`; so version at
  `moment` and version recorded are pressed between two equal reads.  LimitsTheorem
  counts: the inventory is finite and no larger than the number of files encountered,
  which a file that is recorded raises by one and leaves within the limit.
* **QuestionServiceProofs.**  What a call has read is the content of its scan as it is
  now, because the scan was COMPLETED at the first step and ImmutableScan's steps
  leave COMPLETED scans alone.  Answers of one identity then agree because the same
  function of the same arguments decided them.  For SecondTaskNeedsOverlap the
  invariant adds that a call past a cache miss has no stored task of its identity
  unless an overlap was recorded.
  StoredTasksAreWhole, HitsAreTraced and
  CorrectionsStayInTheirTrace are one further invariant: a trace grows at its end only (lemma
  TrailGrows), a call that stored a task has ended, a hit is one of a stored task, and
  the places of a value in a sequence grow by one exactly when that value is appended
  (PlacesAppend), in the trace and in what was served by the same step.
* **GroundedAnswerProofs.**  The assembler: candidates to come, items and omissions are a partition
  of what was offered, counted, so that none is lost or doubled; items passed the
  precheck and their ids differ.  The gate is the last step, and a slot passes only
  with the items ReadyIsGrounded asks for (lemma PassingIsGrounded), including that the
  unique target is one.  `BudgetInv` is about sums: the running total is the reserve and
  the tokens admitted, a budget that turned a candidate away would do so again, and
  nothing to come precedes what was met.  What is admitted after an omission therefore
  needs less room than what was omitted, which is BudgetGoesToTrust.
  The answer: for each kind of question one lemma shows what retrieval offers
  (`IsRetrieved`): the ids differ, each candidate that a claim is made of cites a row
  that was asked for, every such row has one unless a limit cut it off, and when the
  name fits several symbols two of them are offered as targets.  `AnswerInv` carries
  that through the assembler, with the reason of each omission, to the claims.
  ResolvedRowsAreAnswered follows: what a READY package lacks was omitted for a budget,
  since all else that is offered is admissible and its id is no other's.  AnswersAreTrue has a
  hypothesis, `TargetsFit`: the definitions of any two symbols fit the slot and the
  package.  Without it the second target may be the one a budget turns away, and the
  answer names one of two symbols of that name as the only one.  3000 tokens for two
  names and paths are far from any real one, but the columns are unlimited text and
  nothing in the code ensures it (the hazard at `context/assembly.py:270`).  TLC
  evaluates the hypothesis on the instance of Answers.
  AbstentionsAreExplained goes the other way, from an abstention to its cause.  What is
  offered is also enough (`IsEnough`): every candidate can fill its slot, each required
  slot has one when the scan records an answer that no limit cuts off, and the text of
  each candidate contains, word by word, every entity its claim will name, because the
  same names make both (ContainsIn).  `AbstentionInv` remembers that a refused package
  has a slot that does not pass, and that an id already seen belongs to an item or to
  what a budget turned away; so a package of all that was offered passes
  (RecordedIsReady).  Past the gate a draft cites its own item, its words are in the
  item's text and its edge is RESOLVED (DraftsHold), so that only a strengthened qualifier
  is left to fail.  The hypothesis, `NamesHaveWords`, is about tokens: names and paths
  have some, a qualified name has those of the name it ends with and a function's those
  of its module.  Extraction builds names that way, but a name of signs alone (`_`) or of
  letters beyond ASCII has no tokens (`grounding/support.py:143-145`), its claim fails
  the lexical check, and the question abstains although the scan has the answer.  TLC
  evaluates this hypothesis as well.
* **PythonEvidenceProofs.**  EdgesAreWhole says that no text makes the storage of
  edges fail.  The invariant types all names, keeps the module of the file among the
  symbols, and says what an edge is before its target was looked up (`Pending`) and
  after (`Whole`); one lemma per kind of statement shows that new edges are pending and
  start at a symbol.  It assumes of the constants that names are sequences of strings
  and that "no name" is none of them, and of "", the name of
  the package at the root, that it is no identifier (`RootIsUnnamed`).  SymbolsNest needs to know what the scope stack
  and the list of symbols have to do with each other (`NestInv`): the name of the n-th
  open block is n parts longer than that of the module, and the last symbol of that name
  in the file is of the block's kind.  A new symbol cannot hide an open block: its name
  is longer than all of theirs, or it is a route, whose name begins otherwise.
  ClearNamesAreExact compares what the visitor computes statement by statement with what
  Python binds in the whole file.  `MeaningInv` carries the comparison: until targets are
  looked up, an edge whose name is clear has what it means as its target, and for a name
  that a single import binds the visitor's table has that import's target.  The table
  keeps only the last binding of a name, so this survives a statement just because
  another binding of the name ends its being clear (OneMoreBinder).  The other half is
  arithmetic: dropping level - 1 parts of the package of a module names the directory
  that many steps up (ImportedIs), for a package as for a module.  `InPackage` leaves two
  cases open, in which the code's target is another (section 5): the imports of a module
  at the root, and a name taken from the package at the root itself.  The bases of a
  class are assumed to be non-empty names: `visit_ClassDef` skips any other.
* **StructuralTraversalProofs.**  That no relationship is returned twice needs two
  facts the property does not state: `visited_relationships` holds everything that was
  returned, and the candidates of a round are disjoint from it.  The candidates are
  also what carries the type filter and the depth from the head of the loop to the
  edge appended.  SortedTheorem: nothing returned lies deeper than the loop, and what
  was returned at the loop's depth precedes every candidate that is left.  DistanceInv
  compares the walk with the ball of each radius around the start: between rounds, as
  long as the limit was not met, the nodes and edges visited are exactly those within
  the depth (`MetExactly`); in a round they are those of the earlier depths and a part
  of the present one (`RoundIsExact`).  NothingNearerIsMissing follows, with the fact
  that a ball which does not grow once never grows again when the frontier runs out.
* **ProfileIndexProofs.**  The profiler: after each file the counts of a language are
  the sums over the files met, source apart from generated and vendored (`ProfileInv`);
  FirstPartyTheorem then follows from the ranking, which finds a language of most bytes
  because the languages are finitely many.  The index: the parts of the chunks made,
  with those of the open one, are the parts of the text consumed so far, and the open
  chunk keeps both limits (`IndexInv`); that the lines of parts never go back bounds the
  span of a chunk by its first and last part.  SymbolTextTheorem: where each line is one
  piece, flattening the lines changes nothing, so a slice of the pieces is the slice of
  the lines.

Only model-checked: liveness (RequestedScansTerminate, EveryCallEnds, ScanEnds), which
is out of the prover's reach.

## 5. Where code and documents differ

1. **ScanDoubleStart.**  "Only pending scans can be executed" is tested on a copy of
   the row; the update names the row by id.  Two direct calls can restart a scan that
   is running or has failed.  OneInventory and CompletedScansAreImmutable hold all the same,
   thanks to the unique key and the guards; the API never makes two calls.
2. **SnapshotClean.**  HEAD, `git status` and the files are read one after the other,
   so that a tree recorded as clean may differ from its commit.  The hashes per file
   are right (EvidenceIsOneMoment); only the link to the commit can be wrong.
3. **QuestionRepeats.**  Overlapping requests store and return different tasks,
   although the documents promise the original.  They agree in content.
4. **QuestionCache.**  Abstentions caused by the validator are cached, although two
   documents say they are not.
5. **RedefinedName.**  The data model lets a qualified name have several symbols, on
   different lines.  The writer has one row id for a name, so that an overload, a
   property with its setter or a second definition in an `else` fails the whole scan
   with an IntegrityError.  EdgesAreWhole and SymbolsNest hold all the same.
6. **SilentOmissions.**  "Any answer whose traversal crossed an unresolved edge must say
   so", "nothing is ever dropped silently", "every omission and truncation is stable and
   named".  The walk looks for edges by the id of their target, so that an unresolved one
   never enters it, not even one that gives the name asked for, as a class does whose
   base is in the same file; and what a limit of retrieval cuts off is gone before the
   assembler could list it.  In the run, of three heirs that were resolved and one that
   was not, an ANSWERED task claims two and names neither of the others.  What the code
   does keep to is ResolvedRowsAreAnswered: within the limits every row that was
   resolved is claimed, or listed as omitted for a budget.

What the models show besides, without a sentence of the repository to judge it by:

* A base class of the same file is UNRESOLVED as an "external_dependency": its bare
  name is looked up, its symbol has a qualified one (`extraction/python_ast.py`).  That
  is how an edge comes to be missing in SilentOmissions.
* The members of an `__init__.py` at the root are named `.C`, as the name of its module
  is empty (`python_ast.py:28-33`, 115, 220, 261, 324, 337), but `from .. import C` in
  `p/b.py` has the target `C` (363).  So an import from the package at the root is
  UNRESOLVED as an "external_dependency", or resolved to a module `C` at the root, even
  when the package defines that name; its author meant the member.
* Import bindings are kept for a whole file.  A base or export whose name is bound
  again later, or in another function, is resolved as if it were certain;
  ClearNamesAreExact therefore judges names with one binding only.  In a module at the
  root, `from .b import C` gets the target `a.b.C`, as `rsplit` of a name without a dot
  is the name.
* A form feed inside a line shifts the text of every symbol after it, because the text
  is cut with `str.splitlines` (`retrieval/indexing.py`): the reason for
  `CountedAlike` in SymbolTextIsItsLines.
* `FILLED_EMPTY`, `PARTIAL` and a structural conflict never occur with the candidates
  and claims the service makes today.
* A question without a framework's name is retrieved as "FastAPI" but claimed as
  "application", so that the lexical check abstains; an answer abstains as a whole when
  the name of one function contains both words of a qualifier pair (`some_or_all`);
  and only the first construction that the search finds is considered, even when its
  file has no module.  AbstentionsAreExplained names these causes.
* A question about tests that import a symbol claims all importers, with the
  categories of their files only as evidence.

## 6. Not modelled

PostgreSQL at READ COMMITTED is assumed; SQLite, used by tests, locks more coarsely.
An edit that is undone between two reads, byte limits, notices and the rows of the
profile are abstracted away, as are the texts of summaries.  A failing commit of the
failure handler behaves as a crash.  Two kinds of content stand for all contents of a
scan.

* *Extraction*: spans, signatures, docstrings, confidence, `TYPE_CHECKING`, model
  detection and the literal forms of `import_module`; nothing a property tells apart
  depends on them.  Source text is statements, never characters.
* *Scanner*: path validation, categories, generated and vendored marks, secrets: tests
  of one path or text at a time, without state.
* *Profiler*: rounding of percentages and the list of signals.
* *Classifier*: the regular expressions; a question is given as the wordings that match
  and the names they capture.  A question about functions that names no module looks up
  the module "" (`qa/service.py:282`), that is the package at the root, if there is one;
  the scans of GroundedAnswer have none, and it abstains.
* *Qualifiers*: "appears to" and "seems to" are looked for as two tokens in a row; the
  code wants one space between them, so that only the model finds them in a name such
  as `appears_to`.
* *Full-text search*: the score, computed by PostgreSQL, is a number of the document.
* *Read-only endpoints* of tasks, traces and the review queue; the registration of
  repositories, one insert.
* *Trace recorder*: it appends to a JSON-lines file, but no part of the service
  constructs it; the traces of scans and questions are rows.  *Agent gateway*: a list
  of checks before a call that no part of the service makes, since every profile is
  disabled.
* *Schemas, review page, wiring*: serialisation and static pages.  *Evaluation harness*:
  offline programs that score the components against fixtures.
