--------------------------- MODULE PythonEvidence ---------------------------
(***************************************************************************)
(* PythonAstExtractor.extract (extraction/python_ast.py) and the writing   *)
(* of what it found (_persist_extraction_result, services/repositories).   *)
(* The files are visited in the order of their paths; a _ModuleVisitor     *)
(* meets the statements of one file in order, so the source is grown here  *)
(* statement by statement.  When every file was read the targets are       *)
(* resolved against the names of all extracted symbols, then the rows are  *)
(* written.                                                                *)
(*                                                                         *)
(* A dotted name is the sequence of its parts; the module of an            *)
(* __init__.py at the root is named "", so that its members are ".C",      *)
(* which are the parts "" and "C".  Signatures, docstrings, spans and      *)
(* decorators other than routes are not told apart.  An if statement opens *)
(* no scope: its statements are those of its block.                        *)
(***************************************************************************)
EXTENDS Naturals, Sequences, SequencesExt

CONSTANTS
    Files,              \* paths without suffix, by parts, in path order
    Classes,            \* identifiers that class and def statements bind
    Constants,          \* those of them for which isupper() holds
    Bases,              \* lists of base expressions a class may have
    RouterTables,       \* router name -> prefix, as a module's body assigns
    Decorators,         \* lists of route decorators <<router, method, path>>
    Imports,            \* import statements <<module, alias>>
    FromImports,        \* <<level, module, name, alias>>
    ExportLists,        \* lists that __all__ is assigned
    MaxStatements,      \* bound on the statements of all files
    MaxNesting,         \* bound on the nesting of blocks
    None                \* what the code calls None: no name

Names == Seq(STRING)

\* Why an edge has no target, and the name of one that only a run could tell.
Reasons == {"dynamic_import_target", "local_target_not_extracted", "external_dependency"}
DynamicImport == <<"import_module">>

ASSUME EvidenceConstants ==
    /\ None \notin Names \cup {DynamicImport} \cup Reasons
    /\ Files \in Seq(Names \ {<<>>})
    /\ Classes \subseteq STRING /\ Constants \subseteq STRING
    /\ Bases \subseteq Seq(Names \ {<<>>})
    /\ \A t \in RouterTables : \A r \in DOMAIN t : t[r] \in Names
    /\ Decorators \subseteq Seq(STRING \X STRING \X Names)
    \* A route's name has the method and the path in one part: no identifier does.
    /\ \A list \in Decorators : \A i \in DOMAIN list : list[i][2] \notin Classes
    /\ Imports \subseteq (Names \ {<<>>}) \X (STRING \cup {None})
    /\ FromImports \subseteq Nat \X Names \X STRING \X (STRING \cup {None})
    /\ ExportLists \subseteq Seq(STRING)

\* The name of the package at the root is no identifier.
ASSUME RootIsUnnamed == "" \in STRING \ (Classes \cup Constants)

VARIABLES
    stage,          \* where the extraction of the scan is
    file,           \* the document being visited, or next to be
    routers,        \* router_prefixes of the module
    scope,          \* the blocks around the statement, innermost last
    bindings,       \* import_bindings: identifier -> target
    symbols,        \* what is extracted, in order
    edges,          \* relationships, in order
    exported,       \* the elements of the module's __all__ so far
    diagnostics,    \* files with a syntax error
    statements,     \* statements met so far, for the bound
    bound,          \* history: what the statements of this file bound
    meant           \* history: what the names of the edges mean

module  == <<routers, scope, bindings, exported, bound>>
vars    == <<stage, file, module, symbols, edges, meant, diagnostics, statements>>

-----------------------------------------------------------------------------
(* Names.                                                                  *)

IsPackage(path) == Last(path) = "__init__"

Root == <<"__init__">>

\* module_name_for_path: "" for the package at the root.
ModuleName(path) ==
    IF path = Root THEN <<"">> ELSE IF IsPackage(path) THEN Front(path) ELSE path

Module == ModuleName(Files[file])

\* current_qualified_name
Current == IF scope = <<>> THEN Module ELSE Last(scope).name

\* Bug: any enclosing class makes a method of a function.
InAnyClass == \E i \in DOMAIN scope : scope[i].kind = "CLASS"

InClass == scope # <<>> /\ Last(scope).kind = "CLASS"

\* The parts of package, none for "".  rsplit(".", 1)[0]: a name of one part is
\* returned whole.
Package ==
    IF IsPackage(Files[file]) THEN Front(Files[file])
    ELSE IF Len(Module) > 1 THEN Front(Module) ELSE Module

\* Bug: the level counts the module itself once more.
AbsoluteOneTooHigh(level, from) ==
    IF level = 0 THEN from
    ELSE SubSeq(Package, 1, IF Len(Package) > level THEN Len(Package) - level ELSE 0)
             \o from

\* _absolute_import_module
AbsoluteModule(level, from) ==
    IF level = 0 THEN from
    ELSE SubSeq(Package, 1, IF Len(Package) > level - 1
                            THEN Len(Package) - (level - 1) ELSE 0) \o from

\* import_bindings.get(expression, default): only a bare name is ever bound.
Binding(expression, default) ==
    IF Len(expression) = 1 /\ expression[1] \in DOMAIN bindings
    THEN bindings[expression[1]] ELSE default

-----------------------------------------------------------------------------
(* What Python binds, for the properties only.                             *)

Bind(name, what, by) ==
    [name |-> name, what |-> what, by |-> by, top |-> scope = <<>>]

\* The name that an expression of the module's body denotes, when only one
\* statement of the file binds its first identifier, and None otherwise.
\* (import a.b binds a: the bare name is then a package, the dotted one in it.)
Denotes(expression) ==
    LET binders == {i \in DOMAIN bound : bound[i].name = expression[1]}
        clear   == {i \in binders :
                      /\ binders = {i} /\ bound[i].top
                      /\ IF Len(expression) = 1
                         THEN bound[i].by = "import"
                         ELSE bound[i].by # "def" /\ bound[i].what = <<expression[1]>>}
    IN  IF scope = <<>> /\ clear # {}
        THEN bound[CHOOSE i \in clear : TRUE].what \o Tail(expression) ELSE None

\* The module a relative import names: so many directories up.
Imported(level, from) ==
    LET directory == Front(Files[file])
    IN  IF level = 0 THEN from
        ELSE SubSeq(directory, 1, Len(directory) - (level - 1)) \o from

\* Left open: an import of a module at the root, and a name taken from the package
\* at the root itself.  Of "from .. import C" the target is "C", which names a module
\* at the root but never a member of that package, whose name is ".C".
InPackage(level, from) ==
    \/ level = 0
    \/ /\ level <= Len(Files[file])
       /\ IsPackage(Files[file]) \/ Len(Files[file]) > 1
       /\ level = Len(Files[file]) => from # <<>>

-----------------------------------------------------------------------------
Symbol(name, kind, parent) ==
    [name |-> name, kind |-> kind, parent |-> parent, file |-> file]

\* _add_relationship
Edge(kind, source, target) ==
    [kind |-> kind, source |-> source, target |-> target, unresolved |-> None,
     status |-> "PARTIALLY_RESOLVED", reason |-> None]

DynamicEdge ==
    [kind |-> "REFERENCES", source |-> Module, target |-> None,
     unresolved |-> DynamicImport, status |-> "UNRESOLVED",
     reason |-> "dynamic_import_target"]

\* import_bindings[name] = target
Rebound(name, target) ==
    [b \in DOMAIN bindings \cup {name} |-> IF b = name THEN target ELSE bindings[b]]

\* extract, for the next document: a new visitor, and the module's symbol.
Parse ==
    /\ stage = "parsing"
    /\ file \in DOMAIN Files
    /\ stage' = "visiting"
    /\ routers' \in RouterTables
    /\ scope' = <<>>
    /\ bindings' = <<>>
    /\ exported' = <<>>
    /\ bound' = <<>>
    /\ symbols' = Append(symbols, Symbol(Module, "MODULE", None))
    /\ UNCHANGED <<file, edges, meant, diagnostics, statements>>

\* ast.parse raises: nothing of the file is extracted.
SyntaxError ==
    /\ stage = "parsing"
    /\ file \in DOMAIN Files
    /\ diagnostics' = diagnostics \cup {file}
    /\ file' = file + 1
    /\ UNCHANGED <<stage, module, symbols, edges, meant, statements>>

Statement ==
    /\ stage = "visiting"
    /\ statements < MaxStatements
    /\ statements' = statements + 1
    /\ UNCHANGED <<stage, file, routers, diagnostics>>

Open(name, kind) ==
    /\ Len(scope) < MaxNesting
    /\ scope' = Append(scope, [name |-> name, kind |-> kind])

VisitClassDef(name, bases) ==
    LET qualified == Append(Current, name) IN
    /\ Statement
    /\ symbols' = Append(symbols, Symbol(qualified, "CLASS", Current))
    /\ edges' = edges \o [i \in DOMAIN bases |->
                    Edge("INHERITS", qualified, Binding(bases[i], bases[i]))]
    /\ meant' = meant \o [i \in DOMAIN bases |-> Denotes(bases[i])]
    /\ Open(qualified, "CLASS")
    /\ bound' = Append(bound, Bind(name, qualified, "def"))
    /\ UNCHANGED <<bindings, exported>>

\* _join_route, on paths as their segments; the route is a name of the module.
RouteName(d) == Module \o <<d[2]>> \o routers[d[1]] \o d[3]

\* _visit_function and _extract_routes; a decorator of anything but a router of
\* the module adds nothing.
VisitFunctionDef(name, list) ==
    LET qualified == Append(Current, name)
        kind      == IF InClass THEN "METHOD" ELSE "FUNCTION"
    IN
    /\ Statement
    /\ \A i \in DOMAIN list : list[i][1] \in DOMAIN routers
    /\ symbols' = Append(symbols, Symbol(qualified, kind, Current))
                      \o [i \in DOMAIN list |-> Symbol(RouteName(list[i]), "ROUTE", Module)]
    /\ Open(qualified, kind)
    /\ bound' = Append(bound, Bind(name, qualified, "def"))
    /\ UNCHANGED <<bindings, exported, edges, meant>>

\* The end of a class or function: scope.pop().
Leave ==
    /\ stage = "visiting"
    /\ scope # <<>>
    /\ scope' = Front(scope)
    /\ UNCHANGED <<stage, file, routers, bindings, exported, bound, symbols, edges,
                   meant, diagnostics, statements>>

\* visit_Assign and visit_AnnAssign, of a name that isupper().
VisitAssign(name) ==
    /\ Statement
    /\ symbols' = IF scope = <<>>
                  THEN Append(symbols, Symbol(Append(Module, name), "CONSTANT", Module))
                  ELSE symbols
    /\ bound' = Append(bound, Bind(name, Append(Module, name), "def"))
    /\ UNCHANGED <<scope, bindings, exported, edges, meant>>

\* visit_Import: import a.b binds a, to the name a.b.
VisitImport(target, alias) ==
    LET binding == IF alias = None THEN target[1] ELSE alias IN
    /\ Statement
    /\ bindings' = Rebound(binding, target)
    /\ edges' = Append(edges, Edge("IMPORTS", Module, target))
    /\ meant' = Append(meant, target)
    /\ bound' = Append(bound, IF alias = None
                              THEN Bind(binding, <<binding>>,
                                        IF Len(target) = 1 THEN "import" ELSE "package")
                              ELSE Bind(binding, target, "import"))
    /\ UNCHANGED <<scope, exported, symbols>>

VisitImportFrom(level, from, name, alias) ==
    LET binding == IF alias = None THEN name ELSE alias
        target  == Append(AbsoluteModule(level, from), name)
        what    == Append(Imported(level, from), name)
    IN
    /\ Statement
    /\ bindings' = Rebound(binding, target)
    /\ edges' = Append(edges, Edge("IMPORTS", Module, target))
    /\ meant' = Append(meant, IF InPackage(level, from) THEN what ELSE None)
    /\ bound' = Append(bound, Bind(binding, what,
                                   IF InPackage(level, from) THEN "import" ELSE "def"))
    /\ UNCHANGED <<scope, exported, symbols>>

\* visit_Call of importlib.import_module on anything but a literal.
VisitDynamicImport ==
    /\ Statement
    /\ edges' = Append(edges, DynamicEdge)
    /\ meant' = Append(meant, None)
    /\ UNCHANGED <<scope, bindings, exported, symbols, bound>>

\* An assignment of a list of names to __all__ in the module's body.
VisitAll(names) ==
    /\ Statement
    /\ scope = <<>>
    /\ exported' = exported \o names
    /\ UNCHANGED <<scope, bindings, symbols, edges, meant, bound>>

\* The end of the module: _extract_exports, with the bindings of all of it.
EndOfFile ==
    /\ stage = "visiting"
    /\ scope = <<>>
    /\ edges' = edges \o [i \in DOMAIN exported |->
                    Edge("EXPOSES", Module,
                         Binding(<<exported[i]>>, Append(Module, exported[i])))]
    /\ meant' = meant \o [i \in DOMAIN exported |-> Denotes(<<exported[i]>>)]
    /\ file' = file + 1
    /\ stage' = "parsing"
    /\ UNCHANGED <<module, symbols, diagnostics, statements>>

-----------------------------------------------------------------------------
SymbolNames == {symbols[i].name : i \in DOMAIN symbols}

\* The first parts of the module names of the request, parsed or not; "" has none.
RepositoryRoots ==
    {ModuleName(Files[i])[1] : i \in {j \in DOMAIN Files : Files[j] # Root}}

\* Bug: a target that is not found is dropped and not recorded.
ResolvedWithoutName(e) ==
    IF e.unresolved # None THEN e
    ELSE IF e.target \in SymbolNames THEN [e EXCEPT !.status = "RESOLVED"]
    ELSE [e EXCEPT !.target = None, !.status = "UNRESOLVED", !.reason = "external_dependency"]

\* _resolve_relationship
Resolved(e) ==
    IF e.unresolved # None THEN e
    ELSE IF e.target \in SymbolNames THEN [e EXCEPT !.status = "RESOLVED"]
    ELSE [e EXCEPT !.target = None, !.unresolved = e.target, !.status = "UNRESOLVED",
                   !.reason = IF e.target # <<>> /\ e.target[1] \in RepositoryRoots
                              THEN "local_target_not_extracted" ELSE "external_dependency"]

\* Every document was read.
Resolve ==
    /\ stage = "parsing"
    /\ file \notin DOMAIN Files
    /\ edges' = [i \in DOMAIN edges |-> Resolved(edges[i])]
    /\ stage' = "resolved"
    /\ UNCHANGED <<file, module, symbols, meant, diagnostics, statements>>

NamesDiffer == \A i, j \in DOMAIN symbols : symbols[i].name = symbols[j].name => i = j

\* symbol_ids has one id for a name: of two symbols of one name the second
\* insert repeats a primary key, and the flush raises IntegrityError.
PersistSymbols ==
    /\ stage = "resolved"
    /\ stage' = IF NamesDiffer THEN "symbols" ELSE "refused"
    /\ UNCHANGED <<file, module, symbols, edges, meant, diagnostics, statements>>

\* The two ValueErrors of the second loop.
Storable(e) ==
    /\ e.source \in SymbolNames
    /\ e.target \in SymbolNames \/ e.unresolved # None \/ e.target # None

\* The row: a target without an id is kept by name.
Row(e) ==
    IF e.target \notin SymbolNames /\ e.unresolved = None
    THEN [e EXCEPT !.target = None, !.unresolved = e.target] ELSE e

\* The check constraints of the relationships table, tested by the last flush.
Accepted(e) ==
    /\ (e.target = None) # (e.unresolved = None)
    /\ e.status = "UNRESOLVED" => e.reason # None

PersistRelationships ==
    /\ stage = "symbols"
    /\ stage' = IF \E i \in DOMAIN edges : ~Storable(edges[i]) THEN "ValueError"
                ELSE IF \E i \in DOMAIN edges : ~Accepted(Row(edges[i])) THEN "IntegrityError"
                ELSE "stored"
    /\ edges' = [i \in DOMAIN edges |-> Row(edges[i])]
    /\ UNCHANGED <<file, module, symbols, meant, diagnostics, statements>>

EvidenceInit ==
    /\ stage = "parsing" /\ file = 1
    /\ routers = <<>> /\ scope = <<>> /\ bindings = <<>> /\ exported = <<>> /\ bound = <<>>
    /\ symbols = <<>> /\ edges = <<>> /\ meant = <<>>
    /\ diagnostics = {} /\ statements = 0

Visit ==
    \/ \E n \in Classes, bases \in Bases : VisitClassDef(n, bases)
    \/ \E n \in Classes, list \in Decorators : VisitFunctionDef(n, list)
    \/ Leave
    \/ \E n \in Constants : VisitAssign(n)
    \/ \E i \in Imports : VisitImport(i[1], i[2])
    \/ \E i \in FromImports : VisitImportFrom(i[1], i[2], i[3], i[4])
    \/ VisitDynamicImport
    \/ \E names \in ExportLists : VisitAll(names)

EvidenceNext ==
    \/ Parse \/ SyntaxError \/ Visit \/ EndOfFile
    \/ Resolve \/ PersistSymbols \/ PersistRelationships

EvidenceSpec == EvidenceInit /\ [][EvidenceNext]_vars

-----------------------------------------------------------------------------
\* Every symbol but a module hangs under one of its file that was extracted
\* before it, the innermost block around it, and a function is a METHOD exactly
\* when that block is a class.  (The foreign key of parent_symbol_id is checked
\* row by row, and functions of a module are answered by their parent.)
SymbolsNest ==
    \A i \in DOMAIN symbols : symbols[i].kind # "MODULE" =>
        LET above == SelectLastInSeq(SubSeq(symbols, 1, i - 1),
                         LAMBDA s : s.name = symbols[i].parent /\ s.file = symbols[i].file)
        IN  /\ above # 0
            /\ symbols[i].kind \in {"FUNCTION", "METHOD"} =>
                   (symbols[i].kind = "METHOD" <=> symbols[above].kind = "CLASS")

\* The rows of the relationships are whole, so that storing them never fails the
\* scan by an error of _persist_extraction_result or a constraint of the table:
\* their source is a symbol of the scan, a target is one exactly when the edge is
\* RESOLVED, and an unresolved name has a reason and names no symbol of the scan.
EdgesAreWhole ==
    /\ stage \notin {"ValueError", "IntegrityError"}
    /\ stage = "stored" =>
         \A i \in DOMAIN edges :
            LET e == edges[i] IN
            /\ e.source \in SymbolNames
            /\ e.target # None <=> e.status = "RESOLVED"
            /\ e.target # None => e.target \in SymbolNames
            /\ e.unresolved # None => e.reason # None
            /\ e.kind # "REFERENCES" => e.unresolved \notin SymbolNames

\* Where a name has one meaning the edge is right: of an import statement, of a
\* base or an export whose name one import of the file binds, the edge is RESOLVED
\* to what it names if that was extracted, from whichever file and in whatever
\* order, and UNRESOLVED by that name if not.
ClearNamesAreExact ==
    stage = "resolved" =>
        \A i \in DOMAIN edges :
            LET e == edges[i]  name == meant[i] IN
            name # None =>
                IF name \in SymbolNames
                THEN e.status = "RESOLVED" /\ e.target = name
                ELSE e.status = "UNRESOLVED" /\ e.unresolved = name

\* The documented key of a symbol is (file, name, type, line): two definitions
\* of one name on two lines are two symbols of the scan.
RepeatedNamesAreStored == stage # "refused"
=============================================================================
