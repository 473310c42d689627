------------------------ MODULE PythonEvidenceProofs ------------------------
(***************************************************************************)
(* Theorems about PythonEvidence: for any files and any statements in      *)
(* them, the rows of the relationships are whole, so that storing what was *)
(* extracted fails for no edge; every symbol hangs under one extracted     *)
(* before it, of the kind that its place in the source asks for; and a     *)
(* name that has one meaning is resolved to that.                          *)
(***************************************************************************)
EXTENDS PythonEvidence, SequenceTheorems, TLAPS

SymbolKinds == {"MODULE", "CLASS", "FUNCTION", "METHOD", "CONSTANT", "ROUTE"}

SymbolType ==
    [name : Names, kind : SymbolKinds, parent : Names \cup {None}, file : Nat]

EdgeType ==
    [kind       : {"INHERITS", "IMPORTS", "REFERENCES", "EXPOSES"},
     source     : Names,
     target     : Names \cup {None},
     unresolved : Names \cup {None, DynamicImport},
     status     : {"RESOLVED", "PARTIALLY_RESOLVED", "UNRESOLVED"},
     reason     : Reasons \cup {None}]

ScopeType == [name : Names, kind : SymbolKinds]

NamesOf(list) == {list[i].name : i \in DOMAIN list}

\* An edge before its target is looked up: only a dynamic one has no target.
Pending(e, names) ==
    /\ e.source \in names
    /\ \/ e.target \in Names /\ e.unresolved = None
       \/ /\ e.kind = "REFERENCES" /\ e.target = None /\ e.unresolved # None
          /\ e.status = "UNRESOLVED" /\ e.reason # None

\* An edge whose target was looked up.
Whole(e, names) ==
    /\ e.source \in names
    /\ e.target # None <=> e.status = "RESOLVED"
    /\ e.target # None => e.target \in names
    /\ e.target = None <=> e.unresolved # None
    /\ e.unresolved # None => e.reason # None
    /\ e.kind # "REFERENCES" => e.unresolved \notin names

\* The visitor of the file: its module is a symbol, and its tables hold names.
VisitorInv ==
    /\ file \in DOMAIN Files
    /\ Module \in SymbolNames
    /\ \A r \in DOMAIN routers : routers[r] \in Names
    /\ scope \in Seq(ScopeType)
    /\ \A b \in DOMAIN bindings : bindings[b] \in Names
    /\ exported \in Seq(STRING)

Collected ==
    /\ symbols \in Seq(SymbolType)
    /\ edges \in Seq(EdgeType)

EvidenceInv ==
    /\ Collected
    /\ file \in Nat
    /\ stage \in {"parsing", "visiting", "resolved", "symbols", "refused", "stored"}
    /\ stage = "visiting" => VisitorInv
    /\ stage \in {"parsing", "visiting"} =>
           \A i \in DOMAIN edges : Pending(edges[i], SymbolNames)
    /\ stage \notin {"parsing", "visiting"} =>
           \A i \in DOMAIN edges : Whole(edges[i], SymbolNames)

-----------------------------------------------------------------------------
(* Sequences.                                                              *)

LEMMA FrontIsSeq ==
    ASSUME NEW S, NEW s \in Seq(S), s # <<>>
    PROVE  Front(s) \in Seq(S)
<1>1. Len(s) \in Nat /\ \A i \in 1 .. Len(s) - 1 : s[i] \in S
  BY LenProperties, ElementOfSeq
<1> QED BY <1>1, SubSeqProperties DEF Front

LEMMA PrefixIsSeq ==
    ASSUME NEW S, NEW s \in Seq(S), NEW n \in Nat, n <= Len(s)
    PROVE  SubSeq(s, 1, n) \in Seq(S)
<1>1. \A i \in 1 .. n : s[i] \in S
  BY LenProperties, ElementOfSeq
<1> QED BY <1>1, SubSeqProperties

\* Extending the symbols keeps their names and adds the new ones.
LEMMA MoreNames ==
    ASSUME NEW s \in Seq(SymbolType), NEW t \in Seq(SymbolType)
    PROVE  /\ s \o t \in Seq(SymbolType)
           /\ NamesOf(s \o t) = NamesOf(s) \cup NamesOf(t)
<1>1. s \o t \in Seq(SymbolType) /\ Len(s \o t) = Len(s) + Len(t)
  BY ConcatProperties
<1>2. DOMAIN s = 1 .. Len(s) /\ DOMAIN t = 1 .. Len(t) /\ DOMAIN (s \o t) = 1 .. Len(s) + Len(t)
      /\ Len(s) \in Nat /\ Len(t) \in Nat
  BY <1>1, LenProperties
<1>3. \A i \in 1 .. Len(s) + Len(t) : (s \o t)[i] = IF i <= Len(s) THEN s[i] ELSE t[i - Len(s)]
  BY ConcatProperties
<1>4. \A i \in 1 .. Len(s) : (s \o t)[i] = s[i]
  BY <1>2, <1>3
<1>5. \A i \in 1 .. Len(t) : i + Len(s) \in 1 .. Len(s) + Len(t) /\ (s \o t)[i + Len(s)] = t[i]
  BY <1>2, <1>3
<1>6. NamesOf(s \o t) \subseteq NamesOf(s) \cup NamesOf(t)
  <2> SUFFICES ASSUME NEW i \in 1 .. Len(s) + Len(t)
               PROVE  (s \o t)[i].name \in NamesOf(s) \cup NamesOf(t)
    BY <1>2 DEF NamesOf
  <2>1. CASE i <= Len(s)
    BY <2>1, <1>2, <1>3 DEF NamesOf
  <2>2. CASE ~(i <= Len(s))
    <3>1. i - Len(s) \in 1 .. Len(t)
      BY <2>2, <1>2
    <3> QED BY <3>1, <2>2, <1>2, <1>3 DEF NamesOf
  <2> QED BY <2>1, <2>2
<1>7. NamesOf(s) \subseteq NamesOf(s \o t)
  <2> SUFFICES ASSUME NEW i \in 1 .. Len(s) PROVE s[i].name \in NamesOf(s \o t)
    BY <1>2 DEF NamesOf
  <2>1. i \in DOMAIN (s \o t) BY <1>2
  <2> QED BY <2>1, <1>4 DEF NamesOf
<1>8. NamesOf(t) \subseteq NamesOf(s \o t)
  <2> SUFFICES ASSUME NEW i \in 1 .. Len(t) PROVE t[i].name \in NamesOf(s \o t)
    BY <1>2 DEF NamesOf
  <2>1. i + Len(s) \in DOMAIN (s \o t) BY <1>2, <1>5
  <2> QED BY <2>1, <1>5 DEF NamesOf
<1> QED BY <1>1, <1>6, <1>7, <1>8

LEMMA OneMoreName ==
    ASSUME NEW s \in Seq(SymbolType), NEW x \in SymbolType
    PROVE  /\ Append(s, x) \in Seq(SymbolType)
           /\ NamesOf(Append(s, x)) = NamesOf(s) \cup {x.name}
<1>1. <<x>> \in Seq(SymbolType) /\ NamesOf(<<x>>) = {x.name}
  BY DEF NamesOf
<1>2. Append(s, x) = s \o <<x>>
  BY AppendIsConcat
<1> QED BY <1>1, <1>2, MoreNames

\* Extending the edges by pending ones, while symbols are added.
LEMMA MoreEdges ==
    ASSUME NEW s \in Seq(EdgeType), NEW t \in Seq(EdgeType), NEW names, NEW more,
           names \subseteq more,
           \A i \in DOMAIN s : Pending(s[i], names),
           \A i \in DOMAIN t : Pending(t[i], more)
    PROVE  /\ s \o t \in Seq(EdgeType)
           /\ \A i \in DOMAIN (s \o t) : Pending((s \o t)[i], more)
<1>1. s \o t \in Seq(EdgeType) /\ Len(s \o t) = Len(s) + Len(t)
  BY ConcatProperties
<1>2. DOMAIN s = 1 .. Len(s) /\ DOMAIN t = 1 .. Len(t) /\ DOMAIN (s \o t) = 1 .. Len(s) + Len(t)
      /\ Len(s) \in Nat /\ Len(t) \in Nat
  BY <1>1, LenProperties
<1>3. \A i \in 1 .. Len(s) + Len(t) : (s \o t)[i] = IF i <= Len(s) THEN s[i] ELSE t[i - Len(s)]
  BY ConcatProperties
<1>4. ASSUME NEW i \in DOMAIN (s \o t) PROVE Pending((s \o t)[i], more)
  <2>1. CASE i <= Len(s)
    <3>1. i \in DOMAIN s /\ (s \o t)[i] = s[i]
      BY <2>1, <1>2, <1>3
    <3> QED BY <3>1 DEF Pending
  <2>2. CASE ~(i <= Len(s))
    <3>1. i - Len(s) \in DOMAIN t /\ (s \o t)[i] = t[i - Len(s)]
      BY <2>2, <1>2, <1>3
    <3> QED BY <3>1
  <2> QED BY <2>1, <2>2
<1> QED BY <1>1, <1>4

LEMMA OneMoreEdge ==
    ASSUME NEW s \in Seq(EdgeType), NEW x \in EdgeType, NEW names,
           \A i \in DOMAIN s : Pending(s[i], names),
           Pending(x, names)
    PROVE  /\ Append(s, x) \in Seq(EdgeType)
           /\ \A i \in DOMAIN Append(s, x) : Pending(Append(s, x)[i], names)
<1>1. <<x>> \in Seq(EdgeType) /\ \A i \in DOMAIN <<x>> : Pending(<<x>>[i], names)
  OBVIOUS
<1>2. Append(s, x) = s \o <<x>>
  BY AppendIsConcat
<1> QED BY <1>1, <1>2, MoreEdges

-----------------------------------------------------------------------------
(* Names: what the visitor puts together is a dotted name.                 *)

LEMMA OneIsSeq == ASSUME NEW S, NEW x \in S PROVE <<x>> \in Seq(S) /\ <<x>> # <<>>
OBVIOUS

LEMMA OnePart == ASSUME NEW part \in STRING PROVE <<part>> \in Names \ {<<>>}
BY OneIsSeq DEF Names

LEMMA PathIsName ==
    ASSUME file \in DOMAIN Files
    PROVE  Files[file] \in Names /\ Files[file] # <<>>
<1>1. Files \in Seq(Names \ {<<>>})
  BY EvidenceConstants
<1>2. file \in 1 .. Len(Files)
  BY <1>1, LenProperties
<1>3. Files[file] \in Names \ {<<>>}
  BY <1>1, <1>2, ElementOfSeq
<1> QED BY <1>3

LEMMA ModuleIsName ==
    ASSUME file \in DOMAIN Files
    PROVE  Module \in Names
<1>1. Files[file] \in Names /\ Files[file] # <<>>
  BY PathIsName
<1>2. <<"">> \in Names /\ Front(Files[file]) \in Names
  <2>1. "" \in STRING
    BY RootIsUnnamed
  <2>2. <<"">> \in Names
    BY <2>1, OnePart
  <2>3. Front(Files[file]) \in Names
    BY <1>1, FrontIsSeq DEF Names
  <2> QED BY <2>2, <2>3
<1>3. Module \in {<<"">>, Front(Files[file]), Files[file]}
  BY DEF Module, ModuleName
<1> QED BY <1>1, <1>2, <1>3

LEMMA OneMorePart ==
    ASSUME NEW name \in Names, NEW part \in STRING
    PROVE  Append(name, part) \in Names
BY AppendProperties DEF Names

LEMMA JoinedNames ==
    ASSUME NEW a \in Names, NEW b \in Names
    PROVE  a \o b \in Names
BY ConcatProperties DEF Names

LEMMA CurrentIsName ==
    ASSUME VisitorInv
    PROVE  Current \in Names
<1>1. CASE scope = <<>>
  BY <1>1, ModuleIsName DEF Current, VisitorInv
<1>2. CASE scope # <<>>
  <2>1. Len(scope) \in 1 .. Len(scope)
    BY <1>2, EmptySeq, LenProperties DEF VisitorInv
  <2>2. Last(scope) \in ScopeType
    BY <2>1, ElementOfSeq DEF Last, VisitorInv
  <2> QED BY <1>2, <2>2 DEF Current, ScopeType
<1> QED BY <1>1, <1>2

LEMMA AbsoluteModuleIsName ==
    ASSUME file \in DOMAIN Files, NEW level \in Nat, NEW from \in Names
    PROVE  AbsoluteModule(level, from) \in Names
<1>1. Module \in Names
  BY ModuleIsName
<1>2. Package \in Names
  <2>1. Len(Module) > 1 => Front(Module) \in Names
    BY <1>1, FrontIsSeq, EmptySeq DEF Names
  <2>2. Files[file] \in Names /\ Files[file] # <<>>
    BY PathIsName
  <2>3. Front(Files[file]) \in Names
    BY <2>2, FrontIsSeq DEF Names
  <2> QED BY <1>1, <2>1, <2>3 DEF Package
<1>3. CASE level = 0
  BY <1>3 DEF AbsoluteModule
<1>4. CASE level # 0
  <2> DEFINE keep == IF Len(Package) > level - 1 THEN Len(Package) - (level - 1) ELSE 0
  <2>1. Len(Package) \in Nat
    BY <1>2, LenProperties DEF Names
  <2>2. keep \in Nat /\ keep <= Len(Package)
    BY <2>1, <1>4
  <2>3. SubSeq(Package, 1, keep) \in Names
    BY <2>2, <1>2, PrefixIsSeq DEF Names
  <2>4. AbsoluteModule(level, from) = SubSeq(Package, 1, keep) \o from
    BY <1>4 DEF AbsoluteModule
  <2> QED BY <2>3, <2>4, JoinedNames
<1> QED BY <1>3, <1>4

LEMMA BindingIsName ==
    ASSUME VisitorInv, NEW expression, NEW default \in Names
    PROVE  Binding(expression, default) \in Names
BY DEF Binding, VisitorInv

\* Every name of a symbol is a name.
LEMMA SymbolNamesAreNames ==
    ASSUME symbols \in Seq(SymbolType)
    PROVE  SymbolNames \subseteq Names
<1> SUFFICES ASSUME NEW i \in DOMAIN symbols PROVE symbols[i].name \in Names
  BY DEF SymbolNames
<1>1. symbols[i] \in SymbolType
  BY LenProperties, ElementOfSeq
<1> QED BY <1>1 DEF SymbolType

LEMMA NamesOfSymbols ==
    SymbolNames = NamesOf(symbols) /\ SymbolNames' = NamesOf(symbols')
BY DEF SymbolNames, NamesOf

LEMMA NewEdge ==
    ASSUME NEW kind \in {"INHERITS", "IMPORTS", "EXPOSES"}, NEW target \in Names,
           NEW names, NEW source \in names, source \in Names
    PROVE  /\ Edge(kind, source, target) \in EdgeType
           /\ Pending(Edge(kind, source, target), names)
BY DEF Edge, EdgeType, Pending

-----------------------------------------------------------------------------
(* The visitor, one operation after the other.                             *)

\* What an operation of the visitor has to keep.
Kept ==
    /\ Collected'
    /\ VisitorInv'
    /\ \A i \in DOMAIN edges' : Pending(edges'[i], SymbolNames')

Visiting ==
    /\ Collected
    /\ VisitorInv
    /\ \A i \in DOMAIN edges : Pending(edges[i], SymbolNames)

\* The module stays the same symbol while the symbols grow.
LEMMA ModuleKept ==
    ASSUME Module \in SymbolNames, file' = file, SymbolNames \subseteq SymbolNames'
    PROVE  Module' \in SymbolNames'
BY DEF Module

LEMMA VisitClassDefKeeps ==
    ASSUME Visiting, NEW name \in Classes, NEW bases \in Bases, VisitClassDef(name, bases)
    PROVE  Kept
<1> DEFINE qualified == Append(Current, name)
           list == [i \in DOMAIN bases |->
                        Edge("INHERITS", qualified, Binding(bases[i], bases[i]))]
<1>1. qualified \in Names /\ Current \in Names
  BY CurrentIsName, OneMorePart, EvidenceConstants DEF Visiting
<1>2. symbols' = Append(symbols, Symbol(qualified, "CLASS", Current))
      /\ edges' = edges \o list
      /\ scope' = Append(scope, [name |-> qualified, kind |-> "CLASS"])
      /\ UNCHANGED <<file, routers, bindings, exported>>
  BY DEF VisitClassDef, Statement, Open
<1>3. Symbol(qualified, "CLASS", Current) \in SymbolType
      /\ Symbol(qualified, "CLASS", Current).name = qualified
  <2>1. file \in Nat
    BY EvidenceConstants, LenProperties DEF Visiting, VisitorInv
  <2> QED BY <2>1, <1>1 DEF Symbol, SymbolType, SymbolKinds
<1>4. symbols' \in Seq(SymbolType) /\ SymbolNames' = SymbolNames \cup {qualified}
  BY <1>2, <1>3, OneMoreName, NamesOfSymbols DEF Visiting, Collected
<1>5. bases \in Seq(Names)
  BY EvidenceConstants
<1>6. \A i \in DOMAIN bases : list[i] \in EdgeType /\ Pending(list[i], SymbolNames')
  <2> SUFFICES ASSUME NEW i \in DOMAIN bases
               PROVE  list[i] \in EdgeType /\ Pending(list[i], SymbolNames')
    OBVIOUS
  <2>1. bases[i] \in Names
    BY <1>5, LenProperties, ElementOfSeq
  <2>2. Binding(bases[i], bases[i]) \in Names
    BY <2>1, BindingIsName DEF Visiting
  <2>3. qualified \in SymbolNames'
    BY <1>4
  <2> HIDE DEF qualified
  <2> QED BY <2>2, <2>3, <1>1, NewEdge
<1>7. list \in Seq(EdgeType) /\ DOMAIN list = DOMAIN bases
  BY <1>5, <1>6, LenProperties, IsASeq
<1>8. edges' \in Seq(EdgeType) /\ \A i \in DOMAIN edges' : Pending(edges'[i], SymbolNames')
  BY <1>2, <1>4, <1>6, <1>7, MoreEdges DEF Visiting, Collected
<1>9. scope' \in Seq(ScopeType)
  BY <1>1, <1>2, AppendProperties DEF Visiting, VisitorInv, ScopeType, SymbolKinds
<1>10. Module' \in SymbolNames'
  BY <1>2, <1>4, ModuleKept DEF Visiting, VisitorInv
<1> QED BY <1>2, <1>4, <1>8, <1>9, <1>10 DEF Kept, Collected, VisitorInv, Visiting

LEMMA VisitFunctionDefKeeps ==
    ASSUME Visiting, NEW name \in Classes, NEW list \in Decorators,
           VisitFunctionDef(name, list)
    PROVE  Kept
<1> DEFINE qualified == Append(Current, name)
           kind == IF InClass THEN "METHOD" ELSE "FUNCTION"
           routes == [i \in DOMAIN list |-> Symbol(RouteName(list[i]), "ROUTE", Module)]
<1>1. qualified \in Names /\ Current \in Names /\ Module \in Names
  BY CurrentIsName, ModuleIsName, OneMorePart, EvidenceConstants DEF Visiting, VisitorInv
<1>2. symbols' = Append(symbols, Symbol(qualified, kind, Current)) \o routes
      /\ edges' = edges
      /\ scope' = Append(scope, [name |-> qualified, kind |-> kind])
      /\ UNCHANGED <<file, routers, bindings, exported>>
      /\ \A i \in DOMAIN list : list[i][1] \in DOMAIN routers
  BY DEF VisitFunctionDef, Statement, Open
<1>3. file \in Nat
  BY EvidenceConstants, LenProperties DEF Visiting, VisitorInv
<1>4. Symbol(qualified, kind, Current) \in SymbolType
  BY <1>1, <1>3 DEF Symbol, SymbolType, SymbolKinds
<1>5. list \in Seq(STRING \X STRING \X Names)
  BY EvidenceConstants
<1>6. \A i \in DOMAIN list : routes[i] \in SymbolType
  <2> SUFFICES ASSUME NEW i \in DOMAIN list PROVE routes[i] \in SymbolType
    OBVIOUS
  <2>1. list[i] \in STRING \X STRING \X Names
    BY <1>5, LenProperties, ElementOfSeq
  <2>2. <<list[i][2]>> \in Names /\ list[i][3] \in Names /\ routers[list[i][1]] \in Names
    BY <2>1, <1>2 DEF Names, Visiting, VisitorInv
  <2>3. RouteName(list[i]) \in Names
    BY <2>2, <1>1, JoinedNames DEF RouteName
  <2> QED BY <2>3, <1>1, <1>3 DEF Symbol, SymbolType, SymbolKinds
<1>7. routes \in Seq(SymbolType)
  <2>1. Len(list) \in Nat /\ DOMAIN list = 1 .. Len(list)
    BY <1>5, LenProperties
  <2>2. routes = [i \in 1 .. Len(list) |-> routes[i]]
    BY <2>1
  <2>3. \A i \in 1 .. Len(list) : routes[i] \in SymbolType
    BY <1>6, <2>1
  <2> HIDE DEF routes
  <2> QED BY <2>1, <2>2, <2>3, IsASeq
<1>8. Append(symbols, Symbol(qualified, kind, Current)) \in Seq(SymbolType)
      /\ SymbolNames \subseteq NamesOf(Append(symbols, Symbol(qualified, kind, Current)))
  BY <1>4, OneMoreName, NamesOfSymbols DEF Visiting, Collected
<1>9. symbols' \in Seq(SymbolType) /\ SymbolNames \subseteq SymbolNames'
  <2> DEFINE one == Append(symbols, Symbol(qualified, kind, Current))
  <2>1. symbols' = one \o routes
    BY <1>2
  <2>2. one \in Seq(SymbolType) /\ SymbolNames \subseteq NamesOf(one)
    BY <1>8
  <2> HIDE DEF one, routes, qualified, kind
  <2>3. one \o routes \in Seq(SymbolType) /\ NamesOf(one) \subseteq NamesOf(one \o routes)
    BY <1>7, <2>2, MoreNames
  <2> QED BY <2>1, <2>2, <2>3, NamesOfSymbols
<1>10. \A i \in DOMAIN edges' : Pending(edges'[i], SymbolNames')
  BY <1>2, <1>9 DEF Pending, Visiting
<1>11. scope' \in Seq(ScopeType)
  BY <1>1, <1>2, AppendProperties DEF Visiting, VisitorInv, ScopeType, SymbolKinds
<1>12. Module' \in SymbolNames'
  BY <1>2, <1>9, ModuleKept DEF Visiting, VisitorInv
<1> QED BY <1>2, <1>9, <1>10, <1>11, <1>12 DEF Kept, Collected, VisitorInv, Visiting

LEMMA LeaveKeeps ==
    ASSUME Visiting, Leave
    PROVE  Kept
<1>1. scope' = Front(scope) /\ UNCHANGED <<file, routers, bindings, exported, symbols, edges>>
  BY DEF Leave
<1>2. scope' \in Seq(ScopeType)
  BY <1>1, FrontIsSeq DEF Leave, Visiting, VisitorInv
<1>3. SymbolNames' = SymbolNames /\ Module' = Module
  BY <1>1 DEF SymbolNames, Module
<1> QED BY <1>1, <1>2, <1>3 DEF Kept, Collected, VisitorInv, Visiting

LEMMA VisitAssignKeeps ==
    ASSUME Visiting, NEW name \in Constants, VisitAssign(name)
    PROVE  Kept
<1> DEFINE constant == Symbol(Append(Module, name), "CONSTANT", Module)
<1>1. symbols' = (IF scope = <<>> THEN Append(symbols, constant) ELSE symbols)
      /\ UNCHANGED <<file, routers, scope, bindings, exported, edges>>
  BY DEF VisitAssign, Statement
<1>2. Module \in Names /\ Append(Module, name) \in Names
  BY ModuleIsName, OneMorePart, EvidenceConstants DEF Visiting, VisitorInv
<1>3. file \in Nat
  BY EvidenceConstants, LenProperties DEF Visiting, VisitorInv
<1>4. constant \in SymbolType
  BY <1>2, <1>3 DEF Symbol, SymbolType, SymbolKinds
<1>5. symbols' \in Seq(SymbolType) /\ SymbolNames \subseteq SymbolNames'
  BY <1>1, <1>4, OneMoreName, NamesOfSymbols DEF Visiting, Collected
<1>6. \A i \in DOMAIN edges' : Pending(edges'[i], SymbolNames')
  BY <1>1, <1>5 DEF Pending, Visiting
<1>7. Module' \in SymbolNames'
  BY <1>1, <1>5, ModuleKept DEF Visiting, VisitorInv
<1> QED BY <1>1, <1>5, <1>6, <1>7 DEF Kept, Collected, VisitorInv, Visiting

\* What the two import statements have in common: one edge of the module.
LEMMA ImportKeeps ==
    ASSUME Visiting, NEW binding, NEW target \in Names,
           bindings' = Rebound(binding, target),
           edges' = Append(edges, Edge("IMPORTS", Module, target)),
           UNCHANGED <<file, routers, scope, exported, symbols>>
    PROVE  Kept
<1>1. Module \in Names /\ Module \in SymbolNames
  BY ModuleIsName DEF Visiting, VisitorInv
<1>2. SymbolNames' = SymbolNames /\ Module' = Module
  BY DEF SymbolNames, Module
<1>3. Edge("IMPORTS", Module, target) \in EdgeType
      /\ Pending(Edge("IMPORTS", Module, target), SymbolNames)
  BY <1>1, NewEdge
<1>4. edges' \in Seq(EdgeType) /\ \A i \in DOMAIN edges' : Pending(edges'[i], SymbolNames)
  BY <1>3, OneMoreEdge DEF Visiting, Collected
<1>5. \A b \in DOMAIN bindings' : bindings'[b] \in Names
  BY DEF Rebound, Visiting, VisitorInv
<1> QED BY <1>1, <1>2, <1>4, <1>5 DEF Kept, Collected, VisitorInv, Visiting

LEMMA VisitImportKeeps ==
    ASSUME Visiting, NEW i \in Imports, VisitImport(i[1], i[2])
    PROVE  Kept
<1>1. i[1] \in Names
  BY EvidenceConstants
<1>2. PICK binding : bindings' = Rebound(binding, i[1])
  BY DEF VisitImport
<1>3. edges' = Append(edges, Edge("IMPORTS", Module, i[1]))
      /\ UNCHANGED <<file, routers, scope, exported, symbols>>
  BY DEF VisitImport, Statement
<1> QED BY <1>1, <1>2, <1>3, ImportKeeps

LEMMA VisitImportFromKeeps ==
    ASSUME Visiting, NEW i \in FromImports, VisitImportFrom(i[1], i[2], i[3], i[4])
    PROVE  Kept
<1> DEFINE target == Append(AbsoluteModule(i[1], i[2]), i[3])
<1>1. i[1] \in Nat /\ i[2] \in Names /\ i[3] \in STRING
  BY EvidenceConstants
<1>2. target \in Names
  BY <1>1, AbsoluteModuleIsName, OneMorePart DEF Visiting, VisitorInv
<1>3. PICK binding : bindings' = Rebound(binding, target)
  BY DEF VisitImportFrom
<1>4. edges' = Append(edges, Edge("IMPORTS", Module, target))
      /\ UNCHANGED <<file, routers, scope, exported, symbols>>
  BY DEF VisitImportFrom, Statement
<1> QED BY <1>2, <1>3, <1>4, ImportKeeps

LEMMA VisitDynamicImportKeeps ==
    ASSUME Visiting, VisitDynamicImport
    PROVE  Kept
<1>1. edges' = Append(edges, DynamicEdge)
      /\ UNCHANGED <<file, routers, scope, bindings, exported, symbols>>
  BY DEF VisitDynamicImport, Statement
<1>2. Module \in Names /\ Module \in SymbolNames
  BY ModuleIsName DEF Visiting, VisitorInv
<1>3. SymbolNames' = SymbolNames /\ Module' = Module
  BY <1>1 DEF SymbolNames, Module
<1>5. "dynamic_import_target" \in Reasons
      /\ DynamicImport # None /\ "dynamic_import_target" # None
  BY EvidenceConstants DEF Reasons
<1>6. DynamicEdge \in EdgeType /\ Pending(DynamicEdge, SymbolNames)
  BY <1>2, <1>5 DEF DynamicEdge, EdgeType, Pending
<1>7. edges' \in Seq(EdgeType) /\ \A i \in DOMAIN edges' : Pending(edges'[i], SymbolNames)
  BY <1>1, <1>6, OneMoreEdge DEF Visiting, Collected
<1> QED BY <1>1, <1>2, <1>3, <1>7 DEF Kept, Collected, VisitorInv, Visiting

LEMMA VisitAllKeeps ==
    ASSUME Visiting, NEW names \in ExportLists, VisitAll(names)
    PROVE  Kept
<1>1. exported' = exported \o names
      /\ UNCHANGED <<file, routers, scope, bindings, symbols, edges>>
  BY DEF VisitAll, Statement
<1>2. exported' \in Seq(STRING)
  BY <1>1, EvidenceConstants, ConcatProperties DEF Visiting, VisitorInv
<1>3. SymbolNames' = SymbolNames /\ Module' = Module
  BY <1>1 DEF SymbolNames, Module
<1> QED BY <1>1, <1>2, <1>3 DEF Kept, Collected, VisitorInv, Visiting

\* Every statement keeps what the visitor relies on.
LEMMA VisitKeeps ==
    ASSUME Visiting, Visit
    PROVE  Kept
BY VisitClassDefKeeps, VisitFunctionDefKeeps, LeaveKeeps, VisitAssignKeeps,
   VisitImportKeeps, VisitImportFromKeeps, VisitDynamicImportKeeps, VisitAllKeeps DEF Visit

\* The exports of a module are pending edges too.
LEMMA EndOfFileKeeps ==
    ASSUME Visiting, EndOfFile
    PROVE  /\ Collected'
           /\ \A i \in DOMAIN edges' : Pending(edges'[i], SymbolNames')
<1> DEFINE list == [i \in DOMAIN exported |->
                        Edge("EXPOSES", Module,
                             Binding(<<exported[i]>>, Append(Module, exported[i])))]
<1>1. edges' = edges \o list /\ symbols' = symbols
  BY DEF EndOfFile
<1>2. Module \in Names /\ Module \in SymbolNames /\ exported \in Seq(STRING)
  BY ModuleIsName DEF Visiting, VisitorInv
<1>3. \A i \in DOMAIN exported : list[i] \in EdgeType /\ Pending(list[i], SymbolNames)
  <2> SUFFICES ASSUME NEW i \in DOMAIN exported
               PROVE  list[i] \in EdgeType /\ Pending(list[i], SymbolNames)
    OBVIOUS
  <2>1. exported[i] \in STRING
    BY <1>2, LenProperties, ElementOfSeq
  <2>2. Append(Module, exported[i]) \in Names
    BY <2>1, <1>2, OneMorePart
  <2>3. Binding(<<exported[i]>>, Append(Module, exported[i])) \in Names
    BY <2>2, BindingIsName DEF Visiting
  <2> QED BY <2>3, <1>2, NewEdge
<1>4. list \in Seq(EdgeType) /\ DOMAIN list = DOMAIN exported
  <2>1. Len(exported) \in Nat /\ DOMAIN exported = 1 .. Len(exported)
    BY <1>2, LenProperties
  <2> HIDE DEF list
  <2>2. DOMAIN list = DOMAIN exported /\ list = [i \in DOMAIN list |-> list[i]]
    BY DEF list
  <2> QED BY <2>1, <2>2, <1>3, IsASeq
<1>5. edges' \in Seq(EdgeType) /\ \A i \in DOMAIN edges' : Pending(edges'[i], SymbolNames)
  BY <1>1, <1>3, <1>4, MoreEdges DEF Visiting, Collected
<1>6. SymbolNames' = SymbolNames
  BY <1>1 DEF SymbolNames
<1> QED BY <1>1, <1>5, <1>6 DEF Collected, Visiting

-----------------------------------------------------------------------------
(* The steps of extract and of the writing of its result.                  *)

LEMMA ParseKeeps ==
    ASSUME EvidenceInv, Parse
    PROVE  Kept
<1>1. symbols' = Append(symbols, Symbol(Module, "MODULE", None))
      /\ routers' \in RouterTables /\ scope' = <<>> /\ bindings' = <<>> /\ exported' = <<>>
      /\ file \in DOMAIN Files /\ UNCHANGED <<file, edges>>
      /\ stage = "parsing"
  BY DEF Parse
<1>2. Module \in Names
  BY <1>1, ModuleIsName
<1>3. Symbol(Module, "MODULE", None) \in SymbolType /\ Symbol(Module, "MODULE", None).name = Module
  BY <1>2 DEF Symbol, SymbolType, SymbolKinds, EvidenceInv
<1>4. symbols' \in Seq(SymbolType) /\ SymbolNames' = SymbolNames \cup {Module}
  BY <1>1, <1>3, OneMoreName, NamesOfSymbols DEF EvidenceInv, Collected
<1>5. \A i \in DOMAIN edges' : Pending(edges'[i], SymbolNames')
  BY <1>1, <1>4 DEF Pending, EvidenceInv
<1>6. Module' = Module
  BY <1>1 DEF Module
<1>7. \A r \in DOMAIN routers' : routers'[r] \in Names
  BY <1>1, EvidenceConstants
<1>8. scope' \in Seq(ScopeType) /\ exported' \in Seq(STRING) /\ DOMAIN bindings' = {}
  BY <1>1
<1> QED BY <1>1, <1>4, <1>5, <1>6, <1>7, <1>8 DEF Kept, Collected, VisitorInv, EvidenceInv

\* Looking a target up makes a pending edge whole.
LEMMA ResolvedIsWhole ==
    ASSUME NEW e \in EdgeType, SymbolNames \subseteq Names, Pending(e, SymbolNames)
    PROVE  Resolved(e) \in EdgeType /\ Whole(Resolved(e), SymbolNames)
<1>1. None \notin Names /\ None \notin Reasons /\ None \notin SymbolNames
      /\ "external_dependency" \in Reasons /\ "local_target_not_extracted" \in Reasons
      /\ DynamicImport # None
  BY EvidenceConstants DEF Reasons
<1>2. CASE e.unresolved # None
  <2>1. Resolved(e) = e
    BY <1>2 DEF Resolved
  <2>2. Whole(e, SymbolNames)
    BY <1>1, <1>2 DEF Pending, Whole
  <2> QED BY <2>1, <2>2
<1>3. CASE e.unresolved = None /\ e.target \in SymbolNames
  <2>1. Resolved(e) = [e EXCEPT !.status = "RESOLVED"]
    BY <1>3 DEF Resolved
  <2>2. Resolved(e) \in EdgeType
    BY <2>1 DEF EdgeType
  <2>3. /\ Resolved(e).source = e.source /\ Resolved(e).target = e.target
        /\ Resolved(e).unresolved = e.unresolved /\ Resolved(e).status = "RESOLVED"
    BY <2>1 DEF EdgeType
  <2>4. Whole(Resolved(e), SymbolNames)
    BY <1>1, <1>3, <2>3 DEF Pending, Whole
  <2> QED BY <2>2, <2>4
<1>4. CASE e.unresolved = None /\ e.target \notin SymbolNames
  <2> DEFINE why == IF e.target # <<>> /\ e.target[1] \in RepositoryRoots
                    THEN "local_target_not_extracted" ELSE "external_dependency"
  <2>1. Resolved(e) = [e EXCEPT !.target = None, !.unresolved = e.target,
                                !.status = "UNRESOLVED", !.reason = why]
    BY <1>4 DEF Resolved
  <2>2. why \in Reasons
    BY <1>1
  <2> HIDE DEF why
  <2>3. e.target \in Names /\ e.target # None
    BY <1>1, <1>4 DEF Pending
  <2>4. Resolved(e) \in EdgeType
    BY <2>1, <2>2, <2>3 DEF EdgeType
  <2>5. /\ Resolved(e).source = e.source /\ Resolved(e).target = None
        /\ Resolved(e).unresolved = e.target /\ Resolved(e).status = "UNRESOLVED"
        /\ Resolved(e).reason = why
    BY <2>1 DEF EdgeType
  <2>6. Whole(Resolved(e), SymbolNames)
    BY <1>1, <1>4, <2>2, <2>3, <2>5 DEF Pending, Whole
  <2> QED BY <2>4, <2>6
<1> QED BY <1>2, <1>3, <1>4

LEMMA ResolveKeeps ==
    ASSUME EvidenceInv, Resolve
    PROVE  /\ Collected' /\ file' = file /\ stage' = "resolved"
           /\ \A i \in DOMAIN edges' : Whole(edges'[i], SymbolNames')
<1>1. edges' = [i \in DOMAIN edges |-> Resolved(edges[i])] /\ stage = "parsing"
      /\ symbols' = symbols /\ file' = file /\ stage' = "resolved"
  BY DEF Resolve
<1>2. edges \in Seq(EdgeType) /\ symbols \in Seq(SymbolType)
      /\ \A i \in DOMAIN edges : Pending(edges[i], SymbolNames)
  BY <1>1 DEF EvidenceInv, Collected
<1>3. SymbolNames \subseteq Names
  BY <1>2, SymbolNamesAreNames
<1>4. \A i \in DOMAIN edges : Resolved(edges[i]) \in EdgeType
                              /\ Whole(Resolved(edges[i]), SymbolNames)
  BY <1>2, <1>3, ResolvedIsWhole, LenProperties, ElementOfSeq
<1>5. edges' \in Seq(EdgeType) /\ DOMAIN edges' = DOMAIN edges
      /\ \A i \in DOMAIN edges : edges'[i] = Resolved(edges[i])
  <2>1. Len(edges) \in Nat /\ DOMAIN edges = 1 .. Len(edges)
    BY <1>2, LenProperties
  <2> QED BY <2>1, <1>1, <1>4, IsASeq
<1>6. SymbolNames' = SymbolNames
  BY <1>1 DEF SymbolNames
<1> QED BY <1>1, <1>2, <1>4, <1>5, <1>6 DEF Collected

\* The row of a whole edge is the edge itself, and it is stored.
LEMMA RowOfWhole ==
    ASSUME NEW e, Whole(e, SymbolNames)
    PROVE  Storable(e) /\ Row(e) = e /\ Accepted(e)
<1>1. CASE e.target = None
  BY <1>1 DEF Whole, Storable, Row, Accepted
<1>2. CASE e.target # None
  BY <1>2 DEF Whole, Storable, Row, Accepted
<1> QED BY <1>1, <1>2

LEMMA PersistRelationshipsKeeps ==
    ASSUME EvidenceInv, PersistRelationships
    PROVE  stage' = "stored" /\ UNCHANGED <<edges, symbols, file>>
<1>1. stage = "symbols" /\ UNCHANGED <<symbols, file>>
      /\ edges' = [i \in DOMAIN edges |-> Row(edges[i])]
      /\ stage' = IF \E i \in DOMAIN edges : ~Storable(edges[i]) THEN "ValueError"
                  ELSE IF \E i \in DOMAIN edges : ~Accepted(Row(edges[i]))
                  THEN "IntegrityError" ELSE "stored"
  BY DEF PersistRelationships
<1>2. \A i \in DOMAIN edges : Whole(edges[i], SymbolNames)
  BY <1>1 DEF EvidenceInv
<1>3. \A i \in DOMAIN edges :
          Storable(edges[i]) /\ Row(edges[i]) = edges[i] /\ Accepted(edges[i])
  BY <1>2, RowOfWhole
<1>4. edges = [i \in DOMAIN edges |-> edges[i]]
  BY LenProperties DEF EvidenceInv, Collected
<1> QED BY <1>1, <1>3, <1>4

-----------------------------------------------------------------------------
LEMMA InvInit ==
    EvidenceInit => EvidenceInv
<1> SUFFICES ASSUME EvidenceInit PROVE EvidenceInv
  OBVIOUS
<1>1. symbols = <<>> /\ edges = <<>> /\ file = 1 /\ stage = "parsing"
  BY DEF EvidenceInit
<1>2. symbols \in Seq(SymbolType) /\ edges \in Seq(EdgeType) /\ DOMAIN edges = {}
  BY <1>1
<1> QED BY <1>1, <1>2 DEF EvidenceInv, Collected

LEMMA InvNext ==
    EvidenceInv /\ [EvidenceNext]_vars => EvidenceInv'
<1> SUFFICES ASSUME EvidenceInv, [EvidenceNext]_vars PROVE EvidenceInv'
  OBVIOUS
<1>1. ASSUME stage = "visiting" PROVE Visiting
  BY <1>1 DEF EvidenceInv, Visiting
<1>2. CASE Parse
  <2>1. Kept /\ stage' = "visiting" /\ file' = file
    BY <1>2, ParseKeeps DEF Parse
  <2> QED BY <2>1 DEF Kept, EvidenceInv
<1>3. CASE SyntaxError
  <2>1. stage = "parsing" /\ stage' = "parsing" /\ file' = file + 1
        /\ UNCHANGED <<symbols, edges>>
    BY <1>3 DEF SyntaxError, module
  <2>2. SymbolNames' = SymbolNames
    BY <2>1 DEF SymbolNames
  <2> QED BY <2>1, <2>2 DEF EvidenceInv, Collected
<1>4. CASE Visit
  <2>1. stage = "visiting" /\ stage' = "visiting" /\ file' = file
    BY <1>4 DEF Visit, VisitClassDef, VisitFunctionDef, Leave, VisitAssign, VisitImport,
                VisitImportFrom, VisitDynamicImport, VisitAll, Statement
  <2>2. Kept
    BY <1>1, <1>4, <2>1, VisitKeeps
  <2> QED BY <2>1, <2>2 DEF Kept, EvidenceInv
<1>5. CASE EndOfFile
  <2>1. stage = "visiting" /\ stage' = "parsing" /\ file' = file + 1
    BY <1>5 DEF EndOfFile
  <2>2. Collected' /\ \A i \in DOMAIN edges' : Pending(edges'[i], SymbolNames')
    BY <1>1, <1>5, <2>1, EndOfFileKeeps
  <2> QED BY <2>1, <2>2 DEF EvidenceInv
<1>6. CASE Resolve
  BY <1>6, ResolveKeeps DEF EvidenceInv
<1>7. CASE PersistSymbols
  <2>1. stage = "resolved" /\ stage' \in {"symbols", "refused"}
        /\ UNCHANGED <<symbols, edges, file>>
    BY <1>7 DEF PersistSymbols
  <2>2. SymbolNames' = SymbolNames
    BY <2>1 DEF SymbolNames
  <2> QED BY <2>1, <2>2 DEF EvidenceInv, Collected
<1>8. CASE PersistRelationships
  <2>1. stage = "symbols" /\ stage' = "stored" /\ UNCHANGED <<symbols, edges, file>>
    BY <1>8, PersistRelationshipsKeeps DEF PersistRelationships
  <2>2. SymbolNames' = SymbolNames
    BY <2>1 DEF SymbolNames
  <2> QED BY <2>1, <2>2 DEF EvidenceInv, Collected
<1>9. CASE UNCHANGED vars
  <2>1. UNCHANGED <<stage, file, routers, scope, bindings, exported, symbols, edges>>
    BY <1>9 DEF vars, module
  <2>2. SymbolNames' = SymbolNames /\ Module' = Module
    BY <2>1 DEF SymbolNames, Module
  <2> QED BY <2>1, <2>2 DEF EvidenceInv, Collected, VisitorInv
<1> QED BY <1>2, <1>3, <1>4, <1>5, <1>6, <1>7, <1>8, <1>9 DEF EvidenceNext

LEMMA InvImplies ==
    EvidenceInv => EdgesAreWhole
<1> SUFFICES ASSUME EvidenceInv PROVE EdgesAreWhole
  OBVIOUS
<1>1. stage \notin {"ValueError", "IntegrityError"}
  BY DEF EvidenceInv
<1>2. stage = "stored" => \A i \in DOMAIN edges : Whole(edges[i], SymbolNames)
  BY DEF EvidenceInv
<1> QED BY <1>1, <1>2 DEF EdgesAreWhole, Whole

\* The invariant of the extraction: whatever the statements, the visitor's
\* module is a symbol and its tables hold names, edges wait for their target by a
\* name until all files were read, and are whole from then on.
THEOREM EvidenceInvariant == EvidenceSpec => []EvidenceInv
<1> QED BY InvInit, InvNext, PTL DEF EvidenceSpec

\* For any files, statements and order of imports, the rows of the relationships
\* are whole, and none makes _persist_extraction_result or a constraint fail.
THEOREM EdgesAreWholeTheorem == EvidenceSpec => []EdgesAreWhole
<1> QED BY EvidenceInvariant, InvImplies, PTL

-----------------------------------------------------------------------------
(* Nesting.  Among the symbols of the file, the last one that has the name *)
(* of a block that is open is the symbol of that block: what comes in      *)
(* between has a longer name, or is a route.                               *)

\* Of the first n symbols, the k-th is the last one of the file with the name.
Above(list, n, name, inFile, k) ==
    /\ k \in 1 .. n
    /\ list[k].name = name /\ list[k].file = inFile
    /\ \A m \in 1 .. n : m > k => ~(list[m].name = name /\ list[m].file = inFile)

\* A function is a method exactly of a class.
Fits(symbol, above) ==
    symbol.kind \in {"FUNCTION", "METHOD"} => (symbol.kind = "METHOD" <=> above.kind = "CLASS")

NestedAt(list, i) ==
    \E k : /\ Above(list, i - 1, list[i].parent, list[i].file, k)
           /\ Fits(list[i], list[k])

AllNested(list) == \A i \in DOMAIN list : list[i].kind # "MODULE" => NestedAt(list, i)

\* The blocks of a file, and its module m, can be found by their names.
Found(list, blocks, m, inFile) ==
    /\ \E k : /\ Above(list, Len(list), m, inFile, k)
              /\ list[k].kind = "MODULE"
    /\ \A j \in DOMAIN blocks :
         /\ Len(blocks[j].name) = Len(m) + j
         /\ blocks[j].name[Len(m) + 1] \in Classes
         /\ \E k : /\ Above(list, Len(list), blocks[j].name, inFile, k)
                   /\ list[k].kind = blocks[j].kind

BlocksAreFound == Found(symbols, scope, Module, file)

NestInv == AllNested(symbols) /\ (stage = "visiting" => BlocksAreFound)

\* The greatest of some numbers is the one that no other exceeds.
LEMMA GreatestIsMax ==
    ASSUME NEW I \in SUBSET Nat, NEW k \in I, \A y \in I : k >= y
    PROVE  Max(I) = k
<1> DEFINE M == CHOOSE x \in I : \A y \in I : x >= y
<1>1. M \in I /\ \A y \in I : M >= y
  OBVIOUS
<1>2. Max(I) = M
  BY DEF Max
<1> HIDE DEF M
<1>3. M >= k /\ k >= M /\ M \in Nat
  BY <1>1
<1> QED BY <1>2, <1>3

LEMMA NestedMeansNest ==
    ASSUME symbols \in Seq(SymbolType), AllNested(symbols)
    PROVE  SymbolsNest
<1> SUFFICES ASSUME NEW i \in DOMAIN symbols, symbols[i].kind # "MODULE"
             PROVE  LET above == SelectLastInSeq(SubSeq(symbols, 1, i - 1),
                           LAMBDA s : s.name = symbols[i].parent /\ s.file = symbols[i].file)
                    IN  above # 0 /\ Fits(symbols[i], symbols[above])
  BY DEF SymbolsNest, Fits
<1> DEFINE list == SubSeq(symbols, 1, i - 1)
<1>1. i \in 1 .. Len(symbols) /\ Len(symbols) \in Nat /\ i \in Nat /\ i - 1 \in Nat
  BY LenProperties
<1>2. Len(list) = i - 1 /\ \A m \in 1 .. i - 1 : list[m] = symbols[m]
  <2>1. \A m \in 1 .. i - 1 : symbols[m] \in SymbolType
    BY <1>1, ElementOfSeq
  <2> QED BY <1>1, <2>1, SubSeqProperties
<1>3. PICK k : /\ Above(symbols, i - 1, symbols[i].parent, symbols[i].file, k)
               /\ Fits(symbols[i], symbols[k])
  BY DEF AllNested, NestedAt
<1> HIDE DEF list
<1>4. Above(list, i - 1, symbols[i].parent, symbols[i].file, k)
  BY <1>2, <1>3 DEF Above
<1>5. SelectLastInSeq(list, LAMBDA s : s.name = symbols[i].parent /\ s.file = symbols[i].file) = k
  <2> DEFINE I == {m \in 1 .. Len(list) : /\ list[m].name = symbols[i].parent
                                          /\ list[m].file = symbols[i].file}
  <2>1. I \in SUBSET Nat /\ k \in I /\ \A y \in I : k >= y
    BY <1>1, <1>2, <1>4 DEF Above
  <2>2. Max(I) = k /\ I # {}
    <3> HIDE DEF I
    <3> QED BY <2>1, GreatestIsMax
  <2> QED BY <2>2 DEF SelectLastInSeq
<1>6. k # 0
  BY <1>3 DEF Above
<1> QED BY <1>3, <1>5, <1>6 DEF list

\* What is put after the symbols changes none of them.
LEMMA ExtendedSymbols ==
    ASSUME NEW s \in Seq(SymbolType), NEW t \in Seq(SymbolType)
    PROVE  /\ s \o t \in Seq(SymbolType)
           /\ Len(s) \in Nat /\ Len(t) \in Nat /\ Len(s \o t) = Len(s) + Len(t)
           /\ DOMAIN s = 1 .. Len(s) /\ DOMAIN t = 1 .. Len(t)
           /\ DOMAIN (s \o t) = 1 .. Len(s) + Len(t)
           /\ \A i \in 1 .. Len(s) : (s \o t)[i] = s[i]
           /\ \A i \in 1 .. Len(s) + Len(t) : i > Len(s) =>
                  i - Len(s) \in DOMAIN t /\ (s \o t)[i] = t[i - Len(s)]
<1>1. s \o t \in Seq(SymbolType) /\ Len(s \o t) = Len(s) + Len(t)
  BY ConcatProperties
<1>2. DOMAIN s = 1 .. Len(s) /\ DOMAIN t = 1 .. Len(t) /\ DOMAIN (s \o t) = 1 .. Len(s) + Len(t)
      /\ Len(s) \in Nat /\ Len(t) \in Nat
  BY <1>1, LenProperties
<1>3. \A i \in 1 .. Len(s) + Len(t) : (s \o t)[i] = IF i <= Len(s) THEN s[i] ELSE t[i - Len(s)]
  BY ConcatProperties
<1> QED BY <1>1, <1>2, <1>3

\* The last one of a name stays it, when what is added has other names.
LEMMA AboveStays ==
    ASSUME NEW s \in Seq(SymbolType), NEW t \in Seq(SymbolType), NEW name, NEW inFile, NEW k,
           Above(s, Len(s), name, inFile, k),
           \A i \in DOMAIN t : t[i].name # name,
           NEW n \in Len(s) .. Len(s) + Len(t)
    PROVE  Above(s \o t, n, name, inFile, k)
<1> DEFINE u == s \o t
<1>1. /\ Len(s) \in Nat /\ Len(t) \in Nat
      /\ \A i \in 1 .. Len(s) : u[i] = s[i]
      /\ \A i \in 1 .. Len(s) + Len(t) : i > Len(s) =>
             i - Len(s) \in DOMAIN t /\ u[i] = t[i - Len(s)]
  BY ExtendedSymbols
<1> HIDE DEF u
<1>2. k \in 1 .. Len(s) /\ k \in 1 .. n /\ u[k] = s[k] /\ n \in Nat
  BY <1>1 DEF Above
<1>3. ASSUME NEW m \in 1 .. n, m > k PROVE ~(u[m].name = name /\ u[m].file = inFile)
  <2>1. CASE m \in 1 .. Len(s)
    BY <1>1, <1>3, <2>1 DEF Above
  <2>2. CASE m \notin 1 .. Len(s)
    <3>1. m \in 1 .. Len(s) + Len(t) /\ m > Len(s)
      BY <1>1, <1>2, <2>2
    <3> QED BY <1>1, <3>1
  <2> QED BY <2>1, <2>2
<1>4. u[k].name = name /\ u[k].file = inFile
  BY <1>2 DEF Above
<1>5. Above(u, n, name, inFile, k)
  BY <1>2, <1>3, <1>4 DEF Above
<1> QED BY <1>5 DEF u

\* New symbols, each of which hangs under one that was there before them all.
LEMMA NestingGrows ==
    ASSUME NEW s \in Seq(SymbolType), NEW t \in Seq(SymbolType), AllNested(s),
           \A j \in DOMAIN t : t[j].kind # "MODULE" =>
               /\ \E k : Above(s, Len(s), t[j].parent, t[j].file, k) /\ Fits(t[j], s[k])
               /\ \A m \in DOMAIN t : t[m].name # t[j].parent
    PROVE  AllNested(s \o t)
<1> DEFINE u == s \o t
<1>1. /\ Len(s) \in Nat /\ Len(t) \in Nat
      /\ DOMAIN s = 1 .. Len(s) /\ DOMAIN u = 1 .. Len(s) + Len(t)
      /\ \A i \in 1 .. Len(s) : u[i] = s[i]
      /\ \A i \in 1 .. Len(s) + Len(t) : i > Len(s) =>
             i - Len(s) \in DOMAIN t /\ u[i] = t[i - Len(s)]
  BY ExtendedSymbols
<1> SUFFICES ASSUME NEW i \in 1 .. Len(s) + Len(t), u[i].kind # "MODULE"
             PROVE  NestedAt(u, i)
  BY <1>1 DEF AllNested
<1>2. CASE i <= Len(s)
  <2>1. i \in 1 .. Len(s) /\ i \in DOMAIN s /\ u[i] = s[i]
    BY <1>1, <1>2
  <2>2. PICK k : Above(s, i - 1, s[i].parent, s[i].file, k) /\ Fits(s[i], s[k])
    BY <2>1 DEF AllNested, NestedAt
  <2>3. \A m \in 1 .. i - 1 : u[m] = s[m]
    BY <1>1, <2>1
  <2>4. k \in 1 .. i - 1
    BY <2>2 DEF Above
  <2> HIDE DEF u
  <2>5. Above(u, i - 1, s[i].parent, s[i].file, k)
    BY <2>2, <2>3 DEF Above
  <2> QED BY <2>1, <2>2, <2>3, <2>4, <2>5 DEF NestedAt
<1>3. CASE i > Len(s)
  <2> DEFINE j == i - Len(s)
  <2>1. j \in DOMAIN t /\ u[i] = t[j]
    BY <1>1, <1>3
  <2>2. PICK k : Above(s, Len(s), t[j].parent, t[j].file, k) /\ Fits(t[j], s[k])
    BY <2>1
  <2>3. \A m \in DOMAIN t : t[m].name # t[j].parent
    BY <2>1
  <2>4. i - 1 \in Len(s) .. Len(s) + Len(t)
    BY <1>1, <1>3
  <2> HIDE DEF j
  <2>5. Above(u, i - 1, t[j].parent, t[j].file, k) /\ u[k] = s[k]
    <3>1. Above(s \o t, i - 1, t[j].parent, t[j].file, k)
      BY <2>2, <2>3, <2>4, AboveStays
    <3>2. k \in 1 .. Len(s)
      BY <2>2 DEF Above
    <3> QED BY <1>1, <3>1, <3>2
  <2> HIDE DEF u
  <2> QED BY <2>1, <2>2, <2>5 DEF NestedAt
<1> QED BY <1>1, <1>2, <1>3

\* The blocks are found as well when symbols of other names are added.
LEMMA FoundStays ==
    ASSUME NEW s \in Seq(SymbolType), NEW t \in Seq(SymbolType), NEW blocks, NEW m, NEW inFile,
           Found(s, blocks, m, inFile),
           \A i \in DOMAIN t : /\ t[i].name # m
                               /\ \A j \in DOMAIN blocks : t[i].name # blocks[j].name
    PROVE  Found(s \o t, blocks, m, inFile)
<1> DEFINE u == s \o t
<1>1. /\ Len(s) \in Nat /\ Len(t) \in Nat /\ Len(u) = Len(s) + Len(t)
      /\ Len(u) \in Len(s) .. Len(s) + Len(t)
      /\ \A k \in 1 .. Len(s) : u[k] = s[k]
  BY ExtendedSymbols
<1>2. ASSUME NEW name, NEW k, Above(s, Len(s), name, inFile, k),
             \A i \in DOMAIN t : t[i].name # name
      PROVE  Above(u, Len(u), name, inFile, k) /\ u[k] = s[k]
  <2>1. Above(u, Len(u), name, inFile, k)
    BY <1>1, <1>2, AboveStays
  <2>2. k \in 1 .. Len(s)
    BY <1>2 DEF Above
  <2> QED BY <1>1, <2>1, <2>2
<1> HIDE DEF u
<1>3. \E k : Above(u, Len(u), m, inFile, k) /\ u[k].kind = "MODULE"
  <2>1. PICK k : Above(s, Len(s), m, inFile, k) /\ s[k].kind = "MODULE"
    BY DEF Found
  <2> QED BY <1>2, <2>1
<1>4. ASSUME NEW j \in DOMAIN blocks
      PROVE  \E k : Above(u, Len(u), blocks[j].name, inFile, k) /\ u[k].kind = blocks[j].kind
  <2>1. PICK k : Above(s, Len(s), blocks[j].name, inFile, k) /\ s[k].kind = blocks[j].kind
    BY DEF Found
  <2> QED BY <1>2, <2>1
<1>5. Found(u, blocks, m, inFile)
  BY <1>3, <1>4 DEF Found
<1> QED BY <1>5 DEF u

\* A symbol put last is the last one of its name.
LEMMA LastIsAbove ==
    ASSUME NEW s \in Seq(SymbolType), NEW x \in SymbolType
    PROVE  /\ Append(s, x) \in Seq(SymbolType) /\ Len(Append(s, x)) = Len(s) + 1
           /\ Append(s, x)[Len(s) + 1] = x
           /\ Above(Append(s, x), Len(Append(s, x)), x.name, x.file, Len(s) + 1)
<1> DEFINE u == Append(s, x)
<1>1. u \in Seq(SymbolType) /\ Len(u) = Len(s) + 1 /\ u[Len(s) + 1] = x /\ Len(s) \in Nat
  BY AppendProperties, LenProperties
<1> HIDE DEF u
<1>2. Above(u, Len(u), x.name, x.file, Len(s) + 1)
  BY <1>1 DEF Above
<1> QED BY <1>1, <1>2 DEF u

\* The block around a statement.
CurrentOf(blocks, m) == IF blocks = <<>> THEN m ELSE Last(blocks).name

\* current_qualified_name and the name of a definition.
Qualified(blocks, m, name) == Append(CurrentOf(blocks, m), name)

\* Append(s, x) is s and x.
Longer(s, x) ==
    /\ Len(s) \in Nat /\ Len(Append(s, x)) = Len(s) + 1
    /\ Append(s, x)[Len(s) + 1] = x
    /\ \A i \in 1 .. Len(s) : Append(s, x)[i] = s[i]

LEMMA LongerSeq == ASSUME NEW S, NEW s \in Seq(S), NEW x \in S PROVE Longer(s, x)
BY DEF Longer

LEMMA LongerName ==
    ASSUME NEW name \in Names, NEW part \in STRING
    PROVE  /\ Len(name) \in Nat /\ Len(Append(name, part)) = Len(name) + 1
           /\ Append(name, part)[Len(name) + 1] = part
           /\ \A i \in 1 .. Len(name) : Append(name, part)[i] = name[i]
<1>1. Longer(name, part)
  BY LongerSeq, Zenon DEF Names
<1> QED BY <1>1 DEF Longer

\* A definition inside a block has a name that neither the module nor any of the
\* blocks has, and its block is found by its name.
LEMMA DefinedName ==
    ASSUME NEW s \in Seq(SymbolType), NEW blocks \in Seq(ScopeType), NEW m \in Names, NEW inFile,
           Found(s, blocks, m, inFile), NEW name \in Classes,
           NEW x, x = Qualified(blocks, m, name)
    PROVE  /\ Len(x) = Len(m) + Len(blocks) + 1 /\ x[Len(m) + 1] \in Classes
           /\ x # m /\ \A j \in DOMAIN blocks : x # blocks[j].name
           /\ x # CurrentOf(blocks, m)
           /\ \E k : /\ Above(s, Len(s), CurrentOf(blocks, m), inFile, k)
                     /\ blocks = <<>> => s[k].kind = "MODULE"
                     /\ blocks # <<>> => s[k].kind = Last(blocks).kind
<1>0. name \in STRING /\ Len(m) \in Nat /\ Len(blocks) \in Nat /\ DOMAIN blocks = 1 .. Len(blocks)
  BY EvidenceConstants, LenProperties DEF Names
<1>1. CASE blocks = <<>>
  <2>1. x = Append(m, name) /\ Len(blocks) = 0 /\ DOMAIN blocks = {} /\ CurrentOf(blocks, m) = m
    BY <1>1 DEF CurrentOf, Qualified
  <2>2. Len(x) = Len(m) + 1 /\ x[Len(m) + 1] = name
    <3>1. Len(Append(m, name)) = Len(m) + 1 /\ Append(m, name)[Len(m) + 1] = name
      BY <1>0, LongerName
    <3> QED BY <2>1, <3>1
  <2> QED BY <1>0, <1>1, <2>1, <2>2 DEF Found
<1>2. CASE blocks # <<>>
  <2> DEFINE top == Len(blocks)
             cur == blocks[top].name
  <2>1. top \in DOMAIN blocks /\ top \in 1 .. top /\ Last(blocks) = blocks[top]
    BY <1>0, <1>2, EmptySeq DEF Last
  <2>2. cur \in Names
    <3>1. blocks[top] \in ScopeType
      BY <2>1, ElementOfSeq
    <3> QED BY <3>1 DEF ScopeType
  <2>3. x = Append(cur, name) /\ CurrentOf(blocks, m) = cur
    BY <1>2, <2>1 DEF CurrentOf, Qualified
  <2>4. Len(cur) = Len(m) + top /\ cur[Len(m) + 1] \in Classes
    BY <2>1 DEF Found
  <2>5. /\ Len(x) = Len(cur) + 1
        /\ \A i \in 1 .. Len(cur) : x[i] = cur[i]
    BY <1>0, <2>2, <2>3, LongerName
  <2>6. Len(m) + 1 \in 1 .. Len(cur)
    BY <1>0, <2>1, <2>4
  <2>7. \A j \in DOMAIN blocks : Len(blocks[j].name) = Len(m) + j
    BY DEF Found
  <2>8. Len(x) = Len(m) + top + 1 /\ x[Len(m) + 1] \in Classes
    BY <1>0, <2>4, <2>5, <2>6
  <2>9. \E k : /\ Above(s, Len(s), cur, inFile, k)
               /\ s[k].kind = blocks[top].kind
    BY <2>1 DEF Found
  <2> HIDE DEF cur
  <2>10. x # cur /\ x # m
    <3>1. Len(x) # Len(cur) /\ Len(x) # Len(m)
      BY <1>0, <2>1, <2>4, <2>8
    <3> QED BY <3>1
  <2>11. \A j \in DOMAIN blocks : x # blocks[j].name
    BY <1>0, <2>7, <2>8
  <2> QED BY <1>2, <2>1, <2>3, <2>8, <2>9, <2>10, <2>11
<1> QED BY <1>1, <1>2

\* A block is entered.
LEMMA FoundOpens ==
    ASSUME NEW s \in Seq(SymbolType), NEW blocks \in Seq(ScopeType), NEW m \in Names, NEW inFile,
           Found(s, blocks, m, inFile), NEW name \in Classes, NEW x \in SymbolType,
           x.name = Qualified(blocks, m, name), x.file = inFile
    PROVE  Found(Append(s, x), Append(blocks, [name |-> x.name, kind |-> x.kind]), m, inFile)
<1> DEFINE u == Append(s, x)
           b == [name |-> x.name, kind |-> x.kind]
           more == Append(blocks, b)
<1>1. /\ Len(x.name) = Len(m) + Len(blocks) + 1 /\ x.name[Len(m) + 1] \in Classes
      /\ x.name # m /\ \A j \in DOMAIN blocks : x.name # blocks[j].name
  BY DefinedName
<1>2. <<x>> \in Seq(SymbolType) /\ u = s \o <<x>> /\ \A i \in DOMAIN <<x>> : <<x>>[i].name = x.name
  BY AppendIsConcat
<1>3. Found(u, blocks, m, inFile)
  <2> DEFINE t == <<x>>
  <2>1. \A i \in DOMAIN t : /\ t[i].name # m
                            /\ \A j \in DOMAIN blocks : t[i].name # blocks[j].name
    BY <1>1, <1>2
  <2>2. t \in Seq(SymbolType) /\ u = s \o t
    BY <1>2
  <2> HIDE DEF t, u
  <2> QED BY <2>1, <2>2, FoundStays
<1>4. Above(u, Len(u), b.name, inFile, Len(s) + 1) /\ u[Len(s) + 1].kind = b.kind
  BY LastIsAbove
<1>5. /\ b \in ScopeType /\ Len(blocks) \in Nat
      /\ DOMAIN blocks = 1 .. Len(blocks) /\ DOMAIN more = 1 .. Len(blocks) + 1
      /\ \A j \in 1 .. Len(blocks) : more[j] = blocks[j]
      /\ more[Len(blocks) + 1] = b
  <2>1. b \in ScopeType
    BY DEF ScopeType, SymbolType
  <2> HIDE DEF b
  <2> QED BY <2>1, AppendProperties, LenProperties
<1>6. b.name = x.name
  OBVIOUS
<1> HIDE DEF u, b, more
<1>7. Len(m) \in Nat
  BY LenProperties DEF Names
<1>8. ASSUME NEW j \in DOMAIN more
      PROVE  /\ Len(more[j].name) = Len(m) + j
             /\ more[j].name[Len(m) + 1] \in Classes
             /\ \E k : /\ Above(u, Len(u), more[j].name, inFile, k)
                       /\ u[k].kind = more[j].kind
  <2>1. CASE j = Len(blocks) + 1
    <3>1. more[j] = b /\ Len(m) + j = Len(m) + Len(blocks) + 1
      BY <1>5, <1>7, <2>1
    <3>2. Above(u, Len(u), more[j].name, inFile, Len(s) + 1) /\ u[Len(s) + 1].kind = more[j].kind
      BY <1>4, <3>1
    <3> QED BY <1>1, <1>6, <3>1, <3>2
  <2>2. CASE j \in DOMAIN blocks
    BY <1>3, <1>5, <2>2 DEF Found
  <2> QED BY <1>5, <2>1, <2>2
<1>9. Found(u, more, m, inFile)
  BY <1>3, <1>8 DEF Found
<1> QED BY <1>9 DEF u, b, more

\* A block is left.
LEMMA FoundCloses ==
    ASSUME NEW s, NEW blocks \in Seq(ScopeType), NEW m, NEW inFile,
           Found(s, blocks, m, inFile), blocks # <<>>
    PROVE  Found(s, Front(blocks), m, inFile)
<1>1. /\ Len(blocks) \in Nat /\ Len(blocks) - 1 \in Nat /\ DOMAIN blocks = 1 .. Len(blocks)
      /\ \A i \in 1 .. Len(blocks) - 1 : blocks[i] \in ScopeType
  BY LenProperties, EmptySeq, ElementOfSeq
<1>2. /\ DOMAIN Front(blocks) = 1 .. Len(blocks) - 1
      /\ \A j \in 1 .. Len(blocks) - 1 : Front(blocks)[j] = blocks[j]
  BY <1>1, SubSeqProperties DEF Front
<1>3. \A j \in DOMAIN Front(blocks) : j \in DOMAIN blocks /\ Front(blocks)[j] = blocks[j]
  BY <1>1, <1>2
<1> HIDE DEF Front
<1> QED BY <1>3 DEF Found

-----------------------------------------------------------------------------
(* The nesting, one operation after the other.                             *)

NestVisiting == Visiting /\ AllNested(symbols) /\ BlocksAreFound
NestKept     == AllNested(symbols') /\ BlocksAreFound'

LEMMA NestTypes ==
    ASSUME NestVisiting
    PROVE  /\ symbols \in Seq(SymbolType) /\ scope \in Seq(ScopeType)
           /\ Module \in Names /\ file \in Nat /\ Current \in Names
           /\ Found(symbols, scope, Module, file) /\ AllNested(symbols)
           /\ Current = CurrentOf(scope, Module)
<1>1. Visiting /\ VisitorInv /\ Collected
  BY DEF NestVisiting, Visiting
<1>2. file \in Nat
  BY <1>1, EvidenceConstants, LenProperties DEF VisitorInv
<1> QED BY <1>1, <1>2, ModuleIsName, CurrentIsName
        DEF NestVisiting, VisitorInv, Collected, BlocksAreFound, Current, CurrentOf

\* Nothing is added and no block opened or closed.
LEMMA NestUnchanged ==
    ASSUME NestVisiting, UNCHANGED <<file, scope, symbols>>
    PROVE  NestKept
<1>1. Module' = Module
  BY DEF Module
<1> QED BY <1>1 DEF NestVisiting, NestKept, BlocksAreFound

\* One symbol, put under the block it stands in.
LEMMA OneMoreNested ==
    ASSUME NEW s \in Seq(SymbolType), AllNested(s), NEW x \in SymbolType,
           x.kind = "MODULE" \/ /\ \E k : Above(s, Len(s), x.parent, x.file, k) /\ Fits(x, s[k])
                                /\ x.name # x.parent
    PROVE  AllNested(Append(s, x))
<1> DEFINE t == <<x>>
<1>1. t \in Seq(SymbolType) /\ Append(s, x) = s \o t /\ \A i \in DOMAIN t : t[i] = x
  BY AppendIsConcat
<1> HIDE DEF t
<1>2. AllNested(s \o t)
  BY <1>1, NestingGrows
<1> QED BY <1>1, <1>2

LEMMA NestClassDef ==
    ASSUME NestVisiting, NEW name \in Classes, NEW bases \in Bases, VisitClassDef(name, bases)
    PROVE  NestKept
<1> DEFINE x == Symbol(Qualified(scope, Module, name), "CLASS", Current)
<1>1. /\ symbols \in Seq(SymbolType) /\ scope \in Seq(ScopeType)
      /\ Module \in Names /\ file \in Nat /\ Current \in Names
      /\ Found(symbols, scope, Module, file) /\ AllNested(symbols)
      /\ Current = CurrentOf(scope, Module)
  BY NestTypes
<1>2. /\ symbols' = Append(symbols, x) /\ file' = file
      /\ scope' = Append(scope, [name |-> Qualified(scope, Module, name), kind |-> "CLASS"])
  BY <1>1 DEF VisitClassDef, Statement, Open, Qualified
<1>3. Qualified(scope, Module, name) \in Names
  BY <1>1, OneMorePart, EvidenceConstants DEF Qualified
<1>4. /\ x \in SymbolType /\ x.name = Qualified(scope, Module, name) /\ x.kind = "CLASS"
      /\ x.file = file /\ x.parent = CurrentOf(scope, Module)
  BY <1>1, <1>3 DEF Symbol, SymbolType, SymbolKinds
<1>5. /\ x.name # x.parent
      /\ \E k : Above(symbols, Len(symbols), x.parent, x.file, k)
  BY <1>1, <1>4, DefinedName
<1> HIDE DEF x
<1>6. AllNested(symbols')
  BY <1>1, <1>2, <1>4, <1>5, OneMoreNested DEF Fits
<1>7. Found(symbols', scope', Module, file)
  BY <1>1, <1>2, <1>4, FoundOpens
<1>8. Module' = Module
  BY <1>2 DEF Module
<1> QED BY <1>2, <1>6, <1>7, <1>8 DEF NestKept, BlocksAreFound

LEMMA JoinedSeqs ==
    ASSUME NEW S, NEW p \in Seq(S), NEW q \in Seq(S)
    PROVE  /\ Len(p \o q) = Len(p) + Len(q)
           /\ \A n \in 1 .. Len(p) : (p \o q)[n] = p[n]
<1>1. Len(p) \in Nat /\ Len(q) \in Nat
  BY LenProperties
<1>2. Len(p \o q) = Len(p) + Len(q)
  BY ConcatProperties
<1>3. ASSUME NEW n \in 1 .. Len(p) PROVE (p \o q)[n] = p[n]
  BY <1>1
<1> QED BY <1>2, <1>3

\* The name of a route differs from those of the module and of any block.
LEMMA RouteIsNoBlock ==
    ASSUME NestVisiting, NEW list \in Decorators, NEW i \in DOMAIN list,
           list[i][1] \in DOMAIN routers
    PROVE  /\ RouteName(list[i]) \in Names
           /\ Len(RouteName(list[i])) > Len(Module)
           /\ RouteName(list[i])[Len(Module) + 1] \notin Classes
<1>1. Module \in Names /\ Visiting /\ VisitorInv
  BY NestTypes DEF NestVisiting, Visiting
<1> DEFINE d == list[i]
           a == Module  b == <<d[2]>>  c == routers[d[1]]  e == d[3]
<1>2. d \in STRING \X STRING \X Names
  <2>1. list \in Seq(STRING \X STRING \X Names)
    BY EvidenceConstants
  <2> QED BY <2>1, LenProperties, ElementOfSeq
<1>3. b \in Names /\ e \in Names /\ c \in Names /\ d[2] \notin Classes
  BY <1>1, <1>2, EvidenceConstants DEF Names, VisitorInv
<1>4. Len(a) \in Nat /\ Len(c) \in Nat /\ Len(e) \in Nat
  BY <1>1, <1>3, LenProperties DEF Names
<1>5. RouteName(d) = ((a \o b) \o c) \o e
  BY DEF RouteName
<1> HIDE DEF d, a, b, c, e
<1>6. /\ a \o b \in Names /\ (a \o b) \o c \in Names /\ ((a \o b) \o c) \o e \in Names
      /\ a \in Names
  BY <1>1, <1>3, JoinedNames DEF a
<1>7. \A p \in Names : \A q \in Names :
        /\ Len(p \o q) = Len(p) + Len(q)
        /\ \A n \in 1 .. Len(p) : (p \o q)[n] = p[n]
  <2> SUFFICES ASSUME NEW p \in Names, NEW q \in Names
               PROVE  /\ Len(p \o q) = Len(p) + Len(q)
                      /\ \A n \in 1 .. Len(p) : (p \o q)[n] = p[n]
    OBVIOUS
  <2>1. p \in Seq(STRING) /\ q \in Seq(STRING)
    BY DEF Names
  <2> HIDE DEF Names
  <2> QED BY <2>1, JoinedSeqs, Zenon
<1>8. Len(a \o b) = Len(a) + 1 /\ (a \o b)[Len(a) + 1] = d[2]
  <2>1. a \in Seq(STRING) /\ d[2] \in STRING
    BY <1>2, <1>6 DEF Names, d
  <2>2. a \o b = Append(a, d[2])
    BY <2>1, AppendIsConcat DEF b
  <2> HIDE DEF a, b
  <2> QED BY <2>1, <2>2
<1>9. /\ Len((a \o b) \o c) = Len(a) + 1 + Len(c)
      /\ ((a \o b) \o c)[Len(a) + 1] = d[2]
  <2>1. Len(a) + 1 \in 1 .. Len(a \o b)
    BY <1>4, <1>8
  <2>2. /\ Len((a \o b) \o c) = Len(a \o b) + Len(c)
        /\ ((a \o b) \o c)[Len(a) + 1] = (a \o b)[Len(a) + 1]
    BY <1>3, <1>6, <1>7, <2>1, Zenon
  <2> QED BY <1>4, <1>8, <2>2
<1>10. /\ Len(RouteName(d)) = Len(a) + 1 + Len(c) + Len(e)
       /\ RouteName(d)[Len(a) + 1] = d[2]
  <2>1. Len(a) + 1 \in 1 .. Len((a \o b) \o c)
    BY <1>4, <1>9
  <2>2. /\ Len(((a \o b) \o c) \o e) = Len((a \o b) \o c) + Len(e)
        /\ (((a \o b) \o c) \o e)[Len(a) + 1] = ((a \o b) \o c)[Len(a) + 1]
    BY <1>3, <1>6, <1>7, <2>1, Zenon
  <2> QED BY <1>4, <1>5, <1>9, <2>2
<1>11. Len(RouteName(d)) > Len(a)
  BY <1>4, <1>10
<1> QED BY <1>3, <1>5, <1>6, <1>10, <1>11 DEF d, a

LEMMA NestFunctionDef ==
    ASSUME NestVisiting, NEW name \in Classes, NEW list \in Decorators,
           VisitFunctionDef(name, list)
    PROVE  NestKept
<1> DEFINE kind == IF InClass THEN "METHOD" ELSE "FUNCTION"
           x == Symbol(Qualified(scope, Module, name), kind, Current)
           routes == [i \in DOMAIN list |-> Symbol(RouteName(list[i]), "ROUTE", Module)]
           block == [name |-> Qualified(scope, Module, name), kind |-> kind]
           first == Append(symbols, x)
<1>1. /\ symbols \in Seq(SymbolType) /\ scope \in Seq(ScopeType)
      /\ Module \in Names /\ file \in Nat /\ Current \in Names
      /\ Found(symbols, scope, Module, file) /\ AllNested(symbols)
      /\ Current = CurrentOf(scope, Module)
  BY NestTypes
<1>2. /\ symbols' = first \o routes /\ file' = file /\ scope' = Append(scope, block)
      /\ \A i \in DOMAIN list : list[i][1] \in DOMAIN routers
  BY <1>1 DEF VisitFunctionDef, Statement, Open, Qualified
<1>3. Qualified(scope, Module, name) \in Names
  BY <1>1, OneMorePart, EvidenceConstants DEF Qualified
<1>4. /\ x \in SymbolType /\ x.name = Qualified(scope, Module, name) /\ x.kind = kind
      /\ x.file = file /\ x.parent = CurrentOf(scope, Module)
      /\ block = [name |-> x.name, kind |-> x.kind]
  BY <1>1, <1>3 DEF Symbol, SymbolType, SymbolKinds
<1>5. PICK k : /\ Above(symbols, Len(symbols), x.parent, x.file, k)
               /\ scope = <<>> => symbols[k].kind = "MODULE"
               /\ scope # <<>> => symbols[k].kind = Last(scope).kind
  BY <1>1, <1>4, DefinedName
<1>6. x.name # x.parent
  BY <1>1, <1>4, DefinedName
<1>7. Fits(x, symbols[k])
  BY <1>4, <1>5 DEF Fits, InClass
<1>8. first \in Seq(SymbolType) /\ AllNested(first)
  <2> HIDE DEF x
  <2> QED BY <1>1, <1>4, <1>5, <1>6, <1>7, OneMoreNested, LastIsAbove
<1>9. Found(first, scope', Module, file)
  <2> HIDE DEF x, block
  <2> QED BY <1>1, <1>2, <1>4, FoundOpens
<1>10. list \in Seq(STRING \X STRING \X Names) /\ DOMAIN routes = DOMAIN list
  BY EvidenceConstants
<1>11. ASSUME NEW i \in DOMAIN list
       PROVE  /\ routes[i] \in SymbolType /\ routes[i].name = RouteName(list[i])
              /\ routes[i].parent = Module /\ routes[i].file = file /\ routes[i].kind = "ROUTE"
              /\ Len(routes[i].name) > Len(Module)
              /\ routes[i].name[Len(Module) + 1] \notin Classes
  <2>1. /\ RouteName(list[i]) \in Names /\ Len(RouteName(list[i])) > Len(Module)
        /\ RouteName(list[i])[Len(Module) + 1] \notin Classes
    BY <1>2, RouteIsNoBlock
  <2> QED BY <1>1, <2>1 DEF Symbol, SymbolType, SymbolKinds
<1>12. routes \in Seq(SymbolType)
  BY <1>10, <1>11, LenProperties, IsASeq
<1> HIDE DEF routes, first, block, x
<1>13. \A i \in DOMAIN routes :
         /\ routes[i].name # Module
         /\ \A j \in DOMAIN scope' : routes[i].name # scope'[j].name
  <2> SUFFICES ASSUME NEW i \in DOMAIN routes
               PROVE  /\ routes[i].name # Module
                      /\ \A j \in DOMAIN scope' : routes[i].name # scope'[j].name
    OBVIOUS
  <2>1. Len(routes[i].name) > Len(Module) /\ Len(Module) \in Nat
    BY <1>1, <1>10, <1>11, LenProperties DEF Names
  <2>2. routes[i].name # Module
    BY <2>1
  <2>3. \A j \in DOMAIN scope' : scope'[j].name[Len(Module) + 1] \in Classes
    BY <1>9 DEF Found
  <2> QED BY <1>10, <1>11, <2>2, <2>3
<1>14. Found(first \o routes, scope', Module, file)
  BY <1>8, <1>9, <1>12, <1>13, FoundStays
<1>15. AllNested(first \o routes)
  <2>1. PICK m : Above(first, Len(first), Module, file, m)
    BY <1>9 DEF Found
  <2>2. \A j \in DOMAIN routes :
          /\ Above(first, Len(first), routes[j].parent, routes[j].file, m)
          /\ Fits(routes[j], first[m])
          /\ \A n \in DOMAIN routes : routes[n].name # routes[j].parent
    BY <1>10, <1>11, <1>13, <2>1 DEF Fits
  <2> QED BY <1>8, <1>12, <2>2, NestingGrows
<1>16. Module' = Module
  BY <1>2 DEF Module
<1> QED BY <1>2, <1>14, <1>15, <1>16 DEF NestKept, BlocksAreFound

LEMMA NestLeave ==
    ASSUME NestVisiting, Leave
    PROVE  NestKept
<1>1. scope # <<>> /\ scope' = Front(scope) /\ UNCHANGED <<file, symbols>>
  BY DEF Leave
<1>2. scope \in Seq(ScopeType) /\ Found(symbols, scope, Module, file) /\ AllNested(symbols)
  BY NestTypes
<1>3. Found(symbols, scope', Module, file)
  BY <1>1, <1>2, FoundCloses
<1>4. Module' = Module
  BY <1>1 DEF Module
<1> QED BY <1>1, <1>2, <1>3, <1>4 DEF NestKept, BlocksAreFound

LEMMA NestAssign ==
    ASSUME NestVisiting, NEW name \in Constants, VisitAssign(name)
    PROVE  NestKept
<1>1. CASE scope # <<>>
  BY <1>1, NestUnchanged DEF VisitAssign, Statement
<1>2. CASE scope = <<>>
  <2> DEFINE x == Symbol(Append(Module, name), "CONSTANT", Module)
  <2>1. /\ symbols \in Seq(SymbolType) /\ Module \in Names /\ file \in Nat
        /\ Found(symbols, scope, Module, file) /\ AllNested(symbols)
    BY NestTypes
  <2>2. symbols' = Append(symbols, x) /\ UNCHANGED <<file, scope>>
    BY <1>2 DEF VisitAssign, Statement
  <2>3. Append(Module, name) \in Names /\ Append(Module, name) # Module
    <3>1. name \in STRING
      BY EvidenceConstants
    <3>2. Len(Append(Module, name)) = Len(Module) + 1 /\ Len(Module) \in Nat
      BY <2>1, <3>1, LongerName
    <3>3. Append(Module, name) # Module
      BY <3>2
    <3> QED BY <2>1, <3>1, <3>3, OneMorePart
  <2>4. /\ x \in SymbolType /\ x.name # Module /\ x.parent = Module /\ x.file = file
        /\ x.kind = "CONSTANT"
    BY <2>1, <2>3 DEF Symbol, SymbolType, SymbolKinds
  <2>5. \E k : Above(symbols, Len(symbols), x.parent, x.file, k)
    BY <2>1, <2>4 DEF Found
  <2> HIDE DEF x
  <2>6. AllNested(symbols')
    BY <2>1, <2>2, <2>4, <2>5, OneMoreNested DEF Fits
  <2>7. Found(symbols', scope, Module, file)
    <3> DEFINE t == <<x>>
    <3>1. t \in Seq(SymbolType) /\ symbols' = symbols \o t /\ \A i \in DOMAIN t : t[i] = x
      BY <2>1, <2>2, <2>4, AppendIsConcat
    <3>2. DOMAIN scope = {}
      BY <1>2
    <3> HIDE DEF t
    <3> QED BY <2>1, <2>4, <3>1, <3>2, FoundStays
  <2>8. Module' = Module
    BY <2>2 DEF Module
  <2> QED BY <2>2, <2>6, <2>7, <2>8 DEF NestKept, BlocksAreFound
<1> QED BY <1>1, <1>2

LEMMA NestVisit ==
    ASSUME NestVisiting, Visit
    PROVE  NestKept
<1>1. CASE \/ \E i \in Imports : VisitImport(i[1], i[2])
           \/ \E i \in FromImports : VisitImportFrom(i[1], i[2], i[3], i[4])
           \/ VisitDynamicImport
           \/ \E names \in ExportLists : VisitAll(names)
  BY <1>1, NestUnchanged
     DEF VisitImport, VisitImportFrom, VisitDynamicImport, VisitAll, Statement
<1>2. CASE \/ \E n \in Classes, bases \in Bases : VisitClassDef(n, bases)
           \/ \E n \in Classes, list \in Decorators : VisitFunctionDef(n, list)
           \/ Leave
           \/ \E n \in Constants : VisitAssign(n)
  BY <1>2, NestClassDef, NestFunctionDef, NestLeave, NestAssign
<1> QED BY <1>1, <1>2 DEF Visit

\* The module is put under nothing, and is the first of the new file.
LEMMA NestParse ==
    ASSUME EvidenceInv, AllNested(symbols), Parse
    PROVE  NestKept
<1> DEFINE x == Symbol(Module, "MODULE", None)
<1>1. /\ symbols' = Append(symbols, x) /\ scope' = <<>> /\ file' = file
      /\ file \in DOMAIN Files
  BY DEF Parse
<1>2. symbols \in Seq(SymbolType) /\ Module \in Names /\ file \in Nat
  BY <1>1, ModuleIsName DEF EvidenceInv, Collected
<1>3. x \in SymbolType /\ x.kind = "MODULE" /\ x.name = Module /\ x.file = file
  BY <1>2 DEF Symbol, SymbolType, SymbolKinds
<1> HIDE DEF x
<1>4. AllNested(symbols')
  BY <1>1, <1>2, <1>3, OneMoreNested
<1>5. /\ Above(symbols', Len(symbols'), Module, file, Len(symbols) + 1)
      /\ symbols'[Len(symbols) + 1] = x
  BY <1>1, <1>2, <1>3, LastIsAbove
<1>6. Found(symbols', scope', Module, file)
  BY <1>1, <1>3, <1>5 DEF Found
<1>7. Module' = Module
  BY <1>1 DEF Module
<1> QED BY <1>1, <1>4, <1>6, <1>7 DEF NestKept, BlocksAreFound

LEMMA NestInit == EvidenceInit => NestInv
<1> SUFFICES ASSUME EvidenceInit PROVE NestInv
  OBVIOUS
<1>1. symbols = <<>> /\ stage = "parsing"
  BY DEF EvidenceInit
<1> QED BY <1>1 DEF NestInv, AllNested

LEMMA NestNext == EvidenceInv /\ NestInv /\ [EvidenceNext]_vars => NestInv'
<1> SUFFICES ASSUME EvidenceInv, NestInv, [EvidenceNext]_vars PROVE NestInv'
  OBVIOUS
<1>1. CASE Parse
  BY <1>1, NestParse DEF NestInv, NestKept
<1>2. CASE Visit
  <2>1. stage = "visiting"
    BY <1>2 DEF Visit, VisitClassDef, VisitFunctionDef, Leave, VisitAssign, VisitImport,
                VisitImportFrom, VisitDynamicImport, VisitAll, Statement
  <2>2. NestVisiting
    BY <2>1 DEF EvidenceInv, Visiting, NestInv, NestVisiting
  <2> QED BY <1>2, <2>2, NestVisit DEF NestInv, NestKept
<1>3. CASE SyntaxError \/ EndOfFile \/ Resolve \/ PersistSymbols \/ PersistRelationships
  <2>1. symbols' = symbols /\ stage' # "visiting"
    BY <1>3 DEF SyntaxError, EndOfFile, Resolve, PersistSymbols, PersistRelationships
  <2> QED BY <2>1 DEF NestInv
<1>4. CASE UNCHANGED vars
  <2>1. UNCHANGED <<stage, file, scope, symbols>>
    BY <1>4 DEF vars, module
  <2>2. Module' = Module
    BY <2>1 DEF Module
  <2> QED BY <2>1, <2>2 DEF NestInv, BlocksAreFound
<1> QED BY <1>1, <1>2, <1>3, <1>4 DEF EvidenceNext

\* Whatever is defined inside of what, each symbol hangs under the innermost
\* block around it, that block was extracted before it, and only functions of
\* classes are methods.
THEOREM SymbolsNestTheorem == EvidenceSpec => []SymbolsNest
<1>1. EvidenceInv /\ NestInv => SymbolsNest
  BY NestedMeansNest DEF EvidenceInv, Collected, NestInv
<1> QED BY <1>1, InvInit, InvNext, NestInit, NestNext, PTL DEF EvidenceSpec

-----------------------------------------------------------------------------
(* Meaning.  Before its target is looked up, an edge whose name is clear    *)
(* has what that name means for its target: the tables of the visitor agree *)
(* with what Python binds, as far as one statement alone binds a name.      *)

Meanings == Names \cup {None}

BindType == [name : STRING, what : Names, by : {"def", "import", "package"}, top : BOOLEAN]

\* The edges whose meaning is clear have it as target.
Agree(list, what) ==
    \A i \in DOMAIN list : what[i] # None =>
        list[i].target = what[i] /\ list[i].unresolved = None

OnlyBinder(list, i) == \A j \in DOMAIN list : list[j].name = list[i].name => j = i

\* A name that an import alone binds has that import's target in the table.
TableAgrees(list, table) ==
    \A i \in DOMAIN list : OnlyBinder(list, i) /\ list[i].by = "import" =>
        list[i].name \in DOMAIN table /\ table[list[i].name] = list[i].what

Meant(list, what) ==
    /\ what \in Seq(Meanings)
    /\ Len(what) = Len(list)

MeaningInv ==
    /\ Meant(edges, meant)
    /\ stage \in {"parsing", "visiting"} => Agree(edges, meant)
    /\ stage = "visiting" => bound \in Seq(BindType) /\ TableAgrees(bound, bindings)
    /\ ClearNamesAreExact

LEMMA NoneIsNoName == None \notin Names
BY EvidenceConstants

LEMMA MoreMeanings ==
    ASSUME NEW s \in Seq(EdgeType), NEW t \in Seq(EdgeType), NEW p, NEW q,
           Meant(s, p), Meant(t, q), Agree(s, p), Agree(t, q)
    PROVE  Meant(s \o t, p \o q) /\ Agree(s \o t, p \o q)
<1>1. p \in Seq(Meanings) /\ q \in Seq(Meanings) /\ Len(p) = Len(s) /\ Len(q) = Len(t)
  BY DEF Meant
<1>2. /\ s \o t \in Seq(EdgeType) /\ p \o q \in Seq(Meanings)
      /\ Len(s \o t) = Len(s) + Len(t) /\ Len(p \o q) = Len(s) + Len(t)
      /\ \A i \in 1 .. Len(s) + Len(t) :
           /\ (s \o t)[i] = IF i <= Len(s) THEN s[i] ELSE t[i - Len(s)]
           /\ (p \o q)[i] = IF i <= Len(s) THEN p[i] ELSE q[i - Len(s)]
  <2> HIDE DEF EdgeType, Meanings
  <2>1. /\ s \o t \in Seq(EdgeType) /\ Len(s \o t) = Len(s) + Len(t)
        /\ \A i \in 1 .. Len(s) + Len(t) :
             (s \o t)[i] = IF i <= Len(s) THEN s[i] ELSE t[i - Len(s)]
    BY ConcatProperties
  <2>2. /\ p \o q \in Seq(Meanings) /\ Len(p \o q) = Len(p) + Len(q)
        /\ \A i \in 1 .. Len(p) + Len(q) :
             (p \o q)[i] = IF i <= Len(p) THEN p[i] ELSE q[i - Len(p)]
    BY <1>1, ConcatProperties
  <2> QED BY <1>1, <2>1, <2>2
<1>3. /\ DOMAIN s = 1 .. Len(s) /\ DOMAIN t = 1 .. Len(t) /\ Len(s) \in Nat /\ Len(t) \in Nat
      /\ DOMAIN (s \o t) = 1 .. Len(s) + Len(t)
  BY <1>2, LenProperties
<1>4. Agree(s \o t, p \o q)
  <2> SUFFICES ASSUME NEW i \in 1 .. Len(s) + Len(t), (p \o q)[i] # None
               PROVE  (s \o t)[i].target = (p \o q)[i] /\ (s \o t)[i].unresolved = None
    BY <1>3 DEF Agree
  <2>1. CASE i <= Len(s)
    <3>1. i \in DOMAIN s /\ (s \o t)[i] = s[i] /\ (p \o q)[i] = p[i]
      BY <1>2, <1>3, <2>1
    <3> QED BY <3>1 DEF Agree
  <2>2. CASE ~(i <= Len(s))
    <3>1. /\ i - Len(s) \in DOMAIN t
          /\ (s \o t)[i] = t[i - Len(s)] /\ (p \o q)[i] = q[i - Len(s)]
      BY <1>2, <1>3, <2>2
    <3> QED BY <3>1 DEF Agree
  <2> QED BY <2>1, <2>2
<1> QED BY <1>2, <1>4 DEF Meant

LEMMA OneMoreMeaning ==
    ASSUME NEW s \in Seq(EdgeType), NEW e \in EdgeType, NEW p, NEW m \in Meanings,
           Meant(s, p), Agree(s, p),
           m # None => e.target = m /\ e.unresolved = None
    PROVE  Meant(Append(s, e), Append(p, m)) /\ Agree(Append(s, e), Append(p, m))
<1> DEFINE t == <<e>>  q == <<m>>
<1>1. t \in Seq(EdgeType) /\ Meant(t, q) /\ Agree(t, q)
  BY DEF Meant, Agree
<1>2. Append(s, e) = s \o t
  BY AppendIsConcat
<1>3. Append(p, m) = p \o q
  BY AppendIsConcat DEF Meant
<1> HIDE DEF t, q
<1> QED BY <1>1, <1>2, <1>3, MoreMeanings

\* One more statement binds a name: the others keep their bindings.
LEMMA OneMoreBinder ==
    ASSUME NEW list \in Seq(BindType), NEW b \in BindType, NEW table, NEW new,
           TableAgrees(list, table),
           \A n \in DOMAIN table : n # b.name => n \in DOMAIN new /\ new[n] = table[n],
           b.by = "import" => b.name \in DOMAIN new /\ new[b.name] = b.what
    PROVE  Append(list, b) \in Seq(BindType) /\ TableAgrees(Append(list, b), new)
<1> DEFINE more == Append(list, b)
<1>1. /\ more \in Seq(BindType) /\ Len(more) = Len(list) + 1 /\ Len(list) \in Nat
      /\ \A i \in 1 .. Len(list) : more[i] = list[i]
      /\ more[Len(list) + 1] = b
  BY AppendProperties, LenProperties
<1>2. DOMAIN more = 1 .. Len(list) + 1 /\ DOMAIN list = 1 .. Len(list)
  BY <1>1, LenProperties
<1> HIDE DEF more
<1>3. ASSUME NEW i \in DOMAIN more, OnlyBinder(more, i), more[i].by = "import"
      PROVE  more[i].name \in DOMAIN new /\ new[more[i].name] = more[i].what
  <2>1. CASE i = Len(list) + 1
    BY <1>1, <1>3, <2>1
  <2>2. CASE i # Len(list) + 1
    <3>1. i \in DOMAIN list /\ more[i] = list[i]
      BY <1>1, <1>2, <2>2
    <3>2. OnlyBinder(list, i)
      <4> SUFFICES ASSUME NEW j \in DOMAIN list, list[j].name = list[i].name PROVE j = i
        BY DEF OnlyBinder
      <4>1. j \in DOMAIN more /\ more[j] = list[j]
        BY <1>1, <1>2
      <4> QED BY <1>3, <3>1, <4>1 DEF OnlyBinder
    <3>3. list[i].name \in DOMAIN table /\ table[list[i].name] = list[i].what
      BY <1>3, <3>1, <3>2 DEF TableAgrees
    <3>4. list[i].name # b.name
      <4>1. Len(list) + 1 \in DOMAIN more
        BY <1>1, <1>2
      <4> QED BY <1>1, <1>3, <2>2, <3>1, <4>1 DEF OnlyBinder
    <3> QED BY <3>1, <3>3, <3>4
  <2> QED BY <2>1, <2>2
<1> QED BY <1>1, <1>3 DEF TableAgrees, more

\* What a clear name means is what the visitor makes of it.
LEMMA DenotesIs ==
    ASSUME bound \in Seq(BindType), TableAgrees(bound, bindings),
           NEW expression \in Names \ {<<>>}
    PROVE  /\ Denotes(expression) \in Meanings
           /\ Denotes(expression) # None =>
                IF Len(expression) = 1
                THEN \A default : Binding(expression, default) = Denotes(expression)
                ELSE Denotes(expression) = expression
<1> DEFINE binders == {i \in DOMAIN bound : bound[i].name = expression[1]}
           clear   == {i \in binders :
                         /\ binders = {i} /\ bound[i].top
                         /\ IF Len(expression) = 1
                            THEN bound[i].by = "import"
                            ELSE bound[i].by # "def" /\ bound[i].what = <<expression[1]>>}
           k == CHOOSE i \in clear : TRUE
<1>1. /\ expression \in Seq(STRING) /\ expression # <<>> /\ Len(expression) \in Nat \ {0}
      /\ Tail(expression) \in Seq(STRING) /\ expression[1] \in STRING
  BY HeadTailProperties, EmptySeq DEF Names
<1>2. Denotes(expression) = IF scope = <<>> /\ clear # {}
                            THEN bound[k].what \o Tail(expression) ELSE None
  BY DEF Denotes
<1>3. CASE ~(scope = <<>> /\ clear # {})
  <2> HIDE DEF binders, clear, k
  <2>1. Denotes(expression) = None
    BY <1>2, <1>3
  <2> QED BY <2>1 DEF Meanings
<1>4. CASE scope = <<>> /\ clear # {}
  <2>1. k \in clear
    BY <1>4
  <2> HIDE DEF k
  <2>2. /\ k \in DOMAIN bound /\ bound[k].name = expression[1]
        /\ \A j \in DOMAIN bound : bound[j].name = bound[k].name => j = k
        /\ IF Len(expression) = 1 THEN bound[k].by = "import"
                                  ELSE bound[k].what = <<expression[1]>>
    BY <2>1
  <2> HIDE DEF clear, binders
  <2>3. Denotes(expression) = bound[k].what \o Tail(expression)
    BY <1>2, <1>4
  <2>4. bound[k] \in BindType
    BY <2>2, LenProperties, ElementOfSeq
  <2>5. bound[k].what \in Seq(STRING)
    BY <2>4 DEF BindType, Names
  <2>6. Denotes(expression) \in Names
    BY <1>1, <2>3, <2>5, ConcatProperties DEF Names
  <2>7. CASE Len(expression) = 1
    <3>1. Tail(expression) = <<>>
      <4>1. Len(Tail(expression)) = 0
        BY <1>1, <2>7, HeadTailProperties
      <4> QED BY <1>1, <4>1, EmptySeq
    <3>2. Denotes(expression) = bound[k].what
      BY <2>3, <2>5, <3>1, ConcatEmptySeq
    <3>3. /\ expression[1] \in DOMAIN bindings
          /\ bindings[expression[1]] = bound[k].what
      BY <2>2, <2>7 DEF TableAgrees, OnlyBinder
    <3> QED BY <2>6, <2>7, <3>2, <3>3 DEF Binding, Meanings
  <2>8. CASE Len(expression) # 1
    <3>1. Denotes(expression) = <<expression[1]>> \o Tail(expression)
      BY <2>2, <2>3, <2>8
    <3>2. <<expression[1]>> \o Tail(expression) = expression
      BY <1>1
    <3> QED BY <2>6, <2>8, <3>1, <3>2 DEF Meanings
  <2> QED BY <2>7, <2>8
<1> QED BY <1>3, <1>4

MeaningVisiting ==
    /\ Visiting
    /\ Meant(edges, meant) /\ Agree(edges, meant)
    /\ bound \in Seq(BindType) /\ TableAgrees(bound, bindings)

MeaningKept ==
    /\ Meant(edges', meant') /\ Agree(edges', meant')
    /\ bound' \in Seq(BindType) /\ TableAgrees(bound', bindings')

LEMMA MeaningTypes ==
    ASSUME MeaningVisiting
    PROVE  /\ edges \in Seq(EdgeType) /\ VisitorInv /\ file \in DOMAIN Files
           /\ Module \in Names /\ Current \in Names
BY ModuleIsName, CurrentIsName DEF MeaningVisiting, Visiting, Collected, VisitorInv

\* A statement that binds a name, and no import.
LEMMA DefinitionBinds ==
    ASSUME MeaningVisiting, NEW name \in STRING, NEW what \in Names
    PROVE  LET more == Append(bound, Bind(name, what, "def"))
           IN  more \in Seq(BindType) /\ TableAgrees(more, bindings)
<1> DEFINE b == Bind(name, what, "def")
<1>1. b \in BindType /\ b.by = "def"
  BY DEF Bind, BindType
<1> HIDE DEF b
<1>2. /\ Append(bound, b) \in Seq(BindType)
      /\ TableAgrees(Append(bound, b), bindings)
  BY <1>1, OneMoreBinder DEF MeaningVisiting
<1> QED BY <1>2 DEF b

\* The new edges of a statement, and what they mean.
LEMMA ListsAgree ==
    ASSUME NEW n \in Nat, NEW list, NEW what,
           list = [i \in 1 .. n |-> list[i]], what = [i \in 1 .. n |-> what[i]],
           \A i \in 1 .. n : /\ list[i] \in EdgeType /\ what[i] \in Meanings
                             /\ what[i] # None => /\ list[i].target = what[i]
                                                  /\ list[i].unresolved = None
    PROVE  list \in Seq(EdgeType) /\ Meant(list, what) /\ Agree(list, what)
<1> HIDE DEF EdgeType, Meanings
<1>1. list \in Seq(EdgeType) /\ Len(list) = n /\ DOMAIN list = 1 .. n
  BY IsASeq
<1>2. what \in Seq(Meanings) /\ Len(what) = n
  BY IsASeq
<1> QED BY <1>1, <1>2 DEF Meant, Agree

LEMMA MeaningClassDef ==
    ASSUME MeaningVisiting, NEW name \in Classes, NEW bases \in Bases,
           VisitClassDef(name, bases)
    PROVE  MeaningKept
<1> DEFINE qualified == Append(Current, name)
           list == [i \in DOMAIN bases |->
                        Edge("INHERITS", qualified, Binding(bases[i], bases[i]))]
           what == [i \in DOMAIN bases |-> Denotes(bases[i])]
<1>1. /\ edges' = edges \o list /\ meant' = meant \o what /\ UNCHANGED bindings
      /\ bound' = Append(bound, Bind(name, qualified, "def"))
  BY DEF VisitClassDef
<1>2. qualified \in Names /\ name \in STRING /\ edges \in Seq(EdgeType) /\ VisitorInv
  BY MeaningTypes, OneMorePart, EvidenceConstants
<1>3. /\ bases \in Seq(Names \ {<<>>}) /\ Len(bases) \in Nat
      /\ DOMAIN bases = 1 .. Len(bases)
  BY EvidenceConstants, LenProperties
<1>4. ASSUME NEW i \in 1 .. Len(bases)
      PROVE  /\ list[i] \in EdgeType /\ what[i] \in Meanings
             /\ what[i] # None => list[i].target = what[i] /\ list[i].unresolved = None
  <2> DEFINE base == bases[i]
             target == Binding(base, base)
  <2>1. base \in Names \ {<<>>}
    BY <1>3, ElementOfSeq
  <2> HIDE DEF base
  <2>2. /\ Denotes(base) \in Meanings
        /\ Denotes(base) # None => target = Denotes(base)
    <3>1. Len(base) # 1 => target = base
      BY DEF Binding
    <3> QED BY <2>1, <3>1, DenotesIs DEF MeaningVisiting
  <2>3. target \in Names
    BY <1>2, <2>1, BindingIsName
  <2> HIDE DEF target, qualified
  <2>4. Edge("INHERITS", qualified, target) \in EdgeType
    BY <1>2, <2>3, NewEdge
  <2>5. /\ Edge("INHERITS", qualified, target).target = target
        /\ Edge("INHERITS", qualified, target).unresolved = None
    BY DEF Edge
  <2>6. list[i] = Edge("INHERITS", qualified, target) /\ what[i] = Denotes(base)
    BY <1>3 DEF target, base
  <2> HIDE DEF list, what
  <2> QED BY <2>2, <2>4, <2>5, <2>6
<1>5. list = [i \in 1 .. Len(bases) |-> list[i]] /\ what = [i \in 1 .. Len(bases) |-> what[i]]
  BY <1>3
<1> HIDE DEF list, what, qualified
<1>6. list \in Seq(EdgeType) /\ Meant(list, what) /\ Agree(list, what)
  BY <1>3, <1>4, <1>5, ListsAgree
<1>7. Meant(edges', meant') /\ Agree(edges', meant')
  BY <1>1, <1>2, <1>6, MoreMeanings DEF MeaningVisiting
<1> QED BY <1>1, <1>2, <1>7, DefinitionBinds DEF MeaningKept

\* What the two import statements have in common.
LEMMA MeaningImports ==
    ASSUME MeaningVisiting, NEW binding \in STRING, NEW target \in Names,
           NEW m \in Meanings, m # None => m = target,
           NEW b \in BindType, b.name = binding, b.by = "import" => b.what = target,
           bindings' = Rebound(binding, target), bound' = Append(bound, b),
           edges' = Append(edges, Edge("IMPORTS", Module, target)),
           meant' = Append(meant, m)
    PROVE  MeaningKept
<1> DEFINE e == Edge("IMPORTS", Module, target)
<1>1. e \in EdgeType /\ e.target = target /\ e.unresolved = None
  <2>1. e \in EdgeType
    BY MeaningTypes, NewEdge
  <2> QED BY <2>1 DEF Edge
<1> HIDE DEF e
<1>2. Meant(edges', meant') /\ Agree(edges', meant')
  BY <1>1, MeaningTypes, OneMoreMeaning DEF MeaningVisiting, e
<1>3. /\ binding \in DOMAIN bindings' /\ bindings'[binding] = target
      /\ \A n \in DOMAIN bindings : n # binding => n \in DOMAIN bindings'
                                                   /\ bindings'[n] = bindings[n]
  BY DEF Rebound
<1>4. bound' \in Seq(BindType) /\ TableAgrees(bound', bindings')
  BY <1>3, OneMoreBinder DEF MeaningVisiting
<1> QED BY <1>2, <1>4 DEF MeaningKept

LEMMA MeaningImport ==
    ASSUME MeaningVisiting, NEW i \in Imports, VisitImport(i[1], i[2])
    PROVE  MeaningKept
<1> DEFINE target  == i[1]  alias == i[2]
           binding == IF alias = None THEN target[1] ELSE alias
           b == IF alias = None
                THEN Bind(binding, <<binding>>, IF Len(target) = 1 THEN "import" ELSE "package")
                ELSE Bind(binding, target, "import")
<1>1. target \in Names \ {<<>>} /\ alias \in STRING \cup {None}
  BY EvidenceConstants
<1>2. /\ bindings' = Rebound(binding, target) /\ bound' = Append(bound, b)
      /\ edges' = Append(edges, Edge("IMPORTS", Module, target))
      /\ meant' = Append(meant, target)
  BY DEF VisitImport
<1> HIDE DEF target, alias
<1>3. /\ target[1] \in STRING /\ Len(target) \in Nat
      /\ Len(target) = 1 => target = <<target[1]>>
  <2>1. target \in Seq(STRING) /\ target # <<>>
    BY <1>1 DEF Names
  <2>2. Len(target) \in Nat \ {0} /\ target[1] \in STRING
    BY <2>1, EmptySeq, ElementOfSeq
  <2>3. ASSUME Len(target) = 1 PROVE target = <<target[1]>>
    <3> DEFINE one == <<target[1]>>
    <3>1. one \in Seq(STRING) /\ Len(one) = 1 /\ one[1] = target[1]
      BY <2>2
    <3> HIDE DEF one
    <3>2. target = one
      BY <2>1, <2>3, <3>1, SeqEqual
    <3> QED BY <3>2 DEF one
  <2> QED BY <2>2, <2>3
<1>4. binding \in STRING
  BY <1>1, <1>3
<1> HIDE DEF binding
<1>5. target \in Names /\ target \in Meanings /\ <<binding>> \in Names
  <2>1. target \in Names /\ target \in Meanings
    BY <1>1 DEF Meanings
  <2> QED BY <1>4, <2>1, OnePart
<1>6. b \in BindType /\ b.name = binding /\ (b.by = "import" => b.what = target)
  <2>1. CASE alias = None
    <3>1. binding = target[1]
      BY <2>1 DEF binding
    <3>2. b = Bind(binding, <<binding>>, IF Len(target) = 1 THEN "import" ELSE "package")
      BY <2>1
    <3> QED BY <1>3, <1>4, <1>5, <3>1, <3>2 DEF Bind, BindType
  <2>2. CASE alias # None
    <3>1. b = Bind(binding, target, "import")
      BY <2>2
    <3> QED BY <1>4, <1>5, <3>1 DEF Bind, BindType
  <2> QED BY <2>1, <2>2
<1> HIDE DEF b
<1> QED BY <1>2, <1>4, <1>5, <1>6, MeaningImports

\* The module a relative import names, as Python and as the visitor count levels.
LEMMA ImportedIs ==
    ASSUME file \in DOMAIN Files, NEW level \in Nat, NEW from \in Names
    PROVE  /\ Imported(level, from) \in Names
           /\ InPackage(level, from) => AbsoluteModule(level, from) = Imported(level, from)
<1> DEFINE path == Files[file]
           directory == Front(path)
<1>1. path \in Seq(STRING) /\ Len(path) \in Nat
  BY PathIsName, LenProperties DEF Names
<1>2. CASE level = 0
  BY <1>2 DEF Imported, AbsoluteModule
<1>3. CASE level # 0
  <2>1. /\ directory \in Seq(STRING) /\ Len(directory) \in Nat
        /\ path # <<>> => Len(directory) = Len(path) - 1
    <3>1. Len(path) - 1 \in Int /\ 1 \in Int /\ path \in Seq(STRING)
      BY <1>1
    <3>2. \A n \in 1 .. Len(path) - 1 : path[n] \in STRING
      BY <1>1, ElementOfSeq
    <3> HIDE DEF path
    <3> DEFINE front == SubSeq(path, 1, Len(path) - 1)
    <3>3. /\ front \in Seq(STRING)
          /\ Len(front) = IF 1 <= Len(path) - 1 THEN Len(path) - 1 - 1 + 1 ELSE 0
      BY <3>1, <3>2, SubSeqProperties
    <3>4. path # <<>> => Len(path) \in Nat \ {0}
      BY <3>1, EmptySeq
    <3>5. directory = front
      BY DEF Front
    <3> HIDE DEF front, directory
    <3> QED BY <1>1, <3>3, <3>4, <3>5
  <2> DEFINE k == Len(directory) - (level - 1)
  <2>2. k \in Int /\ k <= Len(directory)
    BY <1>3, <2>1
  <2>3. Imported(level, from) = SubSeq(directory, 1, k) \o from
    BY <1>3 DEF Imported
  <2>4. SubSeq(directory, 1, k) \in Seq(STRING)
    <3>1. \A n \in 1 .. k : directory[n] \in STRING
      BY <2>1, <2>2, ElementOfSeq
    <3> HIDE DEF directory, k
    <3> QED BY <2>2, <3>1, SubSeqProperties
  <2>5. Imported(level, from) \in Names
    BY <2>3, <2>4, JoinedNames DEF Names
  <2>6. ASSUME InPackage(level, from) PROVE AbsoluteModule(level, from) = Imported(level, from)
    <3>0. IsPackage(Root)
      BY DEF IsPackage, Root, Last
    <3>1. level <= Len(path) /\ (IsPackage(path) \/ Len(path) > 1)
      BY <1>3, <2>6 DEF InPackage
    <3>2. Package = directory
      <4>1. CASE IsPackage(path)
        BY <4>1 DEF Package
      <4>2. CASE ~IsPackage(path)
        <5>1. path # Root
          BY <4>2, <3>0
        <5>2. Module = path
          BY <4>2, <5>1 DEF Module, ModuleName
        <5> QED BY <3>1, <4>2, <5>2 DEF Package
      <4> QED BY <4>1, <4>2
    <3>3. Len(directory) = Len(path) - 1
      BY <1>3, <2>1, <3>1
    <3>4. (IF Len(directory) > level - 1 THEN Len(directory) - (level - 1) ELSE 0) = k
      BY <1>1, <1>3, <2>1, <3>1, <3>3
    <3>5. AbsoluteModule(level, from)
            = SubSeq(directory, 1, IF Len(directory) > level - 1
                                   THEN Len(directory) - (level - 1) ELSE 0) \o from
      BY <1>3, <3>2 DEF AbsoluteModule
    <3> HIDE DEF directory, k
    <3> QED BY <2>3, <3>4, <3>5
  <2> QED BY <2>5, <2>6
<1> QED BY <1>2, <1>3

LEMMA MeaningImportFrom ==
    ASSUME MeaningVisiting, NEW i \in FromImports, VisitImportFrom(i[1], i[2], i[3], i[4])
    PROVE  MeaningKept
<1> DEFINE level == i[1]  from == i[2]  name == i[3]  alias == i[4]
           binding == IF alias = None THEN name ELSE alias
           target  == Append(AbsoluteModule(level, from), name)
           what    == Append(Imported(level, from), name)
           m == IF InPackage(level, from) THEN what ELSE None
           b == Bind(binding, what, IF InPackage(level, from) THEN "import" ELSE "def")
<1>1. level \in Nat /\ from \in Names /\ name \in STRING /\ alias \in STRING \cup {None}
  BY EvidenceConstants
<1>2. /\ bindings' = Rebound(binding, target) /\ bound' = Append(bound, b)
      /\ edges' = Append(edges, Edge("IMPORTS", Module, target))
      /\ meant' = Append(meant, m)
  BY DEF VisitImportFrom
<1> HIDE DEF level, from, name, alias
<1>3. binding \in STRING
  BY <1>1
<1>4. target \in Names /\ what \in Names /\ (InPackage(level, from) => what = target)
  BY <1>1, MeaningTypes, AbsoluteModuleIsName, ImportedIs, OneMorePart
<1> HIDE DEF binding, target, what
<1>5. m \in Meanings /\ (m # None => m = target)
  BY <1>4 DEF Meanings
<1>6. b \in BindType /\ b.name = binding /\ (b.by = "import" => b.what = target)
  BY <1>3, <1>4 DEF Bind, BindType
<1> HIDE DEF m, b
<1> QED BY <1>2, <1>3, <1>4, <1>5, <1>6, MeaningImports

LEMMA MeaningFunctionDef ==
    ASSUME MeaningVisiting, NEW name \in Classes, NEW list \in Decorators,
           VisitFunctionDef(name, list)
    PROVE  MeaningKept
<1> DEFINE qualified == Append(Current, name)
<1>1. /\ UNCHANGED <<edges, meant, bindings>>
      /\ bound' = Append(bound, Bind(name, qualified, "def"))
  BY DEF VisitFunctionDef
<1>2. qualified \in Names /\ name \in STRING
  BY MeaningTypes, OneMorePart, EvidenceConstants
<1> HIDE DEF qualified
<1> QED BY <1>1, <1>2, DefinitionBinds DEF MeaningKept, MeaningVisiting

LEMMA MeaningAssign ==
    ASSUME MeaningVisiting, NEW name \in Constants, VisitAssign(name)
    PROVE  MeaningKept
<1> DEFINE what == Append(Module, name)
<1>1. /\ UNCHANGED <<edges, meant, bindings>>
      /\ bound' = Append(bound, Bind(name, what, "def"))
  BY DEF VisitAssign
<1>2. what \in Names /\ name \in STRING
  BY MeaningTypes, OneMorePart, EvidenceConstants
<1> HIDE DEF what
<1> QED BY <1>1, <1>2, DefinitionBinds DEF MeaningKept, MeaningVisiting

\* What only a run could tell means nothing here.
LEMMA MeaningDynamicImport ==
    ASSUME MeaningVisiting, VisitDynamicImport
    PROVE  MeaningKept
<1>1. /\ edges' = Append(edges, DynamicEdge) /\ meant' = Append(meant, None)
      /\ UNCHANGED <<bindings, bound>>
  BY DEF VisitDynamicImport
<1>2. DynamicEdge \in EdgeType
  BY MeaningTypes DEF DynamicEdge, EdgeType, Reasons
<1>3. None \in Meanings /\ edges \in Seq(EdgeType)
  BY MeaningTypes DEF Meanings
<1>4. Meant(edges', meant') /\ Agree(edges', meant')
  BY <1>1, <1>2, <1>3, OneMoreMeaning DEF MeaningVisiting
<1> QED BY <1>1, <1>4 DEF MeaningKept, MeaningVisiting

LEMMA MeaningVisit ==
    ASSUME MeaningVisiting, Visit
    PROVE  MeaningKept
<1>1. CASE Leave \/ \E names \in ExportLists : VisitAll(names)
  <2>1. UNCHANGED <<edges, meant, bindings, bound>>
    BY <1>1 DEF Leave, VisitAll
  <2> QED BY <2>1 DEF MeaningKept, MeaningVisiting
<1>2. CASE ~(Leave \/ \E names \in ExportLists : VisitAll(names))
  BY <1>2, MeaningClassDef, MeaningFunctionDef, MeaningAssign, MeaningImport,
     MeaningImportFrom, MeaningDynamicImport DEF Visit
<1> QED BY <1>1, <1>2

\* The exports mean what the table of the whole file says.
LEMMA MeaningEndOfFile ==
    ASSUME MeaningVisiting, EndOfFile
    PROVE  Meant(edges', meant') /\ Agree(edges', meant')
<1> DEFINE list == [i \in DOMAIN exported |->
                        Edge("EXPOSES", Module,
                             Binding(<<exported[i]>>, Append(Module, exported[i])))]
           what == [i \in DOMAIN exported |-> Denotes(<<exported[i]>>)]
<1>1. edges' = edges \o list /\ meant' = meant \o what
  BY DEF EndOfFile
<1>2. /\ exported \in Seq(STRING) /\ VisitorInv /\ Module \in Names
      /\ edges \in Seq(EdgeType)
  BY MeaningTypes DEF VisitorInv
<1>3. Len(exported) \in Nat /\ DOMAIN exported = 1 .. Len(exported)
  BY <1>2, LenProperties
<1>4. ASSUME NEW i \in 1 .. Len(exported)
      PROVE  /\ list[i] \in EdgeType /\ what[i] \in Meanings
             /\ what[i] # None => list[i].target = what[i] /\ list[i].unresolved = None
  <2> DEFINE name == <<exported[i]>>
             own == Append(Module, exported[i])
             target == Binding(name, own)
  <2>1. exported[i] \in STRING
    BY <1>2, ElementOfSeq
  <2>2. own \in Names
    BY <1>2, <2>1, OneMorePart
  <2>3. Len(name) = 1
    OBVIOUS
  <2>4. name \in Names \ {<<>>}
    BY <2>1, OnePart
  <2> HIDE DEF name, own
  <2>5. Denotes(name) \in Meanings /\ (Denotes(name) # None => target = Denotes(name))
    BY <2>3, <2>4, DenotesIs DEF MeaningVisiting
  <2>6. target \in Names
    BY <1>2, <2>2, BindingIsName
  <2> HIDE DEF target
  <2>7. Edge("EXPOSES", Module, target) \in EdgeType
    BY <1>2, <2>6, NewEdge
  <2>8. /\ Edge("EXPOSES", Module, target).target = target
        /\ Edge("EXPOSES", Module, target).unresolved = None
    BY DEF Edge
  <2>9. list[i] = Edge("EXPOSES", Module, target) /\ what[i] = Denotes(name)
    BY <1>3 DEF target, name, own
  <2> HIDE DEF list, what
  <2> QED BY <2>5, <2>7, <2>8, <2>9
<1>5. /\ list = [i \in 1 .. Len(exported) |-> list[i]]
      /\ what = [i \in 1 .. Len(exported) |-> what[i]]
  BY <1>3
<1> HIDE DEF list, what
<1>6. list \in Seq(EdgeType) /\ Meant(list, what) /\ Agree(list, what)
  BY <1>3, <1>4, <1>5, ListsAgree
<1> QED BY <1>1, <1>2, <1>6, MoreMeanings DEF MeaningVisiting

\* Looking a clear name up finds its symbol, or keeps the name.
LEMMA ResolvedIsExact ==
    ASSUME NEW e \in EdgeType, NEW name \in Names, e.target = name, e.unresolved = None
    PROVE  IF name \in SymbolNames
           THEN Resolved(e).status = "RESOLVED" /\ Resolved(e).target = name
           ELSE Resolved(e).status = "UNRESOLVED" /\ Resolved(e).unresolved = name
<1>1. CASE name \in SymbolNames
  <2>1. Resolved(e) = [e EXCEPT !.status = "RESOLVED"]
    BY <1>1 DEF Resolved
  <2> QED BY <1>1, <2>1 DEF EdgeType
<1>2. CASE name \notin SymbolNames
  <2> DEFINE why == IF e.target # <<>> /\ e.target[1] \in RepositoryRoots
                    THEN "local_target_not_extracted" ELSE "external_dependency"
  <2>1. Resolved(e) = [e EXCEPT !.target = None, !.unresolved = e.target,
                                !.status = "UNRESOLVED", !.reason = why]
    BY <1>2 DEF Resolved
  <2> HIDE DEF why
  <2> QED BY <1>2, <2>1 DEF EdgeType
<1> QED BY <1>1, <1>2

LEMMA MeaningResolve ==
    ASSUME EvidenceInv, MeaningInv, Resolve
    PROVE  MeaningInv'
<1>1. /\ stage = "parsing" /\ stage' = "resolved" /\ UNCHANGED <<symbols, meant>>
      /\ edges' = [i \in DOMAIN edges |-> Resolved(edges[i])]
  BY DEF Resolve
<1>2. /\ edges \in Seq(EdgeType) /\ Meant(edges, meant) /\ Agree(edges, meant)
  BY <1>1 DEF EvidenceInv, Collected, MeaningInv
<1>3. /\ Len(edges) \in Nat /\ DOMAIN edges = 1 .. Len(edges) /\ DOMAIN edges' = DOMAIN edges
      /\ edges' \in Seq(EdgeType)
  BY <1>1, <1>2, LenProperties, ResolveKeeps DEF Collected
<1>4. Len(edges') = Len(edges)
  BY <1>3, LenProperties
<1>5. Meant(edges', meant')
  BY <1>1, <1>2, <1>4 DEF Meant
<1>6. SymbolNames' = SymbolNames
  BY <1>1 DEF SymbolNames
<1>7. ASSUME NEW i \in DOMAIN edges, meant[i] # None
      PROVE  IF meant[i] \in SymbolNames
             THEN edges'[i].status = "RESOLVED" /\ edges'[i].target = meant[i]
             ELSE edges'[i].status = "UNRESOLVED" /\ edges'[i].unresolved = meant[i]
  <2>1. edges[i] \in EdgeType
    BY <1>2, <1>3, ElementOfSeq
  <2>2. i \in 1 .. Len(meant) /\ meant \in Seq(Meanings)
    BY <1>2, <1>3 DEF Meant
  <2>3. meant[i] \in Meanings
    BY <2>2, ElementOfSeq
  <2>4. meant[i] \in Names
    BY <1>7, <2>3 DEF Meanings
  <2>5. edges[i].target = meant[i] /\ edges[i].unresolved = None
    BY <1>2, <1>7 DEF Agree
  <2>6. edges'[i] = Resolved(edges[i])
    BY <1>1
  <2> QED BY <2>1, <2>4, <2>5, <2>6, ResolvedIsExact
<1>8. ClearNamesAreExact'
  BY <1>1, <1>3, <1>6, <1>7 DEF ClearNamesAreExact
<1> QED BY <1>1, <1>5, <1>8 DEF MeaningInv

LEMMA MeaningInit == EvidenceInit => MeaningInv
<1> SUFFICES ASSUME EvidenceInit PROVE MeaningInv
  OBVIOUS
<1>1. edges = <<>> /\ meant = <<>> /\ stage = "parsing"
  BY DEF EvidenceInit
<1> QED BY <1>1 DEF MeaningInv, Meant, Agree, ClearNamesAreExact

LEMMA MeaningNext == EvidenceInv /\ MeaningInv /\ [EvidenceNext]_vars => MeaningInv'
<1> SUFFICES ASSUME EvidenceInv, MeaningInv, [EvidenceNext]_vars PROVE MeaningInv'
  OBVIOUS
<1>1. CASE Parse
  <2>1. /\ stage = "parsing" /\ stage' = "visiting" /\ UNCHANGED <<edges, meant>>
        /\ bound' = <<>>
    BY <1>1 DEF Parse
  <2>2. bound' \in Seq(BindType) /\ TableAgrees(bound', bindings')
    BY <2>1 DEF TableAgrees
  <2> QED BY <2>1, <2>2 DEF MeaningInv, ClearNamesAreExact
<1>2. CASE Visit
  <2>1. stage = "visiting" /\ stage' = "visiting"
    BY <1>2 DEF Visit, VisitClassDef, VisitFunctionDef, Leave, VisitAssign, VisitImport,
                VisitImportFrom, VisitDynamicImport, VisitAll, Statement
  <2>2. MeaningVisiting
    BY <2>1 DEF EvidenceInv, Visiting, MeaningInv, MeaningVisiting
  <2>3. MeaningKept
    BY <1>2, <2>2, MeaningVisit
  <2> QED BY <2>1, <2>3 DEF MeaningInv, MeaningKept, ClearNamesAreExact
<1>3. CASE EndOfFile
  <2>1. stage = "visiting" /\ stage' = "parsing"
    BY <1>3 DEF EndOfFile
  <2>2. MeaningVisiting
    BY <2>1 DEF EvidenceInv, Visiting, MeaningInv, MeaningVisiting
  <2>3. Meant(edges', meant') /\ Agree(edges', meant')
    BY <1>3, <2>2, MeaningEndOfFile
  <2> QED BY <2>1, <2>3 DEF MeaningInv, ClearNamesAreExact
<1>4. CASE Resolve
  BY <1>4, MeaningResolve
<1>5. CASE SyntaxError
  <2>1. stage = "parsing" /\ stage' = "parsing" /\ UNCHANGED <<edges, meant>>
    BY <1>5 DEF SyntaxError
  <2> QED BY <2>1 DEF MeaningInv, ClearNamesAreExact
<1>6. CASE PersistSymbols \/ PersistRelationships
  <2>1. /\ stage' \in {"symbols", "refused", "stored"} /\ UNCHANGED <<edges, meant>>
    <3>1. CASE PersistSymbols
      BY <3>1 DEF PersistSymbols
    <3>2. CASE PersistRelationships
      BY <3>2, PersistRelationshipsKeeps DEF PersistRelationships
    <3> QED BY <1>6, <3>1, <3>2
  <2> QED BY <2>1 DEF MeaningInv, ClearNamesAreExact
<1>7. CASE UNCHANGED vars
  <2>1. UNCHANGED <<stage, edges, meant, symbols, bindings, bound>>
    BY <1>7 DEF vars, module
  <2>2. SymbolNames' = SymbolNames
    BY <2>1 DEF SymbolNames
  <2> QED BY <2>1, <2>2 DEF MeaningInv, ClearNamesAreExact
<1> QED BY <1>1, <1>2, <1>3, <1>4, <1>5, <1>6, <1>7 DEF EvidenceNext

\* The invariant of the meanings: before targets are looked up, an edge whose name
\* is clear has what it means as its target, and the visitor's table of imports
\* has, for a name that one import alone binds, the target of that import.
THEOREM MeaningInvariant == EvidenceSpec => [](EvidenceInv /\ MeaningInv)
<1> QED BY InvInit, InvNext, MeaningInit, MeaningNext, PTL DEF EvidenceSpec

\* For any files, statements and order of imports, an edge whose name has one
\* meaning is RESOLVED to it exactly when it was extracted, and keeps it if not.
THEOREM ClearNamesTheorem == EvidenceSpec => []ClearNamesAreExact
<1>1. MeaningInv => ClearNamesAreExact
  BY DEF MeaningInv
<1> QED BY <1>1, MeaningInvariant, PTL
=============================================================================
