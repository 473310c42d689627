------------------------ MODULE GroundedAnswerProofs ------------------------
(***************************************************************************)
(* Theorems about ContextAssembler, for every pool of candidates, contract *)
(* and budget: each candidate is accounted for once, READY means that the  *)
(* slots hold what they must, and the budgets are kept and go to trust.    *)
(* Then about GroundedAnswer, for every question and scan: an answer is    *)
(* true, and complete unless something was cut off, and an abstention has  *)
(* a cause.                                                                *)
(***************************************************************************)
EXTENDS GroundedAnswer, SequenceTheorems, DataLemmas

Omitted == {o[1] : o \in omissions}

\* The candidates are split between those to come, the items and the omissions.
Partition ==
    /\ \A c \in offered : IsCandidate(c)
    /\ IsFiniteSet(offered)
    /\ IsFiniteSet(omissions)
    /\ offered = todo \cup accepted \cup Omitted
    /\ todo \cap accepted = {}
    /\ todo \cap Omitted = {}
    /\ Cardinality(offered)
           = Cardinality(todo) + Cardinality(accepted) + Cardinality(omissions)

\* What passed the precheck: an item of the scan for a required slot.
Admissible(c) ==
    /\ c.scan = ScanId
    /\ c.slot \in Slots
    /\ c.status = "DERIVED" => c.inputRefs

\* The items are admissible; their ids are remembered and differ.
Admitted ==
    /\ \A c \in accepted : Admissible(c) /\ c.id \in seen
    /\ \A c, d \in accepted : c.id = d.id => c = d

\* The gate is the last step, and what it let pass is still so.
Gate ==
    /\ decision # "NONE" => todo = {}
    /\ ReadyIsGrounded

AssemblerInv == Partition /\ Admitted /\ Gate

----------------------------------------------------------------------------
\* A candidate leaves the todo list.
LEMMA TodoShrinks ==
    ASSUME Partition, NEW c \in todo
    PROVE  /\ c \in offered /\ IsCandidate(c)
           /\ IsFiniteSet(todo) /\ IsFiniteSet(accepted)
           /\ Cardinality(todo \ {c}) = Cardinality(todo) - 1
           /\ Cardinality(todo) \in Nat
           /\ Cardinality(accepted) \in Nat
           /\ Cardinality(omissions) \in Nat
           /\ c \notin accepted /\ c \notin Omitted
<1>1. IsFiniteSet(todo) /\ IsFiniteSet(accepted)
  BY FS_Subset DEF Partition
<1>2. Cardinality(todo \ {c}) = Cardinality(todo) - 1
  BY <1>1, FS_RemoveElement
<1> QED BY <1>1, <1>2, FS_CardinalityType DEF Partition

\* One more omission keeps the partition.
LEMMA OmitKeepsPartition ==
    ASSUME Partition, NEW c \in todo, NEW reason,
           Omit(c, reason), todo' = todo \ {c}, offered' = offered
    PROVE  Partition'
<1> DEFINE o == <<c, reason>>
<1>1. o \notin omissions
  BY TodoShrinks DEF Omitted
<1>2. /\ IsFiniteSet(omissions')
      /\ Cardinality(omissions') = Cardinality(omissions) + 1
  BY <1>1, FS_AddElement DEF Omit, Partition
<1>3. Omitted' = Omitted \cup {c}
  <2>1. o[1] = c
    OBVIOUS
  <2>2. Omitted' = {p[1] : p \in omissions \cup {o}}
    BY DEF Omitted, Omit
  <2> HIDE DEF o
  <2>3. {p[1] : p \in omissions \cup {o}} = {p[1] : p \in omissions} \cup {o[1]}
    OBVIOUS
  <2> QED BY <2>1, <2>2, <2>3 DEF Omitted
<1>4. Cardinality(todo') = Cardinality(todo) - 1
  BY TodoShrinks
<1>5. Cardinality(offered')
        = Cardinality(todo') + Cardinality(accepted') + Cardinality(omissions')
  BY <1>2, <1>4, TodoShrinks DEF Partition, Omit
<1> QED BY <1>2, <1>3, <1>5 DEF Partition, Omit

\* One more item keeps the partition.
LEMMA AcceptKeepsPartition ==
    ASSUME Partition, NEW c \in todo, Accept(c)
    PROVE  Partition'
<1>1. Cardinality(accepted') = Cardinality(accepted) + 1
  BY TodoShrinks, FS_AddElement DEF Accept
<1>2. Cardinality(todo') = Cardinality(todo) - 1
  BY TodoShrinks DEF Accept
<1>3. Cardinality(offered')
        = Cardinality(todo') + Cardinality(accepted') + Cardinality(omissions')
  BY <1>1, <1>2, TodoShrinks DEF Partition, Accept
<1>4. Omitted' = Omitted
  BY DEF Omitted, Accept
<1> QED BY <1>3, <1>4 DEF Partition, Accept

----------------------------------------------------------------------------
\* What ReadyIsGrounded asks of a slot.
Grounded(s) ==
    /\ \A c \in ItemsOf(s) : c.scan = ScanId /\ Completeness(c) \notin Weak
    /\ \E c \in ItemsOf(s) :
         /\ c.status = "RECORDED" \/ (c.status = "DERIVED" /\ c.inputRefs)
         /\ c.trust # "GENERATED"
         /\ Completeness(c) = "COMPLETE" \/ s \in EmptyAllowed
    /\ s = UniqueTarget =>
         Cardinality({c \in ItemsOf(s) : /\ c.status # "GENERATED"
                                         /\ c.trust = "EXACT_SYMBOL"
                                         /\ Completeness(c) = "COMPLETE"}) = 1

\* A slot that passes has what ReadyIsGrounded asks for.
LEMMA PassingIsGrounded ==
    ASSUME AssemblerConstants, Partition, Admitted,
           NEW s \in Slots, StatusOf(s) \in Passing
    PROVE  Grounded(s)
<1>1. /\ ItemsOf(s) # {}
      /\ Having(s, "AMBIGUOUS") = {}
      /\ ~(s = UniqueTarget /\ Cardinality(Filling(s, "COMPLETE")) > 1)
      /\ Having(s, "PARTIAL") = {} /\ Having(s, "UNRESOLVED") = {}
      /\ \/ Filling(s, "COMPLETE") # {}
         \/ s \in EmptyAllowed /\ Filling(s, "EMPTY") # {}
  BY DEF StatusOf, Passing
<1>2. \A c \in ItemsOf(s) : c.scan = ScanId /\ Completeness(c) \notin Weak
  <2> SUFFICES ASSUME NEW c \in ItemsOf(s)
               PROVE  c.scan = ScanId /\ Completeness(c) \notin Weak
    OBVIOUS
  <2>1. \A k : Having(s, k) = {} => Completeness(c) # k
    BY DEF Having
  <2>2. c.scan = ScanId
    BY DEF Admitted, Admissible, ItemsOf
  <2> QED BY <1>1, <2>1, <2>2 DEF Weak
<1>3. \A k : \A c \in Filling(s, k) :
        /\ c \in ItemsOf(s) /\ Completeness(c) = k /\ CanFill(s, c)
  BY DEF Filling, Having
<1>4. \A c : CanFill(s, c) =>
        /\ c.status = "RECORDED" \/ (c.status = "DERIVED" /\ c.inputRefs)
        /\ c.trust # "GENERATED"
        /\ s = UniqueTarget => c.trust = "EXACT_SYMBOL"
  BY DEF CanFill
<1>5. \E c \in ItemsOf(s) :
        /\ c.status = "RECORDED" \/ (c.status = "DERIVED" /\ c.inputRefs)
        /\ c.trust # "GENERATED"
        /\ Completeness(c) = "COMPLETE" \/ s \in EmptyAllowed
  BY <1>1, <1>3, <1>4
<1>6. ASSUME s = UniqueTarget
      PROVE  Cardinality({c \in ItemsOf(s) : /\ c.status # "GENERATED"
                                             /\ c.trust = "EXACT_SYMBOL"
                                             /\ Completeness(c) = "COMPLETE"}) = 1
  <2> DEFINE exact == {c \in ItemsOf(s) : /\ c.status # "GENERATED"
                                         /\ c.trust = "EXACT_SYMBOL"
                                         /\ Completeness(c) = "COMPLETE"}
  <2>1. \A c \in ItemsOf(s) : /\ c.status \in Statuses
                              /\ c.status = "DERIVED" => c.inputRefs
    BY DEF ItemsOf, Admitted, Admissible, Partition, IsCandidate
  <2>2. exact = Filling(s, "COMPLETE")
    BY <1>6, <2>1 DEF Filling, Having, CanFill, Statuses
  <2>3. IsFiniteSet(exact)
    BY FS_Subset DEF Partition, ItemsOf
  <2>4. exact # {} /\ ~(Cardinality(exact) > 1)
    BY <1>1, <1>6, <2>2 DEF AssemblerConstants
  <2>5. Cardinality(exact) \in Nat /\ Cardinality(exact) # 0
    BY <2>3, <2>4, FS_CardinalityType, FS_EmptySet
  <2> QED BY <2>4, <2>5
<1> QED BY <1>2, <1>5, <1>6 DEF Grounded

----------------------------------------------------------------------------
LEMMA AdmissibleStays ==
    ASSUME contract' = contract, NEW c
    PROVE  Admissible(c)' <=> Admissible(c)
BY DEF Admissible, Slots

LEMMA InitAssemblerInv == AssemblerConstants /\ Init => AssemblerInv
<1> SUFFICES ASSUME AssemblerConstants, Init PROVE AssemblerInv
  OBVIOUS
<1>1. offered \subseteq Pool
  BY DEF Init, kSubset
<1>2. IsFiniteSet(offered)
  BY <1>1, FS_Subset DEF AssemblerConstants
<1>3. /\ IsFiniteSet({}) /\ Cardinality({}) = 0
      /\ Cardinality(offered) \in Nat
  BY <1>2, FS_EmptySet, FS_CardinalityType
<1>4. Partition
  BY <1>1, <1>2, <1>3 DEF Init, Partition, Omitted
<1>5. Admitted /\ Gate
  BY DEF Init, Admitted, Gate, ReadyIsGrounded
<1> QED BY <1>4, <1>5 DEF AssemblerInv

LEMMA NextAssemblerInv == AssemblerConstants /\ AssemblerInv /\ [Next]_vars => AssemblerInv'
<1> SUFFICES ASSUME AssemblerConstants, AssemblerInv, [Next]_vars PROVE AssemblerInv'
  OBVIOUS
<1> USE DEF AssemblerInv
<1>1. ASSUME NEW c \in todo, Reject(c) PROVE AssemblerInv'
  <2>1. Partition'
    BY <1>1, OmitKeepsPartition DEF Reject
  <2>2. Admitted'
    BY <1>1, AdmissibleStays DEF Reject, Omit, Admitted
  <2>3. Gate'
    BY <1>1 DEF Reject, Omit, Gate, ReadyIsGrounded
  <2> QED BY <2>1, <2>2, <2>3
<1>2. ASSUME NEW c \in todo, DropForBudget(c) PROVE AssemblerInv'
  <2>1. Partition'
    BY <1>2, OmitKeepsPartition DEF DropForBudget
  <2>2. Admitted'
    BY <1>2, AdmissibleStays DEF DropForBudget, Omit, Admitted
  <2>3. Gate'
    BY <1>2 DEF DropForBudget, Omit, Gate, ReadyIsGrounded
  <2> QED BY <2>1, <2>2, <2>3
<1>3. ASSUME NEW c \in todo, Accept(c) PROVE AssemblerInv'
  <2>1. Partition'
    BY <1>3, AcceptKeepsPartition
  <2>2. Admissible(c) /\ c.id \notin seen
    BY <1>3 DEF Accept, Precheck, Admissible
  <2>3. Admitted'
    BY <1>3, <2>2, AdmissibleStays DEF Accept, Admitted
  <2>4. Gate'
    BY <1>3 DEF Accept, Gate, ReadyIsGrounded
  <2> QED BY <2>1, <2>3, <2>4
<1>4. ASSUME Decide PROVE AssemblerInv'
  <2>1. Partition'
    BY <1>4 DEF Decide, Partition, Omitted
  <2>2. Admitted'
    BY <1>4, AdmissibleStays DEF Decide, Admitted
  <2>3. decision' = "READY" => \A s \in Slots : StatusOf(s) \in Passing
    BY <1>4 DEF Decide
  <2>4. ReadyIsGrounded'
    <3>1. Slots' = Slots /\ \A s : ItemsOf(s)' = ItemsOf(s)
      BY <1>4 DEF Decide, Slots, ItemsOf
    <3>2. decision' = "READY" => \A s \in Slots : Grounded(s)
      BY <2>3, PassingIsGrounded
    <3> QED BY <3>1, <3>2 DEF ReadyIsGrounded, Grounded
  <2> QED BY <1>4, <2>1, <2>2, <2>4 DEF Decide, Gate
<1>5. CASE UNCHANGED vars
  <2>1. Partition'
    BY <1>5 DEF vars, Partition, Omitted
  <2>3. Slots' = Slots /\ \A s : ItemsOf(s)' = ItemsOf(s)
    BY <1>5 DEF vars, Slots, ItemsOf
  <2>4. ReadyIsGrounded'
    BY <1>5, <2>3 DEF vars, Gate, ReadyIsGrounded
  <2>5. Gate'
    BY <1>5, <2>4 DEF vars, Gate
  <2>2. Admitted'
    BY <1>5, AdmissibleStays DEF vars, Admitted
  <2> QED BY <2>1, <2>2, <2>5
<1> QED BY <1>1, <1>2, <1>3, <1>4, <1>5 DEF Next

\* The inductive invariant.
THEOREM AssemblerInvariant == Spec => []AssemblerInv
<1>1. Init => AssemblerInv
  BY InitAssemblerInv, AssemblerConstants
<1>2. AssemblerInv /\ [Next]_vars => AssemblerInv'
  BY NextAssemblerInv, AssemblerConstants
<1> QED BY <1>1, <1>2, PTL DEF Spec

\* ContextAssembler.assemble loses no candidate and counts none twice.
THEOREM AccountedForTheorem == Spec => []AccountedFor
<1>1. AssemblerInv => AccountedFor
  BY DEF AssemblerInv, Partition, Admitted, Omitted, AccountedFor
<1> QED BY <1>1, AssemblerInvariant, PTL

\* Whatever retrieval offers, a package is READY only when every slot is grounded.
THEOREM ReadyIsGroundedTheorem == Spec => []ReadyIsGrounded
<1>1. AssemblerInv => ReadyIsGrounded
  BY DEF AssemblerInv, Gate
<1> QED BY <1>1, AssemblerInvariant, PTL

----------------------------------------------------------------------------
(* Budgets.  What an omission for a budget says stays true, because what was *)
(* taken is never given back: the budget that was too small for the candidate *)
(* stays too small for it, and hence for any later one that is no smaller.    *)

\* Each budget that turned a candidate away would do so again.
StillTooMuch ==
    \A o \in omissions :
        /\ o[2] = "ITEM_LIMIT" => Cardinality(accepted) + 1 > MaxItems
        /\ o[2] = "SLOT_TOKEN_BUDGET" =>
              Tokens(ItemsOf(o[1].slot)) + o[1].tokens > MaxTokensPerSlot
        /\ o[2] = "TOTAL_TOKEN_BUDGET" => tokensUsed + o[1].tokens > MaxTokens

\* The candidates were considered in the order of their keys.
InOrder == \A c \in todo : \A p \in accepted \cup Omitted : ~Precedes(c, p)

BudgetInv == BudgetsKept /\ StillTooMuch /\ InOrder /\ BudgetGoesToTrust

\* The tokens of some candidates, as a sum of a function.
LEMMA TokensIsSum ==
    ASSUME NEW S
    PROVE  Tokens(S) = SumFunctionOnSet([c \in S |-> c.tokens], S)
<1> DEFINE w == [c \in S |-> c.tokens]
           P(it) == it = [s \in SUBSET S |->
                            IF s = {} THEN 0
                            ELSE (CHOOSE x \in s : TRUE).tokens
                                 + it[s \ {CHOOSE x \in s : TRUE}]]
<1>1. Tokens(S) = (CHOOSE it : P(it))[S]
  BY DEF Tokens, MapThenSumSet, MapThenFoldSet
<1>2. \A it : P(it) <=> IsSumTable(w, S, it)
  <2> SUFFICES ASSUME NEW it PROVE P(it) <=> IsSumTable(w, S, it)
    OBVIOUS
  <2>1. \A s \in SUBSET S :
          s # {} => w[CHOOSE x \in s : TRUE] = (CHOOSE x \in s : TRUE).tokens
    OBVIOUS
  <2> QED BY <2>1 DEF IsSumTable
<1> HIDE DEF P
<1>3. (CHOOSE it : P(it)) = (CHOOSE it : IsSumTable(w, S, it))
  BY <1>2
<1> QED BY <1>1, <1>3, SumIsChosen

LEMMA TokensOfNone == Tokens({}) = 0
<1> DEFINE w == [c \in {} |-> c.tokens]
<1>1. Tokens({}) = SumFunctionOnSet(w, {})
  BY TokensIsSum
<1> HIDE DEF w
<1> QED BY <1>1, SumUnfolds, FS_EmptySet

\* The tokens of one candidate more.
LEMMA TokensOfMore ==
    ASSUME NEW S, IsFiniteSet(S), NEW c, c \notin S,
           \A d \in S \cup {c} : d.tokens \in Nat
    PROVE  /\ Tokens(S) \in Nat
           /\ Tokens(S \cup {c}) = Tokens(S) + c.tokens
<1> DEFINE v == [d \in S |-> d.tokens]
           w == [d \in S \cup {c} |-> d.tokens]
<1>1. Tokens(S) = SumFunctionOnSet(v, S)
  BY TokensIsSum
<1>2. Tokens(S \cup {c}) = SumFunctionOnSet(w, S \cup {c})
  BY TokensIsSum
<1>3. \A d \in S : v[d] = w[d]
  OBVIOUS
<1>4. \A d \in S \cup {c} : w[d] \in Nat
  OBVIOUS
<1>5. w[c] = c.tokens
  OBVIOUS
<1>6. \A d \in S : v[d] \in Nat
  OBVIOUS
<1> HIDE DEF v, w
<1>7. SumFunctionOnSet(v, S) = SumFunctionOnSet(w, S)
  BY <1>3, SumSame
<1>8. SumFunctionOnSet(w, S \cup {c}) = SumFunctionOnSet(w, S) + w[c]
  BY <1>4, SumAdd
<1>9. SumFunctionOnSet(v, S) \in Nat
  BY <1>6, SumType
<1> QED BY <1>1, <1>2, <1>5, <1>7, <1>8, <1>9

\* Trust is a number, and decides between two candidates of one slot.
LEMMA TrustType == \A c : IsCandidate(c) => Trust(c) \in 1 .. 7
BY DEF IsCandidate, Trust, IndexOf, TrustOrder

LEMMA LessTrusted ==
    ASSUME NEW c, NEW d, IsCandidate(c), IsCandidate(d), c.slot = d.slot,
           ~Precedes(c, d)
    PROVE  ~(Trust(d) > Trust(c))
<1>1. Trust(c) \in 1 .. 7 /\ Trust(d) \in 1 .. 7
  BY TrustType
<1>2. Key(c)[1] = Key(d)[1] /\ Key(c)[2] = Trust(c) /\ Key(d)[2] = Trust(d)
  BY DEF Key
<1>3. 2 \in DOMAIN Key(c) /\ 1 .. 2 - 1 = {1}
  BY DEF Key
<1> QED BY <1>1, <1>2, <1>3 DEF Precedes, Less

\* The same items, the same sums.
LEMMA ItemsStay ==
    ASSUME accepted' = accepted
    PROVE  /\ Tokens(accepted)' = Tokens(accepted)
           /\ \A s : ItemsOf(s)' = ItemsOf(s) /\ Tokens(ItemsOf(s))' = Tokens(ItemsOf(s))
<1>1. \A s : ItemsOf(s)' = ItemsOf(s)
  BY DEF ItemsOf
<1> QED BY <1>1

LEMMA OrderStays ==
    ASSUME contract' = contract, NEW c, NEW d
    PROVE  Precedes(c, d)' <=> Precedes(c, d)
BY DEF Precedes, Key, SlotIndex, Slots, Trust

\* A candidate that is omitted, with the reason the budgets give if it is theirs.
LEMMA OmissionKeepsBudgets ==
    ASSUME AssemblerConstants, AssemblerInv, BudgetInv, contract' = contract,
           NEW c \in todo, First(c), NEW reason, Omit(c, reason), todo' = todo \ {c},
           reason \in BudgetReasons => reason = OverBudget(c)
    PROVE  BudgetInv'
<1> DEFINE o == <<c, reason>>
<1>0. o[1] = c /\ o[2] = reason
  OBVIOUS
<1>1. omissions' = omissions \cup {o} /\ accepted' = accepted /\ tokensUsed' = tokensUsed
  BY DEF Omit
<1>2. Omitted' = Omitted \cup {o[1]}
  <2>1. Omitted' = {p[1] : p \in omissions \cup {o}}
    BY <1>1 DEF Omitted
  <2> HIDE DEF o
  <2>2. {p[1] : p \in omissions \cup {o}} = {p[1] : p \in omissions} \cup {o[1]}
    OBVIOUS
  <2> QED BY <2>1, <2>2 DEF Omitted
<1> HIDE DEF o
<1>3. BudgetsKept'
  BY <1>1, ItemsStay DEF BudgetInv, BudgetsKept, Slots
<1>4. /\ o[2] = "ITEM_LIMIT" => Cardinality(accepted) + 1 > MaxItems
      /\ o[2] = "SLOT_TOKEN_BUDGET" =>
            Tokens(ItemsOf(o[1].slot)) + o[1].tokens > MaxTokensPerSlot
      /\ o[2] = "TOTAL_TOKEN_BUDGET" => tokensUsed + o[1].tokens > MaxTokens
  BY <1>0 DEF BudgetReasons, OverBudget, Exceeded
<1>5. StillTooMuch'
  BY <1>1, <1>4, ItemsStay DEF BudgetInv, StillTooMuch
<1>6. InOrder'
  <2>1. \A d \in todo : ~Precedes(d, c)
    BY DEF First
  <2> QED BY <1>0, <1>1, <1>2, <2>1, OrderStays DEF BudgetInv, InOrder
<1>7. ASSUME NEW d \in ItemsOf(c.slot) PROVE ~(Trust(d) > Trust(c))
  <2>1. d \in accepted /\ d.slot = c.slot
    BY DEF ItemsOf
  <2>2. IsCandidate(c) /\ IsCandidate(d)
    BY <2>1 DEF AssemblerInv, Partition
  <2>3. ~Precedes(c, d)
    BY <2>1 DEF BudgetInv, InOrder
  <2> QED BY <2>1, <2>2, <2>3, LessTrusted
<1>8. BudgetGoesToTrust'
  <2> SUFFICES ASSUME NEW p \in omissions', p[2] \in BudgetReasons,
                      NEW d \in ItemsOf(p[1].slot), Trust(d) > Trust(p[1])
               PROVE  p[2] # "ITEM_LIMIT" /\ d.tokens < p[1].tokens
    BY <1>1, ItemsStay DEF BudgetGoesToTrust, Trust
  <2>1. p # o
    BY <1>0, <1>7
  <2> QED BY <1>1, <2>1 DEF BudgetInv, BudgetGoesToTrust
<1> QED BY <1>3, <1>5, <1>6, <1>8 DEF BudgetInv

\* A candidate that is accepted fits all budgets with what is there already.
LEMMA AcceptKeepsBudgets ==
    ASSUME AssemblerConstants, AssemblerInv, BudgetInv, NEW c \in todo, Accept(c)
    PROVE  BudgetInv'
<1>0. /\ contract' = contract /\ omissions' = omissions
      /\ accepted' = accepted \cup {c} /\ todo' = todo \ {c}
      /\ tokensUsed' = tokensUsed + c.tokens
      /\ Omitted' = Omitted
  BY DEF Accept, Omitted
<1>1. /\ c \notin accepted /\ IsFiniteSet(accepted)
      /\ \A d \in accepted \cup {c} : IsCandidate(d)
      /\ Cardinality(accepted) \in Nat
  BY TodoShrinks DEF AssemblerInv, Partition
<1>2. \A d \in accepted \cup {c} : d.tokens \in Nat
  BY <1>1 DEF IsCandidate
<1>3. Tokens(accepted) \in Nat /\ Tokens(accepted') = Tokens(accepted) + c.tokens
  BY <1>0, <1>1, <1>2, TokensOfMore
<1>4. Cardinality(accepted') = Cardinality(accepted) + 1
  BY <1>0, <1>1, FS_AddElement
<1>5. ASSUME NEW s
      PROVE  /\ IsFiniteSet(ItemsOf(s)) /\ Tokens(ItemsOf(s)) \in Nat
             /\ s # c.slot => ItemsOf(s)' = ItemsOf(s)
             /\ s = c.slot => /\ ItemsOf(s)' = ItemsOf(s) \cup {c}
                              /\ Tokens(ItemsOf(s)') = Tokens(ItemsOf(s)) + c.tokens
  <2>1. IsFiniteSet(ItemsOf(s)) /\ c \notin ItemsOf(s)
    BY <1>1, FS_Subset DEF ItemsOf
  <2>2. \A d \in ItemsOf(s) \cup {c} : d.tokens \in Nat
    BY <1>2 DEF ItemsOf
  <2>3. /\ Tokens(ItemsOf(s)) \in Nat
        /\ Tokens(ItemsOf(s) \cup {c}) = Tokens(ItemsOf(s)) + c.tokens
    BY <2>1, <2>2, TokensOfMore
  <2>4. /\ s # c.slot => ItemsOf(s)' = ItemsOf(s)
        /\ s = c.slot => ItemsOf(s)' = ItemsOf(s) \cup {c}
    BY <1>0 DEF ItemsOf
  <2> QED BY <2>1, <2>3, <2>4
<1>6. /\ Cardinality(accepted) + 1 <= MaxItems
      /\ Tokens(ItemsOf(c.slot)) + c.tokens <= MaxTokensPerSlot
      /\ tokensUsed + c.tokens <= MaxTokens
  <2>1. /\ ~(Cardinality(accepted) + 1 > MaxItems)
        /\ ~(Tokens(ItemsOf(c.slot)) + c.tokens > MaxTokensPerSlot)
        /\ ~(tokensUsed + c.tokens > MaxTokens)
    BY DEF Accept, OverBudget, Exceeded
  <2>2. /\ Cardinality(accepted) \in Nat /\ Tokens(ItemsOf(c.slot)) \in Nat
        /\ c.tokens \in Nat /\ tokensUsed \in Nat
    BY <1>1, <1>2, <1>3, <1>5 DEF BudgetInv, BudgetsKept, AssemblerConstants
  <2>3. MaxItems \in Nat /\ MaxTokens \in Nat /\ MaxTokensPerSlot \in Nat
    BY DEF AssemblerConstants
  <2> QED BY <2>1, <2>2, <2>3
<1>7. \A s : Tokens(ItemsOf(s))' = Tokens(ItemsOf(s)')
  OBVIOUS
<1>8. BudgetsKept'
  <2>1. tokensUsed' = Reserved + Tokens(accepted')
    BY <1>0, <1>2, <1>3 DEF BudgetInv, BudgetsKept, AssemblerConstants
  <2>2. \A s \in Slots' : Tokens(ItemsOf(s))' <= MaxTokensPerSlot
    BY <1>0, <1>6, <1>5, <1>7 DEF BudgetInv, BudgetsKept, Slots
  <2> QED BY <1>0, <1>6, <1>4, <2>1, <2>2 DEF BudgetsKept
<1>9. StillTooMuch'
  <2> SUFFICES ASSUME NEW o \in omissions
               PROVE  /\ o[2] = "ITEM_LIMIT" => Cardinality(accepted') + 1 > MaxItems
                      /\ o[2] = "SLOT_TOKEN_BUDGET" =>
                            Tokens(ItemsOf(o[1].slot)') + o[1].tokens > MaxTokensPerSlot
                      /\ o[2] = "TOTAL_TOKEN_BUDGET" =>
                            tokensUsed' + o[1].tokens > MaxTokens
    BY <1>0, <1>7 DEF StillTooMuch
  <2>1. o[1].tokens \in Nat /\ c.tokens \in Nat
    BY <1>2 DEF AssemblerInv, Partition, Omitted, IsCandidate
  <2>2. tokensUsed \in Nat /\ MaxItems \in Nat /\ MaxTokens \in Nat
          /\ MaxTokensPerSlot \in Nat
    BY <1>3 DEF BudgetInv, BudgetsKept, AssemblerConstants
  <2>3. o[2] = "ITEM_LIMIT" => Cardinality(accepted') + 1 > MaxItems
    BY <1>1, <1>4, <2>2 DEF BudgetInv, StillTooMuch
  <2>4. o[2] = "SLOT_TOKEN_BUDGET" =>
          Tokens(ItemsOf(o[1].slot)') + o[1].tokens > MaxTokensPerSlot
    <3> DEFINE s == o[1].slot
    <3>1. o[2] = "SLOT_TOKEN_BUDGET" => Tokens(ItemsOf(s)) + o[1].tokens > MaxTokensPerSlot
      BY DEF BudgetInv, StillTooMuch
    <3>2. CASE s # c.slot
      BY <1>5, <3>1, <3>2
    <3>3. CASE s = c.slot
      <4>1. Tokens(ItemsOf(s)') = Tokens(ItemsOf(s)) + c.tokens /\ Tokens(ItemsOf(s)) \in Nat
        BY <1>5, <3>3
      <4> QED BY <2>1, <2>2, <3>1, <4>1
    <3> QED BY <3>2, <3>3
  <2>5. o[2] = "TOTAL_TOKEN_BUDGET" => tokensUsed' + o[1].tokens > MaxTokens
    BY <1>0, <2>1, <2>2 DEF BudgetInv, StillTooMuch
  <2> QED BY <2>3, <2>4, <2>5
<1>10. InOrder'
  <2>1. \A d \in todo : ~Precedes(d, c)
    BY DEF Accept, First
  <2> QED BY <1>0, <2>1, OrderStays DEF BudgetInv, InOrder
<1>11. BudgetGoesToTrust'
  <2> SUFFICES ASSUME NEW o \in omissions, o[2] \in BudgetReasons,
                      NEW d \in ItemsOf(o[1].slot)', Trust(d) > Trust(o[1])
               PROVE  o[2] # "ITEM_LIMIT" /\ d.tokens < o[1].tokens
    BY <1>0 DEF BudgetGoesToTrust, Trust
  <2>1. CASE d \in ItemsOf(o[1].slot)
    BY <2>1 DEF BudgetInv, BudgetGoesToTrust
  <2>2. CASE d \notin ItemsOf(o[1].slot)
    <3>1. d = c /\ o[1].slot = c.slot
      BY <1>0, <2>2 DEF ItemsOf
    <3>2. /\ o[2] = "ITEM_LIMIT" => Cardinality(accepted) + 1 > MaxItems
          /\ o[2] = "SLOT_TOKEN_BUDGET" =>
                Tokens(ItemsOf(c.slot)) + o[1].tokens > MaxTokensPerSlot
          /\ o[2] = "TOTAL_TOKEN_BUDGET" => tokensUsed + o[1].tokens > MaxTokens
      BY <3>1 DEF BudgetInv, StillTooMuch
    <3>3. o[1].tokens \in Nat /\ c.tokens \in Nat /\ tokensUsed \in Nat
            /\ Tokens(ItemsOf(c.slot)) \in Nat
      BY <1>2, <1>3, <1>5
         DEF AssemblerInv, Partition, Omitted, IsCandidate, BudgetInv, BudgetsKept,
             AssemblerConstants
    <3>4. MaxItems \in Nat /\ MaxTokens \in Nat /\ MaxTokensPerSlot \in Nat
      BY DEF AssemblerConstants
    <3>5. o[2] # "ITEM_LIMIT"
      BY <1>1, <1>6, <3>2, <3>4
    <3>6. o[2] = "SLOT_TOKEN_BUDGET" => c.tokens < o[1].tokens
      BY <1>6, <3>2, <3>3, <3>4
    <3>7. o[2] = "TOTAL_TOKEN_BUDGET" => c.tokens < o[1].tokens
      BY <1>6, <3>2, <3>3, <3>4
    <3> QED BY <3>1, <3>5, <3>6, <3>7 DEF BudgetReasons
  <2> QED BY <2>1, <2>2
<1> QED BY <1>8, <1>9, <1>10, <1>11 DEF BudgetInv

LEMMA InitBudgetInv == AssemblerConstants /\ Init => BudgetInv
<1> SUFFICES ASSUME AssemblerConstants, Init PROVE BudgetInv
  OBVIOUS
<1>1. accepted = {} /\ omissions = {} /\ tokensUsed = Reserved
  BY DEF Init
<1>2. \A s : ItemsOf(s) = {}
  BY <1>1 DEF ItemsOf
<1>3. BudgetsKept
  BY <1>1, <1>2, TokensOfNone, FS_EmptySet DEF BudgetsKept, AssemblerConstants
<1>4. StillTooMuch /\ InOrder /\ BudgetGoesToTrust
  BY <1>1 DEF StillTooMuch, InOrder, Omitted, BudgetGoesToTrust
<1> QED BY <1>3, <1>4 DEF BudgetInv

LEMMA NextBudgetInv ==
    AssemblerConstants /\ AssemblerInv /\ BudgetInv /\ [Next]_vars => BudgetInv'
<1> SUFFICES ASSUME AssemblerConstants, AssemblerInv, BudgetInv, [Next]_vars
             PROVE  BudgetInv'
  OBVIOUS
<1>1. ASSUME NEW c \in todo, Reject(c) PROVE BudgetInv'
  <2>1. Precheck(c) \notin BudgetReasons
    BY DEF Precheck, BudgetReasons
  <2> QED BY <1>1, <2>1, OmissionKeepsBudgets DEF Reject
<1>2. ASSUME NEW c \in todo, DropForBudget(c) PROVE BudgetInv'
  BY <1>2, OmissionKeepsBudgets DEF DropForBudget
<1>3. ASSUME NEW c \in todo, Accept(c) PROVE BudgetInv'
  BY <1>3, AcceptKeepsBudgets
<1>4. ASSUME UNCHANGED <<contract, todo, accepted, omissions, tokensUsed>>
      PROVE  BudgetInv'
  <2>1. BudgetsKept'
    BY <1>4, ItemsStay DEF BudgetInv, BudgetsKept, Slots
  <2>2. StillTooMuch'
    BY <1>4, ItemsStay DEF BudgetInv, StillTooMuch
  <2>3. InOrder'
    BY <1>4, OrderStays DEF BudgetInv, InOrder, Omitted
  <2>4. BudgetGoesToTrust'
    BY <1>4, ItemsStay DEF BudgetInv, BudgetGoesToTrust, Trust
  <2> QED BY <2>1, <2>2, <2>3, <2>4 DEF BudgetInv
<1>5. ASSUME Decide PROVE BudgetInv'
  BY <1>4, <1>5 DEF Decide
<1>6. CASE UNCHANGED vars
  BY <1>4, <1>6 DEF vars
<1> QED BY <1>1, <1>2, <1>3, <1>5, <1>6 DEF Next

\* The budgets, with what makes them inductive: no budget is given back, and
\* the candidates come in the order of their keys.
THEOREM BudgetInvariant == Spec => []BudgetInv
<1>1. Init => BudgetInv
  BY InitBudgetInv, AssemblerConstants
<1>2. AssemblerInv /\ BudgetInv /\ [Next]_vars => BudgetInv'
  BY NextBudgetInv, AssemblerConstants
<1> QED BY <1>1, <1>2, AssemblerInvariant, PTL DEF Spec

\* However many candidates of whatever size are offered, the package stays
\* within the items, the tokens of each slot and the tokens in all, and
\* token_count is the sum of what it holds and what was reserved.
THEOREM BudgetsKeptTheorem == Spec => []BudgetsKept
<1>1. BudgetInv => BudgetsKept
  BY DEF BudgetInv
<1> QED BY <1>1, BudgetInvariant, PTL

\* No candidate loses its place to one of its slot that is less trusted and
\* needs as much room.
THEOREM BudgetGoesToTrustTheorem == Spec => []BudgetGoesToTrust
<1>1. BudgetInv => BudgetGoesToTrust
  BY DEF BudgetInv
<1> QED BY <1>1, BudgetInvariant, PTL

----------------------------------------------------------------------------
(* From a question to its answer.  First the order of rows: keys of one       *)
(* length, of numbers, are compared like words.                               *)

IsKeyed(rows, keys) == \E n \in Nat : \A row \in rows : keys[row] \in [1 .. n -> Nat]

LEMMA LessIrreflexive ==
    ASSUME NEW n \in Nat, NEW k \in [1 .. n -> Nat]
    PROVE  ~Less(k, k)
BY DEF Less

LEMMA LessTransitive ==
    ASSUME NEW n \in Nat, NEW k \in [1 .. n -> Nat], NEW l \in [1 .. n -> Nat],
           NEW m \in [1 .. n -> Nat], Less(k, l), Less(l, m)
    PROVE  Less(k, m)
<1>1. PICK i \in 1 .. n : k[i] < l[i] /\ \A j \in 1 .. i - 1 : k[j] = l[j]
  BY DEF Less
<1>2. PICK h \in 1 .. n : l[h] < m[h] /\ \A j \in 1 .. h - 1 : l[j] = m[j]
  BY DEF Less
<1>3. CASE i <= h
  <2>1. k[i] < m[i]
    BY <1>1, <1>2, <1>3
  <2>2. \A j \in 1 .. i - 1 : k[j] = m[j]
    BY <1>1, <1>2, <1>3
  <2> QED BY <2>1, <2>2 DEF Less
<1>4. CASE h < i
  <2>1. k[h] < m[h]
    BY <1>1, <1>2, <1>4
  <2>2. \A j \in 1 .. h - 1 : k[j] = m[j]
    BY <1>1, <1>2, <1>4
  <2> QED BY <2>1, <2>2 DEF Less
<1> QED BY <1>3, <1>4

\* The rows that come before one.
Before(row, rows, keys) == {other \in rows : Less(keys[other], keys[row])}

LEMMA BeforeIsFinite ==
    ASSUME NEW rows, IsFiniteSet(rows), NEW keys, NEW row
    PROVE  /\ IsFiniteSet(Before(row, rows, keys))
           /\ Cardinality(Before(row, rows, keys)) \in Nat
           /\ Position(row, rows, keys) = 1 + Cardinality(Before(row, rows, keys))
           /\ Position(row, rows, keys) \in Nat
<1>1. Before(row, rows, keys) \subseteq rows
  BY DEF Before
<1>2. IsFiniteSet(Before(row, rows, keys))
  BY <1>1, FS_Subset
<1>3. Cardinality(Before(row, rows, keys)) \in Nat
  BY <1>2, FS_CardinalityType
<1>4. Position(row, rows, keys) = 1 + Cardinality(Before(row, rows, keys))
  BY DEF Position, Before
<1> QED BY <1>2, <1>3, <1>4

\* Some row is the first.
LEMMA FirstRowExists ==
    ASSUME NEW rows, IsFiniteSet(rows), rows # {}, NEW keys, IsKeyed(rows, keys)
    PROVE  \E row \in rows : Before(row, rows, keys) = {}
<1> DEFINE sizes == {Cardinality(Before(row, rows, keys)) : row \in rows}
<1>1. sizes \subseteq Nat /\ sizes # {}
  BY BeforeIsFinite
<1>2. \E n \in sizes : \A m \in sizes : n <= m
  <2> HIDE DEF sizes
  <2> QED BY <1>1, LeastNatural
<1>3. PICK row \in rows : \A other \in rows :
        Cardinality(Before(row, rows, keys)) <= Cardinality(Before(other, rows, keys))
  BY <1>2
<1>4. PICK n \in Nat : \A other \in rows : keys[other] \in [1 .. n -> Nat]
  BY DEF IsKeyed
<1>5. ASSUME NEW other \in Before(row, rows, keys) PROVE FALSE
  <2>1. other \in rows /\ Less(keys[other], keys[row])
    BY <1>5 DEF Before
  <2>2. Before(other, rows, keys) \subseteq Before(row, rows, keys)
    BY <1>4, <2>1, LessTransitive DEF Before
  <2>3. other \notin Before(other, rows, keys)
    BY <1>4, <2>1, LessIrreflexive DEF Before
  <2>4. Cardinality(Before(other, rows, keys)) < Cardinality(Before(row, rows, keys))
    <3>1. Before(other, rows, keys) # Before(row, rows, keys)
      BY <1>5, <2>3
    <3> QED BY <2>2, <3>1, BeforeIsFinite, FS_Subset
  <2> QED BY <1>3, <2>1, <2>4, BeforeIsFinite
<1> QED BY <1>5

\* A limit that the rows do not pass cuts nothing off.
LEMMA AllRowsAreFirst ==
    ASSUME NEW rows, IsFiniteSet(rows), NEW keys, IsKeyed(rows, keys),
           NEW limit \in Nat, Cardinality(rows) <= limit
    PROVE  FirstRows(rows, keys, limit) = rows
<1> SUFFICES ASSUME NEW row \in rows PROVE Position(row, rows, keys) <= limit
  BY DEF FirstRows
<1>1. PICK n \in Nat : \A other \in rows : keys[other] \in [1 .. n -> Nat]
  BY DEF IsKeyed
<1>2. row \notin Before(row, rows, keys) /\ Before(row, rows, keys) \subseteq rows
  BY <1>1, LessIrreflexive DEF Before
<1>3. Before(row, rows, keys) # rows
  BY <1>2
<1>4. /\ Cardinality(Before(row, rows, keys)) <= Cardinality(rows)
      /\ Cardinality(Before(row, rows, keys)) # Cardinality(rows)
  BY <1>2, <1>3, FS_Subset
<1>5. Cardinality(rows) \in Nat
  BY FS_CardinalityType
<1> QED BY <1>4, <1>5, BeforeIsFinite

\* Where a query has rows its answer has one, and where it has several and the
\* limit allows it, two.
LEMMA SomeRowIsFirst ==
    ASSUME NEW rows, IsFiniteSet(rows), rows # {}, NEW keys, IsKeyed(rows, keys),
           NEW limit \in Nat \ {0}
    PROVE  FirstRows(rows, keys, limit) # {}
<1>1. PICK row \in rows : Before(row, rows, keys) = {}
  BY FirstRowExists
<1>2. Position(row, rows, keys) = 1
  BY <1>1, BeforeIsFinite, FS_EmptySet
<1> QED BY <1>2 DEF FirstRows

LEMMA TwoRowsAreFirst ==
    ASSUME NEW rows, IsFiniteSet(rows), NEW keys, IsKeyed(rows, keys),
           NEW some \in rows, NEW more \in rows, some # more,
           NEW limit \in Nat, limit >= 2
    PROVE  \E r, s \in FirstRows(rows, keys, limit) : r # s
<1>1. PICK r \in rows : Before(r, rows, keys) = {}
  BY FirstRowExists
<1>2. Position(r, rows, keys) = 1
  BY <1>1, BeforeIsFinite, FS_EmptySet
<1> DEFINE rest == rows \ {r}
<1>3. IsFiniteSet(rest) /\ rest # {} /\ IsKeyed(rest, keys)
  <2>1. rest \subseteq rows /\ rest # {}
    OBVIOUS
  <2>2. IsFiniteSet(rest)
    BY <2>1, FS_Subset
  <2>3. IsKeyed(rest, keys)
    BY <2>1 DEF IsKeyed
  <2> QED BY <2>1, <2>2, <2>3
<1>4. PICK s \in rest : Before(s, rest, keys) = {}
  <2> HIDE DEF rest
  <2> QED BY <1>3, FirstRowExists
<1>5. Before(s, rows, keys) \subseteq {r}
  BY <1>4 DEF Before
<1>6. Cardinality(Before(s, rows, keys)) <= 1
  <2>1. IsFiniteSet({r}) /\ Cardinality({r}) = 1
    BY FS_Singleton
  <2> QED BY <1>5, <2>1, FS_Subset
<1>7. Position(s, rows, keys) <= 2
  BY <1>6, BeforeIsFinite
<1>8. r \in FirstRows(rows, keys, limit) /\ s \in FirstRows(rows, keys, limit)
  BY <1>2, <1>4, <1>7, BeforeIsFinite DEF FirstRows
<1> QED BY <1>4, <1>8

LEMMA FirstRowsAreRows ==
    ASSUME NEW rows, NEW keys, NEW limit
    PROVE  FirstRows(rows, keys, limit) \subseteq rows
BY DEF FirstRows

----------------------------------------------------------------------------
(* The rules of the classifier.                                               *)

LEMMA RulesAre ==
    /\ DOMAIN Rules = 1 .. 11
    /\ Rules[1].intent = "UNSUPPORTED_RATIONALE" /\ Rules[1].wording = "why"
    /\ Rules[2].intent = "UNSUPPORTED_RUNTIME" /\ Rules[2].wording = "runtime"
    /\ Rules[3].intent = "UNSUPPORTED_CAPABILITY" /\ Rules[3].wording = "calls"
    /\ Rules[4] = Rule("routes", "LIST_ROUTES", <<"route_symbols">>)
    /\ Rules[5] = Rule("imports", "FIND_IMPORTERS", <<"unique_target", "import_edges">>)
    /\ Rules[6] = Rule("inherits", "FIND_INHERITORS", <<"unique_target", "inheritance_edges">>)
    /\ Rules[7] = Rule("defined", "LOCATE_DEFINITION", <<"unique_target">>)
    /\ Rules[8] = Rule("created", "LOCATE_FRAMEWORK_CONSTRUCTION",
                       <<"framework_construction", "containing_module">>)
    /\ Rules[9] = Rule("functions", "FUNCTIONS_IN_MODULE",
                       <<"unique_module", "function_symbols">>)
    /\ Rules[10] = Rule("symbols", "LIST_SYMBOLS", <<"full_text_evidence">>)
    /\ Rules[11].intent = "UNSUPPORTED_UNKNOWN" /\ Rules[11].wording = "any"
BY DEF Rules, Rule

\* The rule of a question is the first that fits.
LEMMA RuleIsFirst ==
    ASSUME NEW q
    PROVE  \E i \in 1 .. 11 :
             /\ RuleOf(q) = Rules[i]
             /\ \A j \in 1 .. 11 : Rules[j].wording \in q.words \cup {"any"} => i <= j
<1> DEFINE fits == {i \in DOMAIN Rules : Rules[i].wording \in q.words \cup {"any"}}
<1>1. fits \subseteq Nat /\ fits # {} /\ fits \subseteq 1 .. 11
  BY RulesAre
<1>2. RuleOf(q) = Rules[CHOOSE i \in fits : \A j \in fits : i <= j]
  BY DEF RuleOf
<1>3. \A j \in 1 .. 11 : Rules[j].wording \in q.words \cup {"any"} => j \in fits
  BY RulesAre
<1> HIDE DEF fits
<1>4. \E i \in fits : \A j \in fits : i <= j
  BY <1>1, LeastNatural
<1> QED BY <1>1, <1>2, <1>3, <1>4

LEMMA ThirdSlot ==
    ASSUME NEW S, NEW s \in Seq(S), NEW third \in S, NEW t, t = Append(s, third)
    PROVE  /\ t \in Seq(S) /\ Len(t) = Len(s) + 1
           /\ \A i \in 1 .. Len(s) : t[i] = s[i]
           /\ t[Len(s) + 1] = third
OBVIOUS

LEMMA SlotsOfThree ==
    ASSUME NEW S, NEW s \in Seq(S), Len(s) = 2, NEW third \in S,
           NEW t, t = Append(s, third)
    PROVE  /\ 1 \in DOMAIN t /\ 2 \in DOMAIN t
           /\ t[1] = s[1] /\ t[2] = s[2]
           /\ \A j \in DOMAIN t : t[j] = s[1] \/ t[j] = s[2] \/ t[j] = third
<1>1. /\ t \in Seq(S) /\ Len(t) = Len(s) + 1
      /\ \A i \in 1 .. Len(s) : t[i] = s[i]
      /\ t[Len(s) + 1] = third
  BY ThirdSlot
<1>2. DOMAIN t = 1 .. 3
  BY <1>1, LenProperties
<1>3. t[3] = third /\ t[1] = s[1] /\ t[2] = s[2]
  BY <1>1
<1>4. \A j \in 1 .. 3 : j = 1 \/ j = 2 \/ j = 3
  OBVIOUS
<1> QED BY <1>2, <1>3, <1>4

\* The slots of a question for importers, of test files or of any.
ImporterSlots ==
    /\ 1 \in DOMAIN contract.slots /\ 2 \in DOMAIN contract.slots
    /\ contract.slots[1] = "unique_target" /\ contract.slots[2] = "import_edges"
    /\ \A j \in DOMAIN contract.slots :
         \/ contract.slots[j] = "unique_target" \/ contract.slots[j] = "import_edges"
         \/ contract.slots[j] = "file_categories"

\* What is asked of the scan, by the rule that fits the question.
LEMMA ContractIs ==
    ASSUME contract = Contract(question), contract.supported
    PROVE  /\ question.words \cap UnsupportedWordings = {}
           /\ \E i \in 4 .. 10 :
                /\ RuleOf(question) = Rules[i]
                /\ contract.intent = Rules[i].intent
                /\ contract.subject = (IF i = 9 THEN ModuleSubject(question)
                                               ELSE Subject(question))
                /\ i # 5 => contract.slots = Rules[i].slots
                /\ i = 5 => ImporterSlots
<1>1. PICK i \in 1 .. 11 :
        /\ RuleOf(question) = Rules[i]
        /\ \A j \in 1 .. 11 : Rules[j].wording \in question.words \cup {"any"} => i <= j
  BY RuleIsFirst
<1>2. /\ contract.intent = Rules[i].intent
      /\ contract.supported = (Rules[i].intent \notin UnsupportedIntents)
      /\ contract.slots = (IF Rules[i].intent = "FIND_IMPORTERS" /\ "tests" \in question.words
                           THEN Append(Rules[i].slots, "file_categories") ELSE Rules[i].slots)
      /\ contract.subject = (IF Rules[i].intent = "FUNCTIONS_IN_MODULE"
                             THEN ModuleSubject(question) ELSE Subject(question))
  BY <1>1 DEF Contract
<1>3. i \in 4 .. 10
  <2>1. Rules[i].intent \notin UnsupportedIntents
    BY <1>2
  <2>2. i # 1 /\ i # 2 /\ i # 3 /\ i # 11
    BY <2>1, RulesAre DEF UnsupportedIntents
  <2> QED BY <2>2
<1>4. question.words \cap UnsupportedWordings = {}
  <2>1. ~(1 >= i) /\ ~(2 >= i) /\ ~(3 >= i)
    BY <1>3
  <2>2. Rules[1].wording \notin question.words
    BY <1>1, <2>1
  <2>3. Rules[2].wording \notin question.words
    BY <1>1, <2>1
  <2>4. Rules[3].wording \notin question.words
    BY <1>1, <2>1
  <2> QED BY <2>2, <2>3, <2>4, RulesAre DEF UnsupportedWordings
<1>5. Rules[i].intent = "FUNCTIONS_IN_MODULE" <=> i = 9
  BY <1>3, RulesAre DEF Rule
<1>6. Rules[i].intent = "FIND_IMPORTERS" <=> i = 5
  BY <1>3, RulesAre DEF Rule
<1>7. i # 5 => contract.slots = Rules[i].slots
  BY <1>2, <1>6
<1>8. ASSUME i = 5 PROVE ImporterSlots
  <2> DEFINE two   == Rules[i].slots
             names == {"unique_target", "import_edges", "file_categories"}
  <2>1. two = <<"unique_target", "import_edges">>
    BY <1>8, RulesAre DEF Rule
  <2>2. two \in Seq(names) /\ Len(two) = 2
    BY <2>1
  <2>3. two[1] = "unique_target" /\ two[2] = "import_edges"
    BY <2>1
  <2>4. contract.slots = two \/ contract.slots = Append(two, "file_categories")
    BY <1>2
  <2>5. "file_categories" \in names
    OBVIOUS
  <2> HIDE DEF names
  <2>6. CASE contract.slots = two
    <3>1. DOMAIN two = 1 .. 2
      BY <2>2, LenProperties
    <3>2. \A j \in 1 .. 2 : j = 1 \/ j = 2
      OBVIOUS
    <3> HIDE DEF two
    <3> QED BY <2>3, <2>6, <3>1, <3>2 DEF ImporterSlots
  <2> HIDE DEF two
  <2>7. CASE contract.slots = Append(two, "file_categories")
    BY <2>2, <2>3, <2>5, <2>7, SlotsOfThree DEF ImporterSlots
  <2> QED BY <2>4, <2>6, <2>7
<1> QED BY <1>1, <1>2, <1>3, <1>4, <1>5, <1>7, <1>8

LEMMA Unsupported ==
    ASSUME contract = Contract(question), ~contract.supported
    PROVE  Candidates = {}
<1>1. contract.intent \in UnsupportedIntents
  BY DEF Contract
<1> QED BY <1>1 DEF UnsupportedIntents, Candidates

----------------------------------------------------------------------------
(* What retrieval finds.                                                      *)

LEMMA ImageIsFinite ==
    ASSUME NEW S, IsFiniteSet(S), NEW f, f = [x \in S |-> f[x]]
    PROVE  IsFiniteSet({f[x] : x \in S})
<1> DEFINE T == {f[x] : x \in S}
<1>1. f \in [S -> T]
  OBVIOUS
<1>2. \A t \in T : \E x \in S : f[x] = t
  OBVIOUS
<1>3. f \in Surjection(S, T)
  BY <1>1, <1>2 DEF Surjection
<1> QED BY <1>3, FS_Surjection

\* A candidate that passes the precheck, with a type that the sort key can read.
IsOffer(c) ==
    /\ IsCandidate(c) /\ Admissible(c)

\* An exact, recorded candidate for the unique target.
IsTarget(c) ==
    /\ c.slot = "unique_target" /\ c.trust = "EXACT_SYMBOL" /\ c.status = "RECORDED"
    /\ Completeness(c) = "COMPLETE"
    /\ \E s \in Named(Subject(question)) :
         c.artifact = s.id /\ c.tokens = Len(SymbolText[s])

\* A sequence of some words.
IsText(text) == \E W : text \in Seq(W)

LEMMA TextLength == ASSUME NEW text, IsText(text) PROVE Len(text) \in Nat
<1>1. PICK W : text \in Seq(W)
  BY DEF IsText
<1> QED BY <1>1, LenProperties

LEMMA JoinedText ==
    ASSUME NEW s, IsText(s), NEW t, IsText(t)
    PROVE  IsText(s \o t)
<1>1. PICK V : s \in Seq(V)
  BY DEF IsText
<1>2. PICK W : t \in Seq(W)
  BY DEF IsText
<1>3. s \in Seq(V \cup W)
  BY <1>1
<1>4. t \in Seq(V \cup W)
  BY <1>2
<1>5. s \o t \in Seq(V \cup W)
  BY <1>3, <1>4, ConcatProperties
<1> QED BY <1>5 DEF IsText

LEMMA LongerText ==
    ASSUME NEW s \in Texts, NEW word \in STRING
    PROVE  IsText(Append(s, word))
<1>1. Append(s, word) \in Seq(STRING)
  BY AppendProperties DEF Texts
<1> QED BY <1>1 DEF IsText

LEMMA TextsAre ==
    /\ \A n \in DOMAIN WordsOf : IsText(WordsOf[n])
    /\ \A f \in DOMAIN PathWords : IsText(PathWords[f])
    /\ IsText(<<"is", "defined", "in">>)
<1>1. <<"is", "defined", "in">> \in Seq({"is", "defined", "in"})
  OBVIOUS
<1> QED BY <1>1, AnswerConstants DEF IsText, Texts

\* Words are contained where they are, one by one.
IsAt(t, w, i) ==
    /\ i \in Nat /\ i + Len(w) <= Len(t)
    /\ \A k \in 1 .. Len(w) : t[i + k] = w[k]

LEMMA ContainsByWord ==
    ASSUME NEW W, NEW t \in Seq(W), NEW w \in Seq(W)
    PROVE  Contains(t, w) <=> w # <<>> /\ \E i : IsAt(t, w, i)
<1>1. Len(t) \in Nat /\ Len(w) \in Nat
  BY LenProperties
<1>2. ASSUME NEW i \in Nat, i + Len(w) <= Len(t)
      PROVE  SubSeq(t, i + 1, i + Len(w)) = w <=> \A k \in 1 .. Len(w) : t[i + k] = w[k]
  <2> DEFINE part == SubSeq(t, i + 1, i + Len(w))
  <2>1. \A k \in i + 1 .. i + Len(w) : t[k] \in W
    BY <1>1, <1>2, ElementOfSeq
  <2>2. /\ part \in Seq(W)
        /\ Len(part) = IF i + 1 <= i + Len(w) THEN i + Len(w) - (i + 1) + 1 ELSE 0
        /\ \A k \in 1 .. i + Len(w) - (i + 1) + 1 : part[k] = t[i + 1 + k - 1]
    BY <1>1, <2>1, SubSeqProperties
  <2> HIDE DEF part
  <2>3. Len(part) = Len(w)
    BY <1>1, <2>2
  <2>4. \A k \in 1 .. Len(w) : part[k] = t[i + k]
    <3> SUFFICES ASSUME NEW k \in 1 .. Len(w) PROVE part[k] = t[i + k]
      OBVIOUS
    <3>1. k \in 1 .. i + Len(w) - (i + 1) + 1 /\ i + 1 + k - 1 = i + k
      BY <1>1
    <3> QED BY <2>2, <3>1
  <2>5. (\A k \in 1 .. Len(w) : part[k] = w[k]) => part = w
    BY <1>1, <2>2, <2>3, SeqEqual
  <2> QED BY <2>4, <2>5 DEF part
<1>3. \A i : i \in 0 .. Len(t) - Len(w) <=> i \in Nat /\ i + Len(w) <= Len(t)
  BY <1>1
<1> QED BY <1>2, <1>3 DEF Contains, IsAt

\* Words with others before or after them.
LEMMA ContainsIn ==
    ASSUME NEW a, IsText(a), NEW b, IsText(b), NEW w, IsText(w)
    PROVE  /\ Contains(a, w) => Contains(a \o b, w)
           /\ Contains(b, w) => Contains(a \o b, w)
<1> DEFINE c == a \o b
<1>1. PICK W : a \in Seq(W) /\ b \in Seq(W) /\ w \in Seq(W)
  <2>1. PICK A, B, C : a \in Seq(A) /\ b \in Seq(B) /\ w \in Seq(C)
    BY DEF IsText
  <2> DEFINE W == A \cup B \cup C
  <2>2. A \subseteq W /\ B \subseteq W /\ C \subseteq W
    OBVIOUS
  <2> HIDE DEF W
  <2>3. a \in Seq(W)
    BY <2>1, <2>2, SeqMonotonic
  <2>4. b \in Seq(W)
    BY <2>1, <2>2, SeqMonotonic
  <2>5. w \in Seq(W)
    BY <2>1, <2>2, SeqMonotonic
  <2> QED BY <2>3, <2>4, <2>5
<1>2. /\ c \in Seq(W)
      /\ Len(a) \in Nat /\ Len(b) \in Nat /\ Len(w) \in Nat /\ Len(c) = Len(a) + Len(b)
      /\ \A i \in 1 .. Len(a) + Len(b) : c[i] = IF i <= Len(a) THEN a[i] ELSE b[i - Len(a)]
  BY <1>1, ConcatProperties, LenProperties
<1> HIDE DEF c
<1>3. \A t \in Seq(W) : Contains(t, w) <=> w # <<>> /\ \E i : IsAt(t, w, i)
  BY <1>1, ContainsByWord
<1>4. ASSUME Contains(a, w) PROVE Contains(c, w)
  <2>1. PICK i : IsAt(a, w, i)
    BY <1>1, <1>3, <1>4
  <2>2. /\ i \in Nat /\ i + Len(w) <= Len(a) /\ i + Len(w) <= Len(c)
        /\ \A k \in 1 .. Len(w) : a[i + k] = w[k]
    BY <1>2, <2>1 DEF IsAt
  <2>3. ASSUME NEW k \in 1 .. Len(w) PROVE c[i + k] = w[k]
    <3>1. i + k \in 1 .. Len(a) + Len(b) /\ i + k <= Len(a)
      BY <1>2, <2>2
    <3> QED BY <1>2, <2>2, <3>1
  <2>4. w # <<>>
    BY <1>4 DEF Contains
  <2>5. IsAt(c, w, i)
    BY <2>2, <2>3 DEF IsAt
  <2> QED BY <1>2, <1>3, <2>4, <2>5
<1>5. ASSUME Contains(b, w) PROVE Contains(c, w)
  <2>1. PICK i : IsAt(b, w, i)
    BY <1>1, <1>3, <1>5
  <2> DEFINE j == Len(a) + i
  <2>2. /\ i \in Nat /\ i + Len(w) <= Len(b) /\ j \in Nat /\ j + Len(w) <= Len(c)
        /\ \A k \in 1 .. Len(w) : b[i + k] = w[k]
    BY <1>2, <2>1 DEF IsAt
  <2>3. ASSUME NEW k \in 1 .. Len(w) PROVE c[j + k] = w[k]
    <3>1. /\ j + k \in 1 .. Len(a) + Len(b) /\ ~(j + k <= Len(a))
          /\ j + k - Len(a) = i + k
      BY <1>2, <2>2
    <3> QED BY <1>2, <2>2, <3>1
  <2>4. w # <<>>
    BY <1>5 DEF Contains
  <2>5. IsAt(c, w, j)
    BY <2>2, <2>3 DEF IsAt
  <2> HIDE DEF j
  <2> QED BY <1>2, <1>3, <2>4, <2>5
<1> QED BY <1>4, <1>5 DEF c

LEMMA ContainsItself ==
    ASSUME NEW w, IsText(w), w # <<>>
    PROVE  Contains(w, w)
<1>1. PICK W : w \in Seq(W)
  BY DEF IsText
<1>2. Len(w) \in Nat
  BY <1>1, LenProperties
<1>3. IsAt(w, w, 0)
  BY <1>2 DEF IsAt
<1> QED BY <1>1, <1>3, ContainsByWord

LEMMA EvidenceIs ==
    ASSUME NEW item, NEW row, NEW slot \in Slots, NEW trust, NEW rank, NEW text, IsText(text),
           \E i \in DOMAIN TrustOrder : TrustOrder[i] = trust
    PROVE  LET c == Evidence(item, row, slot, trust, rank, text) IN
           /\ IsOffer(c)
           /\ c.id = item /\ c.artifact = row.id /\ c.slot = slot /\ c.trust = trust
           /\ c.file = row.file /\ c.line = row.line /\ c.end = row.end /\ c.text = text
           /\ c.status = "RECORDED" /\ c.tokens = Len(text) /\ c.scan = ScanId
           /\ c.completeness = "COMPLETE" /\ c.resolution = "NONE"
           /\ trust # "HEURISTIC_GRAPH" => Completeness(c) = "COMPLETE"
<1> DEFINE c == Evidence(item, row, slot, trust, rank, text)
<1>1. /\ c.id = item /\ c.artifact = row.id /\ c.slot = slot /\ c.trust = trust
      /\ c.file = row.file /\ c.line = row.line /\ c.end = row.end /\ c.text = text
      /\ c.status = "RECORDED" /\ c.tokens = Len(text) /\ c.scan = ScanId
      /\ c.completeness = "COMPLETE" /\ c.resolution = "NONE"
  BY DEF Evidence
<1>2. Len(text) \in Nat
  BY TextLength
<1> HIDE DEF c
<1>3. IsOffer(c)
  BY <1>1, <1>2 DEF IsOffer, IsCandidate, Statuses, Admissible
<1>4. trust # "HEURISTIC_GRAPH" => Completeness(c) = "COMPLETE"
  BY <1>1 DEF Completeness
<1> QED BY <1>1, <1>3, <1>4 DEF c

LEMMA ItemIdsDiffer ==
    ASSUME NEW k \in {"construction", "category", "relationship", "symbol", "module"},
           NEW l \in {"construction", "category", "relationship", "symbol", "module"},
           NEW m \in 0 .. RowIds - 1, NEW n \in 0 .. RowIds - 1,
           ItemId(k, m) = ItemId(l, n)
    PROVE  k = l /\ m = n
<1>1. Kinds[k] \in 1 .. 5 /\ Kinds[l] \in 1 .. 5 /\ (Kinds[k] = Kinds[l] => k = l)
  BY DEF Kinds
<1>2. RowIds \in Nat
  BY AnswerConstants
<1>3. ASSUME NEW a \in 1 .. 5, NEW b \in 1 .. 5, RowIds * a + m = RowIds * b + n
      PROVE  a = b /\ m = n
  <2>1. CASE a = b
    BY <1>2, <1>3, <2>1
  <2>2. CASE a < b
    <3>1. b = a + 1 \/ b = a + 2 \/ b = a + 3 \/ b = a + 4
      BY <2>2
    <3>2. RowIds * (a + 1) = RowIds * a + RowIds
      BY <1>2
    <3>3. RowIds * (a + 2) = RowIds * a + 2 * RowIds
      BY <1>2
    <3>4. RowIds * (a + 3) = RowIds * a + 3 * RowIds
      BY <1>2
    <3>5. RowIds * (a + 4) = RowIds * a + 4 * RowIds
      BY <1>2
    <3> QED BY <1>2, <1>3, <3>1, <3>2, <3>3, <3>4, <3>5
  <2>3. CASE b < a
    <3>1. a = b + 1 \/ a = b + 2 \/ a = b + 3 \/ a = b + 4
      BY <2>3
    <3>2. RowIds * (b + 1) = RowIds * b + RowIds
      BY <1>2
    <3>3. RowIds * (b + 2) = RowIds * b + 2 * RowIds
      BY <1>2
    <3>4. RowIds * (b + 3) = RowIds * b + 3 * RowIds
      BY <1>2
    <3>5. RowIds * (b + 4) = RowIds * b + 4 * RowIds
      BY <1>2
    <3> QED BY <1>2, <1>3, <3>1, <3>2, <3>3, <3>4, <3>5
  <2> QED BY <2>1, <2>2, <2>3
<1> QED BY <1>1, <1>3 DEF ItemId

KindsOf == {"construction", "category", "relationship", "symbol", "module"}

LEMMA ItemIdsOfKinds ==
    /\ \A k \in KindsOf : \A m, n \in 0 .. RowIds - 1 : ItemId(k, m) = ItemId(k, n) => m = n
    /\ \A k, l \in KindsOf : \A m, n \in 0 .. RowIds - 1 : ItemId(k, m) = ItemId(l, n) => k = l
BY ItemIdsDiffer DEF KindsOf

LEMMA RowsAreKeyed ==
    ASSUME index \in Indexes
    PROVE  /\ IsKeyed(index.symbols, ByName) /\ IsKeyed(index.symbols, ByPlace)
           /\ IsKeyed(index.documents, ByScore)
<1>1. IsScanned(index)
  BY AnswerConstants
<1>2. DOMAIN WordsOf \subseteq Nat /\ DOMAIN PathWords \subseteq Nat
  BY AnswerConstants
<1>3. \A s \in index.symbols : s.qualified \in Nat /\ s.file \in Nat /\ s.line \in Nat
                               /\ s.id \in Nat
  BY <1>1, <1>2 DEF IsScanned, IsPlaced
<1>4. \A d \in index.documents : d.score \in Nat /\ d.file \in Nat /\ d.start \in Nat
                                 /\ d.id \in Nat
  BY <1>1, <1>2 DEF IsScanned
<1>5. \A a, b, c, d \in Nat : <<a, b, c, d>> \in [1 .. 4 -> Nat]
  OBVIOUS
<1>6. \A a, b, c \in Nat : <<a, b, c>> \in [1 .. 3 -> Nat]
  OBVIOUS
<1>7. \A s \in index.symbols : ByName[s] \in [1 .. 4 -> Nat]
  BY <1>3, <1>5 DEF ByName
<1>8. \A s \in index.symbols : ByPlace[s] \in [1 .. 3 -> Nat]
  BY <1>3, <1>6 DEF ByPlace
<1>9. \A d \in index.documents : ByScore[d] \in [1 .. 4 -> Nat]
  BY <1>4, <1>5 DEF ByScore
<1> QED BY <1>7, <1>8, <1>9 DEF IsKeyed

LEMMA FewerAreKeyed ==
    ASSUME NEW rows, NEW keys, IsKeyed(rows, keys), NEW some, some \subseteq rows
    PROVE  IsKeyed(some, keys)
BY DEF IsKeyed

LEMMA SymbolTextsAre ==
    ASSUME index \in Indexes, NEW s \in index.symbols
    PROVE  IsText(SymbolText[s]) /\ IsText(RouteText[s]) /\ IsText(EntryText[s])
<1>1. IsPlaced(s) /\ s.qualified \in DOMAIN WordsOf /\ s.name \in DOMAIN WordsOf
  BY AnswerConstants DEF IsScanned
<1>2. /\ IsText(WordsOf[s.qualified]) /\ IsText(WordsOf[s.name])
      /\ IsText(PathWords[s.file]) /\ IsText(<<"is", "defined", "in">>)
  BY <1>1, TextsAre DEF IsPlaced
<1>3. /\ SymbolText[s] = (WordsOf[s.qualified] \o <<"is", "defined", "in">>) \o PathWords[s.file]
      /\ RouteText[s] = (WordsOf[s.name] \o <<"is", "defined", "in">>) \o PathWords[s.file]
      /\ EntryText[s] = WordsOf[s.qualified] \o PathWords[s.file]
  BY DEF SymbolText, DefinitionText, RouteText, EntryText
<1>4. /\ IsText(WordsOf[s.qualified] \o <<"is", "defined", "in">>)
      /\ IsText(WordsOf[s.name] \o <<"is", "defined", "in">>)
  BY <1>2, JoinedText
<1> QED BY <1>2, <1>3, <1>4, JoinedText

\* The candidate about a symbol.
IsAbout(c, s, slot, text) ==
    /\ IsOffer(c)
    /\ c.id = ItemId("symbol", s.id) /\ c.artifact = s.id /\ c.slot = slot
    /\ c.file = s.file /\ c.line = s.line /\ c.end = s.end /\ c.text = text
    /\ c.trust = "EXACT_SYMBOL" /\ c.status = "RECORDED" /\ c.tokens = Len(text)
    /\ Completeness(c) = "COMPLETE"

LEMMA SymbolCandidatesAre ==
    ASSUME index \in Indexes, NEW rows, rows \subseteq index.symbols, NEW keys,
           NEW slot \in Slots, NEW texts, \A s \in rows : IsText(texts[s])
    PROVE  /\ IsFiniteSet(SymbolCandidates(rows, keys, slot, texts))
           /\ \A c \in SymbolCandidates(rows, keys, slot, texts) :
                \E s \in rows : IsAbout(c, s, slot, texts[s])
           /\ \A s \in rows : \E c \in SymbolCandidates(rows, keys, slot, texts) :
                IsAbout(c, s, slot, texts[s])
           /\ \A c, d \in SymbolCandidates(rows, keys, slot, texts) :
                c.id = d.id => c = d
<1> DEFINE f == [s \in rows |-> Evidence(ItemId("symbol", s.id), s, slot, "EXACT_SYMBOL",
                                         Position(s, rows, keys), texts[s])]
           S == SymbolCandidates(rows, keys, slot, texts)
<1>1. S = {f[s] : s \in rows}
  BY DEF SymbolCandidates
<1>2. \E i \in DOMAIN TrustOrder : TrustOrder[i] = "EXACT_SYMBOL"
  <2>1. 2 \in DOMAIN TrustOrder /\ TrustOrder[2] = "EXACT_SYMBOL"
    BY DEF TrustOrder
  <2> QED BY <2>1
<1>3. \A s \in rows : IsAbout(f[s], s, slot, texts[s])
  <2> SUFFICES ASSUME NEW s \in rows PROVE IsAbout(f[s], s, slot, texts[s])
    OBVIOUS
  <2>1. f[s] = Evidence(ItemId("symbol", s.id), s, slot, "EXACT_SYMBOL",
                        Position(s, rows, keys), texts[s])
    OBVIOUS
  <2> HIDE DEF f
  <2> QED BY <1>2, <2>1, EvidenceIs DEF IsAbout
<1>4. IsFiniteSet(rows)
  BY AnswerConstants, FS_Subset DEF IsScanned
<1>5. f = [s \in rows |-> f[s]]
  OBVIOUS
<1> HIDE DEF f, S
<1>6. IsFiniteSet(S)
  BY <1>1, <1>4, <1>5, ImageIsFinite
<1>7. \A c \in S : \E s \in rows : IsAbout(c, s, slot, texts[s])
  BY <1>1, <1>3
<1>8. \A s \in rows : \E c \in S : IsAbout(c, s, slot, texts[s])
  BY <1>1, <1>3
<1>9. ASSUME NEW s \in rows, NEW t \in rows, f[s].id = f[t].id PROVE f[s] = f[t]
  <2>1. f[s].id = ItemId("symbol", s.id) /\ f[t].id = ItemId("symbol", t.id)
    BY <1>3 DEF IsAbout
  <2>2. s.id \in 0 .. RowIds - 1 /\ t.id \in 0 .. RowIds - 1
    BY AnswerConstants DEF IsScanned, IsPlaced
  <2>3. s.id = t.id
    <3>1. "symbol" \in KindsOf
      BY DEF KindsOf
    <3> QED BY <1>9, <2>1, <2>2, <3>1, ItemIdsOfKinds
  <2>4. s = t
    BY <2>3, AnswerConstants DEF IsScanned
  <2> QED BY <2>4
<1>10. \A c, d \in S : c.id = d.id => c = d
  BY <1>1, <1>9
<1> QED BY <1>6, <1>7, <1>8, <1>10 DEF S

----------------------------------------------------------------------------
(* What retrieval offers is sound: admissible, and told apart by its ids; it  *)
(* cites what was asked for, covers it when nothing is cut off, offers two    *)
(* targets when there are several, and is enough for an answer the scan has.  *)

IsSound(S) ==
    /\ IsFiniteSet(S)
    /\ \A c \in S : IsOffer(c)
    /\ \A c, d \in S : c.id = d.id => c = d \/ c.slot = "file_categories"

\* The framework a question about a construction is about.
Framework == IF Subject(question) = NoName THEN DefaultFramework ELSE Subject(question)

IsAsked(c) ==
    IF Asks("created") THEN <<c.file, c.line>> \in Constructions(Framework)
    ELSE <<c.artifact, c.file, c.line>> \in AnswerRows

ToClaim(c) == c.slot = ClaimSlot[contract.intent]

Cites(S) == \A c \in S : ToClaim(c) => IsAsked(c)

Covers(S) ==
    RowsUncut /\ TargetIsUnique =>
        \A r \in AnswerRows : \E c \in S : ToClaim(c) /\ c.artifact = r[1]

Targets(S) ==
    contract.intent \in NeedsSubject =>
        /\ \A c \in S : c.slot = "unique_target" => IsTarget(c)
        /\ ~TargetIsUnique /\ ExactLimit >= 2 =>
             /\ \A c \in S : c.slot = "unique_target"
             /\ Named(Subject(question)) # {} => \E c, d \in S : c # d

\* A candidate that can fill its slot.
Fills(c) == Completeness(c) = "COMPLETE" /\ CanFill(c.slot, c)

\* What the claim about a candidate says, the candidate says too.
IsProven(c) ==
    /\ c.line \in Nat /\ c.end \in Nat
    /\ \A words \in EntitiesOf(c) : Contains(c.text, words)
    /\ contract.intent \in {"FIND_IMPORTERS", "FIND_INHERITORS"} =>
         \E e \in index.edges : e.id = c.artifact /\ e.resolution = "RESOLVED"

\* "Where is the application created?"
Unnamed == Asks("created") /\ Subject(question) = NoName

\* The scan has an answer that no limit of retrieval cuts off.
IsRecorded ==
    /\ RowsUncut /\ TargetIsUnique /\ ~Unnamed
    /\ IF Asks("created") THEN Constructions(Subject(question)) # {} /\ InModules
                          ELSE AnswerRows # {}

IsEnough(S) ==
    /\ \A c \in S : Fills(c)
    /\ NamesHaveWords /\ ~Unnamed => \A c \in S : ToClaim(c) => IsProven(c)
    /\ NamesHaveWords /\ IsRecorded => \A slot \in Slots : \E c \in S : c.slot = slot
    /\ TargetIsUnique => \A c, d \in S :
         c.slot = "unique_target" /\ d.slot = "unique_target" => c = d

IsRetrieved(S) == IsSound(S) /\ Cites(S) /\ Covers(S) /\ Targets(S) /\ IsEnough(S)

LEMMA FewerAreSound ==
    ASSUME NEW S, IsSound(S), NEW T, T \subseteq S
    PROVE  IsSound(T)
BY FS_Subset DEF IsSound

LEMMA MoreAreSound ==
    ASSUME NEW S, IsSound(S), NEW T, IsSound(T), \A c \in S, d \in T : c.id # d.id
    PROVE  IsSound(S \cup T)
BY FS_Union DEF IsSound

LEMMA NoneIsSound == IsSound({})
BY FS_EmptySet DEF IsSound

LEMMA SymbolsAreSound ==
    ASSUME index \in Indexes, NEW rows, rows \subseteq index.symbols, NEW keys,
           NEW slot \in Slots, NEW texts, \A s \in rows : IsText(texts[s])
    PROVE  IsSound(SymbolCandidates(rows, keys, slot, texts))
BY SymbolCandidatesAre DEF IsSound, IsAbout

\* The candidates for the claims are about these rows.
AreAbout(S, rows) ==
    /\ \A c \in S : ToClaim(c) => \E r \in rows : /\ c.artifact = r.id
                                                   /\ c.file = r.file
                                                   /\ c.line = r.line
    /\ \A r \in rows : \E c \in S : ToClaim(c) /\ c.artifact = r.id

\* Where the answer is some rows of the scan, and the candidates are about those.
LEMMA RowsAreCovered ==
    ASSUME NEW S, NEW rows, NEW all, AnswerRows = Rows(all), ~Asks("created"),
           AreAbout(S, rows), rows \subseteq all,
           RowsUncut /\ TargetIsUnique => all \subseteq rows
    PROVE  Cites(S) /\ Covers(S)
<1>1. ASSUME NEW c \in S, ToClaim(c) PROVE IsAsked(c)
  <2>1. PICK r \in rows : c.artifact = r.id /\ c.file = r.file /\ c.line = r.line
    BY <1>1 DEF AreAbout
  <2>2. <<r.id, r.file, r.line>> \in Rows(all)
    BY <2>1 DEF Rows
  <2> QED BY <2>1, <2>2 DEF IsAsked
<1>2. ASSUME RowsUncut, TargetIsUnique, NEW r \in AnswerRows
      PROVE  \E c \in S : ToClaim(c) /\ c.artifact = r[1]
  <2>1. PICK x \in all : r = <<x.id, x.file, x.line>>
    BY DEF Rows
  <2>2. x \in rows /\ r[1] = x.id
    BY <1>2, <2>1
  <2> QED BY <2>2 DEF AreAbout
<1> QED BY <1>1, <1>2 DEF Cites, Covers

LEMMA AboutFills ==
    ASSUME NEW c, NEW s, NEW slot, NEW text, IsAbout(c, s, slot, text)
    PROVE  Fills(c)
BY DEF IsAbout, Fills, CanFill

LEMMA RecordedIsClaimed ==
    ASSUME NEW S, Covers(S), IsRecorded, ~Asks("created")
    PROVE  \E c \in S : ToClaim(c)
BY DEF Covers, IsRecorded

\* What the contents of a symbol say.
LEMMA TextsSay ==
    ASSUME index \in Indexes, NamesHaveWords, NEW s \in index.symbols
    PROVE  /\ s.line \in Nat /\ s.end \in Nat
           /\ Contains(SymbolText[s], WordsOf[s.qualified])
           /\ Contains(SymbolText[s], WordsOf[s.name])
           /\ Contains(SymbolText[s], PathWords[s.file])
           /\ \A w : IsText(w) /\ Contains(WordsOf[s.qualified], w) => Contains(SymbolText[s], w)
           /\ Contains(RouteText[s], WordsOf[s.name])
           /\ Contains(RouteText[s], PathWords[s.file])
           /\ Contains(EntryText[s], PathWords[s.file])
<1> DEFINE name == WordsOf[s.name]
           qualified == WordsOf[s.qualified]
           path == PathWords[s.file]
           is == <<"is", "defined", "in">>
<1>1. /\ s.name \in DOMAIN WordsOf /\ s.qualified \in DOMAIN WordsOf
      /\ s.file \in DOMAIN PathWords /\ s.line \in Nat /\ s.end \in Nat
  BY AnswerConstants DEF IsScanned, IsPlaced
<1>2. IsText(name) /\ IsText(qualified) /\ IsText(path) /\ IsText(is)
  BY <1>1, TextsAre
<1>3. /\ IsText(qualified \o is) /\ IsText(name \o is)
      /\ IsText((qualified \o is) \o path) /\ IsText((name \o is) \o path)
  BY <1>2, JoinedText
<1>4. name # <<>> /\ qualified # <<>> /\ path # <<>> /\ Contains(qualified, name)
  BY <1>1 DEF NamesHaveWords
<1>5. /\ SymbolText[s] = (qualified \o is) \o path
      /\ RouteText[s] = (name \o is) \o path
      /\ EntryText[s] = qualified \o path
  BY DEF SymbolText, DefinitionText, RouteText, EntryText
<1> HIDE DEF name, qualified, path, is
<1>6. Contains(name, name) /\ Contains(qualified, qualified) /\ Contains(path, path)
  BY <1>2, <1>4, ContainsItself
<1>7. \A w : IsText(w) /\ Contains(qualified, w) => Contains(qualified \o is, w)
  BY <1>2, ContainsIn
<1>8. Contains(name \o is, name)
  BY <1>2, <1>6, ContainsIn
<1>9. \A w : IsText(w) /\ Contains(qualified, w) => Contains((qualified \o is) \o path, w)
  BY <1>2, <1>3, <1>7, ContainsIn
<1>10. Contains((qualified \o is) \o path, path) /\ Contains(qualified \o path, path)
  BY <1>2, <1>3, <1>6, ContainsIn
<1>11. Contains((name \o is) \o path, name) /\ Contains((name \o is) \o path, path)
  BY <1>2, <1>3, <1>6, <1>8, ContainsIn
<1>12. Contains((qualified \o is) \o path, qualified) /\ Contains((qualified \o is) \o path, name)
  BY <1>2, <1>4, <1>6, <1>9
<1> QED BY <1>1, <1>5, <1>9, <1>10, <1>11, <1>12 DEF name, qualified, path

\* What a question asks for, by its rule.
LEMMA AsksFor ==
    ASSUME NEW i \in 4 .. 10, RuleOf(question) = Rules[i]
    PROVE  /\ Asks("created") <=> i = 8
           /\ i = 4 => AnswerRows = Rows({s \in index.symbols : s.type = "ROUTE"})
           /\ i = 5 => AnswerRows = Rows(UNION {EdgesTo(s, "IMPORTS")
                                                : s \in Named(Subject(question))})
           /\ i = 6 => AnswerRows = Rows(UNION {EdgesTo(s, "INHERITS")
                                                : s \in Named(Subject(question))})
           /\ i = 7 => AnswerRows = Rows(Named(Subject(question)))
           /\ i = 8 => AnswerRows = {}
           /\ i = 9 => AnswerRows = Rows(FunctionsOf(ModuleSubject(question)))
           /\ i = 10 => AnswerRows = Rows({s \in index.symbols :
                                             \/ Subject(question) = NoName
                                             \/ <<Subject(question), s.qualified>> \in Within})
<1>1. \A w : Asks(w) <=> Rules[i].wording = w
  BY DEF Asks
<1>2. /\ i = 4 => Rules[i].wording = "routes"
      /\ i = 5 => Rules[i].wording = "imports"
      /\ i = 6 => Rules[i].wording = "inherits"
      /\ i = 7 => Rules[i].wording = "defined"
      /\ i = 8 => Rules[i].wording = "created"
      /\ i = 9 => Rules[i].wording = "functions"
      /\ i = 10 => Rules[i].wording = "symbols"
  BY RulesAre DEF Rule
<1>3. i = 4 \/ i = 5 \/ i = 6 \/ i = 7 \/ i = 8 \/ i = 9 \/ i = 10
  OBVIOUS
<1>4. Asks("created") <=> i = 8
  BY <1>1, <1>2, <1>3
<1>5. CASE i = 4
  BY <1>1, <1>2, <1>4, <1>5 DEF AnswerRows
<1>6. CASE i = 5
  BY <1>1, <1>2, <1>4, <1>6 DEF AnswerRows
<1>7. CASE i = 6
  BY <1>1, <1>2, <1>4, <1>7 DEF AnswerRows
<1>8. CASE i = 7
  BY <1>1, <1>2, <1>4, <1>8 DEF AnswerRows
<1>9. CASE i = 8
  BY <1>1, <1>2, <1>4, <1>9 DEF AnswerRows
<1>10. CASE i = 9
  BY <1>1, <1>2, <1>4, <1>10 DEF AnswerRows
<1>11. CASE i = 10
  BY <1>1, <1>2, <1>4, <1>11 DEF AnswerRows
<1> QED BY <1>3, <1>5, <1>6, <1>7, <1>8, <1>9, <1>10, <1>11

LEMMA SymbolOfId ==
    ASSUME index \in Indexes, NEW s \in index.symbols
    PROVE  SymbolWithId(s.id) = s
BY AnswerConstants DEF IsScanned, SymbolWithId

\* The routes of the scan.
LEMMA RoutesRetrieved ==
    ASSUME index \in Indexes, contract.intent = "LIST_ROUTES", Slots = {"route_symbols"},
           AnswerRows = Rows({s \in index.symbols : s.type = "ROUTE"}), ~Asks("created")
    PROVE  IsRetrieved(RouteCandidates)
<1> DEFINE all  == {s \in index.symbols : s.type = "ROUTE"}
           rows == FirstRows(all, ByPlace, ListLimit)
<1>1. RouteCandidates = SymbolCandidates(rows, ByPlace, "route_symbols", RouteText)
  BY DEF RouteCandidates
<1>2. rows \subseteq all /\ all \subseteq index.symbols
  BY FirstRowsAreRows
<1>3. \A s \in rows : IsText(RouteText[s])
  BY <1>2, SymbolTextsAre
<1>4. IsFiniteSet(all) /\ IsKeyed(all, ByPlace)
  BY <1>2, RowsAreKeyed, FewerAreKeyed, FS_Subset, AnswerConstants DEF IsScanned
<1>5. ASSUME RowsUncut PROVE all \subseteq rows
  <2>1. Cardinality(all) <= ListLimit
    <3>1. Cardinality(index.symbols) <= ListLimit /\ IsFiniteSet(index.symbols)
      BY <1>5, AnswerConstants DEF RowsUncut, IsScanned
    <3>2. /\ Cardinality(all) <= Cardinality(index.symbols)
          /\ Cardinality(all) \in Nat /\ Cardinality(index.symbols) \in Nat
      BY <1>2, <1>4, <3>1, FS_Subset, FS_CardinalityType
    <3> QED BY <3>1, <3>2, AnswerConstants
  <2> QED BY <1>4, <2>1, AllRowsAreFirst, AnswerConstants
<1>6. ClaimSlot[contract.intent] = "route_symbols" /\ contract.intent \notin NeedsSubject
  BY DEF ClaimSlot, NeedsSubject
<1> HIDE DEF all, rows
<1>7. IsSound(RouteCandidates)
  BY <1>1, <1>2, <1>3, SymbolsAreSound
<1>8. \A c \in RouteCandidates : \E r \in rows : IsAbout(c, r, "route_symbols", RouteText[r])
  BY <1>1, <1>2, <1>3, SymbolCandidatesAre
<1>9. \A r \in rows : \E c \in RouteCandidates : IsAbout(c, r, "route_symbols", RouteText[r])
  BY <1>1, <1>2, <1>3, SymbolCandidatesAre
<1>10. Cites(RouteCandidates) /\ Covers(RouteCandidates)
  <2>1. \A c \in RouteCandidates :
          \E r \in rows : c.artifact = r.id /\ c.file = r.file /\ c.line = r.line
    BY <1>8 DEF IsAbout
  <2>2. \A r \in rows : \E c \in RouteCandidates : ToClaim(c) /\ c.artifact = r.id
    BY <1>6, <1>9 DEF IsAbout, ToClaim
  <2>3. AreAbout(RouteCandidates, rows)
    BY <2>1, <2>2 DEF AreAbout
  <2> QED BY <1>2, <1>5, <2>3, RowsAreCovered DEF all
<1>11. \A c \in RouteCandidates : Fills(c) /\ c.slot = "route_symbols"
  BY <1>8, AboutFills DEF IsAbout
<1>12. ASSUME NamesHaveWords, NEW c \in RouteCandidates PROVE IsProven(c)
  <2>1. PICK r \in rows : IsAbout(c, r, "route_symbols", RouteText[r])
    BY <1>8
  <2>2. r \in index.symbols /\ SymbolWithId(c.artifact) = r
    BY <1>2, <2>1, SymbolOfId DEF IsAbout
  <2>3. EntitiesOf(c) = {WordsOf[r.name], PathWords[r.file]}
    BY <1>6, <2>1, <2>2 DEF EntitiesOf, IsAbout
  <2> QED BY <1>12, <2>1, <2>2, <2>3, TextsSay DEF IsProven, IsAbout
<1>13. IsRecorded => \E c \in RouteCandidates : TRUE
  BY <1>10, RecordedIsClaimed
<1>14. IsEnough(RouteCandidates)
  BY <1>11, <1>12, <1>13 DEF IsEnough
<1> QED BY <1>6, <1>7, <1>10, <1>14 DEF IsRetrieved, Targets

\* An inventory, of all symbols or of those with a name inside theirs.
LEMMA InventoryRetrieved ==
    ASSUME index \in Indexes, contract.intent = "LIST_SYMBOLS",
           Slots = {"full_text_evidence"}, contract.subject = Subject(question),
           AnswerRows = Rows({s \in index.symbols :
                                \/ Subject(question) = NoName
                                \/ <<Subject(question), s.qualified>> \in Within}),
           ~Asks("created")
    PROVE  IsRetrieved(InventoryCandidates)
<1> DEFINE IsIn(s) == \/ Subject(question) = NoName
                      \/ <<Subject(question), s.qualified>> \in Within
           first == FirstRows(index.symbols, ByPlace, ListLimit)
           S     == SymbolCandidates(first, ByPlace, "full_text_evidence", EntryText)
           all   == {s \in index.symbols : IsIn(s)}
           rows  == {s \in first : IsIn(s)}
<1>1. InventoryCandidates = {c \in S : IsIn(SymbolWithId(c.artifact))}
  BY DEF InventoryCandidates
<1>2. first \subseteq index.symbols
  BY FirstRowsAreRows
<1>3. \A s \in first : IsText(EntryText[s])
  BY <1>2, SymbolTextsAre
<1>4. RowsUncut => first = index.symbols
  BY RowsAreKeyed, AllRowsAreFirst, AnswerConstants DEF IsScanned, RowsUncut
<1>5. ClaimSlot[contract.intent] = "full_text_evidence" /\ contract.intent \notin NeedsSubject
  BY DEF ClaimSlot, NeedsSubject
<1>6. rows \subseteq all /\ (RowsUncut => all \subseteq rows)
  BY <1>2, <1>4
<1>7. AnswerRows = Rows(all)
  OBVIOUS
<1>8. \A s : s \in rows <=> s \in first /\ IsIn(s)
  OBVIOUS
<1> HIDE DEF S, first, all, rows, IsIn
<1>9. IsSound(InventoryCandidates)
  BY <1>1, <1>2, <1>3, SymbolsAreSound, FewerAreSound DEF S
<1>10. \A c \in InventoryCandidates :
         \E r \in rows : c.artifact = r.id /\ c.file = r.file /\ c.line = r.line
  <2> SUFFICES ASSUME NEW c \in InventoryCandidates
               PROVE  \E r \in rows : c.artifact = r.id /\ c.file = r.file /\ c.line = r.line
    OBVIOUS
  <2>1. c \in S /\ IsIn(SymbolWithId(c.artifact))
    BY <1>1
  <2>2. PICK s \in first : IsAbout(c, s, "full_text_evidence", EntryText[s])
    BY <1>2, <1>3, <2>1, SymbolCandidatesAre DEF S
  <2>3. c.artifact = s.id /\ c.file = s.file /\ c.line = s.line
    BY <2>2 DEF IsAbout
  <2>4. s \in rows
    BY <1>2, <1>8, <2>1, <2>3, SymbolOfId
  <2> QED BY <2>3, <2>4
<1>11. \A r \in rows : \E c \in InventoryCandidates : ToClaim(c) /\ c.artifact = r.id
  <2> SUFFICES ASSUME NEW r \in rows
               PROVE  \E c \in InventoryCandidates : ToClaim(c) /\ c.artifact = r.id
    OBVIOUS
  <2>1. r \in first /\ IsIn(r)
    BY <1>8
  <2>2. PICK c \in S : IsAbout(c, r, "full_text_evidence", EntryText[r])
    BY <1>2, <1>3, <2>1, SymbolCandidatesAre DEF S
  <2>3. c.artifact = r.id /\ ToClaim(c)
    BY <1>5, <2>2 DEF IsAbout, ToClaim
  <2>4. SymbolWithId(c.artifact) = r
    BY <1>2, <2>1, <2>3, SymbolOfId
  <2> QED BY <1>1, <2>1, <2>3, <2>4
<1>12. Cites(InventoryCandidates) /\ Covers(InventoryCandidates)
  <2>1. AreAbout(InventoryCandidates, rows)
    BY <1>10, <1>11 DEF AreAbout
  <2> QED BY <1>6, <1>7, <2>1, RowsAreCovered
<1>13. ASSUME NEW c \in InventoryCandidates
       PROVE  /\ Fills(c) /\ c.slot = "full_text_evidence"
              /\ NamesHaveWords => IsProven(c)
  <2>1. PICK s \in first : IsAbout(c, s, "full_text_evidence", EntryText[s])
    BY <1>1, <1>2, <1>3, SymbolCandidatesAre DEF S
  <2>2. EntitiesOf(c) = {PathWords[s.file]}
    BY <1>5, <2>1 DEF EntitiesOf, IsAbout
  <2>3. NamesHaveWords => IsProven(c)
    BY <1>2, <2>1, <2>2, TextsSay DEF IsProven, IsAbout
  <2> QED BY <2>1, <2>3, AboutFills DEF IsAbout
<1>14. IsRecorded => \E c \in InventoryCandidates : TRUE
  BY <1>12, RecordedIsClaimed
<1>15. IsEnough(InventoryCandidates)
  BY <1>13, <1>14 DEF IsEnough
<1> QED BY <1>5, <1>9, <1>12, <1>15 DEF IsRetrieved, Targets

\* The functions of a module.
LEMMA FunctionsRetrieved ==
    ASSUME index \in Indexes, contract.intent = "FUNCTIONS_IN_MODULE",
           Slots = {"unique_module", "function_symbols"},
           contract.subject = ModuleSubject(question),
           AnswerRows = Rows(FunctionsOf(ModuleSubject(question))), ~Asks("created")
    PROVE  IsRetrieved(FunctionCandidates)
<1> DEFINE named    == {s \in index.symbols : /\ s.type = "MODULE"
                                              /\ s.qualified = contract.subject}
           modules  == FirstRows(named, ByPlace, 1)
           children == {s \in index.symbols : /\ s.type = "FUNCTION"
                                              /\ \E m \in modules : s.parent = m.id}
           rows     == FirstRows(children, ByName, ListLimit)
           M        == SymbolCandidates(modules, ByPlace, "unique_module", SymbolText)
           F        == SymbolCandidates(rows, ByName, "function_symbols", SymbolText)
           all      == FunctionsOf(ModuleSubject(question))
<1>1. FunctionCandidates = M \cup F
  BY DEF FunctionCandidates
<1>2. modules \subseteq named /\ rows \subseteq children
  BY FirstRowsAreRows
<1>3. named \subseteq index.symbols /\ children \subseteq index.symbols
  OBVIOUS
<1>4. ClaimSlot[contract.intent] = "function_symbols" /\ contract.intent \notin NeedsSubject
  BY DEF ClaimSlot, NeedsSubject
<1>5. \A s, t \in named : s = t
  BY AnswerConstants DEF IsScanned
<1>6. modules = named
  <2>1. IsFiniteSet(named) /\ IsKeyed(named, ByPlace)
    BY <1>3, RowsAreKeyed, FewerAreKeyed, FS_Subset, AnswerConstants DEF IsScanned
  <2> HIDE DEF named
  <2>2. ASSUME named # {} PROVE modules # {}
    BY <2>1, <2>2, SomeRowIsFirst
  <2> HIDE DEF modules
  <2> QED BY <1>2, <1>5, <2>2
<1>7. children = all
  <2>1. \A s : s \in all <=> /\ s \in index.symbols /\ s.type = "FUNCTION"
                             /\ \E m \in named : s.parent = m.id
    BY DEF FunctionsOf
  <2>2. \A s : s \in children <=> /\ s \in index.symbols /\ s.type = "FUNCTION"
                                  /\ \E m \in modules : s.parent = m.id
    OBVIOUS
  <2> HIDE DEF all, children, named, modules
  <2> QED BY <1>6, <2>1, <2>2
<1>8. IsFiniteSet(index.symbols) /\ IsKeyed(index.symbols, ByName)
  BY RowsAreKeyed, AnswerConstants DEF IsScanned
<1>9. \A s \in modules : s.type = "MODULE"
  BY <1>2
<1>10. \A s \in rows : s.type = "FUNCTION"
  BY <1>2
<1> HIDE DEF named, modules, children, rows, M, F, all
<1>11. IsFiniteSet(children) /\ IsKeyed(children, ByName)
  BY <1>3, <1>8, FewerAreKeyed, FS_Subset
<1>12. RowsUncut => rows = all
  <2> SUFFICES ASSUME RowsUncut PROVE rows = children
    BY <1>7
  <2>1. Cardinality(index.symbols) <= ListLimit /\ ListLimit \in Nat
    BY AnswerConstants DEF RowsUncut
  <2>2. /\ Cardinality(children) <= Cardinality(index.symbols)
        /\ Cardinality(children) \in Nat /\ Cardinality(index.symbols) \in Nat
    BY <1>3, <1>8, <1>11, FS_Subset, FS_CardinalityType
  <2>3. Cardinality(children) <= ListLimit
    BY <2>1, <2>2
  <2> QED BY <1>11, <2>1, <2>3, AllRowsAreFirst DEF rows
<1>13. rows \subseteq index.symbols /\ modules \subseteq index.symbols
  BY <1>2, <1>3
<1>14. \A s \in rows \cup modules : IsText(SymbolText[s])
  BY <1>13, SymbolTextsAre
<1>15. \A c \in M : \E s \in modules : IsAbout(c, s, "unique_module", SymbolText[s])
  BY <1>13, <1>14, SymbolCandidatesAre DEF M
<1>16. \A c \in F : \E s \in rows : IsAbout(c, s, "function_symbols", SymbolText[s])
  BY <1>13, <1>14, SymbolCandidatesAre DEF F
<1>17. \A s \in rows : \E c \in F : IsAbout(c, s, "function_symbols", SymbolText[s])
  BY <1>13, <1>14, SymbolCandidatesAre DEF F
<1>18. IsSound(M) /\ IsSound(F)
  BY <1>13, <1>14, SymbolsAreSound DEF M, F
<1>19. ASSUME NEW c \in M, NEW d \in F PROVE c.id # d.id
  <2>1. PICK s \in modules : c.id = ItemId("symbol", s.id)
    BY <1>15 DEF IsAbout
  <2>2. PICK t \in rows : d.id = ItemId("symbol", t.id)
    BY <1>16 DEF IsAbout
  <2>3. s.id \in 0 .. RowIds - 1 /\ t.id \in 0 .. RowIds - 1 /\ (s.id = t.id => s = t)
    BY <1>13, AnswerConstants DEF IsScanned, IsPlaced
  <2>4. s # t
    BY <1>9, <1>10
  <2>5. "symbol" \in KindsOf
    BY DEF KindsOf
  <2> QED BY <2>1, <2>2, <2>3, <2>4, <2>5, ItemIdsOfKinds
<1>20. IsSound(FunctionCandidates)
  BY <1>1, <1>18, <1>19, MoreAreSound
<1>21. ASSUME NEW c \in FunctionCandidates, ToClaim(c)
       PROVE  \E r \in rows : c.artifact = r.id /\ c.file = r.file /\ c.line = r.line
  <2>1. c \notin M
    BY <1>4, <1>15, <1>21 DEF IsAbout, ToClaim
  <2> QED BY <1>1, <1>16, <2>1 DEF IsAbout
<1>22. \A r \in rows : \E c \in FunctionCandidates : ToClaim(c) /\ c.artifact = r.id
  BY <1>1, <1>4, <1>17 DEF IsAbout, ToClaim
<1>23. rows \subseteq all /\ AnswerRows = Rows(all)
  BY <1>2, <1>7 DEF all
<1>24. Cites(FunctionCandidates) /\ Covers(FunctionCandidates)
  <2>1. AreAbout(FunctionCandidates, rows)
    BY <1>21, <1>22 DEF AreAbout
  <2> QED BY <1>12, <1>23, <2>1, RowsAreCovered
<1>25. \A c \in FunctionCandidates : Fills(c) /\ c.slot \in Slots /\ c.slot # "unique_target"
  BY <1>1, <1>15, <1>16, AboutFills DEF IsAbout
<1>26. ASSUME NamesHaveWords, NEW c \in FunctionCandidates, ToClaim(c) PROVE IsProven(c)
  <2>1. PICK s \in rows : IsAbout(c, s, "function_symbols", SymbolText[s])
    <3>1. c \notin M
      BY <1>4, <1>15, <1>26 DEF IsAbout, ToClaim
    <3> QED BY <1>1, <1>16, <3>1
  <2>2. PICK m \in modules : s.parent = m.id
    BY <1>2 DEF children
  <2>3. /\ s \in index.symbols /\ s.type = "FUNCTION" /\ SymbolWithId(c.artifact) = s
        /\ m \in index.symbols /\ m.type = "MODULE"
    BY <1>9, <1>10, <1>13, <2>1, SymbolOfId DEF IsAbout
  <2>4. m.qualified = contract.subject /\ m.qualified \in DOMAIN WordsOf
    BY <1>6, <2>3, AnswerConstants DEF named, IsScanned
  <2>5. EntitiesOf(c) = {WordsOf[s.qualified], WordsOf[m.qualified]}
    BY <1>4, <2>3, <2>4, AnswerConstants DEF EntitiesOf, SubjectWords
  <2>6. Contains(WordsOf[s.qualified], WordsOf[m.qualified]) /\ IsText(WordsOf[m.qualified])
    BY <1>26, <2>2, <2>3, <2>4, TextsAre DEF NamesHaveWords
  <2> QED BY <1>4, <1>26, <2>1, <2>3, <2>5, <2>6, TextsSay DEF IsProven, IsAbout
<1>27. ASSUME IsRecorded, NEW slot \in Slots PROVE \E c \in FunctionCandidates : c.slot = slot
  <2>1. PICK c \in FunctionCandidates : ToClaim(c)
    BY <1>24, <1>27, RecordedIsClaimed
  <2>2. PICK s \in rows : TRUE
    BY <1>21, <2>1
  <2>3. PICK m \in modules : TRUE
    BY <1>2, <2>2 DEF children
  <2>4. \E d \in M : d.slot = "unique_module"
    <3>1. \A r \in modules : \E d \in M : IsAbout(d, r, "unique_module", SymbolText[r])
      BY <1>13, <1>14, SymbolCandidatesAre DEF M
    <3> QED BY <2>3, <3>1 DEF IsAbout
  <2> QED BY <1>1, <1>4, <2>1, <2>4 DEF ToClaim
<1>28. IsEnough(FunctionCandidates)
  BY <1>25, <1>26, <1>27 DEF IsEnough
<1> QED BY <1>4, <1>20, <1>24, <1>28 DEF IsRetrieved, Targets

----------------------------------------------------------------------------
(* Questions about one symbol.                                                *)

\* The symbols with the name of the subject, as candidates for the target.
NamedCandidates ==
    SymbolCandidates(ExactSymbols(contract.subject), ByName, "unique_target", SymbolText)

LEMMA ExactAreNamed ==
    ASSUME index \in Indexes, contract.subject = Subject(question)
    PROVE  LET named == Named(Subject(question))
               exact == ExactSymbols(contract.subject) IN
           /\ named \subseteq index.symbols /\ IsFiniteSet(named)
           /\ exact \subseteq named /\ IsFiniteSet(exact)
           /\ named # {} => exact # {}
           /\ Cardinality(named) <= ExactLimit => exact = named
           /\ ExactLimit >= 2 /\ named # {} /\ Cardinality(named) # 1
                => \E r, s \in exact : r # s
<1> DEFINE named == Named(Subject(question))
           exact == ExactSymbols(contract.subject)
<1>1. exact = FirstRows(named, ByName, ExactLimit)
  BY DEF ExactSymbols, Named
<1>2. named \subseteq index.symbols
  BY DEF Named
<1>3. ExactLimit \in Nat /\ ExactLimit \in Nat \ {0} /\ IsFiniteSet(index.symbols)
  BY AnswerConstants DEF IsScanned
<1> HIDE DEF named, exact
<1>4. IsFiniteSet(named) /\ IsKeyed(named, ByName)
  BY <1>2, <1>3, RowsAreKeyed, FewerAreKeyed, FS_Subset
<1>5. exact \subseteq named /\ IsFiniteSet(exact)
  BY <1>1, <1>4, FirstRowsAreRows, FS_Subset
<1>6. named # {} => exact # {}
  BY <1>1, <1>3, <1>4, SomeRowIsFirst
<1>7. Cardinality(named) <= ExactLimit => exact = named
  BY <1>1, <1>3, <1>4, AllRowsAreFirst
<1>8. ASSUME ExactLimit >= 2, named # {}, Cardinality(named) # 1
      PROVE  \E r, s \in exact : r # s
  <2>1. PICK r \in named : TRUE
    BY <1>8
  <2>2. named # {r}
    BY <1>8, FS_Singleton
  <2>3. PICK s \in named : s # r
    BY <2>1, <2>2
  <2> QED BY <1>1, <1>3, <1>4, <1>8, <2>1, <2>3, TwoRowsAreFirst
<1> QED BY <1>2, <1>4, <1>5, <1>6, <1>7, <1>8 DEF named, exact

LEMMA NamedAreTargets ==
    ASSUME index \in Indexes, contract.subject = Subject(question), "unique_target" \in Slots
    PROVE  /\ IsSound(NamedCandidates)
           /\ \A c \in NamedCandidates :
                /\ c.slot = "unique_target" /\ IsTarget(c)
                /\ \E s \in ExactSymbols(contract.subject) :
                     IsAbout(c, s, "unique_target", SymbolText[s])
           /\ \A s \in ExactSymbols(contract.subject) : \E c \in NamedCandidates :
                IsAbout(c, s, "unique_target", SymbolText[s])
           /\ (\E r, s \in ExactSymbols(contract.subject) : r # s)
                => \E c, d \in NamedCandidates : c # d
<1> DEFINE exact == ExactSymbols(contract.subject)
<1>1. exact \subseteq index.symbols /\ exact \subseteq Named(Subject(question))
  BY ExactAreNamed
<1> HIDE DEF exact
<1>2. \A s \in exact : IsText(SymbolText[s])
  BY <1>1, SymbolTextsAre
<1>3. IsSound(NamedCandidates)
  BY <1>1, <1>2, SymbolsAreSound DEF NamedCandidates, exact
<1>4. \A c \in NamedCandidates :
        \E s \in exact : IsAbout(c, s, "unique_target", SymbolText[s])
  BY <1>1, <1>2, SymbolCandidatesAre DEF NamedCandidates, exact
<1>5. \A s \in exact : \E c \in NamedCandidates :
        IsAbout(c, s, "unique_target", SymbolText[s])
  BY <1>1, <1>2, SymbolCandidatesAre DEF NamedCandidates, exact
<1>6. \A c \in NamedCandidates : c.slot = "unique_target" /\ IsTarget(c)
  BY <1>1, <1>4 DEF IsAbout, IsTarget
<1>7. ASSUME NEW r \in exact, NEW s \in exact, r # s
      PROVE  \E c, d \in NamedCandidates : c # d
  <2>1. PICK c \in NamedCandidates : c.artifact = r.id
    BY <1>5 DEF IsAbout
  <2>2. PICK d \in NamedCandidates : d.artifact = s.id
    BY <1>5 DEF IsAbout
  <2>3. r.id # s.id
    BY <1>1, <1>7, AnswerConstants DEF IsScanned
  <2> QED BY <2>1, <2>2, <2>3
<1> QED BY <1>3, <1>4, <1>5, <1>6, <1>7 DEF exact

LEMMA NamedAreOne ==
    ASSUME index \in Indexes, contract.subject = Subject(question), "unique_target" \in Slots,
           Cardinality(Named(Subject(question))) = 1
    PROVE  \A c, d \in NamedCandidates : c = d
<1> DEFINE named == Named(Subject(question))
           exact == ExactSymbols(contract.subject)
<1>1. IsFiniteSet(named) /\ exact \subseteq named
  BY ExactAreNamed
<1>2. PICK s : named = {s}
  <2> HIDE DEF named
  <2> QED BY <1>1, FS_Singleton DEF named
<1>3. \A c \in NamedCandidates : c.id = ItemId("symbol", s.id)
  BY <1>1, <1>2, NamedAreTargets DEF IsAbout
<1> QED BY <1>3, NamedAreTargets DEF IsSound

\* The name that is asked for is one of a symbol's, and has its words.
LEMMA SubjectHasWords ==
    ASSUME index \in Indexes, contract.subject = Subject(question),
           NEW s \in Named(Subject(question)), NEW default
    PROVE  SubjectWords(default) \in {WordsOf[s.name], WordsOf[s.qualified]}
<1>1. s \in index.symbols /\ contract.subject \in {s.name, s.qualified}
  BY DEF Named
<1>2. contract.subject # NoName
  BY <1>1, AnswerConstants DEF IsScanned
<1> QED BY <1>1, <1>2 DEF SubjectWords

\* Where a symbol is defined.
LEMMA DefinitionsRetrieved ==
    ASSUME index \in Indexes, contract.intent = "LOCATE_DEFINITION",
           Slots = {"unique_target"}, contract.subject = Subject(question),
           RuleOf(question).intent = contract.intent,
           AnswerRows = Rows(Named(Subject(question))), ~Asks("created")
    PROVE  IsRetrieved(NamedCandidates)
<1> DEFINE named == Named(Subject(question))
           exact == ExactSymbols(contract.subject)
<1>1. ClaimSlot[contract.intent] = "unique_target" /\ contract.intent \in NeedsSubject
  BY DEF ClaimSlot, NeedsSubject
<1>2. TargetIsUnique <=> Cardinality(named) = 1
  BY <1>1 DEF TargetIsUnique
<1>3. IsSound(NamedCandidates)
  BY NamedAreTargets
<1>4. Targets(NamedCandidates)
  BY <1>2, NamedAreTargets, ExactAreNamed DEF Targets
<1>5. \A c \in NamedCandidates :
        \E r \in exact : c.artifact = r.id /\ c.file = r.file /\ c.line = r.line
  BY NamedAreTargets DEF IsAbout
<1>6. \A r \in exact : \E c \in NamedCandidates : ToClaim(c) /\ c.artifact = r.id
  BY <1>1, NamedAreTargets DEF IsAbout, ToClaim
<1>7. exact \subseteq named /\ (RowsUncut => named \subseteq exact)
  BY ExactAreNamed DEF RowsUncut
<1> HIDE DEF exact
<1>8. Cites(NamedCandidates) /\ Covers(NamedCandidates)
  <2>1. AreAbout(NamedCandidates, exact)
    BY <1>5, <1>6 DEF AreAbout
  <2> QED BY <1>7, <2>1, RowsAreCovered
<1>9. TargetIsUnique => \A c, d \in NamedCandidates : c = d
  BY <1>2, NamedAreOne
<1>10. ASSUME NamesHaveWords, NEW c \in NamedCandidates PROVE IsProven(c)
  <2>1. PICK s \in exact : IsAbout(c, s, "unique_target", SymbolText[s])
    BY NamedAreTargets DEF exact
  <2>2. s \in named /\ s \in index.symbols
    BY <1>7, ExactAreNamed
  <2>3. /\ SubjectWords(<<"symbol">>) \in {WordsOf[s.name], WordsOf[s.qualified]}
    BY <2>2, SubjectHasWords
  <2>4. EntitiesOf(c) = {SubjectWords(<<"symbol">>), PathWords[s.file]}
    BY <1>1, <2>1 DEF EntitiesOf, IsAbout
  <2>5. \A words \in EntitiesOf(c) : Contains(c.text, words)
    BY <1>10, <2>1, <2>2, <2>3, <2>4, TextsSay DEF IsAbout
  <2> QED BY <1>10, <2>1, <2>2, <2>5, TextsSay DEF IsProven, IsAbout
<1>11. IsRecorded => \E c \in NamedCandidates : TRUE
  BY <1>8, RecordedIsClaimed
<1>12. \A c \in NamedCandidates : c.slot = "unique_target" /\ Fills(c)
  BY NamedAreTargets, AboutFills
<1>13. IsEnough(NamedCandidates)
  BY <1>9, <1>10, <1>11, <1>12 DEF IsEnough
<1> QED BY <1>3, <1>4, <1>8, <1>13 DEF IsRetrieved

----------------------------------------------------------------------------
(* Questions about the edges that lead to one symbol.                         *)

LEMMA EndsOfEdges ==
    ASSUME index \in Indexes, NEW e \in index.edges, e.resolution = "RESOLVED"
    PROVE  /\ SymbolWithId(e.source) \in index.symbols
           /\ SymbolWithId(e.target) \in index.symbols
           /\ IsText(EdgeText(e))
           /\ ByEnds[e] \in [1 .. 5 -> Nat]
<1>1. /\ \E s \in index.symbols : s.id = e.source
      /\ \E s \in index.symbols : s.id = e.target
      /\ IsPlaced(e)
  BY AnswerConstants DEF IsScanned
<1>2. SymbolWithId(e.source) \in index.symbols /\ SymbolWithId(e.target) \in index.symbols
  BY <1>1 DEF SymbolWithId
<1> DEFINE from == SymbolWithId(e.source).qualified
           to   == SymbolWithId(e.target).qualified
<1>3. from \in DOMAIN WordsOf /\ to \in DOMAIN WordsOf /\ e.file \in DOMAIN PathWords
  BY <1>1, <1>2, AnswerConstants DEF IsScanned, IsPlaced
<1>4. ByEnds[e] = <<from, to, e.file, e.line, e.id>>
  BY DEF ByEnds
<1>5. EdgeText(e) = (WordsOf[from] \o WordsOf[to]) \o PathWords[e.file]
  BY DEF EdgeText
<1>6. from \in Nat /\ to \in Nat /\ e.file \in Nat /\ e.line \in Nat /\ e.id \in Nat
  BY <1>1, <1>3, AnswerConstants DEF IsPlaced
<1> HIDE DEF from, to
<1>7. <<from, to, e.file, e.line, e.id>> \in [1 .. 5 -> Nat]
  BY <1>6
<1>8. IsText(WordsOf[from]) /\ IsText(WordsOf[to]) /\ IsText(PathWords[e.file])
  BY <1>3, TextsAre
<1>9. IsText(WordsOf[from] \o WordsOf[to])
  BY <1>8, JoinedText
<1>10. IsText((WordsOf[from] \o WordsOf[to]) \o PathWords[e.file])
  BY <1>8, <1>9, JoinedText
<1> QED BY <1>2, <1>4, <1>5, <1>7, <1>10

\* The candidate about an edge.
IsAboutEdge(c, e, slot) ==
    /\ IsOffer(c)
    /\ c.id = ItemId("relationship", e.id) /\ c.artifact = e.id /\ c.slot = slot
    /\ c.file = e.file /\ c.line = e.line /\ c.end = e.end /\ c.text = EdgeText(e)
    /\ Fills(c)

LEMMA EdgeCandidatesAre ==
    ASSUME index \in Indexes, NEW rows, rows \subseteq index.edges,
           \A e \in rows : e.resolution = "RESOLVED",
           NEW slot \in Slots, slot # "unique_target"
    PROVE  /\ IsSound(EdgeCandidates(rows, slot))
           /\ \A c \in EdgeCandidates(rows, slot) : \E e \in rows : IsAboutEdge(c, e, slot)
           /\ \A e \in rows : \E c \in EdgeCandidates(rows, slot) : IsAboutEdge(c, e, slot)
<1> DEFINE Plain(e) == Evidence(ItemId("relationship", e.id), e, slot, "RESOLVED_GRAPH",
                                Position(e, rows, ByEnds), EdgeText(e))
           f == [e \in rows |-> [Plain(e) EXCEPT !.resolution = "RESOLVED"]]
           S == EdgeCandidates(rows, slot)
<1>1. S = {f[e] : e \in rows}
  BY DEF EdgeCandidates
<1>2. \E i \in DOMAIN TrustOrder : TrustOrder[i] = "RESOLVED_GRAPH"
  <2>1. 3 \in DOMAIN TrustOrder /\ TrustOrder[3] = "RESOLVED_GRAPH"
    BY DEF TrustOrder
  <2> QED BY <2>1
<1>3. ASSUME NEW e \in rows PROVE IsAboutEdge(f[e], e, slot)
  <2>1. f[e] = [Plain(e) EXCEPT !.resolution = "RESOLVED"]
    OBVIOUS
  <2>2. /\ f[e].id = Plain(e).id /\ f[e].artifact = Plain(e).artifact
        /\ f[e].slot = Plain(e).slot /\ f[e].trust = Plain(e).trust
        /\ f[e].file = Plain(e).file /\ f[e].line = Plain(e).line
        /\ f[e].status = Plain(e).status /\ f[e].tokens = Plain(e).tokens
        /\ f[e].scan = Plain(e).scan /\ f[e].inputRefs = Plain(e).inputRefs
        /\ f[e].end = Plain(e).end /\ f[e].text = Plain(e).text
        /\ f[e].completeness = Plain(e).completeness /\ f[e].resolution = "RESOLVED"
    BY <2>1 DEF Evidence
  <2>3. IsText(EdgeText(e))
    BY EndsOfEdges
  <2>4. /\ IsOffer(Plain(e))
        /\ Plain(e).id = ItemId("relationship", e.id) /\ Plain(e).artifact = e.id
        /\ Plain(e).slot = slot /\ Plain(e).file = e.file /\ Plain(e).line = e.line
        /\ Plain(e).end = e.end /\ Plain(e).text = EdgeText(e)
        /\ Plain(e).trust = "RESOLVED_GRAPH" /\ Plain(e).status = "RECORDED"
        /\ Plain(e).completeness = "COMPLETE"
    BY <1>2, <2>3, EvidenceIs
  <2> HIDE DEF f, Plain
  <2>5. IsOffer(f[e])
    BY <2>2, <2>4 DEF IsOffer, IsCandidate, Admissible
  <2>6. Fills(f[e])
    <3>1. Completeness(f[e]) = "COMPLETE"
      BY <2>2, <2>4 DEF Completeness
    <3>2. slot # UniqueTarget => CanFill(slot, f[e])
      BY <2>2, <2>4 DEF CanFill
    <3> QED BY <2>2, <2>4, <3>1, <3>2, AnswerConstants DEF Fills
  <2> QED BY <2>2, <2>4, <2>5, <2>6 DEF IsAboutEdge
<1>4. IsFiniteSet(rows)
  BY AnswerConstants, FS_Subset DEF IsScanned
<1>5. f = [e \in rows |-> f[e]]
  OBVIOUS
<1> HIDE DEF f, S
<1>6. IsFiniteSet(S)
  BY <1>1, <1>4, <1>5, ImageIsFinite
<1>7. ASSUME NEW d \in rows, NEW e \in rows, f[d].id = f[e].id PROVE f[d] = f[e]
  <2>1. f[d].id = ItemId("relationship", d.id) /\ f[e].id = ItemId("relationship", e.id)
    BY <1>3 DEF IsAboutEdge
  <2>2. d.id \in 0 .. RowIds - 1 /\ e.id \in 0 .. RowIds - 1 /\ (d.id = e.id => d = e)
    BY AnswerConstants DEF IsScanned, IsPlaced
  <2>3. "relationship" \in KindsOf
    BY DEF KindsOf
  <2>4. d.id = e.id
    BY <1>7, <2>1, <2>2, <2>3, ItemIdsOfKinds
  <2> QED BY <2>2, <2>4
<1>8. \A c \in S : \E e \in rows : IsAboutEdge(c, e, slot)
  BY <1>1, <1>3
<1>9. \A e \in rows : \E c \in S : IsAboutEdge(c, e, slot)
  BY <1>1, <1>3
<1>10. IsSound(S)
  BY <1>1, <1>6, <1>7, <1>8 DEF IsSound, IsAboutEdge
<1> QED BY <1>8, <1>9, <1>10 DEF S

LEMMA CategoryCandidatesAre ==
    ASSUME index \in Indexes, NEW rows, rows \subseteq index.edges,
           "file_categories" \in Slots
    PROVE  /\ IsSound(CategoryCandidates(rows))
           /\ \A c \in CategoryCandidates(rows) :
                /\ c.slot = "file_categories" /\ Fills(c)
                /\ \E e \in rows : c.id = ItemId("category", e.file)
           /\ rows # {} => CategoryCandidates(rows) # {}
<1> DEFINE slot == "file_categories"
           Plain(e) == Evidence(ItemId("category", e.file), e, slot, "DERIVED",
                                Position(e, rows, ByEnds),
                                Append(PathWords[e.file], CategoryOf[e.file]))
           f == [e \in rows |-> [Plain(e) EXCEPT !.status = "DERIVED", !.inputRefs = TRUE]]
           S == CategoryCandidates(rows)
<1>1. S = {f[e] : e \in rows}
  BY DEF CategoryCandidates
<1>2. \E i \in DOMAIN TrustOrder : TrustOrder[i] = "DERIVED"
  <2>1. 6 \in DOMAIN TrustOrder /\ TrustOrder[6] = "DERIVED"
    BY DEF TrustOrder
  <2> QED BY <2>1
<1>3. ASSUME NEW e \in rows
      PROVE  /\ IsOffer(f[e]) /\ Fills(f[e])
             /\ f[e].id = ItemId("category", e.file) /\ f[e].slot = slot
  <2>1. f[e] = [Plain(e) EXCEPT !.status = "DERIVED", !.inputRefs = TRUE]
    OBVIOUS
  <2>2. /\ f[e].id = Plain(e).id /\ f[e].slot = Plain(e).slot /\ f[e].trust = Plain(e).trust
        /\ f[e].tokens = Plain(e).tokens /\ f[e].scan = Plain(e).scan
        /\ f[e].status = "DERIVED" /\ f[e].inputRefs = TRUE
        /\ f[e].completeness = Plain(e).completeness /\ f[e].resolution = Plain(e).resolution
    BY <2>1 DEF Evidence
  <2>3. IsText(Append(PathWords[e.file], CategoryOf[e.file]))
    BY LongerText, AnswerConstants DEF IsScanned, IsPlaced
  <2>4. /\ IsOffer(Plain(e)) /\ Plain(e).id = ItemId("category", e.file)
        /\ Plain(e).slot = slot /\ Plain(e).trust = "DERIVED"
        /\ Plain(e).completeness = "COMPLETE" /\ Plain(e).resolution = "NONE"
    BY <1>2, <2>3, EvidenceIs
  <2> HIDE DEF f, Plain
  <2>5. IsOffer(f[e])
    BY <2>2, <2>4 DEF IsOffer, IsCandidate, Admissible, Statuses
  <2>6. Fills(f[e])
    <3>1. Completeness(f[e]) = "COMPLETE"
      BY <2>2, <2>4 DEF Completeness
    <3>2. CanFill(slot, f[e])
      BY <2>2, <2>4, AnswerConstants DEF CanFill
    <3> QED BY <2>2, <2>4, <3>1, <3>2 DEF Fills
  <2> QED BY <2>2, <2>4, <2>5, <2>6
<1>4. IsFiniteSet(rows)
  BY AnswerConstants, FS_Subset DEF IsScanned
<1>5. f = [e \in rows |-> f[e]]
  OBVIOUS
<1> HIDE DEF f, S
<1>6. IsFiniteSet(S)
  BY <1>1, <1>4, <1>5, ImageIsFinite
<1>7. \A c \in S : /\ IsOffer(c) /\ Fills(c) /\ c.slot = "file_categories"
                   /\ \E e \in rows : c.id = ItemId("category", e.file)
  BY <1>1, <1>3
<1>8. rows # {} => S # {}
  BY <1>1
<1> QED BY <1>6, <1>7, <1>8 DEF IsSound, S

\* The edges of a type that lead to a symbol, in order and as far as the limit.
LEMMA IncomingAre ==
    ASSUME index \in Indexes, NEW s \in index.symbols, NEW type
    PROVE  /\ Incoming(s.id, type) \subseteq {e \in index.edges : e.target = s.id /\ e.type = type}
           /\ \A e \in Incoming(s.id, type) : e.resolution = "RESOLVED"
           /\ RowsUncut => Incoming(s.id, type)
                              = {e \in index.edges : e.target = s.id /\ e.type = type}
<1> DEFINE to  == {e \in index.edges : e.target = s.id}
           all == {e \in index.edges : e.target = s.id /\ e.type = type}
<1>1. Incoming(s.id, type) = FirstRows(all, ByEnds, GraphLimit)
  BY DEF Incoming
<1>2. \A e \in all : e \in index.edges /\ e.resolution = "RESOLVED"
  BY AnswerConstants DEF IsScanned
<1>3. \A e \in all : ByEnds[e] \in [1 .. 5 -> Nat]
  BY <1>2, EndsOfEdges
<1>4. all \subseteq to /\ to \subseteq index.edges /\ IsFiniteSet(index.edges)
  BY AnswerConstants DEF IsScanned
<1>5. IsFiniteSet(to) /\ IsFiniteSet(all)
  BY <1>4, FS_Subset
<1>6. RowsUncut => Cardinality(to) <= GraphLimit
  BY DEF RowsUncut
<1> HIDE DEF to, all
<1>7. IsKeyed(all, ByEnds)
  BY <1>3 DEF IsKeyed
<1>8. /\ Cardinality(all) <= Cardinality(to)
      /\ Cardinality(all) \in Nat /\ Cardinality(to) \in Nat
  BY <1>4, <1>5, FS_Subset, FS_CardinalityType
<1>9. GraphLimit \in Nat
  BY AnswerConstants
<1>10. RowsUncut => Incoming(s.id, type) = all
  BY <1>1, <1>5, <1>6, <1>7, <1>8, <1>9, AllRowsAreFirst
<1>11. Incoming(s.id, type) \subseteq all
  BY <1>1, FirstRowsAreRows
<1> QED BY <1>2, <1>10, <1>11 DEF all

\* The claim about an edge to the symbol that is asked for.
LEMMA EdgesAreProven ==
    ASSUME index \in Indexes, NamesHaveWords,
           contract.intent \in {"FIND_IMPORTERS", "FIND_INHERITORS"},
           contract.subject = Subject(question),
           NEW s \in Named(Subject(question)), NEW e \in index.edges,
           e.resolution = "RESOLVED", e.target = s.id,
           NEW c, NEW slot, IsAboutEdge(c, e, slot)
    PROVE  IsProven(c)
<1> DEFINE from == WordsOf[SymbolWithId(e.source).qualified]
           to   == WordsOf[s.qualified]
           path == PathWords[e.file]
           name == SubjectWords(<<"symbol">>)
<1>1. /\ IsPlaced(e) /\ s \in index.symbols
      /\ s.qualified \in DOMAIN WordsOf /\ s.name \in DOMAIN WordsOf
  BY AnswerConstants DEF IsScanned, Named
<1>2. SymbolWithId(e.target) = s /\ SymbolWithId(e.source) \in index.symbols
  BY <1>1, SymbolOfId, EndsOfEdges
<1>3. SymbolWithId(e.source).qualified \in DOMAIN WordsOf
  BY <1>2, AnswerConstants DEF IsScanned
<1>4. IsText(from) /\ IsText(to) /\ IsText(path) /\ IsText(from \o to)
  BY <1>1, <1>3, TextsAre, JoinedText DEF IsPlaced
<1>5. EdgeText(e) = (from \o to) \o path
  BY <1>2 DEF EdgeText
<1>6. EntitiesOf(c) = {name, path}
  BY DEF EntitiesOf, NeedsSubject, IsAboutEdge
<1>7. name \in {WordsOf[s.name], to}
  BY SubjectHasWords
<1>8. /\ to # <<>> /\ path # <<>> /\ Contains(to, WordsOf[s.name])
      /\ IsText(WordsOf[s.name])
  BY <1>1, TextsAre DEF NamesHaveWords, IsPlaced
<1> HIDE DEF from, to, path, name
<1>9. IsText(name) /\ Contains(to, name)
  BY <1>4, <1>7, <1>8, ContainsItself
<1>10. Contains(from \o to, name)
  BY <1>4, <1>9, ContainsIn
<1>11. Contains(EdgeText(e), name) /\ Contains(EdgeText(e), path)
  BY <1>4, <1>5, <1>8, <1>9, <1>10, ContainsIn, ContainsItself
<1> QED BY <1>1, <1>6, <1>11 DEF IsProven, IsAboutEdge, IsPlaced

LEMMA GraphRetrieved ==
    ASSUME index \in Indexes, NEW type, NEW slot,
           \/ /\ contract.intent = "FIND_IMPORTERS"
              /\ type = "IMPORTS" /\ slot = "import_edges"
           \/ /\ contract.intent = "FIND_INHERITORS"
              /\ type = "INHERITS" /\ slot = "inheritance_edges",
           slot = contract.slots[2], slot \in Slots, "unique_target" \in Slots,
           Slots \subseteq {"unique_target", slot, "file_categories"},
           contract.subject = Subject(question),
           RuleOf(question).intent = contract.intent,
           AnswerRows = Rows(UNION {EdgesTo(s, type) : s \in Named(Subject(question))}),
           ~Asks("created")
    PROVE  IsRetrieved(GraphCandidates)
<1> DEFINE named  == Named(Subject(question))
           exact  == ExactSymbols(contract.subject)
           target == CHOOSE s \in exact : TRUE
           rows   == Aliased(Incoming(target.id, type))
           E      == EdgeCandidates(rows, slot)
           G      == IF "file_categories" \in Slots THEN CategoryCandidates(rows) ELSE {}
           all    == UNION {EdgesTo(s, type) : s \in named}
<1>1. /\ ClaimSlot[contract.intent] = slot /\ contract.intent \in NeedsSubject
      /\ slot # "unique_target" /\ slot # "file_categories"
      /\ type = (IF contract.intent = "FIND_IMPORTERS" THEN "IMPORTS" ELSE "INHERITS")
  BY DEF ClaimSlot, NeedsSubject
<1>2. GraphCandidates =
        NamedCandidates \cup (IF Cardinality(exact) # 1 THEN {} ELSE E \cup G)
  BY <1>1 DEF GraphCandidates, NamedCandidates
<1>3. TargetIsUnique <=> Cardinality(named) = 1
  BY <1>1 DEF TargetIsUnique
<1>4. /\ named \subseteq index.symbols /\ IsFiniteSet(named)
      /\ exact \subseteq named /\ IsFiniteSet(exact)
      /\ named # {} => exact # {}
      /\ Cardinality(named) <= ExactLimit => exact = named
      /\ ExactLimit >= 2 /\ named # {} /\ Cardinality(named) # 1
           => \E r, s \in exact : r # s
  BY ExactAreNamed
<1>5. /\ IsSound(NamedCandidates)
      /\ \A c \in NamedCandidates :
           /\ c.slot = "unique_target" /\ IsTarget(c) /\ Fills(c)
           /\ \E s \in index.symbols : c.id = ItemId("symbol", s.id)
      /\ (\E r, s \in exact : r # s) => \E c, d \in NamedCandidates : c # d
      /\ exact # {} => NamedCandidates # {}
  BY <1>4, NamedAreTargets, AboutFills DEF IsAbout
<1>6. AnswerRows = Rows(all)
  OBVIOUS
<1>7. \A n : Cardinality(exact) = n /\ (\E r, s \in exact : r # s) => n # 1
  BY <1>4, FS_CardinalityType, FS_Singleton
<1>8. CASE Cardinality(exact) # 1
  <2>1. GraphCandidates = NamedCandidates
    BY <1>2, <1>8
  <2> HIDE DEF named, exact, E, G, all
  <2>2. Targets(NamedCandidates)
    BY <1>3, <1>4, <1>5 DEF Targets, named
  <2>3. Cites(NamedCandidates)
    BY <1>1, <1>5 DEF Cites, ToClaim
  <2>4. ~(RowsUncut /\ TargetIsUnique)
    BY <1>3, <1>4, <1>8 DEF RowsUncut, named
  <2>5. TargetIsUnique => \A c, d \in NamedCandidates : c = d
    BY <1>3, NamedAreOne DEF named
  <2>6. IsEnough(NamedCandidates)
    BY <1>1, <1>5, <2>4, <2>5 DEF IsEnough, IsRecorded, ToClaim
  <2> QED BY <1>5, <2>1, <2>2, <2>3, <2>4, <2>6 DEF IsRetrieved, Covers
<1>9. CASE Cardinality(exact) = 1
  <2>1. exact = {target}
    <3>1. PICK s : exact = {s}
      BY <1>4, <1>9, FS_Singleton
    <3> QED BY <3>1
  <2>2. target \in named /\ target \in index.symbols
    BY <1>4, <2>1
  <2>3. rows \subseteq Incoming(target.id, type)
    BY DEF Aliased
  <2>4. /\ Incoming(target.id, type)
             \subseteq {e \in index.edges : e.target = target.id /\ e.type = type}
        /\ \A e \in Incoming(target.id, type) : e.resolution = "RESOLVED"
        /\ RowsUncut => Incoming(target.id, type)
                          = {e \in index.edges : e.target = target.id /\ e.type = type}
    <3> HIDE DEF target
    <3> QED BY <2>2, IncomingAre
  <2>5. rows \subseteq index.edges /\ \A e \in rows : e.resolution = "RESOLVED"
    BY <2>3, <2>4
  <2>6. rows \subseteq EdgesTo(target, type)
    BY <2>4 DEF Aliased, EdgesTo
  <2>7. RowsUncut => rows = EdgesTo(target, type)
    BY <2>4 DEF Aliased, EdgesTo
  <2>8. rows \subseteq all
    BY <2>2, <2>6
  <2>9. ASSUME RowsUncut, TargetIsUnique PROVE all \subseteq rows
    <3>1. PICK s : named = {s}
      BY <1>3, <1>4, <2>9, FS_Singleton
    <3>2. named = {target}
      BY <2>2, <3>1
    <3>3. all = EdgesTo(target, type)
      BY <3>2
    <3> QED BY <2>7, <2>9, <3>3
  <2>10. GraphCandidates = NamedCandidates \cup (E \cup G)
    BY <1>2, <1>9
  <2> HIDE DEF named, exact, target, rows, E, G, all
  <2>11. /\ IsSound(E)
         /\ \A c \in E : \E e \in rows : IsAboutEdge(c, e, slot)
         /\ \A e \in rows : \E c \in E : IsAboutEdge(c, e, slot)
    BY <2>5, EdgeCandidatesAre DEF E
  <2>12. /\ IsSound(G)
         /\ \A c \in G : /\ c.slot = "file_categories" /\ Fills(c)
                         /\ \E e \in rows : c.id = ItemId("category", e.file)
    BY <2>5, CategoryCandidatesAre, NoneIsSound DEF G
  <2>13. /\ \A s \in index.symbols : s.id \in 0 .. RowIds - 1
         /\ \A e \in rows : e.id \in 0 .. RowIds - 1 /\ e.file \in 0 .. RowIds - 1
    BY <2>5, AnswerConstants DEF IsScanned, IsPlaced
  <2>14. {"symbol", "relationship", "category"} \subseteq KindsOf
    BY DEF KindsOf
  <2>15. \A c \in E, d \in G : c.id # d.id
    <3> SUFFICES ASSUME NEW c \in E, NEW d \in G PROVE c.id # d.id
      OBVIOUS
    <3>1. PICK e \in rows : c.id = ItemId("relationship", e.id)
      BY <2>11 DEF IsAboutEdge
    <3>2. PICK x \in rows : d.id = ItemId("category", x.file)
      BY <2>12
    <3> QED BY <2>13, <2>14, <3>1, <3>2, ItemIdsOfKinds
  <2>16. IsSound(E \cup G)
    BY <2>11, <2>12, <2>15, MoreAreSound
  <2>17. \A c \in NamedCandidates, d \in E \cup G : c.id # d.id
    <3> SUFFICES ASSUME NEW c \in NamedCandidates, NEW d \in E \cup G PROVE c.id # d.id
      OBVIOUS
    <3>1. PICK s \in index.symbols : c.id = ItemId("symbol", s.id)
      BY <1>5
    <3>2. CASE d \in E
      <4>1. PICK e \in rows : d.id = ItemId("relationship", e.id)
        BY <2>11, <3>2 DEF IsAboutEdge
      <4> QED BY <2>13, <2>14, <3>1, <4>1, ItemIdsOfKinds
    <3>3. CASE d \in G
      <4>1. PICK e \in rows : d.id = ItemId("category", e.file)
        BY <2>12, <3>3
      <4> QED BY <2>13, <2>14, <3>1, <4>1, ItemIdsOfKinds
    <3> QED BY <3>2, <3>3
  <2>18. IsSound(GraphCandidates)
    BY <1>5, <2>10, <2>16, <2>17, MoreAreSound
  <2>19. Targets(GraphCandidates)
    <3>1. \A c \in GraphCandidates : c.slot = "unique_target" => c \in NamedCandidates
      BY <1>1, <2>10, <2>11, <2>12 DEF IsAboutEdge
    <3>2. ASSUME ~TargetIsUnique, ExactLimit >= 2 PROVE FALSE
      <4>1. named # {} /\ Cardinality(named) # 1
        BY <1>3, <2>2, <3>2
      <4> QED BY <1>4, <1>7, <1>9, <3>2, <4>1
    <3> QED BY <1>5, <3>1, <3>2 DEF Targets
  <2>20. \A c \in GraphCandidates : ToClaim(c) =>
           \E r \in rows : c.artifact = r.id /\ c.file = r.file /\ c.line = r.line
    <3> SUFFICES ASSUME NEW c \in GraphCandidates, ToClaim(c)
                 PROVE  \E r \in rows : /\ c.artifact = r.id /\ c.file = r.file
                                        /\ c.line = r.line
      OBVIOUS
    <3>1. c \in E
      BY <1>1, <1>5, <2>10, <2>12 DEF ToClaim
    <3> QED BY <2>11, <3>1 DEF IsAboutEdge
  <2>21. \A r \in rows : \E c \in GraphCandidates : ToClaim(c) /\ c.artifact = r.id
    BY <1>1, <2>10, <2>11 DEF IsAboutEdge, ToClaim
  <2>22. Cites(GraphCandidates) /\ Covers(GraphCandidates)
    <3>1. AnswerRows = Rows(all)
      BY <1>6
    <3>2. RowsUncut /\ TargetIsUnique => all \subseteq rows
      BY <2>9
    <3>3. AreAbout(GraphCandidates, rows)
      BY <2>20, <2>21 DEF AreAbout
    <3> QED BY <2>8, <3>1, <3>2, <3>3, RowsAreCovered
  <2>23. ASSUME TargetIsUnique PROVE \A c, d \in NamedCandidates : c = d
    BY <1>3, <2>23, NamedAreOne DEF named
  <2>24. \A c \in GraphCandidates :
           Fills(c) /\ (c.slot = "unique_target" => c \in NamedCandidates)
    <3>1. \A c \in E : Fills(c) /\ c.slot # "unique_target"
      BY <1>1, <2>11 DEF IsAboutEdge
    <3>2. \A c \in G : Fills(c) /\ c.slot # "unique_target"
      BY <2>12
    <3> QED BY <1>5, <2>10, <3>1, <3>2
  <2>25. ASSUME NamesHaveWords, NEW c \in GraphCandidates, ToClaim(c) PROVE IsProven(c)
    <3>1. c \in E
      BY <1>1, <1>5, <2>10, <2>12, <2>25 DEF ToClaim
    <3>2. PICK e \in rows : IsAboutEdge(c, e, slot)
      BY <2>11, <3>1
    <3>3. e \in index.edges /\ e.resolution = "RESOLVED" /\ e.target = target.id
      BY <2>3, <2>4, <2>5
    <3> QED BY <1>1, <2>2, <2>25, <3>2, <3>3, EdgesAreProven DEF named
  <2>26. ASSUME IsRecorded, NEW s \in Slots PROVE \E c \in GraphCandidates : c.slot = s
    <3>1. PICK c \in GraphCandidates : ToClaim(c)
      BY <2>22, <2>26, RecordedIsClaimed
    <3>2. rows # {}
      BY <2>20, <3>1
    <3>3. NamedCandidates # {}
      BY <1>5, <2>1
    <3>4. CASE s = "unique_target"
      BY <1>5, <2>10, <3>3, <3>4
    <3>5. CASE s = slot
      BY <1>1, <3>1, <3>5 DEF ToClaim
    <3>6. CASE s = "file_categories"
      BY <2>10, <2>12, <2>26, <3>2, <3>6, CategoryCandidatesAre, <2>5 DEF G
    <3> QED BY <3>4, <3>5, <3>6
  <2>27. IsEnough(GraphCandidates)
    BY <2>23, <2>24, <2>25, <2>26 DEF IsEnough
  <2> QED BY <2>18, <2>19, <2>22, <2>27 DEF IsRetrieved
<1> QED BY <1>8, <1>9

----------------------------------------------------------------------------
(* Where a framework is constructed: one hit of the full text at most.        *)

LEMMA LessTotal ==
    ASSUME NEW n \in Nat, NEW k \in [1 .. n -> Nat], NEW l \in [1 .. n -> Nat], k # l
    PROVE  Less(k, l) \/ Less(l, k)
<1> DEFINE differs == {i \in 1 .. n : k[i] # l[i]}
<1>1. differs \subseteq Nat /\ differs # {}
  OBVIOUS
<1>2. PICK i \in differs : \A j \in differs : i <= j
  <2> HIDE DEF differs
  <2> QED BY <1>1, LeastNatural
<1>3. i \in 1 .. n /\ k[i] # l[i] /\ \A j \in 1 .. i - 1 : k[j] = l[j]
  BY <1>2
<1>4. k[i] < l[i] \/ l[i] < k[i]
  BY <1>3
<1> QED BY <1>3, <1>4 DEF Less

LEMMA OneRowIsFirst ==
    ASSUME NEW rows, IsFiniteSet(rows), NEW keys, IsKeyed(rows, keys),
           \A r, s \in rows : keys[r] = keys[s] => r = s
    PROVE  \A r, s \in FirstRows(rows, keys, 1) : r = s
<1>1. ASSUME NEW r \in FirstRows(rows, keys, 1)
      PROVE  r \in rows /\ Before(r, rows, keys) = {}
  <2>1. r \in rows /\ Position(r, rows, keys) <= 1
    BY DEF FirstRows
  <2>2. Cardinality(Before(r, rows, keys)) = 0
    BY <2>1, BeforeIsFinite
  <2>3. Before(r, rows, keys) = {}
    BY <2>2, BeforeIsFinite, FS_EmptySet
  <2> QED BY <2>1, <2>3
<1>2. PICK n \in Nat : \A r \in rows : keys[r] \in [1 .. n -> Nat]
  BY DEF IsKeyed
<1> SUFFICES ASSUME NEW r \in FirstRows(rows, keys, 1), NEW s \in FirstRows(rows, keys, 1)
             PROVE  r = s
  OBVIOUS
<1>3. ~Less(keys[r], keys[s]) /\ ~Less(keys[s], keys[r])
  BY <1>1 DEF Before
<1>4. keys[r] = keys[s]
  BY <1>1, <1>2, <1>3, LessTotal
<1> QED BY <1>1, <1>4

\* Full text and exact symbols fill a slot that is not for a target.
IsFiller(c, item, row, slot, text) ==
    /\ IsOffer(c) /\ Fills(c)
    /\ c.id = item /\ c.slot = slot /\ c.text = text
    /\ c.file = row.file /\ c.line = row.line /\ c.end = row.end

LEMMA EvidenceFills ==
    ASSUME NEW item, NEW row, NEW slot \in Slots, NEW rank, NEW text, IsText(text),
           NEW trust, trust = "EXACT_SYMBOL" \/ trust = "FULL_TEXT",
           slot # "unique_target",
           NEW c, c = Evidence(item, row, slot, trust, rank, text)
    PROVE  IsFiller(c, item, row, slot, text)
<1>1. 2 \in DOMAIN TrustOrder /\ TrustOrder[2] = "EXACT_SYMBOL"
      /\ 5 \in DOMAIN TrustOrder /\ TrustOrder[5] = "FULL_TEXT"
  BY DEF TrustOrder
<1>2. \E i \in DOMAIN TrustOrder : TrustOrder[i] = trust
  BY <1>1
<1>3. /\ IsOffer(c) /\ c.id = item /\ c.slot = slot /\ c.text = text
      /\ c.file = row.file /\ c.line = row.line /\ c.end = row.end
      /\ c.trust = trust /\ c.status = "RECORDED"
      /\ trust # "HEURISTIC_GRAPH" => Completeness(c) = "COMPLETE"
  BY <1>2, EvidenceIs
<1> QED BY <1>3, AnswerConstants DEF IsFiller, Fills, CanFill

\* Words have their own words in them.
LEMMA ContainsAll ==
    ASSUME NEW t \in Texts, NEW w \in Texts, Contains(t, w)
    PROVE  Range(w) \subseteq Range(t)
<1>1. PICK i : IsAt(t, w, i)
  BY ContainsByWord DEF Texts
<1>2. Len(t) \in Nat /\ Len(w) \in Nat /\ DOMAIN t = 1 .. Len(t) /\ DOMAIN w = 1 .. Len(w)
  BY LenProperties DEF Texts
<1>3. ASSUME NEW k \in DOMAIN w PROVE w[k] \in Range(t)
  <2>1. i + k \in DOMAIN t /\ t[i + k] = w[k]
    BY <1>1, <1>2 DEF IsAt
  <2> QED BY <2>1 DEF Range
<1> QED BY <1>3 DEF Range

\* The full text finds the documents that construct a framework.
LEMMA ConstructionIsHit ==
    ASSUME index \in Indexes, NamesHaveWords, RowsUncut,
           NEW framework, framework # NoName, Constructions(framework) # {}
    PROVE  {d \in Hits(framework) : \E i \in DOMAIN d.lines : Constructs(d, i, framework)} # {}
<1> DEFINE fits == {d \in index.documents : Range(WordsOf[framework]) \subseteq DocumentWords(d)}
<1>1. fits = Hits(framework)
  <2>1. Hits(framework) = FirstRows(fits, ByScore, TextLimit)
    BY DEF Hits
  <2>2. fits \subseteq index.documents /\ IsFiniteSet(index.documents)
    BY AnswerConstants DEF IsScanned
  <2> HIDE DEF fits
  <2>3. IsFiniteSet(fits) /\ IsKeyed(fits, ByScore)
    BY <2>2, RowsAreKeyed, FewerAreKeyed, FS_Subset
  <2>4. /\ Cardinality(fits) <= Cardinality(index.documents) /\ Cardinality(fits) \in Nat
        /\ Cardinality(index.documents) \in Nat
    BY <2>2, <2>3, FS_Subset, FS_CardinalityType
  <2>5. TextLimit \in Nat /\ Cardinality(index.documents) <= TextLimit
    BY AnswerConstants DEF RowsUncut
  <2> QED BY <2>1, <2>3, <2>4, <2>5, AllRowsAreFirst
<1>2. PICK d \in index.documents :
        /\ CategoryOf[d.file] = "SOURCE"
        /\ \E j \in DOMAIN d.lines : d.lines[j].constructs = framework
  BY DEF Constructions
<1>3. PICK i \in DOMAIN d.lines : d.lines[i].constructs = framework
  BY <1>2
<1>4. /\ framework \in DOMAIN WordsOf
      /\ Contains(d.lines[i].words, WordsOf[framework])
  BY <1>3 DEF NamesHaveWords
<1>5. d.lines[i].words \in Texts /\ WordsOf[framework] \in Texts
  <2>1. d.lines \in Seq([words : Texts, constructs : Nat])
    BY AnswerConstants DEF IsScanned
  <2>2. d.lines[i] \in [words : Texts, constructs : Nat]
    BY <2>1, ElementOfSeq, LenProperties
  <2> QED BY <1>4, <2>2, AnswerConstants
<1>6. Range(WordsOf[framework]) \subseteq Range(d.lines[i].words)
  BY <1>4, <1>5, ContainsAll
<1>7. Range(d.lines[i].words) \subseteq DocumentWords(d)
  BY DEF DocumentWords
<1>8. d \in fits
  BY <1>6, <1>7
<1> QED BY <1>1, <1>2, <1>3, <1>8 DEF Constructs

LEMMA ConstructionRetrieved ==
    ASSUME index \in Indexes, contract.intent = "LOCATE_FRAMEWORK_CONSTRUCTION",
           Slots = {"framework_construction", "containing_module"},
           contract.subject = Subject(question), AnswerRows = {}, Asks("created")
    PROVE  IsRetrieved(FrameworkCandidates)
<1> DEFINE having == {d \in Hits(Framework) : \E i \in DOMAIN d.lines : Constructs(d, i, Framework)}
           found  == FirstRows(having, ByScore, 1)
           LineIn(d) == CHOOSE i \in DOMAIN d.lines :
                           /\ Constructs(d, i, Framework)
                           /\ \A j \in 1 .. i - 1 : ~Constructs(d, j, Framework)
           Place(d, id) == [id |-> id, file |-> d.file, line |-> d.start + LineIn(d) - 1,
                            end |-> d.start + LineIn(d) - 1]
           Construction(d) ==
               Evidence(ItemId("construction", d.id), Place(d, d.id),
                        "framework_construction", "FULL_TEXT", 1,
                        d.lines[LineIn(d)].words \o PathWords[d.file])
           Module(d, m) ==
               Evidence(ItemId("module", m.id), Place(d, m.id), "containing_module",
                        "EXACT_SYMBOL", 2, WordsOf[m.qualified] \o d.lines[LineIn(d)].words)
           In(d) == {s \in index.symbols : s.type = "MODULE" /\ s.file = d.file}
<1>1. FrameworkCandidates = {Construction(d) : d \in found}
                            \cup UNION {{Module(d, m) : m \in In(d)} : d \in found}
  BY DEF FrameworkCandidates, Framework
<1>2. found \subseteq having /\ having \subseteq index.documents
  BY FirstRowsAreRows DEF Hits
<1>3. \A c, d \in found : c = d
  <2>1. IsFiniteSet(having) /\ IsKeyed(having, ByScore)
    BY <1>2, RowsAreKeyed, FewerAreKeyed, FS_Subset, AnswerConstants DEF IsScanned
  <2>2. \A c, d \in index.documents : ByScore[c] = ByScore[d] => c.id = d.id
    <3>1. \A d \in index.documents : ByScore[d] = <<d.score, d.file, d.start, d.id>>
      BY DEF ByScore
    <3> QED BY <3>1
  <2>3. \A c, d \in index.documents : c.id = d.id => c = d
    BY AnswerConstants DEF IsScanned
  <2>4. \A c, d \in having : ByScore[c] = ByScore[d] => c = d
    <3> HIDE DEF having
    <3> QED BY <1>2, <2>2, <2>3, Zenon
  <2> HIDE DEF having
  <2> QED BY <2>1, <2>4, OneRowIsFirst
<1>4. ClaimSlot[contract.intent] = "framework_construction" /\ contract.intent \notin NeedsSubject
  BY DEF ClaimSlot, NeedsSubject
<1>5. Covers(FrameworkCandidates) /\ Targets(FrameworkCandidates)
  BY <1>4 DEF Covers, Targets
<1>6. ASSUME NamesHaveWords, IsRecorded PROVE found # {}
  <2>1. /\ Framework = Subject(question) /\ Framework # NoName
        /\ Constructions(Framework) # {} /\ RowsUncut
    BY <1>6 DEF IsRecorded, Unnamed, Framework
  <2>2. having # {}
    BY <1>6, <2>1, ConstructionIsHit
  <2>3. IsFiniteSet(having) /\ IsKeyed(having, ByScore)
    BY <1>2, RowsAreKeyed, FewerAreKeyed, FS_Subset, AnswerConstants DEF IsScanned
  <2> HIDE DEF having
  <2> QED BY <2>2, <2>3, SomeRowIsFirst
<1>7. CASE found = {}
  <2>1. FrameworkCandidates = {}
    BY <1>1, <1>7
  <2>2. IsEnough(FrameworkCandidates)
    BY <1>6, <1>7, <2>1 DEF IsEnough
  <2> QED BY <1>5, <2>1, <2>2, NoneIsSound DEF IsRetrieved, Cites
<1>8. ASSUME NEW d \in found PROVE IsRetrieved(FrameworkCandidates)
  <2> DEFINE c == Construction(d)
             f == [m \in In(d) |-> Module(d, m)]
             M == {f[m] : m \in In(d)}
             i == LineIn(d)
  <2>1. FrameworkCandidates = {c} \cup M
    <3>1. found = {d}
      BY <1>3
    <3> DEFINE Modules(e) == {Module(e, m) : m \in In(e)}
    <3>2. M = Modules(d)
      OBVIOUS
    <3>3. FrameworkCandidates = {Construction(e) : e \in found}
                                \cup UNION {Modules(e) : e \in found}
      BY <1>1
    <3> HIDE DEF Construction, Modules, M, found
    <3>4. {Construction(e) : e \in found} = {Construction(d)}
      BY <3>1
    <3>5. {Modules(e) : e \in found} = {Modules(d)}
      BY <3>1
    <3> QED BY <3>2, <3>3, <3>4, <3>5
  <2>2. /\ d \in index.documents /\ d.id \in 0 .. RowIds - 1 /\ d.file \in DOMAIN PathWords
        /\ d.lines \in Seq([words : Texts, constructs : Nat]) /\ d.start \in Nat
    BY <1>2, AnswerConstants DEF IsScanned
  <2>3. i \in DOMAIN d.lines /\ Constructs(d, i, Framework)
    <3> DEFINE fits == {j \in DOMAIN d.lines : Constructs(d, j, Framework)}
    <3>1. DOMAIN d.lines = 1 .. Len(d.lines) /\ Len(d.lines) \in Nat
      BY <2>2, LenProperties
    <3>2. PICK j \in fits : \A k \in fits : j <= k
      <4>1. fits \subseteq Nat
        BY <3>1
      <4>2. d \in having
        BY <1>2
      <4>3. fits # {}
        BY <4>2
      <4> HIDE DEF fits
      <4> QED BY <4>1, <4>3, LeastNatural
    <3>3. /\ j \in DOMAIN d.lines /\ Constructs(d, j, Framework)
          /\ \A k \in 1 .. j - 1 : ~Constructs(d, k, Framework)
      BY <3>1, <3>2
    <3> QED BY <3>3
  <2>4. IsText(d.lines[i].words) /\ d.lines[i].constructs = Framework
    <3>1. d.lines[i] \in [words : Texts, constructs : Nat]
      BY <2>2, <2>3, ElementOfSeq, LenProperties
    <3> QED BY <2>3, <3>1 DEF Constructs, IsText, Texts
  <2>5. \A m \in In(d) : /\ m \in index.symbols /\ m.id \in 0 .. RowIds - 1
                         /\ IsText(WordsOf[m.qualified])
    BY AnswerConstants, TextsAre DEF IsScanned, IsPlaced
  <2>6. /\ IsOffer(c) /\ c.id = ItemId("construction", d.id)
        /\ c.file = d.file /\ c.line = d.start + i - 1 /\ c.end = d.start + i - 1
        /\ c.text = d.lines[i].words \o PathWords[d.file]
        /\ Fills(c) /\ c.slot = "framework_construction"
    <3> DEFINE item  == ItemId("construction", d.id)
               place == Place(d, d.id)
               text  == d.lines[i].words \o PathWords[d.file]
               slot  == "framework_construction"
               trust == "FULL_TEXT"
    <3>1. c = Evidence(item, place, slot, trust, 1, text)
      OBVIOUS
    <3>2. /\ place.file = d.file /\ place.line = d.start + i - 1
          /\ place.end = d.start + i - 1
      OBVIOUS
    <3>3. IsText(text)
      BY <2>2, <2>4, TextsAre, JoinedText
    <3>4. slot \in Slots /\ slot # "unique_target"
      OBVIOUS
    <3>5. trust = "EXACT_SYMBOL" \/ trust = "FULL_TEXT"
      OBVIOUS
    <3> HIDE DEF c, item, place, text, slot, trust
    <3>6. IsFiller(c, item, place, slot, text)
      BY <3>1, <3>3, <3>4, <3>5, EvidenceFills
    <3> QED BY <3>2, <3>6 DEF item, text, slot, IsFiller
  <2>7. ASSUME NEW m \in In(d)
        PROVE  /\ IsOffer(f[m]) /\ f[m].id = ItemId("module", m.id)
               /\ f[m].slot = "containing_module" /\ Fills(f[m])
    <3> DEFINE item  == ItemId("module", m.id)
               place == Place(d, m.id)
               text  == WordsOf[m.qualified] \o d.lines[i].words
               slot  == "containing_module"
               trust == "EXACT_SYMBOL"
    <3>1. f[m] = Evidence(item, place, slot, trust, 2, text)
      OBVIOUS
    <3>2. IsText(text)
      BY <2>4, <2>5, JoinedText
    <3>3. slot \in Slots /\ slot # "unique_target"
      OBVIOUS
    <3>4. trust = "EXACT_SYMBOL" \/ trust = "FULL_TEXT"
      OBVIOUS
    <3> HIDE DEF f, item, place, text, slot, trust
    <3>5. IsFiller(f[m], item, place, slot, text)
      BY <3>1, <3>2, <3>3, <3>4, EvidenceFills
    <3> QED BY <3>5 DEF item, slot, IsFiller
  <2>8. f = [m \in In(d) |-> f[m]] /\ In(d) \subseteq index.symbols
    OBVIOUS
  <2>9. IsFiniteSet(In(d))
    BY <2>8, FS_Subset, AnswerConstants DEF IsScanned
  <2>10. CategoryOf[d.file] = "SOURCE"
    BY <2>3 DEF Constructs
  <2>11. \A m \in index.symbols : m.type = "MODULE" /\ m.file = d.file => m \in In(d)
    OBVIOUS
  <2> HIDE DEF found, having, c, f, i, In
  <2>12. IsFiniteSet(M)
    BY <2>8, <2>9, ImageIsFinite
  <2> HIDE DEF M
  <2>13. \A x \in M : \E m \in In(d) : x = f[m]
    BY DEF M
  <2>14. {"construction", "module"} \subseteq KindsOf
    BY DEF KindsOf
  <2>15. IsSound(M)
    <3>1. ASSUME NEW m \in In(d), NEW n \in In(d), f[m].id = f[n].id PROVE f[m] = f[n]
      <4>1. m.id = n.id
        BY <2>5, <2>7, <2>14, <3>1, ItemIdsOfKinds
      <4>2. m = n
        BY <2>5, <4>1, AnswerConstants DEF IsScanned
      <4> QED BY <4>2
    <3> QED BY <2>7, <2>12, <2>13, <3>1 DEF IsSound
  <2>16. IsSound({c})
    BY <2>6, FS_Singleton DEF IsSound
  <2>17. \A x \in {c}, y \in M : x.id # y.id
    <3> SUFFICES ASSUME NEW m \in In(d) PROVE c.id # f[m].id
      BY <2>13
    <3> QED BY <2>2, <2>5, <2>6, <2>7, <2>14, ItemIdsOfKinds
  <2>18. IsSound(FrameworkCandidates)
    BY <2>1, <2>15, <2>16, <2>17, MoreAreSound
  <2>19. <<d.file, d.start + i - 1>> \in Constructions(Framework)
    <3>1. /\ d.start + i - 1 \in Int
          /\ i \in {j \in DOMAIN d.lines : d.lines[j].constructs = Framework}
      BY <2>2, <2>3, <2>4, LenProperties
    <3>2. d \in {e \in index.documents : CategoryOf[e.file] = "SOURCE"}
      BY <2>2, <2>10
    <3>3. <<d.file, d.start + i - 1>> \in
            {<<d.file, d.start + j - 1>> :
                j \in {k \in DOMAIN d.lines : d.lines[k].constructs = Framework}}
      BY <3>1
    <3> QED BY <3>2, <3>3 DEF Constructions
  <2>20. IsAsked(c)
    BY <2>6, <2>19 DEF IsAsked
  <2>21. Cites(FrameworkCandidates)
    BY <1>4, <2>1, <2>7, <2>13, <2>20 DEF Cites, ToClaim
  <2>22. ASSUME NamesHaveWords, ~Unnamed PROVE IsProven(c)
    <3>1. /\ contract.subject # NoName /\ Framework = contract.subject
      BY <2>22 DEF Unnamed, Framework
    <3>2. EntitiesOf(c) = {WordsOf[Framework], PathWords[d.file]}
      BY <1>4, <2>6, <3>1 DEF EntitiesOf, SubjectWords
    <3>3. /\ Framework \in DOMAIN WordsOf /\ PathWords[d.file] # <<>>
          /\ Contains(d.lines[i].words, WordsOf[Framework])
      BY <2>2, <2>3, <2>4, <2>22, <3>1 DEF NamesHaveWords
    <3>4. IsText(WordsOf[Framework]) /\ IsText(PathWords[d.file])
      BY <2>2, <3>3, TextsAre
    <3>5. /\ Contains(c.text, WordsOf[Framework])
          /\ Contains(c.text, PathWords[d.file])
      BY <2>4, <2>6, <3>3, <3>4, ContainsIn, ContainsItself
    <3>6. d.start + i - 1 \in Nat
      BY <2>2, <2>3, LenProperties
    <3> QED BY <2>6, <3>2, <3>5, <3>6 DEF IsProven
  <2>23. ASSUME IsRecorded PROVE M # {}
    <3>1. PICK m \in index.symbols : m.type = "MODULE" /\ m.file = d.file
      <4>1. Framework = Subject(question) /\ InModules
        BY <2>23 DEF IsRecorded, Unnamed, Framework
      <4> QED BY <2>19, <4>1 DEF InModules
    <3> QED BY <2>11, <3>1 DEF M
  <2>24. IsEnough(FrameworkCandidates)
    BY <1>4, <2>1, <2>6, <2>7, <2>13, <2>22, <2>23 DEF IsEnough, ToClaim
  <2> QED BY <1>5, <2>18, <2>21, <2>24 DEF IsRetrieved
<1> QED BY <1>7, <1>8

----------------------------------------------------------------------------
LEMMA CandidatesRetrieved ==
    ASSUME index \in Indexes, contract = Contract(question), contract.supported
    PROVE  IsRetrieved(Candidates)
<1>1. PICK i \in 4 .. 10 :
        /\ RuleOf(question) = Rules[i]
        /\ contract.intent = Rules[i].intent
        /\ contract.subject = (IF i = 9 THEN ModuleSubject(question) ELSE Subject(question))
        /\ i # 5 => contract.slots = Rules[i].slots
        /\ i = 5 => ImporterSlots
  BY ContractIs
<1>2. RuleOf(question).intent = contract.intent
  BY <1>1
<1>3. /\ \A j \in DOMAIN contract.slots : contract.slots[j] \in Slots
      /\ \A s \in Slots : \E j \in DOMAIN contract.slots : s = contract.slots[j]
  BY DEF Slots
<1>4. CASE i = 4
  <2>1. contract.intent = "LIST_ROUTES" /\ contract.slots = <<"route_symbols">>
    BY <1>1, <1>4, RulesAre DEF Rule
  <2>2. Slots = {"route_symbols"}
    BY <1>3, <2>1
  <2>3. AnswerRows = Rows({s \in index.symbols : s.type = "ROUTE"}) /\ ~Asks("created")
    BY <1>1, <1>4, AsksFor
  <2>4. Candidates = RouteCandidates
    BY <2>1 DEF Candidates
  <2> QED BY <2>1, <2>2, <2>3, <2>4, RoutesRetrieved
<1>5. CASE i = 5
  <2>1. contract.intent = "FIND_IMPORTERS" /\ contract.subject = Subject(question)
    BY <1>1, <1>5, RulesAre DEF Rule
  <2>2. /\ contract.slots[2] = "import_edges"
        /\ "unique_target" \in Slots /\ "import_edges" \in Slots
        /\ Slots \subseteq {"unique_target", "import_edges", "file_categories"}
    BY <1>1, <1>3, <1>5 DEF ImporterSlots
  <2>3. /\ AnswerRows = Rows(UNION {EdgesTo(s, "IMPORTS") : s \in Named(Subject(question))})
        /\ ~Asks("created")
    BY <1>1, <1>5, AsksFor
  <2>4. Candidates = GraphCandidates
    BY <2>1 DEF Candidates
  <2> QED BY <1>2, <2>1, <2>2, <2>3, <2>4, GraphRetrieved
<1>6. CASE i = 6
  <2>1. /\ contract.intent = "FIND_INHERITORS" /\ contract.subject = Subject(question)
        /\ contract.slots = <<"unique_target", "inheritance_edges">>
    BY <1>1, <1>6, RulesAre DEF Rule
  <2>2. /\ contract.slots[2] = "inheritance_edges"
        /\ "unique_target" \in Slots /\ "inheritance_edges" \in Slots
        /\ Slots \subseteq {"unique_target", "inheritance_edges", "file_categories"}
    BY <1>3, <2>1
  <2>3. /\ AnswerRows = Rows(UNION {EdgesTo(s, "INHERITS") : s \in Named(Subject(question))})
        /\ ~Asks("created")
    BY <1>1, <1>6, AsksFor
  <2>4. Candidates = GraphCandidates
    BY <2>1 DEF Candidates
  <2> QED BY <1>2, <2>1, <2>2, <2>3, <2>4, GraphRetrieved
<1>7. CASE i = 7
  <2>1. /\ contract.intent = "LOCATE_DEFINITION" /\ contract.subject = Subject(question)
        /\ contract.slots = <<"unique_target">>
    BY <1>1, <1>7, RulesAre DEF Rule
  <2>2. Slots = {"unique_target"}
    BY <1>3, <2>1
  <2>3. AnswerRows = Rows(Named(Subject(question))) /\ ~Asks("created")
    BY <1>1, <1>7, AsksFor
  <2>4. Candidates = NamedCandidates
    BY <2>1 DEF Candidates, NamedCandidates
  <2> QED BY <1>2, <2>1, <2>2, <2>3, <2>4, DefinitionsRetrieved
<1>8. CASE i = 8
  <2>1. /\ contract.intent = "LOCATE_FRAMEWORK_CONSTRUCTION"
        /\ contract.subject = Subject(question)
        /\ contract.slots = <<"framework_construction", "containing_module">>
    BY <1>1, <1>8, RulesAre DEF Rule
  <2>2. Slots = {"framework_construction", "containing_module"}
    BY <1>3, <2>1
  <2>3. AnswerRows = {} /\ Asks("created")
    BY <1>1, <1>8, AsksFor
  <2>4. Candidates = FrameworkCandidates
    BY <2>1 DEF Candidates
  <2> QED BY <2>1, <2>2, <2>3, <2>4, ConstructionRetrieved
<1>9. CASE i = 9
  <2>1. /\ contract.intent = "FUNCTIONS_IN_MODULE"
        /\ contract.subject = ModuleSubject(question)
        /\ contract.slots = <<"unique_module", "function_symbols">>
    BY <1>1, <1>9, RulesAre DEF Rule
  <2>2. Slots = {"unique_module", "function_symbols"}
    BY <1>3, <2>1
  <2>3. AnswerRows = Rows(FunctionsOf(ModuleSubject(question))) /\ ~Asks("created")
    BY <1>1, <1>9, AsksFor
  <2>4. Candidates = FunctionCandidates
    BY <2>1 DEF Candidates
  <2> QED BY <2>1, <2>2, <2>3, <2>4, FunctionsRetrieved
<1>10. CASE i = 10
  <2>1. /\ contract.intent = "LIST_SYMBOLS" /\ contract.subject = Subject(question)
        /\ contract.slots = <<"full_text_evidence">>
    BY <1>1, <1>10, RulesAre DEF Rule
  <2>2. Slots = {"full_text_evidence"}
    BY <1>3, <2>1
  <2>3. /\ AnswerRows = Rows({s \in index.symbols :
                               \/ Subject(question) = NoName
                               \/ <<Subject(question), s.qualified>> \in Within})
        /\ ~Asks("created")
    BY <1>1, <1>10, AsksFor
  <2>4. Candidates = InventoryCandidates
    BY <2>1 DEF Candidates
  <2> QED BY <2>1, <2>2, <2>3, <2>4, InventoryRetrieved
<1> QED BY <1>4, <1>5, <1>6, <1>7, <1>8, <1>9, <1>10

----------------------------------------------------------------------------
(* What depends on the question and the scan alone stays as it is.            *)

LEMMA AskedStays ==
    ASSUME index' = index, question' = question
    PROVE  /\ Named(Subject(question))' = Named(Subject(question))
           /\ AnswerRows' = AnswerRows
           /\ Constructions(Framework)' = Constructions(Framework)
           /\ TargetIsUnique' <=> TargetIsUnique
           /\ RowsUncut' <=> RowsUncut
           /\ \A c : IsTarget(c)' <=> IsTarget(c)
           /\ \A c : IsAsked(c)' <=> IsAsked(c)
           /\ Unnamed' <=> Unnamed
           /\ IsRecorded' <=> IsRecorded
<1>1. \A n : Named(n)' = Named(n)
  BY DEF Named
<1>2. Named(Subject(question))' = Named(Subject(question))
  BY DEF Named
<1>3. \A s, type : EdgesTo(s, type)' = EdgesTo(s, type)
  BY DEF EdgesTo
<1>4. AnswerRows' = AnswerRows
  BY <1>1, <1>3 DEF AnswerRows, Asks, FunctionsOf, EdgesTo, Named, Rows
<1>5. Constructions(Framework)' = Constructions(Framework)
  BY DEF Constructions, Framework
<1>6. TargetIsUnique' <=> TargetIsUnique
  BY <1>2 DEF TargetIsUnique
<1>7. RowsUncut' <=> RowsUncut
  BY <1>2 DEF RowsUncut
<1>8. SymbolText' = SymbolText
  BY DEF SymbolText, DefinitionText
<1>9. \A c : IsTarget(c)' <=> IsTarget(c)
  BY <1>2, <1>8 DEF IsTarget, Completeness
<1>10. \A c : IsAsked(c)' <=> IsAsked(c)
  BY <1>4, <1>5 DEF IsAsked, Asks
<1>11. Unnamed' <=> Unnamed
  BY DEF Unnamed, Asks
<1>12. /\ Constructions(Subject(question))' = Constructions(Subject(question))
       /\ InModules' <=> InModules
  BY DEF Constructions, InModules
<1>13. IsRecorded' <=> IsRecorded
  BY <1>4, <1>6, <1>7, <1>11, <1>12 DEF IsRecorded, Asks
<1> QED BY <1>2, <1>4, <1>5, <1>6, <1>7, <1>9, <1>10, <1>11, <1>13

\* What a claim says depends on the contract and the scan alone.
LEMMA DraftStays ==
    ASSUME contract' = contract, index' = index
    PROVE  /\ \A c : EntitiesOf(c)' = EntitiesOf(c)
           /\ \A c : Draft(c)' = Draft(c)
           /\ \A c : IsProven(c)' <=> IsProven(c)
<1>1. \A default : SubjectWords(default)' = SubjectWords(default)
  BY DEF SubjectWords
<1>2. \A id : SymbolWithId(id)' = SymbolWithId(id)
  BY DEF SymbolWithId
<1>3. \A c : EntitiesOf(c)' = EntitiesOf(c)
  BY <1>1, <1>2 DEF EntitiesOf
<1>4. \A c : TextOf(c)' = TextOf(c)
  BY <1>1, <1>2 DEF TextOf
<1>5. \A c : AssertionOf(c)' = AssertionOf(c)
  BY DEF AssertionOf, EdgeOf
<1>6. \A c : Draft(c)' = Draft(c)
  BY <1>3, <1>4, <1>5 DEF Draft
<1>7. \A c : IsProven(c)' <=> IsProven(c)
  BY <1>3 DEF IsProven
<1> QED BY <1>3, <1>6, <1>7

LEMMA RetrievedStays ==
    ASSUME contract' = contract, index' = index, question' = question,
           NEW S, IsRetrieved(S)
    PROVE  IsRetrieved(S)'
<1>1. \A c : IsOffer(c)' <=> IsOffer(c)
  BY AdmissibleStays DEF IsOffer
<1>2. \A c : ToClaim(c)' <=> ToClaim(c)
  BY DEF ToClaim
<1>3. IsSound(S)'
  BY <1>1 DEF IsSound, IsRetrieved
<1>4. Cites(S)'
  BY <1>2, AskedStays DEF Cites, IsRetrieved
<1>5. Covers(S)'
  BY <1>2, AskedStays DEF Covers, IsRetrieved
<1>6. Targets(S)'
  BY AskedStays DEF Targets, IsRetrieved
<1>7. \A c : Fills(c)' <=> Fills(c)
  BY DEF Fills, Completeness, CanFill
<1>8. Slots' = Slots /\ (NamesHaveWords' <=> NamesHaveWords)
  BY DEF Slots, NamesHaveWords
<1>9. IsEnough(S)'
  BY <1>2, <1>7, <1>8, AskedStays, DraftStays DEF IsEnough, IsRetrieved
<1> QED BY <1>3, <1>4, <1>5, <1>6, <1>9 DEF IsRetrieved

----------------------------------------------------------------------------
(* The inductive invariant.  Before retrieval there is no package; after it   *)
(* the offers are as retrieval leaves them, each omission has its reason, and *)
(* the claims are about items of a package that is READY.                     *)

Early == stage \in {"asked", "classified", "refused"}

Fresh ==
    /\ offered = {} /\ todo = {} /\ accepted = {} /\ omissions = {} /\ seen = {}
    /\ tokensUsed = Reserved /\ decision = "NONE"

\* A candidate is omitted for a budget, because it is not admissible, or because
\* another one has its id.
Explained ==
    /\ \A o \in omissions :
         \/ o[2] \in BudgetReasons
         \/ ~Admissible(o[1])
         \/ \E d \in offered : d # o[1] /\ d.id = o[1].id
    /\ \A n \in seen : \E d \in offered \ todo : d.id = n

\* The drafts are about the items for the claims, each about one of them.
AreClaims(drafts) ==
    /\ \A k \in drafts : \E c \in accepted :
         ToClaim(c) /\ k.artifact = c.artifact /\ k.file = c.file /\ k.line = c.line
    /\ \A c \in accepted : ToClaim(c) => \E k \in drafts : k.artifact = c.artifact

AnswerInv ==
    /\ index \in Indexes
    /\ stage \in {"asked", "classified", "refused", "assembling", "rendered", "ended"}
    /\ Early => Fresh
    /\ stage # "asked" => contract = Contract(question)
    /\ AssemblerInv /\ BudgetInv /\ Explained
    /\ ~Early /\ contract.supported => IsRetrieved(offered)
    /\ decision = "READY" => contract.supported
    /\ stage = "rendered" => decision = "READY" /\ AreClaims(claims)
    /\ Answered => decision = "READY" /\ AreClaims(answer.claims)

\* An assembly that begins.
Starting ==
    /\ IsFiniteSet(offered) /\ \A c \in offered : IsCandidate(c)
    /\ todo = offered /\ accepted = {} /\ omissions = {} /\ seen = {}
    /\ tokensUsed = Reserved /\ decision = "NONE"

LEMMA StartingIsFine ==
    AssemblerConstants /\ Starting => AssemblerInv /\ BudgetInv /\ Explained
<1> SUFFICES ASSUME AssemblerConstants, Starting
             PROVE  AssemblerInv /\ BudgetInv /\ Explained
  OBVIOUS
<1>1. /\ IsFiniteSet({}) /\ Cardinality({}) = 0
      /\ Cardinality(offered) \in Nat
  BY FS_EmptySet, FS_CardinalityType DEF Starting
<1>2. Partition
  BY <1>1 DEF Starting, Partition, Omitted
<1>3. Admitted /\ Gate
  BY DEF Starting, Admitted, Gate, ReadyIsGrounded
<1>4. \A s : ItemsOf(s) = {}
  BY DEF ItemsOf, Starting
<1>5. BudgetsKept
  BY <1>1, <1>4, TokensOfNone DEF Starting, AssemblerConstants, BudgetsKept
<1>6. StillTooMuch /\ InOrder /\ BudgetGoesToTrust
  BY DEF Starting, StillTooMuch, InOrder, BudgetGoesToTrust, Omitted
<1>7. Explained
  BY DEF Starting, Explained
<1> QED BY <1>2, <1>3, <1>5, <1>6, <1>7 DEF AssemblerInv, BudgetInv

LEMMA FreshIsStarting == Fresh => Starting
BY FS_EmptySet DEF Fresh, Starting

\* The same in the state after a step.
LEMMA StartingAfter ==
    AssemblerConstants /\ Starting' => AssemblerInv' /\ BudgetInv' /\ Explained'
<1>1. AssemblerConstants /\ Starting => AssemblerInv /\ BudgetInv /\ Explained
  BY StartingIsFine
<1>2. AssemblerConstants' /\ Starting' => AssemblerInv' /\ BudgetInv' /\ Explained'
  BY <1>1, PTL
<1> QED BY <1>2 DEF AssemblerConstants, IsCandidate, Statuses, TrustOrder

LEMMA NextExplained == AssemblerInv /\ Explained /\ [Next]_vars => Explained'
<1> SUFFICES ASSUME AssemblerInv, Explained, [Next]_vars PROVE Explained'
  OBVIOUS
<1>1. ASSUME NEW c \in todo, NEW reason, Omit(c, reason), todo' = todo \ {c},
             offered' = offered, contract' = contract,
             \/ reason \in BudgetReasons
             \/ ~Admissible(c)
             \/ \E d \in offered : d # c /\ d.id = c.id,
             seen' = seen \/ seen' = seen \cup {c.id}
      PROVE  Explained'
  <2>1. c \in offered
    BY DEF AssemblerInv, Partition
  <2>2. \A o \in omissions' : o \in omissions \/ (o[1] = c /\ o[2] = reason)
    BY <1>1 DEF Omit
  <2>3. \A o \in omissions' : \/ o[2] \in BudgetReasons
                              \/ ~Admissible(o[1])'
                              \/ \E d \in offered' : d # o[1] /\ d.id = o[1].id
    BY <1>1, <2>2, AdmissibleStays DEF Explained
  <2>4. \A n \in seen' : \E d \in offered' \ todo' : d.id = n
    BY <1>1, <2>1 DEF Explained
  <2> QED BY <2>3, <2>4 DEF Explained
<1>2. ASSUME NEW c \in todo, Reject(c) PROVE Explained'
  <2>1. Precheck(c) = "DUPLICATE" => \E d \in offered : d # c /\ d.id = c.id
    <3>1. Precheck(c) = "DUPLICATE" => c.id \in seen
      BY DEF Precheck
    <3> QED BY <3>1 DEF Explained
  <2>2. Precheck(c) = "DUPLICATE" \/ ~Admissible(c)
    BY <1>2 DEF Reject, Precheck, Admissible
  <2> QED BY <1>1, <1>2, <2>1, <2>2 DEF Reject
<1>3. ASSUME NEW c \in todo, DropForBudget(c) PROVE Explained'
  <2>1. OverBudget(c) \in BudgetReasons
    BY <1>3 DEF DropForBudget, OverBudget, Exceeded, BudgetReasons
  <2> QED BY <1>1, <1>3, <2>1 DEF DropForBudget
<1>4. ASSUME NEW c \in todo, Accept(c) PROVE Explained'
  <2>1. c \in offered
    BY DEF AssemblerInv, Partition
  <2>2. \A n \in seen' : \E d \in offered' \ todo' : d.id = n
    BY <1>4, <2>1 DEF Explained, Accept
  <2> QED BY <1>4, <2>2, AdmissibleStays DEF Explained, Accept
<1>5. CASE Decide
  BY <1>5, AdmissibleStays DEF Explained, Decide
<1>6. CASE UNCHANGED vars
  BY <1>6, AdmissibleStays DEF Explained, vars
<1> QED BY <1>2, <1>3, <1>4, <1>5, <1>6 DEF Next

LEMMA InitAnswerInv == AssemblerConstants /\ AnswerInit => AnswerInv
<1> SUFFICES ASSUME AssemblerConstants, AnswerInit PROVE AnswerInv
  OBVIOUS
<1>1. Fresh
  BY DEF AnswerInit, Fresh
<1>2. AssemblerInv /\ BudgetInv /\ Explained
  BY <1>1, FreshIsStarting, StartingIsFine
<1>3. Early /\ stage = "asked" /\ index \in Indexes /\ ~Answered /\ decision = "NONE"
  BY DEF AnswerInit, Early, Answered
<1> QED BY <1>1, <1>2, <1>3 DEF AnswerInv

\* A step that leaves the package as it is.
LEMMA PackageStays ==
    ASSUME AssemblerConstants, AnswerInv, UNCHANGED vars, index' = index,
           question' = question
    PROVE  /\ AssemblerInv' /\ BudgetInv' /\ Explained'
           /\ IsRetrieved(offered) => IsRetrieved(offered)'
           /\ Fresh => Fresh'
           /\ \A drafts : AreClaims(drafts) => AreClaims(drafts)'
<1>1. AssemblerInv' /\ BudgetInv' /\ Explained'
  BY NextAssemblerInv, NextBudgetInv, NextExplained DEF AnswerInv
<1>2. IsRetrieved(offered) => IsRetrieved(offered)'
  <2>1. \A S : IsRetrieved(S) => IsRetrieved(S)'
    BY RetrievedStays DEF vars
  <2>2. offered' = offered
    BY DEF vars
  <2> QED BY <2>1, <2>2
<1>3. Fresh => Fresh'
  BY DEF Fresh, vars
<1>4. \A drafts : AreClaims(drafts) => AreClaims(drafts)'
  BY DEF AreClaims, ToClaim, vars
<1> QED BY <1>1, <1>2, <1>3, <1>4

LEMMA NextAnswerInv ==
    AssemblerConstants /\ AnswerInv /\ [AnswerNext]_answerVars => AnswerInv'
<1> SUFFICES ASSUME AssemblerConstants, AnswerInv, [AnswerNext]_answerVars
             PROVE  AnswerInv'
  OBVIOUS
<1>1. CASE Classify
  <2>1. Fresh' /\ index' = index /\ stage' = "classified"
    BY <1>1 DEF Classify, AnswerInv, Early, Fresh
  <2>2. contract' = Contract(question')
    BY <1>1 DEF Classify
  <2>3. Starting'
    BY <2>1, FS_EmptySet DEF Fresh, Starting
  <2>4. AssemblerInv' /\ BudgetInv' /\ Explained'
    BY <2>3, StartingAfter
  <2>5. Early' /\ ~Answered' /\ decision' = "NONE"
    BY <2>1 DEF Early, Answered, Fresh
  <2> QED BY <2>1, <2>2, <2>4, <2>5 DEF AnswerInv
<1>2. CASE Refuse
  <2>1. /\ UNCHANGED vars /\ index' = index /\ question' = question
        /\ stage' = "refused" /\ stage = "classified"
    BY <1>2 DEF Refuse
  <2>2. Early /\ Early' /\ ~Answered'
    BY <2>1 DEF Early, Answered
  <2>3. Fresh' /\ contract' = Contract(question')
    BY <2>1, <2>2, PackageStays DEF AnswerInv, vars
  <2> QED BY <2>1, <2>2, <2>3, PackageStays DEF AnswerInv, Fresh
<1>3. CASE Retrieve
  <2>1. /\ stage = "classified" /\ stage' = "assembling"
        /\ offered' = Candidates /\ todo' = offered'
        /\ UNCHANGED <<contract, accepted, omissions, seen, tokensUsed, decision>>
        /\ index' = index /\ question' = question
    BY <1>3 DEF Retrieve
  <2>2. Fresh /\ contract = Contract(question) /\ index \in Indexes
    BY <2>1 DEF AnswerInv, Early
  <2>3. contract.supported => IsRetrieved(Candidates)
    BY <2>2, CandidatesRetrieved
  <2>4. ~contract.supported => Candidates = {}
    BY <2>2, Unsupported
  <2>5. IsFiniteSet(Candidates) /\ \A c \in Candidates : IsCandidate(c)
    BY <2>3, <2>4, FS_EmptySet DEF IsRetrieved, IsSound, IsOffer
  <2>6. \A S : IsRetrieved(S) => IsRetrieved(S)'
    BY <2>1, RetrievedStays
  <2>7. contract'.supported => IsRetrieved(offered)'
    BY <2>1, <2>3, <2>6
  <2>8. \A c : IsCandidate(c)' <=> IsCandidate(c)
    BY DEF IsCandidate, Statuses, TrustOrder
  <2>9. Starting'
    BY <2>1, <2>2, <2>5 DEF Starting, Fresh, IsCandidate, Statuses, TrustOrder
  <2>10. AssemblerInv' /\ BudgetInv' /\ Explained'
    BY <2>9, StartingAfter
  <2>11. ~Early' /\ ~Answered' /\ decision' = "NONE"
    BY <2>1, <2>2 DEF Early, Answered, Fresh
  <2> QED BY <2>1, <2>2, <2>7, <2>10, <2>11 DEF AnswerInv
<1>4. CASE Assemble
  <2>1. /\ Next /\ stage = "assembling" /\ stage' = stage
        /\ index' = index /\ question' = question
    BY <1>4 DEF Assemble
  <2>2. contract' = contract /\ offered' = offered
    BY <2>1 DEF Next, Reject, DropForBudget, Accept, Decide
  <2>3. AssemblerInv' /\ BudgetInv' /\ Explained'
    BY <2>1, NextAssemblerInv, NextBudgetInv, NextExplained DEF AnswerInv
  <2>4. \A S : IsRetrieved(S) => IsRetrieved(S)'
    BY <2>1, <2>2, RetrievedStays
  <2>5. ~Early /\ ~Early' /\ ~Answered'
    BY <2>1 DEF Early, Answered
  <2>6. contract'.supported => IsRetrieved(offered)'
    BY <2>2, <2>4, <2>5 DEF AnswerInv
  <2>7. decision' = "READY" => contract'.supported
    BY <2>1, <2>2 DEF Next, Reject, DropForBudget, Accept, Decide, AnswerInv
  <2> QED BY <2>1, <2>2, <2>3, <2>5, <2>6, <2>7 DEF AnswerInv
<1>5. CASE AbstainUncovered
  <2>1. /\ UNCHANGED vars /\ index' = index /\ question' = question
        /\ stage = "assembling" /\ stage' = "ended" /\ answer'.status = "ABSTAINED"
    BY <1>5 DEF AbstainUncovered
  <2>2. ~Early /\ ~Early' /\ ~Answered'
    BY <2>1 DEF Early, Answered
  <2>3. /\ contract' = Contract(question') /\ (contract'.supported => IsRetrieved(offered)')
        /\ decision' = decision /\ contract' = contract
    BY <2>1, <2>2, PackageStays DEF AnswerInv, vars
  <2> QED BY <2>1, <2>2, <2>3, PackageStays DEF AnswerInv
<1>6. CASE Render
  <2>1. /\ UNCHANGED vars /\ index' = index /\ question' = question
        /\ stage = "assembling" /\ stage' = "rendered" /\ decision = "READY"
        /\ claims' = {Draft(c) : c \in ItemsOf(ClaimSlot[contract.intent])}
    BY <1>6 DEF Render
  <2>2. ~Early /\ ~Early' /\ ~Answered'
    BY <2>1 DEF Early, Answered
  <2>3. /\ contract' = Contract(question') /\ (contract'.supported => IsRetrieved(offered)')
        /\ decision' = decision /\ contract' = contract
    BY <2>1, <2>2, PackageStays DEF AnswerInv, vars
  <2>4. \A c : /\ Draft(c).artifact = c.artifact /\ Draft(c).file = c.file
               /\ Draft(c).line = c.line
    BY DEF Draft
  <2>5. \A drafts : drafts = {Draft(c) : c \in ItemsOf(ClaimSlot[contract.intent])}
                      => AreClaims(drafts)
    BY <2>4 DEF AreClaims, ItemsOf, ToClaim
  <2>6. AreClaims(claims)'
    <3>1. \A drafts : AreClaims(drafts) => AreClaims(drafts)'
      BY <2>1, PackageStays
    <3> QED BY <2>1, <2>5, <3>1
  <2> QED BY <2>1, <2>2, <2>3, <2>6, PackageStays DEF AnswerInv
<1>7. CASE Answer
  <2>1. /\ UNCHANGED vars /\ index' = index /\ question' = question
        /\ stage = "rendered" /\ stage' = "ended"
        /\ answer'.status = "ANSWERED" => answer'.claims = claims
    BY <1>7 DEF Answer
  <2>2. ~Early /\ ~Early' /\ decision = "READY" /\ AreClaims(claims)
    BY <2>1 DEF Early, AnswerInv
  <2>3. /\ contract' = Contract(question') /\ (contract'.supported => IsRetrieved(offered)')
        /\ decision' = decision /\ contract' = contract
    BY <2>1, <2>2, PackageStays DEF AnswerInv, vars
  <2>4. Answered' => AreClaims(answer.claims)'
    <3>1. \A drafts : AreClaims(drafts) => AreClaims(drafts)'
      BY <2>1, PackageStays
    <3>2. Answered' => answer'.claims = claims
      BY <2>1 DEF Answered
    <3> QED BY <2>2, <3>1, <3>2
  <2> QED BY <2>1, <2>2, <2>3, <2>4, PackageStays DEF AnswerInv
<1>8. CASE UNCHANGED answerVars
  <2>1. /\ UNCHANGED vars /\ index' = index /\ question' = question
        /\ stage' = stage /\ claims' = claims /\ answer' = answer
    BY <1>8 DEF answerVars
  <2>2. (Early' <=> Early) /\ (Answered' <=> Answered)
    BY <2>1 DEF Early, Answered
  <2>3. contract' = contract /\ decision' = decision
    BY <2>1 DEF vars
  <2>4. \A drafts : AreClaims(drafts) => AreClaims(drafts)'
    BY <2>1, PackageStays
  <2>5. /\ AreClaims(claims) => AreClaims(claims)'
        /\ AreClaims(answer.claims) => AreClaims(answer.claims)'
    BY <2>1, <2>4
  <2> QED BY <2>1, <2>2, <2>3, <2>5, PackageStays DEF AnswerInv
<1> QED BY <1>1, <1>2, <1>3, <1>4, <1>5, <1>6, <1>7, <1>8 DEF AnswerNext

\* The inductive invariant of a question's way to its answer.
THEOREM AnswerInvariant == AnswerSpec => []AnswerInv
<1>1. AnswerInit => AnswerInv
  BY InitAnswerInv, AssemblerConstants
<1>2. AnswerInv /\ [AnswerNext]_answerVars => AnswerInv'
  BY NextAnswerInv, AssemblerConstants
<1> QED BY <1>1, <1>2, PTL DEF AnswerSpec

----------------------------------------------------------------------------
\* An offer that is not in a package that is READY was omitted for a budget, or
\* is the category of a file that another one has.
LEMMA LeftForBudget ==
    ASSUME AnswerInv, decision = "READY", ~Early,
           NEW c \in offered, c \notin accepted, c.slot # "file_categories"
    PROVE  \E o \in omissions : o[1] = c /\ o[2] \in BudgetReasons
<1>1. IsSound(offered)
  BY DEF AnswerInv, IsRetrieved
<1>2. todo = {} /\ offered = accepted \cup Omitted
  BY DEF AnswerInv, AssemblerInv, Gate, Partition
<1>3. PICK o \in omissions : o[1] = c
  BY <1>2 DEF Omitted
<1>4. Admissible(c)
  BY <1>1 DEF IsSound, IsOffer
<1>5. ASSUME NEW d \in offered, d # c, d.id = c.id PROVE FALSE
  BY <1>1, <1>5 DEF IsSound
<1> QED BY <1>3, <1>4, <1>5 DEF AnswerInv, Explained

LEMMA NeedsTarget ==
    ASSUME contract = Contract(question), contract.supported
    PROVE  /\ contract.intent = RuleOf(question).intent
           /\ contract.intent \in NeedsSubject => "unique_target" \in Slots
           /\ ClaimSlot[contract.intent] # "file_categories"
<1>1. PICK i \in 4 .. 10 :
        /\ RuleOf(question) = Rules[i] /\ contract.intent = Rules[i].intent
        /\ i # 5 => contract.slots = Rules[i].slots
        /\ i = 5 => ImporterSlots
  BY ContractIs
<1>2. \A j \in DOMAIN contract.slots : contract.slots[j] \in Slots
  BY DEF Slots
<1>3. contract.intent \in NeedsSubject => i \in {5, 6, 7}
  BY <1>1, RulesAre DEF Rule, NeedsSubject
<1>4. i = 5 => "unique_target" \in Slots
  BY <1>1, <1>2 DEF ImporterSlots
<1>5. ASSUME i = 6 PROVE "unique_target" \in Slots
  <2>1. contract.slots = <<"unique_target", "inheritance_edges">>
    BY <1>1, <1>5, RulesAre DEF Rule
  <2> QED BY <1>2, <2>1
<1>6. ASSUME i = 7 PROVE "unique_target" \in Slots
  <2>1. contract.slots = <<"unique_target">>
    BY <1>1, <1>6, RulesAre DEF Rule
  <2> QED BY <1>2, <2>1
<1>7. contract.intent \in NeedsSubject => "unique_target" \in Slots
  BY <1>3, <1>4, <1>5, <1>6
<1>8. ClaimSlot[contract.intent] # "file_categories"
  BY <1>1, RulesAre DEF Rule, ClaimSlot
<1> QED BY <1>1, <1>7, <1>8

\* A package for a question about one symbol that is READY has one target, and if
\* the name is not unique, another one was left out for a budget.
LEMMA ReadyTargets ==
    ASSUME AssemblerConstants, AnswerInv, decision = "READY", ~Early, ~TargetIsUnique
    PROVE  /\ Named(Subject(question)) # {}
           /\ ExactLimit >= 2 =>
                \E o \in omissions, e \in accepted :
                    /\ o[2] \in BudgetReasons
                    /\ IsTarget(o[1]) /\ IsTarget(e)
                    /\ accepted = {e} /\ ItemsOf("unique_target") = {e}
<1>1. /\ contract.supported /\ contract = Contract(question)
      /\ IsRetrieved(offered) /\ Partition /\ Admitted /\ ReadyIsGrounded
  BY DEF AnswerInv, Early, AssemblerInv, Gate
<1>2. contract.intent \in NeedsSubject /\ "unique_target" \in Slots
  BY <1>1, NeedsTarget DEF TargetIsUnique
<1>3. accepted \subseteq offered /\ IsFiniteSet(accepted)
  BY <1>1, FS_Subset DEF Partition
<1>4. \A c \in offered : c.slot = "unique_target" => IsTarget(c)
  BY <1>1, <1>2 DEF IsRetrieved, Targets
<1>5. \E c \in accepted : c.slot = "unique_target"
  BY <1>1, <1>2 DEF ReadyIsGrounded, ItemsOf
<1>6. Named(Subject(question)) # {}
  BY <1>3, <1>4, <1>5 DEF IsTarget
<1>7. ASSUME ExactLimit >= 2
      PROVE  \E o \in omissions, e \in accepted :
                 /\ o[2] \in BudgetReasons
                 /\ IsTarget(o[1]) /\ IsTarget(e)
                 /\ accepted = {e} /\ ItemsOf("unique_target") = {e}
  <2>1. /\ \A c \in offered : c.slot = "unique_target"
        /\ \E c, d \in offered : c # d
    BY <1>1, <1>2, <1>6, <1>7 DEF IsRetrieved, Targets
  <2>2. \A c \in offered : IsTarget(c)
    BY <1>4, <2>1
  <2> DEFINE exact == {c \in ItemsOf("unique_target") : /\ c.status # "GENERATED"
                                                       /\ c.trust = "EXACT_SYMBOL"
                                                       /\ Completeness(c) = "COMPLETE"}
  <2>3. ItemsOf("unique_target") = accepted
    BY <1>3, <2>1 DEF ItemsOf
  <2>4. exact = accepted
    BY <1>3, <2>2, <2>3 DEF IsTarget
  <2>5. UniqueTarget = "unique_target"
    BY AnswerConstants
  <2>6. Cardinality(exact) = 1
    BY <1>1, <1>2, <2>5 DEF ReadyIsGrounded
  <2> HIDE DEF exact
  <2>7. PICK e : accepted = {e}
    BY <1>3, <2>4, <2>6, FS_Singleton
  <2>8. PICK c \in offered : c \notin accepted
    BY <2>1, <2>7
  <2>9. PICK o \in omissions : o[1] = c /\ o[2] \in BudgetReasons
    <3>1. c.slot # "file_categories"
      BY <2>1
    <3> QED BY <2>8, <3>1, LeftForBudget
  <2>10. e \in accepted /\ e \in offered
    BY <1>3, <2>7
  <2> QED BY <2>2, <2>3, <2>7, <2>9, <2>10
<1> QED BY <1>6, <1>7

LEMMA RowsAnswered == AssemblerConstants /\ AnswerInv => ResolvedRowsAreAnswered
<1> SUFFICES ASSUME AssemblerConstants, AnswerInv, Answered, RowsUncut, TargetIsUnique,
                    NEW r \in AnswerRows
             PROVE  Claimed(r) \/ LeftOut(r)
  BY DEF ResolvedRowsAreAnswered
<1>1. decision = "READY" /\ AreClaims(answer.claims) /\ ~Early
  BY DEF AnswerInv, Answered, Early
<1>2. contract.supported /\ contract = Contract(question) /\ IsRetrieved(offered)
  BY <1>1 DEF AnswerInv, Early
<1>3. PICK c \in offered : ToClaim(c) /\ c.artifact = r[1]
  BY <1>2 DEF IsRetrieved, Covers
<1>4. CASE c \in accepted
  BY <1>1, <1>3, <1>4 DEF AreClaims, Claimed
<1>5. CASE c \notin accepted
  <2>1. c.slot # "file_categories"
    BY <1>2, <1>3, NeedsTarget DEF ToClaim
  <2>2. PICK o \in omissions : o[1] = c /\ o[2] \in BudgetReasons
    BY <1>1, <1>5, <2>1, LeftForBudget
  <2> QED BY <1>3, <2>2 DEF ToClaim, LeftOut
<1> QED BY <1>4, <1>5

\* Within the limits of retrieval, whatever the scan and the budgets, an answer has a
\* claim for each resolved row that was asked for, or an omission that names it.
THEOREM ResolvedRowsTheorem == AnswerSpec => []ResolvedRowsAreAnswered
<1>1. AnswerInv => ResolvedRowsAreAnswered
  BY RowsAnswered, AssemblerConstants
<1> QED BY <1>1, AnswerInvariant, PTL

LEMMA AnswersTrue == AssemblerConstants /\ TargetsFit /\ AnswerInv => AnswersAreTrue
<1> SUFFICES ASSUME AssemblerConstants, TargetsFit, AnswerInv, Answered
             PROVE  /\ question.words \cap UnsupportedWordings = {}
                    /\ TargetIsUnique
                    /\ \A k \in answer.claims : IsAsked(k)
  BY DEF AnswersAreTrue, IsAsked, Framework
<1>1. decision = "READY" /\ AreClaims(answer.claims) /\ ~Early
  BY DEF AnswerInv, Answered, Early
<1>2. contract.supported /\ contract = Contract(question) /\ IsRetrieved(offered)
  BY <1>1 DEF AnswerInv, Early
<1>3. question.words \cap UnsupportedWordings = {}
  BY <1>2, ContractIs
<1>4. TargetIsUnique
  <2> SUFFICES ASSUME ~TargetIsUnique PROVE FALSE
    OBVIOUS
  <2>1. PICK o \in omissions, e \in accepted :
          /\ o[2] \in BudgetReasons
          /\ IsTarget(o[1]) /\ IsTarget(e)
          /\ accepted = {e} /\ ItemsOf("unique_target") = {e}
    BY <1>1, ReadyTargets DEF TargetsFit
  <2>2. PICK s \in index.symbols, t \in index.symbols :
          o[1].tokens = Len(DefinitionText(s)) /\ e.tokens = Len(DefinitionText(t))
    BY <2>1 DEF IsTarget, Named, SymbolText
  <2>3. /\ o[1].tokens + e.tokens <= MaxTokensPerSlot
        /\ Reserved + (o[1].tokens + e.tokens) <= MaxTokens
    BY <2>2 DEF TargetsFit, AnswerInv
  <2>4. /\ o[1] \in offered /\ e \in offered
        /\ o[1].tokens \in Nat /\ e.tokens \in Nat
    BY <2>1 DEF AnswerInv, AssemblerInv, Partition, Omitted, IsCandidate
  <2>5. Cardinality(accepted) = 1 /\ Tokens(accepted) = e.tokens
    <3> DEFINE none == {}
    <3>1. /\ IsFiniteSet(none) /\ e \notin none /\ accepted = none \cup {e}
          /\ \A d \in none \cup {e} : d.tokens \in Nat
      BY <2>1, <2>4, FS_EmptySet
    <3>2. Tokens(none) = 0
      BY TokensOfNone
    <3> HIDE DEF none
    <3>3. Tokens(none \cup {e}) = Tokens(none) + e.tokens
      BY <3>1, TokensOfMore
    <3>4. Tokens(accepted) = e.tokens
      BY <2>4, <3>1, <3>2, <3>3
    <3> QED BY <2>1, <3>4, FS_Singleton
  <2>6. o[1].slot = "unique_target" /\ Tokens(ItemsOf(o[1].slot)) = e.tokens
    BY <2>1, <2>5 DEF IsTarget
  <2>7. tokensUsed = Reserved + e.tokens
    BY <2>5 DEF AnswerInv, BudgetInv, BudgetsKept
  <2>8. /\ o[2] = "ITEM_LIMIT" => Cardinality(accepted) + 1 > MaxItems
        /\ o[2] = "SLOT_TOKEN_BUDGET" =>
              Tokens(ItemsOf(o[1].slot)) + o[1].tokens > MaxTokensPerSlot
        /\ o[2] = "TOTAL_TOKEN_BUDGET" => tokensUsed + o[1].tokens > MaxTokens
    BY DEF AnswerInv, BudgetInv, StillTooMuch
  <2>9. MaxItems >= 2 /\ MaxItems \in Nat /\ MaxTokens \in Nat /\ MaxTokensPerSlot \in Nat
        /\ Reserved \in Nat
    BY DEF TargetsFit, AssemblerConstants
  <2>10. o[2] # "ITEM_LIMIT"
    BY <2>5, <2>8, <2>9
  <2>11. o[2] # "SLOT_TOKEN_BUDGET"
    BY <2>3, <2>4, <2>6, <2>8, <2>9
  <2>12. o[2] # "TOTAL_TOKEN_BUDGET"
    BY <2>3, <2>4, <2>7, <2>8, <2>9
  <2> QED BY <2>1, <2>10, <2>11, <2>12 DEF BudgetReasons
<1>5. ASSUME NEW k \in answer.claims PROVE IsAsked(k)
  <2>1. PICK c \in accepted :
          ToClaim(c) /\ k.artifact = c.artifact /\ k.file = c.file /\ k.line = c.line
    BY <1>1 DEF AreClaims
  <2>2. c \in offered
    BY DEF AnswerInv, AssemblerInv, Partition
  <2>3. IsAsked(c)
    BY <1>2, <2>1, <2>2 DEF IsRetrieved, Cites
  <2> QED BY <2>1, <2>3 DEF IsAsked
<1> QED BY <1>3, <1>4, <1>5

\* As long as two definitions fit a package, an answer is true: it cites only what
\* was asked for, a symbol only if no other has its name, and never answers what
\* the classifier refuses.
THEOREM AnswersAreTrueTheorem == ASSUME TargetsFit PROVE AnswerSpec => []AnswersAreTrue
<1>1. AnswerInv => AnswersAreTrue
  BY AnswersTrue, AssemblerConstants, TargetsFit
<1> QED BY <1>1, AnswerInvariant, PTL

----------------------------------------------------------------------------
(* Why there is no answer.  A package abstains for a slot that does not pass, *)
(* and drafts fail only because of a qualifier: what they say is in the item  *)
(* they cite.                                                                 *)

\* An id is remembered for an item, or for a candidate that a budget turned away;
\* what no budget turned away was not admissible, or a duplicate of one of these.
Remembered ==
    /\ \A o \in omissions :
         o[2] \in BudgetReasons \/ ~Admissible(o[1]) \/ o[1].id \in seen
    /\ \A n \in seen : \/ \E d \in accepted : d.id = n
                       \/ \E o \in omissions : o[1].id = n /\ o[2] \in BudgetReasons

\* The gate refused a package that has a slot that does not pass.
Refused == ~contract.supported \/ \E s \in Slots : StatusOf(s) \notin Passing

HasStrengthened(gaps) == \E g \in gaps : g[1] = "QUALIFIER_STRENGTHENED"

AbstentionInv ==
    /\ AnswerInv /\ Remembered
    /\ decision = "ABSTAIN" => Refused
    /\ stage = "rendered" => claims = {Draft(c) : c \in ItemsOf(ClaimSlot[contract.intent])}
    /\ stage = "ended" /\ answer.status = "ABSTAINED" =>
         decision = "ABSTAIN" \/ HasStrengthened(answer.gaps) \/ Unnamed

LEMMA StatusStays ==
    ASSUME accepted' = accepted, omissions' = omissions
    PROVE  \A s : StatusOf(s)' = StatusOf(s)
<1>1. \A s : ItemsOf(s)' = ItemsOf(s)
  BY DEF ItemsOf
<1>2. \A s, k : Having(s, k)' = Having(s, k)
  BY <1>1 DEF Having, Completeness
<1>3. \A s, k : Filling(s, k)' = Filling(s, k)
  BY <1>2 DEF Filling, CanFill
<1> QED BY <1>1, <1>2, <1>3 DEF StatusOf

LEMMA RefusedStays ==
    ASSUME accepted' = accepted, omissions' = omissions, contract' = contract, Refused
    PROVE  Refused'
BY StatusStays DEF Refused, Slots

LEMMA RememberedStays ==
    ASSUME accepted' = accepted, omissions' = omissions, contract' = contract,
           seen' = seen, Remembered
    PROVE  Remembered'
BY AdmissibleStays DEF Remembered

LEMMA NextRemembered ==
    ASSUME Remembered, Next
    PROVE  Remembered'
<1>1. contract' = contract
  BY DEF Next, Reject, DropForBudget, Accept, Decide
<1>2. ASSUME NEW c \in todo, Reject(c) PROVE Remembered'
  <2>1. ~Admissible(c) \/ c.id \in seen
    BY <1>2 DEF Reject, Precheck, Admissible
  <2>2. /\ omissions' = omissions \cup {<<c, Precheck(c)>>}
        /\ accepted' = accepted /\ seen' = seen
    BY <1>2 DEF Reject, Omit
  <2> QED BY <1>1, <2>1, <2>2, AdmissibleStays DEF Remembered
<1>3. ASSUME NEW c \in todo, DropForBudget(c) PROVE Remembered'
  <2> DEFINE o == <<c, OverBudget(c)>>
  <2>1. OverBudget(c) \in BudgetReasons
    BY <1>3 DEF DropForBudget, OverBudget, Exceeded, BudgetReasons
  <2>2. /\ omissions' = omissions \cup {o}
        /\ accepted' = accepted /\ seen' = seen \cup {c.id}
    BY <1>3 DEF DropForBudget, Omit
  <2>3. o[1] = c /\ o[2] \in BudgetReasons
    BY <2>1
  <2> HIDE DEF o
  <2> QED BY <1>1, <2>2, <2>3, AdmissibleStays DEF Remembered
<1>4. ASSUME NEW c \in todo, Accept(c) PROVE Remembered'
  <2>1. /\ omissions' = omissions
        /\ accepted' = accepted \cup {c} /\ seen' = seen \cup {c.id}
    BY <1>4 DEF Accept
  <2> QED BY <1>1, <2>1, AdmissibleStays DEF Remembered
<1>5. CASE Decide
  BY <1>5, RememberedStays DEF Decide
<1> QED BY <1>2, <1>3, <1>4, <1>5 DEF Next

LEMMA NextRefused ==
    ASSUME AssemblerInv, decision = "ABSTAIN" => Refused, Next
    PROVE  (decision = "ABSTAIN" => Refused)'
<1>1. CASE Decide
  <2>1. /\ accepted' = accepted /\ omissions' = omissions /\ contract' = contract
        /\ slotStatus' = [s \in Slots |-> StatusOf(s)]
        /\ decision' = IF contract.supported /\ \A s \in Slots : slotStatus'[s] \in Passing
                       THEN "READY" ELSE "ABSTAIN"
    BY <1>1 DEF Decide
  <2>2. decision' = "ABSTAIN" => Refused
    BY <2>1 DEF Refused
  <2> QED BY <2>1, <2>2, RefusedStays
<1>2. ASSUME NEW c \in todo, Reject(c) \/ DropForBudget(c) \/ Accept(c)
      PROVE  (decision = "ABSTAIN" => Refused)'
  <2>1. decision' = "NONE"
    BY <1>2 DEF Reject, DropForBudget, Accept, AssemblerInv, Gate
  <2> QED BY <2>1
<1> QED BY <1>1, <1>2 DEF Next

\* The slot of the claims is one of those required.
LEMMA ClaimsHaveSlot ==
    ASSUME contract = Contract(question), contract.supported
    PROVE  ClaimSlot[contract.intent] \in Slots
<1>1. PICK i \in 4 .. 10 :
        /\ contract.intent = Rules[i].intent
        /\ i # 5 => contract.slots = Rules[i].slots
        /\ i = 5 => ImporterSlots
  BY ContractIs
<1>2. \A j \in DOMAIN contract.slots : contract.slots[j] \in Slots
  BY DEF Slots
<1>3. CASE i = 4
  <2>1. contract.intent = "LIST_ROUTES" /\ contract.slots = <<"route_symbols">>
    BY <1>1, <1>3, RulesAre DEF Rule
  <2> QED BY <1>2, <2>1 DEF ClaimSlot
<1>4. CASE i = 5
  BY <1>1, <1>2, <1>4, RulesAre DEF Rule, ImporterSlots, ClaimSlot
<1>5. CASE i = 6
  <2>1. /\ contract.intent = "FIND_INHERITORS"
        /\ contract.slots = <<"unique_target", "inheritance_edges">>
    BY <1>1, <1>5, RulesAre DEF Rule
  <2> QED BY <1>2, <2>1 DEF ClaimSlot
<1>6. CASE i = 7
  <2>1. contract.intent = "LOCATE_DEFINITION" /\ contract.slots = <<"unique_target">>
    BY <1>1, <1>6, RulesAre DEF Rule
  <2> QED BY <1>2, <2>1 DEF ClaimSlot
<1>7. CASE i = 8
  <2>1. /\ contract.intent = "LOCATE_FRAMEWORK_CONSTRUCTION"
        /\ contract.slots = <<"framework_construction", "containing_module">>
    BY <1>1, <1>7, RulesAre DEF Rule
  <2> QED BY <1>2, <2>1 DEF ClaimSlot
<1>8. CASE i = 9
  <2>1. /\ contract.intent = "FUNCTIONS_IN_MODULE"
        /\ contract.slots = <<"unique_module", "function_symbols">>
    BY <1>1, <1>8, RulesAre DEF Rule
  <2> QED BY <1>2, <2>1 DEF ClaimSlot
<1>9. CASE i = 10
  <2>1. contract.intent = "LIST_SYMBOLS" /\ contract.slots = <<"full_text_evidence">>
    BY <1>1, <1>9, RulesAre DEF Rule
  <2> QED BY <1>2, <2>1 DEF ClaimSlot
<1> QED BY <1>3, <1>4, <1>5, <1>6, <1>7, <1>8, <1>9

\* The draft about an item that says what it claims fails, if at all, because of
\* a qualifier; and no edge of the scan speaks against it.
LEMMA DraftsHold ==
    ASSUME index \in Indexes, Admitted, NEW c \in accepted, IsProven(c),
           Draft(c) \in claims
    PROVE  /\ ~Conflicting(Draft(c))
           /\ Failures(Draft(c)) \subseteq {"QUALIFIER_STRENGTHENED"}
<1> DEFINE claim == Draft(c)
<1>1. /\ claim.item = c.id /\ claim.artifact = c.artifact /\ claim.file = c.file
      /\ claim.line = c.line /\ claim.end = c.end
      /\ claim.entities = EntitiesOf(c) /\ claim.asserts = AssertionOf(c)
  BY DEF Draft
<1>2. claim \in claims
  OBVIOUS
<1> HIDE DEF claim
<1>3. c.line \in Nat /\ c.end \in Nat /\ \A words \in EntitiesOf(c) : Contains(c.text, words)
  BY DEF IsProven
<1>4. Resolved(claim) = {c}
  <2>1. \A d \in accepted : d.id = c.id => d = c
    BY DEF Admitted
  <2>2. c.scan = ScanId /\ c.line <= c.line /\ c.end <= c.end
    BY <1>3 DEF Admitted, Admissible
  <2> QED BY <1>1, <2>1, <2>2 DEF Resolved
<1>5. EvidenceWords(claim) = c.text
  BY <1>4 DEF EvidenceWords
<1>6. LexicallySupported(claim)
  BY <1>1, <1>3, <1>5 DEF LexicallySupported
<1>7. StructureSupported(claim) /\ ~Conflicting(claim)
  <2>1. CASE contract.intent \notin {"FIND_IMPORTERS", "FIND_INHERITORS"}
    <3>1. claim.asserts = {}
      BY <1>1, <2>1 DEF AssertionOf
    <3> QED BY <3>1 DEF StructureSupported, Conflicting, Matching
  <2>2. CASE contract.intent \in {"FIND_IMPORTERS", "FIND_INHERITORS"}
    <3>1. PICK e \in index.edges : e.id = c.artifact /\ e.resolution = "RESOLVED"
      BY <2>2 DEF IsProven
    <3>2. EdgeOf(c) = e
      BY <3>1, AnswerConstants DEF EdgeOf, IsScanned
    <3>3. claim.asserts = {<<e.source, e.type, e.target>>}
      BY <1>1, <2>2, <3>2 DEF AssertionOf
    <3>4. e \in Matching(claim)
      BY <1>1, <1>2, <3>1, <3>3 DEF Matching
    <3>5. ASSUME NEW f \in Matching(claim) PROVE f.resolution = "RESOLVED"
      <4>1. f \in index.edges /\ f.target = e.target
        BY <3>3 DEF Matching
      <4> QED BY <3>1, <4>1, AnswerConstants DEF IsScanned
    <3> QED BY <3>4, <3>5 DEF StructureSupported, Conflicting
  <2> QED BY <2>1, <2>2
<1>8. Failures(claim) \subseteq {"QUALIFIER_STRENGTHENED"}
  BY <1>4, <1>6, <1>7 DEF Failures
<1> QED BY <1>7, <1>8 DEF claim

\* The claims of a package that is READY abstain only for a qualifier.
LEMMA OnlyQualifiersAbstain ==
    ASSUME NamesHaveWords, AbstentionInv, stage = "rendered", ~Unnamed,
           Decision = "ABSTAINED"
    PROVE  HasStrengthened(Gaps)
<1> DEFINE slot == ClaimSlot[contract.intent]
<1>1. /\ index \in Indexes /\ contract = Contract(question) /\ contract.supported
      /\ decision = "READY" /\ ReadyIsGrounded /\ Admitted /\ Partition
      /\ IsEnough(offered)
  BY DEF AbstentionInv, AnswerInv, AssemblerInv, Gate, Early, IsRetrieved
<1>2. claims = {Draft(c) : c \in ItemsOf(slot)}
  BY DEF AbstentionInv
<1>3. slot \in Slots
  BY <1>1, ClaimsHaveSlot
<1>4. \A s \in Slots : ItemsOf(s) # {}
  BY <1>1 DEF ReadyIsGrounded
<1>5. \A s \in Slots : Covered(s)
  BY <1>4 DEF Covered
<1>6. claims # {}
  BY <1>2, <1>3, <1>4
<1>7. PICK claim \in claims : Verdict(claim) \in {"UNSUPPORTED", "CONFLICTING"}
  BY <1>5, <1>6 DEF Decision
<1>8. PICK c \in ItemsOf(slot) : claim = Draft(c)
  BY <1>2
<1>9. c \in accepted /\ c \in offered /\ ToClaim(c)
  BY <1>1, <1>8 DEF ItemsOf, Partition, ToClaim
<1>10. IsProven(c)
  BY <1>1, <1>9 DEF IsEnough
<1>11. ~Conflicting(claim) /\ Failures(claim) \subseteq {"QUALIFIER_STRENGTHENED"}
  BY <1>1, <1>8, <1>9, <1>10, DraftsHold
<1>12. "QUALIFIER_STRENGTHENED" \in Failures(claim)
  BY <1>7, <1>11 DEF Verdict
<1>13. <<"QUALIFIER_STRENGTHENED", claim.item>> \in Gaps
  <2> DEFINE gap == <<"QUALIFIER_STRENGTHENED", claim.item>>
             all == UNION {{<<code, k.item>> : code \in Failures(k)} : k \in claims}
  <2>1. gap \in {<<code, claim.item>> : code \in Failures(claim)}
    BY <1>12
  <2>2. gap \in all
    BY <2>1
  <2>3. ~\E s \in Slots : ~Covered(s)
    BY <1>5
  <2>4. all \subseteq Gaps
    BY <2>3 DEF Gaps
  <2> QED BY <2>2, <2>4
<1>14. <<"QUALIFIER_STRENGTHENED", claim.item>>[1] = "QUALIFIER_STRENGTHENED"
  OBVIOUS
<1> QED BY <1>13, <1>14 DEF HasStrengthened

LEMMA InitAbstentionInv == AssemblerConstants /\ AnswerInit => AbstentionInv
<1> SUFFICES ASSUME AssemblerConstants, AnswerInit PROVE AbstentionInv
  OBVIOUS
<1>1. AnswerInv
  BY InitAnswerInv
<1> QED BY <1>1 DEF AbstentionInv, Remembered, AnswerInit

LEMMA NextAbstentionInv ==
    ASSUME AssemblerConstants, NamesHaveWords, AbstentionInv, [AnswerNext]_answerVars
    PROVE  AbstentionInv'
<1>1. AnswerInv /\ AnswerInv'
  BY NextAnswerInv DEF AbstentionInv
<1>2. CASE Classify \/ Retrieve
  <2>1. /\ stage' \notin {"rendered", "ended"} /\ stage \in {"asked", "classified"}
        /\ UNCHANGED <<omissions, seen, decision>>
    BY <1>2 DEF Classify, Retrieve
  <2>2. omissions = {} /\ seen = {} /\ decision = "NONE"
    BY <1>1, <2>1 DEF AnswerInv, Early, Fresh
  <2> QED BY <1>1, <2>1, <2>2 DEF AbstentionInv, Remembered
<1>3. CASE Assemble
  <2>1. Next /\ stage' = "assembling"
    BY <1>3 DEF Assemble
  <2>2. Remembered' /\ (decision = "ABSTAIN" => Refused)'
    BY <1>1, <2>1, NextRemembered, NextRefused DEF AbstentionInv, AnswerInv
  <2> QED BY <1>1, <2>1, <2>2 DEF AbstentionInv
<1>4. ASSUME UNCHANGED vars PROVE Remembered' /\ (decision = "ABSTAIN" => Refused)'
  BY <1>4, RememberedStays, RefusedStays DEF vars, AbstentionInv
<1>5. CASE Refuse
  <2>1. UNCHANGED vars /\ stage' = "refused"
    BY <1>5 DEF Refuse
  <2> QED BY <1>1, <1>4, <2>1 DEF AbstentionInv
<1>6. CASE AbstainUncovered
  <2>1. UNCHANGED vars /\ stage' = "ended" /\ decision = "ABSTAIN"
    BY <1>6 DEF AbstainUncovered
  <2>2. decision' = "ABSTAIN"
    BY <2>1 DEF vars
  <2> QED BY <1>1, <1>4, <2>1, <2>2 DEF AbstentionInv
<1>7. CASE Render
  <2>1. /\ UNCHANGED vars /\ stage' = "rendered" /\ index' = index
        /\ claims' = {Draft(c) : c \in ItemsOf(ClaimSlot[contract.intent])}
    BY <1>7 DEF Render
  <2>2. contract' = contract /\ \A s : ItemsOf(s)' = ItemsOf(s)
    BY <2>1 DEF vars, ItemsOf
  <2>3. \A c : Draft(c)' = Draft(c)
    BY <2>1, <2>2, DraftStays
  <2>4. (claims = {Draft(c) : c \in ItemsOf(ClaimSlot[contract.intent])})'
    BY <2>1, <2>2, <2>3 DEF ClaimSlot
  <2> QED BY <1>1, <1>4, <2>1, <2>4 DEF AbstentionInv
<1>8. CASE Answer
  <2>1. /\ UNCHANGED vars /\ stage = "rendered" /\ stage' = "ended"
        /\ index' = index /\ question' = question
        /\ answer'.status = Decision /\ answer'.gaps = Gaps
    BY <1>8 DEF Answer
  <2>2. answer'.status = "ABSTAINED" => HasStrengthened(Gaps) \/ Unnamed
    BY <2>1, OnlyQualifiersAbstain
  <2>3. Unnamed' <=> Unnamed
    BY <2>1, AskedStays
  <2>4. HasStrengthened(answer.gaps)' <=> HasStrengthened(Gaps)
    BY <2>1 DEF HasStrengthened
  <2> QED BY <1>1, <1>4, <2>1, <2>2, <2>3, <2>4 DEF AbstentionInv
<1>9. CASE UNCHANGED answerVars
  <2>1. /\ UNCHANGED vars /\ stage' = stage /\ claims' = claims /\ answer' = answer
        /\ index' = index /\ question' = question
    BY <1>9 DEF answerVars
  <2>2. contract' = contract /\ decision' = decision /\ \A s : ItemsOf(s)' = ItemsOf(s)
    BY <2>1 DEF vars, ItemsOf
  <2>3. \A c : Draft(c)' = Draft(c)
    BY <2>1, <2>2, DraftStays
  <2>4. (stage = "rendered" =>
            claims = {Draft(c) : c \in ItemsOf(ClaimSlot[contract.intent])})'
    BY <2>1, <2>2, <2>3 DEF ClaimSlot, AbstentionInv
  <2>5. Unnamed' <=> Unnamed
    BY <2>1, AskedStays
  <2>6. (stage = "ended" /\ answer.status = "ABSTAINED" =>
            decision = "ABSTAIN" \/ HasStrengthened(answer.gaps) \/ Unnamed)'
    BY <2>1, <2>2, <2>5 DEF AbstentionInv, HasStrengthened
  <2> QED BY <1>1, <1>4, <2>1, <2>4, <2>6 DEF AbstentionInv
<1> QED BY <1>2, <1>3, <1>5, <1>6, <1>7, <1>8, <1>9 DEF AnswerNext

\* A slot with items that can all fill it, if for the target only one, passes.
LEMMA FilledPasses ==
    ASSUME NEW s, IsFiniteSet(accepted), ItemsOf(s) # {},
           \A c \in ItemsOf(s) : Fills(c),
           s = UniqueTarget => \A c, d \in ItemsOf(s) : c = d
    PROVE  StatusOf(s) \in Passing
<1>1. Having(s, "AMBIGUOUS") = {} /\ Having(s, "PARTIAL") = {} /\ Having(s, "UNRESOLVED") = {}
  BY DEF Having, Fills
<1>2. Filling(s, "COMPLETE") = ItemsOf(s)
  BY DEF Filling, Having, Fills, ItemsOf
<1>3. ASSUME s = UniqueTarget PROVE ~(Cardinality(Filling(s, "COMPLETE")) > 1)
  <2>1. PICK c : ItemsOf(s) = {c}
    BY <1>3
  <2>2. Cardinality(Filling(s, "COMPLETE")) = 1
    BY <1>2, <2>1, FS_Singleton
  <2> QED BY <2>2
<1>4. StatusOf(s) = "FILLED"
  BY <1>1, <1>2, <1>3 DEF StatusOf
<1> QED BY <1>4 DEF Passing

\* What the scan records, uncut, fills every slot.
LEMMA RecordedIsReady ==
    ASSUME NamesHaveWords, AbstentionInv, IsRecorded, ~Early, contract.supported,
           todo = {}, \A o \in omissions : o[2] \notin BudgetReasons
    PROVE  \A s \in Slots : StatusOf(s) \in Passing
<1>1. /\ IsSound(offered) /\ IsEnough(offered) /\ Partition /\ Remembered /\ TargetIsUnique
  BY DEF AbstentionInv, AnswerInv, AssemblerInv, IsRetrieved, IsRecorded
<1>2. accepted \subseteq offered /\ IsFiniteSet(accepted)
  BY <1>1, FS_Subset DEF Partition
<1>3. ASSUME NEW c \in offered PROVE \E d \in accepted : d.slot = c.slot
  <2>1. CASE c \in accepted
    BY <2>1
  <2>2. CASE c \notin accepted
    <3>1. PICK o \in omissions : o[1] = c
      BY <1>1, <2>2 DEF Partition, Omitted
    <3>2. Admissible(c)
      BY <1>1 DEF IsSound, IsOffer
    <3>3. c.id \in seen
      BY <1>1, <3>1, <3>2 DEF Remembered
    <3>4. PICK d \in accepted : d.id = c.id
      BY <1>1, <3>3 DEF Remembered
    <3>5. d.slot = "file_categories" /\ c.slot = "file_categories"
      BY <1>1, <1>2, <2>2, <3>4 DEF IsSound
    <3> QED BY <3>5
  <2> QED BY <2>1, <2>2
<1>4. ASSUME NEW s \in Slots PROVE StatusOf(s) \in Passing
  <2>1. PICK c \in offered : c.slot = s
    BY <1>1 DEF IsEnough
  <2>2. ItemsOf(s) # {}
    BY <1>3, <2>1 DEF ItemsOf
  <2>3. \A d \in ItemsOf(s) : Fills(d)
    BY <1>1, <1>2 DEF IsEnough, ItemsOf
  <2>4. s = UniqueTarget => \A d, e \in ItemsOf(s) : d = e
    BY <1>1, <1>2, AnswerConstants DEF IsEnough, ItemsOf
  <2> QED BY <1>2, <2>2, <2>3, <2>4, FilledPasses
<1> QED BY <1>4

LEMMA AbstentionsExplained ==
    ASSUME NamesHaveWords, AbstentionInv
    PROVE  AbstentionsAreExplained
<1> SUFFICES ASSUME stage = "ended", answer.status = "ABSTAINED", contract.supported, Uncut,
                    TargetIsUnique, AnswerRows # {} \/ Asks("created"),
                    ~HasStrengthened(answer.gaps), ~Unnamed,
                    Asks("created") => Constructions(Subject(question)) # {} /\ InModules
             PROVE  FALSE
  BY DEF AbstentionsAreExplained, HasStrengthened, Unnamed
<1>1. IsRecorded
  BY DEF IsRecorded, Uncut
<1>2. decision = "ABSTAIN" /\ Refused /\ ~Early /\ todo = {}
  BY DEF AbstentionInv, Early, AnswerInv, AssemblerInv, Gate
<1>3. \A o \in omissions : o[2] \notin BudgetReasons
  BY DEF Uncut
<1> QED BY <1>1, <1>2, <1>3, RecordedIsReady DEF Refused

\* Where names have words, an abstention has a cause: what the scan records, and no
\* limit or budget cut off, is answered unless a qualifier was made stronger, for
\* every question, scan, limit and budget.
THEOREM AbstentionsTheorem ==
    ASSUME NamesHaveWords PROVE AnswerSpec => []AbstentionsAreExplained
<1>1. AnswerInit => AbstentionInv
  BY InitAbstentionInv, AssemblerConstants
<1>2. AbstentionInv /\ [AnswerNext]_answerVars => AbstentionInv'
  BY NextAbstentionInv, AssemblerConstants, NamesHaveWords
<1>3. AbstentionInv => AbstentionsAreExplained
  BY AbstentionsExplained, NamesHaveWords
<1> QED BY <1>1, <1>2, <1>3, PTL DEF AnswerSpec
=============================================================================
