-------------------------- MODULE ContextAssembler --------------------------
(***************************************************************************)
(* ContextAssembler.assemble (context/assembly.py): from the candidates    *)
(* that retrieval found, in the order of the sort key, those that fit the  *)
(* budgets are accepted; then each required slot gets a status, and the    *)
(* coverage gate is READY or ABSTAIN.                                      *)
(***************************************************************************)
EXTENDS Naturals, Sequences, FiniteSets, FiniteSetsExt

CONSTANTS
    Pool,               \* candidates that retrieval may find
    MaxOffered,         \* bound on the candidates of one call
    Contracts,          \* contracts that may be asked for, with their slots in order
    UniqueTarget,       \* SlotName.UNIQUE_TARGET
    EmptyAllowed,       \* _EMPTY_ALLOWED
    ScanId,             \* contract.binding.scan_id
    Reserved,           \* tokens of the question plus 16
    MaxTokens, MaxItems, MaxTokensPerSlot

\* EvidenceStatus.
Statuses == {"RECORDED", "DERIVED", "GENERATED"}

TrustOrder == <<"APPROVED_RULE", "EXACT_SYMBOL", "RESOLVED_GRAPH", "HEURISTIC_GRAPH",
                "FULL_TEXT", "DERIVED", "GENERATED">>

\* EvidenceCandidate, as far as its fields are typed; tokens is what
\* deterministic_token_count finds in its content.
IsCandidate(c) ==
    /\ c.status \in Statuses
    /\ c.tokens \in Nat
    /\ \E i \in DOMAIN TrustOrder : TrustOrder[i] = c.trust

\* _validate_budget and the check of reserved_tokens raise otherwise.
ASSUME AssemblerConstants ==
    /\ MaxTokens \in Nat /\ MaxItems \in Nat \ {0}
    /\ MaxTokensPerSlot \in 1 .. MaxTokens
    /\ Reserved \in 0 .. (MaxTokens - 1)
    /\ UniqueTarget \notin EmptyAllowed
    /\ IsFiniteSet(Pool)
    /\ \A c \in Pool : IsCandidate(c)

VARIABLES
    contract,       \* required_slots and supported, of the query contract
    offered,        \* the candidates of this call
    todo,           \* those not yet considered
    accepted,       \* the items of the package
    omissions,      \* <<candidate, reason>>
    seen,           \* item ids that passed the precheck
    tokensUsed,
    slotStatus,     \* status of each required slot, "NONE" before the end
    decision        \* coverage_decision, "NONE" before the end

vars == <<contract, offered, todo, accepted, omissions, seen, tokensUsed, slotStatus, decision>>

Slots == {contract.slots[i] : i \in DOMAIN contract.slots}

Init ==
    /\ contract \in Contracts
    /\ offered \in UNION {kSubset(n, Pool) : n \in 0 .. MaxOffered}
    /\ todo = offered
    /\ accepted = {}
    /\ omissions = {}
    /\ seen = {}
    /\ tokensUsed = Reserved
    /\ slotStatus = [s \in Slots |-> "NONE"]
    /\ decision = "NONE"

----------------------------------------------------------------------------
IndexOf(seq, x) == CHOOSE i \in DOMAIN seq : seq[i] = x

SlotIndex(slot) == IF slot \in Slots THEN IndexOf(contract.slots, slot)
                                   ELSE Len(contract.slots) + 1
Trust(c)        == IndexOf(TrustOrder, c.trust)

\* Bug: trust is left out of the key.
KeyWithoutTrust(c) == <<SlotIndex(c.slot), c.rank, c.id>>

\* _candidate_sort_key; rank stands for rank, score, path and line.
Key(c) == <<SlotIndex(c.slot), Trust(c), c.rank, c.id>>

\* Tuples are compared from the left.
Less(k, l) ==
    \E i \in DOMAIN k : k[i] < l[i] /\ \A j \in 1 .. i - 1 : k[j] = l[j]

Precedes(c, d) == Less(Key(c), Key(d))

First(c) == c \in todo /\ \A d \in todo : ~Precedes(d, c)

Tokens(items)     == MapThenSumSet(LAMBDA c : c.tokens, items)
ItemsOf(slot)     == {c \in accepted : c.slot = slot}

----------------------------------------------------------------------------
\* Bug: ids are not compared.
PrecheckNoIds(c) ==
    IF c.scan # ScanId THEN "WRONG_SCAN"
    ELSE IF c.slot \notin Slots THEN "UNKNOWN_SLOT"
    ELSE IF c.status = "DERIVED" /\ ~c.inputRefs THEN "INSUFFICIENT_PROVENANCE"
    ELSE "NONE"

\* The reason _candidate_precheck gives, in its order; "NONE" admits.
Precheck(c) ==
    IF c.scan # ScanId THEN "WRONG_SCAN"
    ELSE IF c.slot \notin Slots THEN "UNKNOWN_SLOT"
    ELSE IF c.id \in seen THEN "DUPLICATE"
    ELSE IF c.status = "DERIVED" /\ ~c.inputRefs THEN "INSUFFICIENT_PROVENANCE"
    ELSE "NONE"

\* The items or tokens there would be, against each budget in turn.
Exceeded(items, slotTokens, tokens) ==
    IF items > MaxItems THEN "ITEM_LIMIT"
    ELSE IF slotTokens > MaxTokensPerSlot THEN "SLOT_TOKEN_BUDGET"
    ELSE IF tokens > MaxTokens THEN "TOTAL_TOKEN_BUDGET"
    ELSE "NONE"

\* Bug: the budgets are compared before the candidate is added.
OverBudgetBefore(c) ==
    Exceeded(Cardinality(accepted), Tokens(ItemsOf(c.slot)), tokensUsed)

\* The budget that one more candidate would exceed, if any.
OverBudget(c) ==
    Exceeded(Cardinality(accepted) + 1, Tokens(ItemsOf(c.slot)) + c.tokens,
             tokensUsed + c.tokens)

BudgetReasons == {"ITEM_LIMIT", "SLOT_TOKEN_BUDGET", "TOTAL_TOKEN_BUDGET"}

Omit(c, reason) ==
    /\ omissions' = omissions \cup {<<c, reason>>}
    /\ UNCHANGED <<accepted, tokensUsed>>

\* The precheck fails: omitted, and its id is not remembered.
Reject(c) ==
    /\ First(c)
    /\ Precheck(c) # "NONE"
    /\ todo' = todo \ {c}
    /\ Omit(c, Precheck(c))
    /\ UNCHANGED <<contract, offered, seen, slotStatus, decision>>

\* Too much for a budget: omitted, but a later one of its id is a duplicate.
DropForBudget(c) ==
    /\ First(c)
    /\ Precheck(c) = "NONE"
    /\ OverBudget(c) # "NONE"
    /\ todo' = todo \ {c}
    /\ seen' = seen \cup {c.id}
    /\ Omit(c, OverBudget(c))
    /\ UNCHANGED <<contract, offered, slotStatus, decision>>

Accept(c) ==
    /\ First(c)
    /\ Precheck(c) = "NONE"
    /\ OverBudget(c) = "NONE"
    /\ todo' = todo \ {c}
    /\ seen' = seen \cup {c.id}
    /\ accepted' = accepted \cup {c}
    /\ tokensUsed' = tokensUsed + c.tokens
    /\ UNCHANGED <<contract, offered, omissions, slotStatus, decision>>

----------------------------------------------------------------------------
\* _effective_completeness: the recorded resolution overrides the candidate.
Completeness(c) ==
    CASE c.resolution = "AMBIGUOUS"                                -> "AMBIGUOUS"
      [] c.resolution = "UNRESOLVED"                               -> "UNRESOLVED"
      [] c.resolution \in {"PARTIALLY_RESOLVED", "HEURISTIC"}      -> "PARTIAL"
      [] /\ c.resolution \in {"NONE", "RESOLVED"}
         /\ c.completeness = "COMPLETE"
         /\ c.trust = "HEURISTIC_GRAPH"                            -> "PARTIAL"
      [] OTHER                                                     -> c.completeness

\* Bug: the slot is not asked what it needs.
CanFillAny(slot, c) == c.status \in {"RECORDED", "DERIVED"}

\* _can_fill_slot
CanFill(slot, c) ==
    /\ c.status = "RECORDED" \/ (c.status = "DERIVED" /\ c.inputRefs)
    /\ IF slot = UniqueTarget THEN c.trust = "EXACT_SYMBOL" ELSE c.trust # "GENERATED"

Having(slot, completeness) ==
    {c \in ItemsOf(slot) : Completeness(c) = completeness}
Filling(slot, completeness) == {c \in Having(slot, completeness) : CanFill(slot, c)}

\* _slot_status
StatusOf(slot) ==
    IF ItemsOf(slot) = {}
    THEN IF \E o \in omissions : o[1].slot = slot /\ o[2] \in BudgetReasons
         THEN "OMITTED_BUDGET" ELSE "UNFILLABLE"
    ELSE IF \/ Having(slot, "AMBIGUOUS") # {}
            \/ slot = UniqueTarget /\ Cardinality(Filling(slot, "COMPLETE")) > 1
    THEN "AMBIGUOUS"
    ELSE IF Having(slot, "PARTIAL") \cup Having(slot, "UNRESOLVED") # {}
    THEN "UNFILLABLE"
    ELSE IF Filling(slot, "COMPLETE") # {}
    THEN "FILLED"
    ELSE IF slot \in EmptyAllowed /\ Filling(slot, "EMPTY") # {}
    THEN "FILLED_EMPTY"
    ELSE "UNFILLABLE"

Passing == {"FILLED", "FILLED_EMPTY"}

\* Every candidate was considered: the slots and the gate.
Decide ==
    /\ todo = {}
    /\ decision = "NONE"
    /\ slotStatus' = [s \in Slots |-> StatusOf(s)]
    /\ decision' = IF contract.supported /\ \A s \in Slots : slotStatus'[s] \in Passing
                   THEN "READY" ELSE "ABSTAIN"
    /\ UNCHANGED <<contract, offered, todo, accepted, omissions, seen, tokensUsed>>

Next ==
    \/ \E c \in todo : Reject(c) \/ DropForBudget(c) \/ Accept(c)
    \/ Decide

Spec == Init /\ [][Next]_vars

----------------------------------------------------------------------------
\* Every candidate ends in the package or, with one reason, among the omissions;
\* no item id is in the package twice.
AccountedFor ==
    /\ offered = todo \cup accepted \cup {o[1] : o \in omissions}
    /\ Cardinality(offered)
           = Cardinality(todo) + Cardinality(accepted) + Cardinality(omissions)
    /\ \A c, d \in accepted : c.id = d.id => c = d

\* The package fits all three budgets, and says how many tokens it holds.
BudgetsKept ==
    /\ tokensUsed = Reserved + Tokens(accepted)
    /\ tokensUsed <= MaxTokens
    /\ Cardinality(accepted) <= MaxItems
    /\ \A s \in Slots : Tokens(ItemsOf(s)) <= MaxTokensPerSlot

\* A budget is spent on trust first: when a candidate was left out for it, no
\* less trusted one of its slot was taken that needs as much room.
BudgetGoesToTrust ==
    \A o \in omissions : o[2] \in BudgetReasons =>
        \A d \in ItemsOf(o[1].slot) :
            Trust(d) > Trust(o[1]) => o[2] # "ITEM_LIMIT" /\ d.tokens < o[1].tokens

\* "Only FILLED and an authoritative FILLED_EMPTY pass coverage": READY means
\* that each slot has an item of this scan, recorded or derived from named
\* records, complete or known to be empty, and none that is weaker; the unique
\* target has exactly one, an exact symbol.
Weak == {"AMBIGUOUS", "PARTIAL", "UNRESOLVED"}
ReadyIsGrounded ==
    decision = "READY" =>
        \A s \in Slots :
            /\ \A c \in ItemsOf(s) : c.scan = ScanId /\ Completeness(c) \notin Weak
            /\ \E c \in ItemsOf(s) :
                 /\ c.status = "RECORDED" \/ (c.status = "DERIVED" /\ c.inputRefs)
                 /\ c.trust # "GENERATED"
                 /\ Completeness(c) = "COMPLETE" \/ s \in EmptyAllowed
            /\ s = UniqueTarget =>
                 Cardinality({c \in ItemsOf(s) : /\ c.status # "GENERATED"
                                                 /\ c.trust = "EXACT_SYMBOL"
                                                 /\ Completeness(c) = "COMPLETE"}) = 1
============================================================================
