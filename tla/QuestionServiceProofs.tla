----------------------- MODULE QuestionServiceProofs -----------------------
(***************************************************************************)
(* What QuestionService keeps for any number of scans, questions and       *)
(* concurrent requests.  The argument: an ask goes on only for a COMPLETED *)
(* scan, ImmutableScan never changes one again, so that all its reads see  *)
(* one content and everything it stores follows from its question and that *)
(* content; and an ask that misses has found no stored task of its         *)
(* identity, so that a second task needs another ask at work.              *)
(*                                                                         *)
(* The second part is about the trace: every stored task has the whole run *)
(* that decided it at the head of its trace, its corrections look back     *)
(* into that same trace, and its hits and its responses account for each   *)
(* other.                                                                  *)
(***************************************************************************)
EXTENDS QuestionService, SequenceTheorems, FiniteSetTheorems, TLAPS

Started == {"checked", "hit"} \cup Working

Phases == {"ABSENT", "PENDING", "RUNNING", "COMPLETED", "FAILED"}

\* The types the proof needs.
CallType ==
    /\ phase \in [Scans -> Phases]
    /\ content \in [Scans -> SUBSET UNION Contents]
    /\ pc \in [Asks -> Stages]
    /\ request \in [Asks -> Identities]
    /\ evidence \in [Asks -> Seq(SUBSET UNION Contents)]
    /\ stored \subseteq Asks
    /\ DOMAIN result = Asks

\* What a run on the content c of its scan finds.
Finding(t, c) == IF c = {} THEN "COVERAGE" ELSE outcome[QuestionOf(t)]
Whole(t) == <<content[ScanOf(t)], content[ScanOf(t)]>>

\* An ask works on a completed scan and has read its content and nothing else.
ReadInv ==
    \A t \in Asks :
        /\ pc[t] \in Started => phase[ScanOf(t)] = "COMPLETED"
        /\ pc[t] \in {"idle", "checked", "retrieving"} => evidence[t] = <<>>
        /\ pc[t] = "expanding" => evidence[t] = <<content[ScanOf(t)]>>
        /\ pc[t] = "rendering" => evidence[t] = Whole(t)

\* What is stored follows from the question and the scan.
Follows(t) ==
    /\ phase[ScanOf(t)] = "COMPLETED"
    /\ result[t] = [status   |-> StatusFor(Finding(t, content[ScanOf(t)])),
                    cause    |-> Finding(t, content[ScanOf(t)]),
                    evidence |-> Whole(t)]
ResultInv == \A t \in stored : Follows(t)

\* Two tasks of one identity, stored or at work, have overlapped.
OverlapInv ==
    \A t, u \in Asks :
        /\ t # u /\ request[t] = request[u]
        /\ t \in stored \/ pc[t] \in Working
        /\ u \in stored \/ pc[u] \in Working
        => request[t] \in overlapped

QuestionInv == CallType /\ ReadInv /\ ResultInv /\ OverlapInv

----------------------------------------------------------------------------
LEMMA InitQuestions == Init => QuestionInv
<1> SUFFICES ASSUME Init PROVE QuestionInv
  OBVIOUS
<1>1. CallType
  BY DEF Init, Scan!Init, CallType, Stages, Phases
<1>2. ReadInv
  BY DEF Init, ReadInv, Started, Working
<1>3. ResultInv /\ OverlapInv
  BY DEF Init, ResultInv, OverlapInv, Working
<1> QED
  BY <1>1, <1>2, <1>3 DEF QuestionInv

\* A completed scan is never touched again.
LEMMA CompletedScanStays ==
    ASSUME CallType, Scan!Next
    PROVE  /\ phase' \in [Scans -> Phases]
           /\ content' \in [Scans -> SUBSET UNION Contents]
           /\ \A s \in Scans : phase[s] = "COMPLETED" =>
                  phase'[s] = "COMPLETED" /\ content'[s] = content[s]
<1>1. PICK s \in Scans : Scan!Create(s) \/ Scan!Begin(s) \/ Scan!Fail(s) \/ Scan!Complete(s)
  BY DEF Scan!Next
<1>2. CASE Scan!Create(s) \/ Scan!Begin(s) \/ Scan!Fail(s)
  BY <1>2 DEF Scan!Create, Scan!Begin, Scan!Fail, Scan!Move, CallType, Phases
<1>3. CASE Scan!Complete(s)
  <2>1. PICK c \in Contents : content' = [content EXCEPT ![s] = c]
    BY <1>3 DEF Scan!Complete
  <2>2. c \in SUBSET UNION Contents
    OBVIOUS
  <2> QED
    BY <1>3, <2>1, <2>2 DEF Scan!Complete, Scan!Move, CallType, Phases
<1> QED
  BY <1>1, <1>2, <1>3

\* The two reads, one after the other.
LEMMA FirstRead ==
    ASSUME NEW S, NEW a \in S
    PROVE  Append(<<>>, a) = <<a>>
<1> DEFINE t == Append(<<>>, a)
<1>1. <<>> \in Seq(S) /\ <<a>> \in Seq(S)
  OBVIOUS
<1>2. t \in Seq(S) /\ Len(t) = 1 /\ t[1] = a
  BY <1>1, AppendProperties
<1> HIDE DEF t
<1> QED
  BY <1>1, <1>2, SeqEqual

LEMMA SecondRead ==
    ASSUME NEW S, NEW a \in S, NEW b \in S
    PROVE  Append(<<a>>, b) = <<a, b>>
<1> DEFINE t == Append(<<a>>, b)
           w == <<a, b>>
<1>1. t \in Seq(S) /\ Len(t) = 2 /\ t[1] = a /\ t[2] = b
  <2>1. <<a>> \in Seq(S)
    OBVIOUS
  <2> QED
    BY <2>1, AppendProperties
<1>2. w \in Seq(S) /\ Len(w) = 2 /\ w[1] = a /\ w[2] = b
  OBVIOUS
<1> HIDE DEF t, w
<1>3. \A i \in 1 .. Len(t) : t[i] = w[i]
  BY <1>1, <1>2
<1>4. t = w
  BY <1>1, <1>2, <1>3, SeqEqual
<1> QED
  BY <1>4 DEF t, w

LEMMA RequestType == ASSUME CallType, NEW t \in Asks PROVE ScanOf(t) \in Scans
BY DEF CallType, Identities, ScanOf

LEMMA StepQuestions == QuestionInv /\ [Next]_vars => QuestionInv'
<1> SUFFICES ASSUME QuestionInv, [Next]_vars PROVE QuestionInv'
  OBVIOUS
<1> USE DEF QuestionInv
<1>1. CASE ScanStep
  <2>1. UNCHANGED <<outcome, pc, request, evidence, stored, result, overlapped>>
    BY <1>1 DEF ScanStep, calls, store
  <2>2. /\ phase' \in [Scans -> Phases]
        /\ content' \in [Scans -> SUBSET UNION Contents]
        /\ \A s \in Scans : phase[s] = "COMPLETED" =>
               phase'[s] = "COMPLETED" /\ content'[s] = content[s]
    BY <1>1, CompletedScanStays DEF ScanStep
  <2>3. \A t \in Asks : ScanOf(t) \in Scans /\ ScanOf(t)' = ScanOf(t)
    BY <2>1, RequestType DEF ScanOf
  <2>4. CallType' /\ OverlapInv'
    BY <2>1, <2>2 DEF CallType, OverlapInv
  <2>5. ReadInv'
    BY <2>1, <2>2, <2>3 DEF ReadInv, Whole, Started, Working
  <2>6. ResultInv'
    <3> SUFFICES ASSUME NEW t \in stored PROVE Follows(t)'
      BY <2>1 DEF ResultInv
    <3>1. t \in Asks /\ phase[ScanOf(t)] = "COMPLETED"
      BY DEF ResultInv, Follows, CallType
    <3>2. phase'[ScanOf(t)] = "COMPLETED" /\ content'[ScanOf(t)] = content[ScanOf(t)]
      BY <2>2, <2>3, <3>1
    <3> QED
      BY <2>1, <2>3, <3>1, <3>2 DEF ResultInv, Follows, Finding, Whole, QuestionOf
  <2> QED
    BY <2>4, <2>5, <2>6
<1>2. ASSUME UNCHANGED <<scans, outcome, request, stored, result>>, CallType', ReadInv',
             OverlapInv'
      PROVE  QuestionInv'
  BY <1>2 DEF ResultInv, Follows, Finding, Whole, QuestionOf, ScanOf, scans
<1>3. ASSUME NEW t \in Asks,
             UNCHANGED <<scans, outcome, request, evidence, stored, result, overlapped>>,
             NEW stage \in {"checked", "hit", "ended"}, Goto(t, stage),
             stage # "ended" => phase[ScanOf(t)] = "COMPLETED",
             stage = "checked" => pc[t] = "idle"
      PROVE  QuestionInv'
  <2>1. CallType' /\ pc'[t] = stage /\ \A u \in Asks \ {t} : pc'[u] = pc[u]
    BY <1>3 DEF CallType, Goto, scans, Stages
  <2>2. ReadInv'
    BY <1>3, <2>1 DEF ReadInv, Whole, ScanOf, scans, Started, Working
  <2>3. OverlapInv'
    BY <1>3, <2>1 DEF OverlapInv, Working
  <2> QED
    BY <1>2, <1>3, <2>1, <2>2, <2>3
<1>4. ASSUME NEW t \in Asks, Ask(t) PROVE QuestionInv'
  <2>1. UNCHANGED <<scans, outcome, request, evidence, stored, result, overlapped>>
    BY <1>4 DEF Ask, store
  <2>2. CASE ScanCompleted(ScanOf(t))
    BY <1>3, <1>4, <2>1, <2>2 DEF Ask, ScanCompleted
  <2>3. CASE ~ScanCompleted(ScanOf(t))
    BY <1>3, <1>4, <2>1, <2>3 DEF Ask
  <2> QED
    BY <2>2, <2>3
<1>5. ASSUME NEW t \in Asks, LookupHit(t) PROVE QuestionInv'
  BY <1>3, <1>5 DEF LookupHit, store, ReadInv, Started
<1>6. ASSUME NEW t \in Asks, ServeHit(t) \/ Raise(t) PROVE QuestionInv'
  BY <1>3, <1>6 DEF ServeHit, Raise, store
<1>7. ASSUME NEW t \in Asks, LookupMiss(t) PROVE QuestionInv'
  <2>1. /\ pc[t] = "checked" /\ pc'[t] = "retrieving"
        /\ \A u \in Asks \ {t} : pc'[u] = pc[u]
        /\ pc' \in [Asks -> Stages]
        /\ UNCHANGED <<scans, outcome, request, evidence, stored, result>>
    BY <1>7 DEF LookupMiss, Goto, CallType, store, Stages
  <2>2. CallType' /\ ReadInv'
    BY <2>1 DEF CallType, ReadInv, Whole, ScanOf, scans, Started, Working
  <2>3. \A u \in stored : request[u] # request[t]
    <3> SUFFICES ASSUME NEW u \in stored, request[u] = request[t] PROVE FALSE
      OBVIOUS
    <3>1. result[u].status = StatusFor(Finding(u, content[ScanOf(u)]))
      <4>1. Follows(u)
        BY DEF ResultInv
      <4> QED
        BY <4>1 DEF Follows
    <3>2. result[u].status \in CacheableStatuses
      BY <3>1 DEF StatusFor, CacheableStatuses
    <3> QED
      BY <1>7, <3>2 DEF LookupMiss, Cached
  <2>4. /\ overlapped \subseteq overlapped'
        /\ \A u \in Asks : pc[u] \in Working /\ request[u] = request[t]
                               => request[t] \in overlapped'
    BY <1>7 DEF LookupMiss
  <2>5. OverlapInv'
    <3> SUFFICES ASSUME NEW u \in Asks, NEW v \in Asks, u # v, request[u] = request[v],
                        u \in stored \/ pc'[u] \in Working,
                        v \in stored \/ pc'[v] \in Working
                 PROVE  request[u] \in overlapped'
      BY <2>1 DEF OverlapInv
    <3>1. CASE u = t
      BY <2>1, <2>3, <2>4, <3>1
    <3>2. CASE v = t
      BY <2>1, <2>3, <2>4, <3>2
    <3>3. CASE u # t /\ v # t
      BY <2>1, <2>4, <3>3 DEF OverlapInv
    <3> QED
      BY <3>1, <3>2, <3>3
  <2> QED
    BY <1>2, <2>1, <2>2, <2>5
<1>8. ASSUME NEW t \in Asks, Retrieve(t) \/ Expand(t) PROVE QuestionInv'
  <2>1. /\ pc[t] \in {"retrieving", "expanding"}
        /\ pc'[t] = IF pc[t] = "retrieving" THEN "expanding" ELSE "rendering"
        /\ \A u \in Asks \ {t} : pc'[u] = pc[u] /\ evidence'[u] = evidence[u]
        /\ evidence'[t] = Append(evidence[t], content[ScanOf(t)])
        /\ pc' \in [Asks -> Stages]
        /\ DOMAIN evidence' = Asks
        /\ evidence' = [evidence EXCEPT ![t] = Append(evidence[t], content[ScanOf(t)])]
        /\ UNCHANGED <<scans, outcome, request, stored, result, overlapped>>
    BY <1>8 DEF Retrieve, Expand, Read, Goto, CallType, store, Stages
  <2>2. CallType'
    <3>1. content[ScanOf(t)] \in SUBSET UNION Contents
      BY RequestType DEF CallType
    <3>2. Append(evidence[t], content[ScanOf(t)]) \in Seq(SUBSET UNION Contents)
      BY <3>1 DEF CallType
    <3> QED
      BY <2>1, <3>2 DEF CallType, scans
  <2>3. ReadInv'
    <3>0. content[ScanOf(t)] \in SUBSET UNION Contents
      BY RequestType DEF CallType
    <3>1. /\ pc[t] = "retrieving" => evidence'[t] = <<content[ScanOf(t)]>>
          /\ pc[t] = "expanding" => evidence'[t] = Whole(t)
      <4>1. CASE pc[t] = "retrieving"
        <5>1. evidence[t] = <<>>
          BY <4>1 DEF ReadInv
        <5>2. Append(<<>>, content[ScanOf(t)]) = <<content[ScanOf(t)]>>
          BY <3>0, FirstRead
        <5> QED BY <2>1, <4>1, <5>1, <5>2
      <4>2. CASE pc[t] = "expanding"
        <5>1. evidence[t] = <<content[ScanOf(t)]>>
          BY <4>2 DEF ReadInv
        <5>2. Append(<<content[ScanOf(t)]>>, content[ScanOf(t)]) = Whole(t)
          BY <3>0, SecondRead DEF Whole
        <5> QED
          BY <2>1, <4>2, <5>1, <5>2
      <4> QED
        BY <2>1, <4>1, <4>2
    <3> QED
      BY <2>1, <3>1 DEF ReadInv, Whole, ScanOf, scans, Started, Working
  <2>4. OverlapInv'
    BY <2>1 DEF OverlapInv, Working
  <2> QED
    BY <1>2, <2>1, <2>2, <2>3, <2>4
<1>9. ASSUME NEW t \in Asks, Finalize(t) PROVE QuestionInv'
  <2>1. /\ pc[t] = "rendering" /\ pc'[t] = "ended"
        /\ \A u \in Asks \ {t} : pc'[u] = pc[u] /\ result'[u] = result[u]
        /\ pc' \in [Asks -> Stages] /\ DOMAIN result' = Asks
        /\ result'[t] = [status   |-> StatusFor(CauseOf(t)),
                         cause    |-> CauseOf(t),
                         evidence |-> evidence[t]]
        /\ stored' = stored \cup {t}
        /\ UNCHANGED <<scans, outcome, request, evidence, overlapped>>
    BY <1>9 DEF Finalize, Goto, CallType, Stages
  <2>2. CallType'
    BY <2>1 DEF CallType, scans
  <2>3. ReadInv'
    BY <2>1 DEF ReadInv, Whole, ScanOf, scans, Started, Working
  <2>4. phase[ScanOf(t)] = "COMPLETED" /\ evidence[t] = Whole(t)
    BY <2>1 DEF ReadInv, Started, Working
  <2>5. CauseOf(t) = Finding(t, content[ScanOf(t)])
    BY <2>4 DEF CauseOf, Finding, Whole
  <2>6. ResultInv'
    <3> SUFFICES ASSUME NEW u \in stored' PROVE Follows(u)'
      BY DEF ResultInv
    <3>1. u \in Asks /\ (u # t => u \in stored)
      BY <2>1 DEF CallType
    <3>2. CASE u = t
      BY <2>1, <2>4, <2>5, <3>2 DEF Follows, Finding, Whole, ScanOf, QuestionOf, scans
    <3>3. CASE u # t
      <4>1. Follows(u)
        BY <3>1, <3>3 DEF ResultInv
      <4> QED
        BY <2>1, <3>1, <3>3, <4>1 DEF Follows, Finding, Whole, ScanOf, QuestionOf, scans
    <3> QED
      BY <3>2, <3>3
  <2>7. OverlapInv'
    BY <2>1 DEF OverlapInv, Working
  <2> QED
    BY <2>2, <2>3, <2>6, <2>7
<1>10. ASSUME NEW t \in Asks, Feedback(t) PROVE QuestionInv'
  BY <1>2, <1>10 DEF Feedback, calls, CallType, ReadInv, OverlapInv, Whole, ScanOf, scans
<1>11. CASE UNCHANGED vars
  BY <1>2, <1>11 DEF vars, calls, store, CallType, ReadInv, OverlapInv, Whole, ScanOf, scans
<1> QED
  BY <1>1, <1>4, <1>5, <1>6, <1>7, <1>8, <1>9, <1>10, <1>11 DEF Next, Step

THEOREM QuestionInvariant == Spec => []QuestionInv
BY InitQuestions, StepQuestions, PTL DEF Spec

\* Every stored answer comes from the sealed content of its scan.
THEOREM SealedScanTheorem == Spec => []AnswersComeFromTheSealedScan
<1>1. QuestionInv => AnswersComeFromTheSealedScan
  <2> SUFFICES ASSUME QuestionInv, NEW t \in stored
               PROVE  /\ phase[ScanOf(t)] = "COMPLETED"
                      /\ result[t].evidence = Whole(t)
    BY DEF AnswersComeFromTheSealedScan, Whole
  <2>1. Follows(t)
    BY DEF QuestionInv, ResultInv
  <2> QED
    BY <2>1 DEF Follows
<1> QED
  BY QuestionInvariant, <1>1, PTL

\* Tasks of one question and scan say the same.
THEOREM AnswersAgreeTheorem == Spec => []AnswersAgree
<1>1. QuestionInv => AnswersAgree
  BY DEF QuestionInv, ResultInv, Follows, Finding, Whole, QuestionOf, ScanOf, AnswersAgree
<1> QED
  BY QuestionInvariant, <1>1, PTL

\* Only simultaneous requests store a second task.
THEOREM OverlapTheorem == Spec => []SecondTaskNeedsOverlap
<1>1. QuestionInv => SecondTaskNeedsOverlap
  BY DEF QuestionInv, CallType, OverlapInv, SecondTaskNeedsOverlap
<1> QED
  BY QuestionInvariant, <1>1, PTL

-----------------------------------------------------------------------------
(* The trace of the question service.                                      *)

EventTypes == {"question_received", "task_classified", "cache_miss",
               "retrieval_planned", "context_assembled", "coverage_failed",
               "coverage_passed", "claims_validated", "question_answered",
               "question_abstained", "cache_hit", "human_correction_recorded"}
Events == [type : EventTypes, of : {NoEvent} \cup (Asks \X Nat)]

\* The events of an uncached run.
Plain == [type : EventTypes \ {"cache_hit"}, of : {NoEvent}]

Places(s, x) == {i \in DOMAIN s : s[i] = x}
Hit     == Event("cache_hit")
Hits(t) == Cardinality(Places(trail[t], Hit))

TrailType ==
    /\ trail \in [Asks -> Seq(Events)]
    /\ served \in Seq(Asks)
    /\ found \in [Asks -> Asks \cup {NoAsk}]

\* A hit is one of a stored task, and the ask that stored a task has ended.
StoreInv ==
    \A t \in Asks : /\ pc[t] = "hit" => found[t] \in stored
                    /\ t \in stored => pc[t] = "ended"

Begins(s, run) == Len(run) <= Len(s) /\ \A i \in 1 .. Len(run) : s[i] = run[i]
LooksBack(s, t) == \A i \in DOMAIN s : s[i].of # NoEvent =>
                       s[i].of[1] = t /\ s[i].of[2] < i

TraceInv ==
    \A t \in stored : /\ Begins(trail[t], RunTrail(result[t].cause))
                      /\ LooksBack(trail[t], t)

ServedInv ==
    \A t \in Asks : Cardinality(Places(served, t)) = IF t \in stored THEN 1 + Hits(t) ELSE 0

TrailInv == QuestionInv /\ TrailType /\ StoreInv /\ TraceInv /\ ServedInv

----------------------------------------------------------------------------
\* One more element adds one place to those of its value and none to others.
LEMMA PlacesAppend ==
    ASSUME NEW S, NEW s \in Seq(S), NEW e \in S, NEW x
    PROVE  /\ Cardinality(Places(s, x)) \in Nat
           /\ Cardinality(Places(Append(s, e), x))
                = IF e = x THEN Cardinality(Places(s, x)) + 1 ELSE Cardinality(Places(s, x))
<1> DEFINE r == Append(s, e)
<1>1. /\ Len(s) \in Nat /\ DOMAIN s = 1 .. Len(s)
      /\ DOMAIN r = 1 .. Len(s) + 1
      /\ \A i \in 1 .. Len(s) : r[i] = s[i]
      /\ r[Len(s) + 1] = e
  BY AppendProperties, LenProperties
<1>2. IsFiniteSet(Places(s, x))
  <2>1. IsFiniteSet(1 .. Len(s))
    BY <1>1, FS_Interval
  <2> QED
    BY <1>1, <2>1, FS_Subset DEF Places
<1>3. Cardinality(Places(s, x)) \in Nat
  BY <1>2, FS_CardinalityType
<1> HIDE DEF r
<1>4. CASE e = x
  <2>1. Places(r, x) = Places(s, x) \cup {Len(s) + 1} /\ Len(s) + 1 \notin Places(s, x)
    BY <1>1, <1>4 DEF Places
  <2>2. Cardinality(Places(s, x) \cup {Len(s) + 1}) = Cardinality(Places(s, x)) + 1
    BY <1>2, <2>1, FS_AddElement
  <2> QED
    BY <1>3, <1>4, <2>1, <2>2 DEF r
<1>5. CASE e # x
  <2>1. Places(r, x) = Places(s, x)
    BY <1>1, <1>5 DEF Places
  <2> QED
    BY <1>3, <1>5, <2>1 DEF r
<1> QED
  BY <1>4, <1>5

LEMMA PlainSequences ==
    ASSUME NEW s \in Seq(Plain)
    PROVE  /\ s \in Seq(Events)
           /\ \A i \in DOMAIN s : s[i].of = NoEvent /\ s[i] # Hit
<1>1. \A e \in Plain : e \in Events /\ e.of = NoEvent /\ e # Hit
  BY DEF Plain, Events, Hit, Event
<1>2. Len(s) \in Nat /\ DOMAIN s = 1 .. Len(s) /\ \A i \in DOMAIN s : s[i] \in Plain
  BY LenProperties, ElementOfSeq
<1> QED
  BY <1>1, <1>2, SeqDef

\* A run's own events correct nothing and are no hits.
LEMMA RunTrailType ==
    ASSUME NEW cause
    PROVE  RunTrail(cause) \in Seq(Plain)
<1> DEFINE head == <<Event("question_received"), Event("task_classified"), Event("cache_miss"),
                     Event("retrieval_planned"), Event("context_assembled")>>
           failed == <<Event("coverage_failed")>>
           passed == <<Event("coverage_passed"), Event("claims_validated")>>
           middle == IF cause = "COVERAGE" THEN failed ELSE passed
           end == <<Event(IF cause = "NONE" THEN "question_answered"
                                            ELSE "question_abstained")>>
<1>1. head \in Seq(Plain)
  BY DEF Plain, EventTypes, Event
<1>2. middle \in Seq(Plain)
  <2>1. failed \in Seq(Plain) /\ passed \in Seq(Plain)
    BY DEF Plain, EventTypes, Event
  <2> QED
    BY <2>1
<1>3. end \in Seq(Plain)
  BY DEF Plain, EventTypes, Event
<1> HIDE DEF head, middle, end
<1>4. head \o middle \in Seq(Plain)
  BY <1>1, <1>2, ConcatProperties
<1>5. (head \o middle) \o end \in Seq(Plain)
  BY <1>3, <1>4, ConcatProperties
<1> QED
  BY <1>5 DEF RunTrail, head, middle, failed, passed, end

\* A trace that grows at its end keeps its head, and what is new looks back.
LEMMA TrailGrows ==
    ASSUME NEW s \in Seq(Events), NEW e \in Events, NEW t, NEW run \in Seq(Events),
           Begins(s, run), LooksBack(s, t),
           e.of # NoEvent => e.of[1] = t /\ e.of[2] \in DOMAIN s
    PROVE  /\ Append(s, e) \in Seq(Events)
           /\ Begins(Append(s, e), run) /\ LooksBack(Append(s, e), t)
<1> DEFINE r == Append(s, e)
<1>1. /\ r \in Seq(Events) /\ Len(s) \in Nat /\ DOMAIN s = 1 .. Len(s)
      /\ Len(r) = Len(s) + 1 /\ DOMAIN r = 1 .. Len(s) + 1
      /\ \A i \in 1 .. Len(s) : r[i] = s[i]
      /\ r[Len(s) + 1] = e
  BY AppendProperties, LenProperties
<1>2. Len(run) \in Nat
  BY LenProperties
<1> HIDE DEF r
<1>3. Begins(r, run)
  BY <1>1, <1>2 DEF Begins
<1>4. LooksBack(r, t)
  BY <1>1 DEF LooksBack
<1> QED
  BY <1>1, <1>3, <1>4 DEF r

----------------------------------------------------------------------------
LEMMA InitTrail == Init => TrailInv
<1> SUFFICES ASSUME Init PROVE TrailInv
  OBVIOUS
<1>1. TrailType /\ StoreInv /\ TraceInv
  BY DEF Init, TrailType, StoreInv, TraceInv
<1>2. ServedInv
  <2>1. \A t \in Asks : Places(served, t) = {}
    BY DEF Init, Places
  <2> QED
    BY <2>1, FS_EmptySet DEF Init, ServedInv
<1> QED
  BY <1>1, <1>2, InitQuestions DEF TrailInv

\* What no ask and no feedback touches.
LEMMA TrailStays ==
    ASSUME TrailInv, StoreInv', UNCHANGED <<stored, trail, served, result>>,
           found' \in [Asks -> Asks \cup {NoAsk}]
    PROVE  TrailType' /\ TraceInv' /\ ServedInv'
BY DEF TrailInv, TrailType, TraceInv, ServedInv, Hits, Places

\* The step of an ask that commits nothing.
LEMMA StepUnstored ==
    ASSUME TrailInv, NEW t \in Asks,
           Ask(t) \/ LookupHit(t) \/ LookupMiss(t) \/ Retrieve(t) \/ Expand(t) \/ Raise(t)
    PROVE  TrailType' /\ StoreInv' /\ TraceInv' /\ ServedInv'
<1> USE DEF TrailInv, QuestionInv, CallType
<1>1. /\ UNCHANGED <<stored, trail, served, result>>
      /\ pc[t] # "ended" /\ \A u \in Asks \ {t} : pc'[u] = pc[u]
  BY DEF Ask, LookupHit, LookupMiss, Retrieve, Expand, Read, Raise, Goto, store, Working
<1>2. /\ found' \in [Asks -> Asks \cup {NoAsk}]
      /\ \A u \in Asks \ {t} : found'[u] = found[u]
      /\ pc'[t] = "hit" => found'[t] \in stored
  BY DEF Ask, LookupHit, LookupMiss, Retrieve, Expand, Read, Raise, Goto, TrailType,
         Cached, Working
<1>3. StoreInv'
  BY <1>1, <1>2 DEF StoreInv
<1> QED
  BY <1>1, <1>2, <1>3, TrailStays

\* A hit is appended to the trace and to what was served.
LEMMA StepServeHit ==
    ASSUME TrailInv, NEW t \in Asks, ServeHit(t)
    PROVE  TrailType' /\ StoreInv' /\ TraceInv' /\ ServedInv'
<1> DEFINE u == found[t]
<1>1. /\ pc[t] = "hit" /\ u \in stored /\ u \in Asks
      /\ pc'[t] = "ended" /\ \A v \in Asks \ {t} : pc'[v] = pc[v]
      /\ UNCHANGED <<found, stored, result>>
      /\ served' = Append(served, u)
      /\ trail'[u] = Append(trail[u], Hit)
      /\ \A v \in Asks \ {u} : trail'[v] = trail[v]
      /\ trail' = [trail EXCEPT ![u] = Append(trail[u], Hit)]
  BY DEF ServeHit, TrailInv, QuestionInv, CallType, StoreInv, TrailType, Goto, Hit
<1>2. Hit \in Events /\ Hit.of = NoEvent
  BY DEF Hit, Event, Events, EventTypes
<1>3. trail[u] \in Seq(Events) /\ served \in Seq(Asks)
  BY <1>1 DEF TrailInv, TrailType
<1>4. StoreInv'
  BY <1>1 DEF TrailInv, StoreInv
<1>5. /\ Append(trail[u], Hit) \in Seq(Events)
      /\ Begins(Append(trail[u], Hit), RunTrail(result[u].cause))
      /\ LooksBack(Append(trail[u], Hit), u)
  <2>1. RunTrail(result[u].cause) \in Seq(Events)
    BY RunTrailType, PlainSequences
  <2>2. Begins(trail[u], RunTrail(result[u].cause)) /\ LooksBack(trail[u], u)
    BY <1>1 DEF TrailInv, TraceInv
  <2> QED
    BY <1>2, <1>3, <2>1, <2>2, TrailGrows
<1>6. TrailType'
  <2>1. served' \in Seq(Asks)
    BY <1>1, <1>3, AppendProperties
  <2> QED
    BY <1>1, <1>5, <2>1 DEF TrailInv, TrailType
<1>7. TraceInv'
  <2> SUFFICES ASSUME NEW v \in stored
               PROVE  Begins(trail'[v], RunTrail(result[v].cause)) /\ LooksBack(trail'[v], v)
    BY <1>1 DEF TraceInv
  <2>1. v \in Asks
    BY DEF TrailInv, QuestionInv, CallType
  <2> QED
    BY <1>1, <1>5, <2>1 DEF TrailInv, TraceInv
<1>8. ServedInv'
  <2> SUFFICES ASSUME NEW v \in Asks
               PROVE  Cardinality(Places(served', v))
                        = IF v \in stored
                          THEN 1 + Cardinality(Places(trail'[v], Hit)) ELSE 0
    BY <1>1 DEF ServedInv, Hits, Hit, Event
  <2>1. Cardinality(Places(served, v)) = IF v \in stored THEN 1 + Hits(v) ELSE 0
    BY DEF TrailInv, ServedInv
  <2>2. /\ Cardinality(Places(served, v)) \in Nat
        /\ Cardinality(Places(Append(served, u), v))
             = IF u = v THEN Cardinality(Places(served, v)) + 1
                        ELSE Cardinality(Places(served, v))
    BY <1>1, <1>3, PlacesAppend
  <2>3. CASE v = u
    <3>1. /\ Cardinality(Places(trail[u], Hit)) \in Nat
          /\ Cardinality(Places(Append(trail[u], Hit), Hit))
               = Cardinality(Places(trail[u], Hit)) + 1
      BY <1>2, <1>3, PlacesAppend
    <3> QED
      BY <1>1, <2>1, <2>2, <2>3, <3>1 DEF Hits
  <2>4. CASE v # u
    BY <1>1, <2>1, <2>2, <2>4 DEF Hits
  <2> QED
    BY <2>3, <2>4
<1> QED
  BY <1>4, <1>6, <1>7, <1>8

\* The commit of a task: its whole run, no hit, and one response.
LEMMA StepFinalize ==
    ASSUME TrailInv, NEW t \in Asks, Finalize(t)
    PROVE  TrailType' /\ StoreInv' /\ TraceInv' /\ ServedInv'
<1> DEFINE run == RunTrail(CauseOf(t))
<1>1. /\ pc[t] = "rendering" /\ t \notin stored
      /\ pc'[t] = "ended" /\ \A v \in Asks \ {t} : pc'[v] = pc[v]
      /\ UNCHANGED found
      /\ stored' = stored \cup {t}
      /\ result'[t].cause = CauseOf(t) /\ \A v \in Asks \ {t} : result'[v] = result[v]
      /\ served' = Append(served, t)
      /\ trail' = [trail EXCEPT ![t] = run]
      /\ trail'[t] = run
      /\ \A v \in Asks \ {t} : trail'[v] = trail[v]
  BY DEF Finalize, TrailInv, QuestionInv, CallType, StoreInv, TrailType, Goto
<1>2. /\ run \in Seq(Events)
      /\ \A i \in DOMAIN run : run[i].of = NoEvent /\ run[i] # Hit
  BY RunTrailType, PlainSequences
<1> HIDE DEF run
<1>3. StoreInv'
  BY <1>1 DEF TrailInv, StoreInv
<1>4. TrailType'
  <2>1. served' \in Seq(Asks)
    BY <1>1, AppendProperties DEF TrailInv, TrailType
  <2> QED
    BY <1>1, <1>2, <2>1 DEF TrailInv, TrailType
<1>5. TraceInv'
  <2> SUFFICES ASSUME NEW v \in stored'
               PROVE  Begins(trail'[v], RunTrail(result'[v].cause)) /\ LooksBack(trail'[v], v)
    BY DEF TraceInv, RunTrail, Event
  <2>1. CASE v = t
    <3>1. Begins(run, run) /\ LooksBack(run, t)
      BY <1>2, LenProperties DEF Begins, LooksBack
    <3> QED
      BY <1>1, <2>1, <3>1 DEF run
  <2>2. CASE v # t
    <3>1. v \in stored /\ v \in Asks
      BY <1>1, <2>2 DEF TrailInv, QuestionInv, CallType
    <3> QED
      BY <1>1, <2>2, <3>1 DEF TrailInv, TraceInv
  <2> QED
    BY <2>1, <2>2
<1>6. ServedInv'
  <2> SUFFICES ASSUME NEW v \in Asks
               PROVE  Cardinality(Places(served', v))
                        = IF v \in stored'
                          THEN 1 + Cardinality(Places(trail'[v], Hit)) ELSE 0
    BY DEF ServedInv, Hits, Hit, Event
  <2>1. Cardinality(Places(served, v)) = IF v \in stored THEN 1 + Hits(v) ELSE 0
    BY DEF TrailInv, ServedInv
  <2>2. /\ Cardinality(Places(served, v)) \in Nat
        /\ Cardinality(Places(Append(served, t), v))
             = IF t = v THEN Cardinality(Places(served, v)) + 1
                        ELSE Cardinality(Places(served, v))
    <3>1. served \in Seq(Asks)
      BY DEF TrailInv, TrailType
    <3> QED
      BY <3>1, PlacesAppend
  <2>3. CASE v = t
    <3>1. Places(run, Hit) = {}
      BY <1>2 DEF Places
    <3>2. Cardinality(Places(trail'[v], Hit)) = 0
      BY <1>1, <2>3, <3>1, FS_EmptySet
    <3> QED
      BY <1>1, <2>1, <2>2, <2>3, <3>2
  <2>4. CASE v # t
    BY <1>1, <2>1, <2>2, <2>4 DEF Hits
  <2> QED
    BY <2>3, <2>4
<1> QED
  BY <1>3, <1>4, <1>5, <1>6

\* Feedback corrects nothing or an event that the trace already has.
LEMMA StepFeedback ==
    ASSUME TrailInv, NEW t \in Asks, Feedback(t)
    PROVE  TrailType' /\ StoreInv' /\ TraceInv' /\ ServedInv'
<1>1. PICK of \in {NoEvent} \cup UNION {{u} \X DOMAIN trail[u] : u \in stored} :
         /\ of = NoEvent \/ InTrace(of, t)
         /\ trail' = [trail EXCEPT ![t] = Append(@, Correction(of))]
  BY DEF Feedback
<1> DEFINE e == Correction(of)
           r == Append(trail[t], e)
<1>2. /\ t \in stored /\ trail[t] \in Seq(Events)
      /\ UNCHANGED <<pc, found, stored, result, served>>
      /\ trail' = [trail EXCEPT ![t] = r]
      /\ trail'[t] = r
      /\ \A v \in Asks \ {t} : trail'[v] = trail[v]
  BY <1>1 DEF Feedback, calls, TrailInv, TrailType
<1>3. /\ e \in Events /\ e # Hit
      /\ e.of # NoEvent => e.of[1] = t /\ e.of[2] \in DOMAIN trail[t]
  <2>1. CASE of = NoEvent
    BY <2>1 DEF Correction, Events, EventTypes, Hit, Event
  <2>2. CASE of # NoEvent
    <3>1. PICK u \in stored : of \in {u} \X DOMAIN trail[u]
      BY <1>1, <2>2
    <3>2. u \in Asks /\ DOMAIN trail[u] \subseteq Nat
      BY <3>1, LenProperties DEF TrailInv, TrailType, QuestionInv, CallType
    <3>3. of \in Asks \X Nat
      BY <3>1, <3>2
    <3>4. e \in Events /\ e # Hit
      BY <3>3 DEF Correction, Events, EventTypes, Hit, Event
    <3> QED
      BY <1>1, <2>2, <3>4 DEF InTrace, Correction
  <2> QED
    BY <2>1, <2>2
<1> HIDE DEF e
<1>4. StoreInv'
  BY <1>2 DEF TrailInv, StoreInv
<1>5. r \in Seq(Events) /\ Begins(r, RunTrail(result[t].cause)) /\ LooksBack(r, t)
  <2>1. RunTrail(result[t].cause) \in Seq(Events)
    BY RunTrailType, PlainSequences
  <2>2. Begins(trail[t], RunTrail(result[t].cause)) /\ LooksBack(trail[t], t)
    BY <1>2 DEF TrailInv, TraceInv
  <2> QED
    BY <1>2, <1>3, <2>1, <2>2, TrailGrows
<1>6. Cardinality(Places(r, Hit)) = Cardinality(Places(trail[t], Hit))
  BY <1>2, <1>3, PlacesAppend
<1> HIDE DEF r
<1>7. TrailType'
  BY <1>2, <1>5 DEF TrailInv, TrailType
<1>8. TraceInv'
  <2> SUFFICES ASSUME NEW v \in stored
               PROVE  Begins(trail'[v], RunTrail(result[v].cause)) /\ LooksBack(trail'[v], v)
    BY <1>2 DEF TraceInv
  <2>1. v \in Asks
    BY DEF TrailInv, QuestionInv, CallType
  <2> QED
    BY <1>2, <1>5, <2>1 DEF TrailInv, TraceInv
<1>9. ServedInv'
  <2> SUFFICES ASSUME NEW v \in Asks
               PROVE  Cardinality(Places(served, v))
                        = IF v \in stored
                          THEN 1 + Cardinality(Places(trail'[v], Hit)) ELSE 0
    BY <1>2 DEF ServedInv, Hits, Hit, Event
  <2>1. Cardinality(Places(trail'[v], Hit)) = Cardinality(Places(trail[v], Hit))
    BY <1>2, <1>6
  <2> QED
    BY <2>1 DEF TrailInv, ServedInv, Hits
<1> QED
  BY <1>4, <1>7, <1>8, <1>9

LEMMA StepTrail == TrailInv /\ [Next]_vars => TrailInv'
<1> SUFFICES ASSUME TrailInv, [Next]_vars PROVE TrailInv'
  OBVIOUS
<1>1. QuestionInv'
  BY StepQuestions DEF TrailInv
<1>2. CASE ScanStep \/ UNCHANGED vars
  <2>1. UNCHANGED <<pc, found, stored, trail, served, result>>
    BY <1>2 DEF ScanStep, calls, store, vars
  <2>2. StoreInv' /\ found' \in [Asks -> Asks \cup {NoAsk}]
    BY <2>1 DEF TrailInv, StoreInv, TrailType
  <2> QED
    BY <1>1, <2>1, <2>2, TrailStays DEF TrailInv
<1>3. ASSUME NEW t \in Asks, Step(t) \/ Raise(t) \/ Feedback(t) PROVE TrailInv'
  BY <1>1, <1>3, StepUnstored, StepServeHit, StepFinalize, StepFeedback DEF Step, TrailInv
<1> QED
  BY <1>2, <1>3 DEF Next

THEOREM TrailInvariant == Spec => []TrailInv
BY InitTrail, StepTrail, PTL DEF Spec

\* A stored task is finished and its trace begins with the whole run that
\* decided it: nothing of an unfinished request stays behind.
THEOREM StoredTasksTheorem == Spec => []StoredTasksAreWhole
<1>1. TrailInv => StoredTasksAreWhole
  <2> SUFFICES ASSUME TrailInv, NEW t \in stored
               PROVE  /\ result[t].status \in CacheableStatuses
                      /\ Len(RunTrail(result[t].cause)) <= Len(trail[t])
                      /\ SubSeq(trail[t], 1, Len(RunTrail(result[t].cause)))
                           = RunTrail(result[t].cause)
    BY DEF StoredTasksAreWhole
  <2> DEFINE run == RunTrail(result[t].cause)
             begin == SubSeq(trail[t], 1, Len(run))
  <2>1. result[t].status \in CacheableStatuses
    <3>1. Follows(t)
      BY DEF TrailInv, QuestionInv, ResultInv
    <3> QED
      BY <3>1 DEF Follows, StatusFor, CacheableStatuses
  <2>2. Begins(trail[t], run)
    BY DEF TrailInv, TraceInv
  <2>3. run \in Seq(Events) /\ trail[t] \in Seq(Events)
    BY RunTrailType, PlainSequences DEF TrailInv, TrailType, QuestionInv, CallType
  <2> HIDE DEF run
  <2>4. /\ begin \in Seq(Events) /\ Len(begin) = Len(run)
        /\ \A i \in 1 .. Len(run) : begin[i] = run[i]
    BY <2>2, <2>3, LenProperties, SubSeqProperties DEF Begins
  <2> HIDE DEF begin
  <2>5. begin = run
    BY <2>3, <2>4, SeqEqual
  <2> QED
    BY <2>1, <2>2, <2>5 DEF Begins, run, begin
<1> QED
  BY TrailInvariant, <1>1, PTL

\* The trace of a task accounts for every response that it was.
THEOREM HitsAreTracedTheorem == Spec => []HitsAreTraced
<1>1. TrailInv => HitsAreTraced
  BY DEF TrailInv, QuestionInv, CallType, ServedInv, Hits, Hit, Places, HitsAreTraced
<1> QED
  BY TrailInvariant, <1>1, PTL

\* A correction never leaves its task and never looks ahead.
THEOREM CorrectionsTheorem == Spec => []CorrectionsStayInTheirTrace
<1>1. TrailInv => CorrectionsStayInTheirTrace
  BY DEF TrailInv, TraceInv, LooksBack, CorrectionsStayInTheirTrace
<1> QED
  BY TrailInvariant, <1>1, PTL
=============================================================================
