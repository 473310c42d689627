-------------------------- MODULE QuestionService --------------------------
(***************************************************************************)
(* Questions asked of completed scans: QuestionService.ask (qa/service.py) *)
(* with its cache of stored answers, and the feedback endpoint of          *)
(* api/tasks.py.  The scans are those of ImmutableScan, the promise that   *)
(* ScanLifecycle is shown to keep.                                         *)
(*                                                                         *)
(* One call of ask() is an ASK; a task that it stores has its name.  A     *)
(* request runs in one transaction at READ COMMITTED, cut here at its      *)
(* reads.  What it adds is seen by nobody before its one commit.           *)
(***************************************************************************)
EXTENDS Naturals, Sequences, FiniteSets

CONSTANTS
    Scans, Contents,    \* as in ImmutableScan
    Questions,          \* canonical questions
    Asks,               \* calls of ask; each happens once
    NoAsk,              \* "not a task"
    Outcomes,           \* what the gates may find for a question, of Causes
    MaxFeedback         \* bound on feedback events

\* Why a task abstained: nothing, the coverage gate, the claim validator.
Causes == {"NONE", "COVERAGE", "VALIDATION"}

ASSUME QuestionConstants ==
    /\ NoAsk \notin Asks
    /\ Outcomes \subseteq Causes
    /\ MaxFeedback \in Nat

VARIABLES
    phase, content,     \* the scans
    outcome,            \* what the gates find for each question (fixed)
    pc,                 \* where each ask is
    request,            \* its cache identity: question and scan
    found,              \* the stored task its lookup returned
    evidence,           \* what its retrieval has read so far
    createdAt,          \* created_at of the task it creates
    clock,              \* the time
    stored,             \* committed tasks
    result,             \* status, cause and evidence of each stored task
    trail,              \* committed trace events of each task, in order
    served,             \* tasks returned to clients, in order (history)
    overlapped          \* identities two asks have worked on at once (history)

scans == <<phase, content>>
calls == <<pc, request, found, evidence, createdAt, clock, overlapped>>
store == <<stored, result, trail, served>>
vars  == <<scans, outcome, calls, store>>

Scan == INSTANCE ImmutableScan

Identities == Questions \X Scans
Stages     == {"idle", "checked", "hit", "retrieving", "expanding", "rendering", "ended"}
Working    == {"retrieving", "expanding", "rendering"}
NoEvent    == <<NoAsk, 0>>
NoResult   == [status |-> "RUNNING", cause |-> "NONE", evidence |-> <<>>]

QuestionOf(t) == request[t][1]
ScanOf(t)     == request[t][2]

\* Trace events; a correction names the event it corrects, as <<task, index>>.
Event(type)    == [type |-> type, of |-> NoEvent]
Correction(of) == [type |-> "human_correction_recorded", of |-> of]

Init ==
    /\ Scan!Init
    /\ outcome \in [Questions -> Outcomes]
    /\ pc = [t \in Asks |-> "idle"]
    /\ request \in [Asks -> Identities]
    /\ found = [t \in Asks |-> NoAsk]
    /\ evidence = [t \in Asks |-> <<>>]
    /\ createdAt = [t \in Asks |-> 0]
    /\ clock = 1
    /\ stored = {}
    /\ result = [t \in Asks |-> NoResult]
    /\ trail = [t \in Asks |-> <<>>]
    /\ served = <<>>
    /\ overlapped = {}

Goto(t, stage) == pc' = [pc EXCEPT ![t] = stage]

----------------------------------------------------------------------------
\* Bug: a scan that exists will do.
ScanExists(s) == phase[s] # "ABSENT"

\* _completed_scan
ScanCompleted(s) == phase[s] = "COMPLETED"

\* The scan is looked up: 404 or 409 unless it is completed.
Ask(t) ==
    /\ pc[t] = "idle"
    /\ Goto(t, IF ScanCompleted(ScanOf(t)) THEN "checked" ELSE "ended")
    /\ UNCHANGED <<scans, outcome, request, found, evidence, createdAt, clock,
                   overlapped, store>>

\* Bug: abstentions are not looked up.
SubstantiveStatuses == {"ANSWERED", "PARTIAL"}

CacheableStatuses == {"ANSWERED", "PARTIAL", "ABSTAINED"}

\* The tasks the cache lookup selects for an ask.
Cached(t) == {u \in stored : /\ request[u] = request[t]
                             /\ result[u].status \in CacheableStatuses}

\* A hit: the first by created_at.
LookupHit(t) ==
    /\ pc[t] = "checked"
    /\ \E u \in Cached(t) :
         /\ \A v \in Cached(t) : createdAt[u] <= createdAt[v]
         /\ found' = [found EXCEPT ![t] = u]
    /\ Goto(t, "hit")
    /\ UNCHANGED <<scans, outcome, request, evidence, createdAt, clock, overlapped, store>>

\* A miss: a RUNNING task is created in the open transaction.
LookupMiss(t) ==
    /\ pc[t] = "checked"
    /\ Cached(t) = {}
    /\ createdAt' = [createdAt EXCEPT ![t] = clock]
    /\ clock' = clock + 1
    /\ overlapped' = IF \E u \in Asks : pc[u] \in Working /\ request[u] = request[t]
                     THEN overlapped \cup {request[t]}
                     ELSE overlapped
    /\ Goto(t, "retrieving")
    /\ UNCHANGED <<scans, outcome, request, found, evidence, store>>

\* Bug: a hit leaves no trace.
ServeHitUntraced(t) ==
    /\ pc[t] = "hit"
    /\ served' = Append(served, found[t])
    /\ Goto(t, "ended")
    /\ UNCHANGED <<scans, outcome, request, found, evidence, createdAt, clock,
                   overlapped, stored, result, trail>>

\* The hit is traced, committed and returned.
ServeHit(t) ==
    /\ pc[t] = "hit"
    /\ trail' = [trail EXCEPT ![found[t]] = Append(@, Event("cache_hit"))]
    /\ served' = Append(served, found[t])
    /\ Goto(t, "ended")
    /\ UNCHANGED <<scans, outcome, request, found, evidence, createdAt, clock,
                   overlapped, stored, result>>

\* Two statements of one retrieval: the exact symbols, say, and then the edges
\* that lead to them.
Read(t, from, to) ==
    /\ pc[t] = from
    /\ evidence' = [evidence EXCEPT ![t] = Append(@, content[ScanOf(t)])]
    /\ Goto(t, to)
    /\ UNCHANGED <<scans, outcome, request, found, createdAt, clock, overlapped, store>>

Retrieve(t) == Read(t, "retrieving", "expanding")
Expand(t)   == Read(t, "expanding", "rendering")

\* The coverage gate first; only covered evidence gets to the validator.
CauseOf(t) ==
    IF \E i \in DOMAIN evidence[t] : evidence[t][i] = {}
    THEN "COVERAGE"
    ELSE outcome[QuestionOf(t)]

StatusFor(cause) == IF cause = "NONE" THEN "ANSWERED" ELSE "ABSTAINED"

\* The events of one uncached run, its decision last; those that retrieval adds
\* after its plan differ from intent to intent and are left out.
RunTrail(cause) ==
    <<Event("question_received"), Event("task_classified"), Event("cache_miss"),
      Event("retrieval_planned"), Event("context_assembled")>>
    \o (IF cause = "COVERAGE"
        THEN <<Event("coverage_failed")>>
        ELSE <<Event("coverage_passed"), Event("claims_validated")>>)
    \o <<Event(IF cause = "NONE" THEN "question_answered" ELSE "question_abstained")>>

\* _finalize: one commit stores the task with its package, answer, claims and
\* trace, and the task is returned.
Finalize(t) ==
    /\ pc[t] = "rendering"
    /\ stored' = stored \cup {t}
    /\ result' = [result EXCEPT ![t] = [status   |-> StatusFor(CauseOf(t)),
                                        cause    |-> CauseOf(t),
                                        evidence |-> evidence[t]]]
    /\ trail' = [trail EXCEPT ![t] = RunTrail(CauseOf(t))]
    /\ served' = Append(served, t)
    /\ Goto(t, "ended")
    /\ UNCHANGED <<scans, outcome, request, found, evidence, createdAt, clock, overlapped>>

\* Bug: the session commits what it has when an error leaves ask.
RaiseAndCommit(t) ==
    /\ pc[t] \in Working
    /\ Goto(t, "ended")
    /\ stored' = stored \cup {t}
    /\ UNCHANGED <<scans, outcome, request, found, evidence, createdAt, clock,
                   overlapped, result, trail, served>>

\* An error or the death of the process before the commit: all is rolled back.
Raise(t) ==
    /\ pc[t] \in Working \cup {"checked", "hit"}
    /\ Goto(t, "ended")
    /\ UNCHANGED <<scans, outcome, request, found, evidence, createdAt, clock,
                   overlapped, store>>

\* Bug: the corrected event is looked up by its id alone.
InAnyTrace(of, t) == of \in stored \X Nat /\ of[2] \in DOMAIN trail[of[1]]

\* The corrected event is looked up by its id and the task.
InTrace(of, t) == of[1] = t /\ of[2] \in DOMAIN trail[t]

\* append_task_feedback: an event that may correct an earlier one; else 404.
Feedbacks ==
    UNION {{<<t, i>> : i \in {j \in DOMAIN trail[t] :
                                  trail[t][j].type = "human_correction_recorded"}}
           : t \in stored}
Feedback(t) ==
    /\ t \in stored
    /\ Cardinality(Feedbacks) < MaxFeedback
    /\ \E of \in {NoEvent} \cup UNION {{u} \X DOMAIN trail[u] : u \in stored} :
         /\ of = NoEvent \/ InTrace(of, t)
         /\ trail' = [trail EXCEPT ![t] = Append(@, Correction(of))]
    /\ UNCHANGED <<scans, outcome, calls, stored, result, served>>

----------------------------------------------------------------------------
\* The scan service goes on beside the questions.
ScanStep == Scan!Next /\ UNCHANGED <<outcome, calls, store>>

Step(t) ==
    \/ Ask(t) \/ LookupHit(t) \/ LookupMiss(t) \/ ServeHit(t)
    \/ Retrieve(t) \/ Expand(t) \/ Finalize(t)

Next ==
    \/ ScanStep
    \/ \E t \in Asks : Step(t) \/ Raise(t) \/ Feedback(t)

Spec == Init /\ [][Next]_vars

----------------------------------------------------------------------------
\* "Answers may reference only completed scans": every stored answer was made
\* from the sealed content of its scan, the same in each of its reads, although
\* they are separate statements and scans run meanwhile.
AnswersComeFromTheSealedScan ==
    \A t \in stored :
        /\ phase[ScanOf(t)] = "COMPLETED"
        /\ result[t].evidence = <<content[ScanOf(t)], content[ScanOf(t)]>>

\* Tasks stored for one question and scan say the same, so that it does not
\* matter to a client which of them the cache returns.
AnswersAgree ==
    \A t, u \in stored : request[t] = request[u] => result[t] = result[u]

\* A request that is under way or that failed leaves nothing behind: a stored
\* task is finished, and its trace begins with the whole run that decided it.
StoredTasksAreWhole ==
    \A t \in stored :
        LET run == RunTrail(result[t].cause)
        IN  /\ result[t].status \in CacheableStatuses
            /\ Len(run) <= Len(trail[t])
            /\ SubSeq(trail[t], 1, Len(run)) = run

\* A second task for a question and scan needs two requests at the same time:
\* one that starts when the first was stored is always a hit.
SecondTaskNeedsOverlap ==
    \A t, u \in stored : t # u /\ request[t] = request[u] => request[t] \in overlapped

\* The trace accounts for every response: a task was returned once by its own
\* run and once for each cache_hit in its trace.
HitsAreTraced ==
    \A t \in stored :
        Cardinality({i \in DOMAIN served : served[i] = t})
            = 1 + Cardinality({i \in DOMAIN trail[t] : trail[t][i] = Event("cache_hit")})

\* A correction refers to an earlier event of the same task.
CorrectionsStayInTheirTrace ==
    \A t \in stored : \A i \in DOMAIN trail[t] :
        LET of == trail[t][i].of IN of # NoEvent => of[1] = t /\ of[2] < i

\* "Repeating the same canonical question against the same scan and
\* configuration returns the original stored task."
RepeatsReturnTheOriginal ==
    \A i, j \in DOMAIN served :
        request[served[i]] = request[served[j]] => served[i] = served[j]

\* "Not cacheable: validation failures."
ValidationFailuresAreNotCached ==
    \A t \in Asks : pc[t] = "hit" => result[found[t]].cause # "VALIDATION"
============================================================================
