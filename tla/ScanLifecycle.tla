--------------------------- MODULE ScanLifecycle ---------------------------
(***************************************************************************)
(* The life of repository scans in the database: ScanService.request,     *)
(* ScanService.execute and the read methods of services/repositories.py,  *)
(* with the mutation guards of database/models.py and its migrations.     *)
(*                                                                         *)
(* One call of execute() is an ATTEMPT.  It is cut where other sessions    *)
(* can interleave with it: at each commit, at the first flush (it may wait *)
(* for another transaction's unique key), at the working-tree reads that   *)
(* may fail, and at the rollback and re-read of its failure handler.       *)
(* PostgreSQL runs at READ COMMITTED: rows become visible at commit.       *)
(***************************************************************************)
EXTENDS Naturals, Sequences

CONSTANTS
    Scans,             \* scan identities that may be requested
    Attempts,          \* calls of ScanService.execute; each happens once
    Readers,           \* sessions that read a scan's artifacts
    NoScan,            \* "not working on any scan"
    NoAttempt,         \* "no transaction holds the profile key"
    DirectCalls,       \* TRUE: execute may be called besides the API's one task
    Configurations,    \* can settings.scan_policy() succeed?  one per process start
    MaxCrashes         \* bound on process crashes

ASSUME ScanConstants ==
    /\ NoScan \notin Scans
    /\ NoAttempt \notin Attempts
    /\ DirectCalls \in BOOLEAN
    /\ Configurations \subseteq BOOLEAN
    /\ MaxCrashes \in Nat

VARIABLES
    status,         \* repository_scans.status; "ABSENT" before the row exists
    failureCode,    \* repository_scans.failure_code, "NONE" for null
    artifacts,      \* committed child rows of each scan, as <<attempt, kind>>
    events,         \* committed lifecycle trace_events of each scan, in order
    profileHolder,  \* attempt whose open transaction inserted the profile row
    pc,             \* where each attempt is
    job,            \* the scan each attempt works on
    staged,         \* kinds of rows an attempt has flushed but not committed
    reading,        \* the scan a reader has found COMPLETED, else NoScan
    served,         \* every artifact set ever returned for a scan (history)
    configured,     \* settings.scan_policy() succeeds in this process
    crashes         \* number of crashes so far (bounded)

rows    == <<status, failureCode, artifacts, events>>
work    == <<profileHolder, pc, job, staged>>
readers == <<reading, served>>
process == <<configured, crashes>>
vars    == <<rows, work, readers, process>>

Statuses == {"ABSENT", "PENDING", "RUNNING", "COMPLETED", "FAILED"}

\* The code of a RepositoryValidationError or SourceSnapshotError, or SCAN_FAILED.
FailureCodes == {"NONE", "SNAPSHOT", "SCAN_FAILED"}

\* files; language profile and statistics; symbols and relationships; documents
Kinds == {"files", "profile", "evidence", "documents"}

Events == {"scan_requested", "scan_started", "context_documents_created",
           "scan_completed", "scan_failed"}

Stages == {"idle", "queued", "loaded", "scanning", "extracting", "indexing",
           "sealing", "failing", "ended"}

\* Stages between the commit of RUNNING and the end of execute's try block.
InTry == {"scanning", "extracting", "indexing", "sealing"}

\* Stages whose open transaction holds the unique profile key.
HoldsProfile == {"extracting", "indexing", "sealing"}

\* Stages of a call that is under way or waiting in the task queue.
Live == Stages \ {"idle", "ended"}

\* The rows an attempt commits when it seals.
InventoryOf(a) == {a} \X Kinds

----------------------------------------------------------------------------
Init ==
    /\ status = [s \in Scans |-> "ABSENT"]
    /\ failureCode = [s \in Scans |-> "NONE"]
    /\ artifacts = [s \in Scans |-> {}]
    /\ events = [s \in Scans |-> <<>>]
    /\ profileHolder = [s \in Scans |-> NoAttempt]
    /\ pc = [a \in Attempts |-> "idle"]
    /\ job = [a \in Attempts |-> NoScan]
    /\ staged = [a \in Attempts |-> {}]
    /\ reading = [r \in Readers |-> NoScan]
    /\ served = [s \in Scans |-> {}]
    /\ configured \in Configurations
    /\ crashes = 0

Goto(a, stage) == pc' = [pc EXCEPT ![a] = stage]

\* Bug: append for extend.
TraceNested(s, es) == events' = [events EXCEPT ![s] = Append(@, es)]

\* Append the trace events es to a scan's trail, in the caller's transaction.
Trace(s, es) == events' = [events EXCEPT ![s] = @ \o es]

\* Bug: neither the listener nor the trigger.
Unguarded(s) == s \in Scans

\* No update may touch the row of a completed scan: the ORM listener
\* prevent_completed_scan_update and the trigger aaep_repository_scans_immutable.
ScanMutable(s) == status[s] # "COMPLETED"

\* No child row may be inserted under a completed scan.
ChildrenMutable(s) == status[s] # "COMPLETED"

\* Bug: no unique key on the profile.
KeyIgnored(s) == s \in Scans

\* The unique key on the profile's scan_id makes a second transaction wait.
KeyFree(s) == profileHolder[s] = NoAttempt

\* Bug: the session is abandoned with its transaction open.
NoRollback(a) == UNCHANGED <<staged, profileHolder>>

\* Rollback gives back the profile key and forgets the flushed rows.
Rollback(a) ==
    /\ staged' = [staged EXCEPT ![a] = {}]
    /\ profileHolder' =
         [s \in Scans |-> IF profileHolder[s] = a THEN NoAttempt
                                                  ELSE profileHolder[s]]

----------------------------------------------------------------------------
\* Bug: a retry reuses the row of a scan that did not complete.
RequestableAgain(s) == status[s] # "COMPLETED"

\* Every request creates a row of its own.
Requestable(s) == status[s] = "ABSENT"

(* ScanService.request and the POST /scans handler that schedules the       *)
(* execution: the PENDING row and its trace commit, then the task is queued *)
(* in memory.                                                               *)
Request(s, a) ==
    /\ Requestable(s)
    /\ pc[a] = "idle"
    /\ status' = [status EXCEPT ![s] = "PENDING"]
    /\ Trace(s, <<"scan_requested">>)
    /\ job' = [job EXCEPT ![a] = s]
    /\ Goto(a, "queued")
    /\ UNCHANGED <<failureCode, artifacts, profileHolder, staged, readers, process>>

\* Another caller of the public service method on an existing scan.
CallExecute(s, a) ==
    /\ DirectCalls
    /\ status[s] # "ABSENT"
    /\ pc[a] = "idle"
    /\ job' = [job EXCEPT ![a] = s]
    /\ Goto(a, "queued")
    /\ UNCHANGED <<rows, profileHolder, staged, readers, process>>

\* execute reads the row; any status but PENDING raises SCAN_NOT_PENDING.
Load(a) ==
    /\ pc[a] = "queued"
    /\ Goto(a, IF status[job[a]] = "PENDING" THEN "loaded" ELSE "ended")
    /\ UNCHANGED <<rows, profileHolder, job, staged, readers, process>>

\* The UPDATE to RUNNING names the row by id only: the PENDING test was made
\* on the copy read earlier.
Start(a) ==
    /\ pc[a] = "loaded"
    /\ ScanMutable(job[a])
    /\ status' = [status EXCEPT ![job[a]] = "RUNNING"]
    /\ Trace(job[a], <<"scan_started">>)
    /\ Goto(a, "scanning")
    /\ UNCHANGED <<failureCode, artifacts, profileHolder, job, staged, readers, process>>

\* The trigger refuses that UPDATE; the error leaves execute.
StartRefused(a) ==
    /\ pc[a] = "loaded"
    /\ ~ScanMutable(job[a])
    /\ Goto(a, "ended")
    /\ UNCHANGED <<rows, profileHolder, job, staged, readers, process>>

\* settings.scan_policy() raises between the commit of RUNNING and the try.
PolicyUnavailable(a) ==
    /\ pc[a] = "scanning"
    /\ ~configured
    /\ Goto(a, "ended")
    /\ UNCHANGED <<rows, profileHolder, job, staged, readers, process>>

\* scan_repository succeeded; files, notices and the profile are flushed.
FlushInventory(a) ==
    /\ pc[a] = "scanning"
    /\ configured
    /\ KeyFree(job[a])
    /\ ChildrenMutable(job[a])
    /\ profileHolder' = [profileHolder EXCEPT ![job[a]] = a]
    /\ staged' = [staged EXCEPT ![a] = {"files", "profile"}]
    /\ Goto(a, "extracting")
    /\ UNCHANGED <<rows, job, readers, process>>

\* Bug: commit for flush at the end of extraction.
ExtractCommits(a) ==
    /\ pc[a] = "extracting"
    /\ artifacts' = [artifacts EXCEPT ![job[a]] = @ \cup ({a} \X staged[a])]
    /\ staged' = [staged EXCEPT ![a] = {"evidence"}]
    /\ Goto(a, "indexing")
    /\ UNCHANGED <<status, failureCode, events, profileHolder, job, readers, process>>

\* load_extraction_documents verified every hash and the adapters' symbols and
\* relationships are flushed.
Extract(a) ==
    /\ pc[a] = "extracting"
    /\ ChildrenMutable(job[a])
    /\ staged' = [staged EXCEPT ![a] = @ \cup {"evidence"}]
    /\ Goto(a, "indexing")
    /\ UNCHANGED <<rows, profileHolder, job, readers, process>>

\* persist_context_documents verified every hash and flushed the documents.
Index(a) ==
    /\ pc[a] = "indexing"
    /\ ChildrenMutable(job[a])
    /\ staged' = [staged EXCEPT ![a] = @ \cup {"documents"}]
    /\ Goto(a, "sealing")
    /\ UNCHANGED <<rows, profileHolder, job, readers, process>>

\* Bug: the traces are recorded the other way round.
SealTrailSwapped == <<"scan_completed", "context_documents_created">>

SealTrail == <<"context_documents_created", "scan_completed">>

\* One commit publishes the flushed rows, the COMPLETED row and the traces.
\* failure_code is not among the columns it assigns.
Seal(a) ==
    /\ pc[a] = "sealing"
    /\ ScanMutable(job[a])
    /\ status' = [status EXCEPT ![job[a]] = "COMPLETED"]
    /\ artifacts' = [artifacts EXCEPT ![job[a]] = @ \cup ({a} \X staged[a])]
    /\ Trace(job[a], SealTrail)
    /\ Rollback(a)      \* the transaction ends: nothing staged, key free
    /\ Goto(a, "ended")
    /\ UNCHANGED <<failureCode, job, readers, process>>

\* Bug: the exception leaves execute without the handler.
AbortUnhandled(a) ==
    /\ pc[a] \in InTry
    /\ configured
    /\ Rollback(a)
    /\ Goto(a, "ended")
    /\ UNCHANGED <<rows, job, readers, process>>

\* Any exception in the try block: the handler rolls back and re-reads the row.
Abort(a) ==
    /\ pc[a] \in InTry
    /\ configured
    /\ Rollback(a)
    /\ Goto(a, "failing")
    /\ UNCHANGED <<rows, job, readers, process>>

\* The handler commits FAILED, the failure code and the trace together.
MarkFailed(a) ==
    /\ pc[a] = "failing"
    /\ ScanMutable(job[a])
    /\ status' = [status EXCEPT ![job[a]] = "FAILED"]
    /\ \E code \in FailureCodes \ {"NONE"} :
         failureCode' = [failureCode EXCEPT ![job[a]] = code]
    /\ Trace(job[a], <<"scan_failed">>)
    /\ Goto(a, "ended")
    /\ UNCHANGED <<artifacts, profileHolder, job, staged, readers, process>>

\* The guards refuse the handler's UPDATE of a scan completed meanwhile.
MarkFailedRefused(a) ==
    /\ pc[a] = "failing"
    /\ ~ScanMutable(job[a])
    /\ Goto(a, "ended")
    /\ UNCHANGED <<rows, profileHolder, job, staged, readers, process>>

\* The process dies and is restarted, perhaps with other settings: queued tasks
\* are lost, open transactions roll back.  Nothing rescans PENDING or RUNNING.
Crash ==
    /\ crashes < MaxCrashes
    /\ crashes' = crashes + 1
    /\ configured' \in Configurations
    /\ pc' = [a \in Attempts |-> IF pc[a] \in Live THEN "ended" ELSE pc[a]]
    /\ staged' = [a \in Attempts |-> {}]
    /\ profileHolder' = [s \in Scans |-> NoAttempt]
    /\ reading' = [r \in Readers |-> NoScan]
    /\ UNCHANGED <<rows, job, served>>

----------------------------------------------------------------------------
\* Bug: the status is not looked at.
OpenAnyScan(r, s) ==
    /\ reading[r] = NoScan
    /\ reading' = [reading EXCEPT ![r] = s]
    /\ UNCHANGED <<rows, work, served, process>>

\* files, language_profile, symbols and relationships: one statement reads the
\* status, a later one the rows.
OpenScan(r, s) ==
    /\ reading[r] = NoScan
    /\ status[s] = "COMPLETED"
    /\ reading' = [reading EXCEPT ![r] = s]
    /\ UNCHANGED <<rows, work, served, process>>

ReadArtifacts(r) ==
    /\ reading[r] # NoScan
    /\ served' = [served EXCEPT ![reading[r]] = @ \cup {artifacts[reading[r]]}]
    /\ reading' = [reading EXCEPT ![r] = NoScan]
    /\ UNCHANGED <<rows, work, process>>

----------------------------------------------------------------------------
\* What an attempt does by itself once the event loop or thread pool runs it.
Proceed(a) ==
    \/ Load(a) \/ Start(a) \/ StartRefused(a) \/ PolicyUnavailable(a)
    \/ FlushInventory(a) \/ Extract(a) \/ Index(a) \/ Seal(a)
    \/ MarkFailed(a) \/ MarkFailedRefused(a)

Next ==
    \/ \E s \in Scans, a \in Attempts : Request(s, a) \/ CallExecute(s, a)
    \/ \E a \in Attempts : Proceed(a) \/ Abort(a)
    \/ Crash
    \/ \E r \in Readers, s \in Scans : OpenScan(r, s)
    \/ \E r \in Readers : ReadArtifacts(r)

Spec == Init /\ [][Next]_vars

\* A guard raises in the try block of an execution whose scan was completed by
\* another one.
Refused(a) == ~ChildrenMutable(job[a]) /\ Abort(a)

\* A running process keeps running its tasks and guards raise when they apply;
\* no other failure has to happen, no client has to ask, no crash to come.
FairSpec ==
    Spec /\ \A a \in Attempts : WF_vars(Proceed(a) \/ (pc[a] \in InTry /\ Refused(a)))
----------------------------------------------------------------------------
TypeOK ==
    /\ status \in [Scans -> Statuses]
    /\ failureCode \in [Scans -> FailureCodes]
    /\ artifacts \in [Scans -> SUBSET (Attempts \X Kinds)]
    /\ events \in [Scans -> Seq(Events)]
    /\ profileHolder \in [Scans -> Attempts \cup {NoAttempt}]
    /\ pc \in [Attempts -> Stages]
    /\ job \in [Attempts -> Scans \cup {NoScan}]
    /\ staged \in [Attempts -> SUBSET Kinds]
    /\ reading \in [Readers -> Scans \cup {NoScan}]
    /\ served \in [Scans -> SUBSET SUBSET (Attempts \X Kinds)]
    /\ configured \in BOOLEAN
    /\ crashes \in 0 .. MaxCrashes

\* "Repository scan failed and stored no partial inventory": a scan that is not
\* COMPLETED has no committed artifact, whatever aborts, crashes or competes.
NoPartialInventory ==
    \A s \in Scans : status[s] # "COMPLETED" => artifacts[s] = {}

\* A COMPLETED scan holds every kind of row of exactly one execution: two calls
\* of execute on one scan never mix or double their files and evidence.
OneInventory ==
    \A s \in Scans : status[s] = "COMPLETED" =>
        \E a \in Attempts : artifacts[s] = InventoryOf(a)

\* All reads of a scan's artifacts, by any session at any time, return the same
\* complete inventory although status and rows are read by two statements.
ReadsAgree ==
    \A s \in Scans : \A v \in served[s] :
        /\ v = artifacts[s]
        /\ \E a \in Attempts : v = InventoryOf(a)

\* The audit trail names the status: status and trace events commit together,
\* so the last lifecycle event of a scan is the one that put it where it is,
\* and scan_completed ends the trail.
LastEvent(s) == events[s][Len(events[s])]
TrailMatchesStatus ==
    \A s \in Scans :
        /\ status[s] = "ABSENT" <=> events[s] = <<>>
        /\ status[s] # "ABSENT" =>
             LastEvent(s) = CASE status[s] = "PENDING"   -> "scan_requested"
                              [] status[s] = "RUNNING"   -> "scan_started"
                              [] status[s] = "COMPLETED" -> "scan_completed"
                              [] OTHER                   -> "scan_failed"

\* Why executions do not mix: from its first flush to its end, an execution
\* alone holds its scan's profile key, the scan is not COMPLETED, and it has
\* flushed exactly the rows of its stage.  Readers only open COMPLETED scans.
StagedAt(stage) ==
    CASE stage = "extracting" -> {"files", "profile"}
      [] stage = "indexing"   -> {"files", "profile", "evidence"}
      [] OTHER                -> Kinds
WriterInv ==
    \A a \in Attempts : pc[a] \in HoldsProfile =>
        /\ profileHolder[job[a]] = a
        /\ status[job[a]] # "COMPLETED"
        /\ staged[a] = StagedAt(pc[a])
CallInv ==
    \A a \in Attempts : pc[a] # "idle" =>
        job[a] \in Scans /\ status[job[a]] # "ABSENT"
ReaderInv ==
    \A r \in Readers : reading[r] # NoScan => status[reading[r]] = "COMPLETED"
SingleWriter == WriterInv /\ CallInv /\ ReaderInv

\* "A completed scan is immutable": no step of any attempt, failure handler or
\* crash changes a COMPLETED scan's row, artifacts or trail.
CompletedScansAreImmutable ==
    [][\A s \in Scans : status[s] = "COMPLETED" =>
          UNCHANGED <<status[s], failureCode[s], artifacts[s], events[s]>>]_vars

\* With one execution per request, as the API schedules them, the database
\* behaves as the promise of ImmutableScan: one run, one atomic outcome.
Promise == INSTANCE ImmutableScan
               WITH Contents <- {InventoryOf(a) : a \in Attempts},
                    phase    <- status,
                    content  <- artifacts
ImplementsPromise == Promise!Spec

\* A scan reported COMPLETED carries no failure code of an earlier execution,
\* although sealing does not clear the column.
NoFailureCodeOnSuccess ==
    \A s \in Scans : status[s] = "COMPLETED" => failureCode[s] = "NONE"

\* Why: without direct calls a scan has one execution, which finds the row as
\* it left it.
ApiInv ==
    /\ \A a \in Attempts : pc[a] = "idle" => job[a] = NoScan
    /\ \A a, b \in Attempts : job[a] = job[b] /\ job[a] # NoScan => a = b
    /\ \A a \in Attempts :
         /\ pc[a] \in {"queued", "loaded"} => status[job[a]] = "PENDING"
         /\ pc[a] \in InTry \cup {"failing"} => status[job[a]] = "RUNNING"

\* "Only pending scans can be executed": execution starts from PENDING.
OnlyPendingScansStart ==
    [][\A s \in Scans :
          status'[s] = "RUNNING" /\ status[s] # "RUNNING" => status[s] = "PENDING"]_vars

\* No recovery picks up a scan whose execution is gone: its row stays as it is,
\* and only a new scan can take its place.
Orphaned(s) ==
    /\ status[s] # "ABSENT"
    /\ \A a \in Attempts : job[a] = s => pc[a] = "ended"
OrphansStayPut ==
    [][\A s \in Scans : Orphaned(s) =>
          UNCHANGED <<status[s], failureCode[s], artifacts[s], events[s]>>]_vars

\* Every requested scan reaches COMPLETED or FAILED, unless the process dies or
\* its settings are such that scan_policy() raises.
Terminal(s) == status[s] \in {"COMPLETED", "FAILED"}
RequestedScansTerminate ==
    \A s \in Scans :
        status[s] = "PENDING" ~> Terminal(s) \/ crashes > 0 \/ ~configured

\* Waiting for another execution's profile key never lasts for ever: every call
\* ends, whatever the settings, the crashes and the other calls.
EveryCallEnds ==
    \A a \in Attempts : pc[a] = "queued" ~> pc[a] = "ended"
============================================================================
