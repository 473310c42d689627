------------------------ MODULE ScanLifecycleProofs ------------------------
(***************************************************************************)
(* Proofs about ScanLifecycle, for any number of scans, executions and     *)
(* readers, with or without concurrent calls of execute and with crashes:  *)
(* what its states keep, that no step changes a completed scan, and that,  *)
(* when every scan is executed once, the database implements               *)
(* ImmutableScan.                                                          *)
(***************************************************************************)
EXTENDS ScanLifecycle, TLAPS

\* Appending lifecycle events leaves every trail a sequence of events.
LEMMA TraceType ==
    ASSUME TypeOK, NEW s, NEW es \in Seq(Events), Trace(s, es)
    PROVE  events' \in [Scans -> Seq(Events)]
<1>1. ASSUME NEW t \in Scans PROVE events[t] \o es \in Seq(Events)
  BY DEF TypeOK
<1> QED
  BY <1>1 DEF TypeOK, Trace

\* Ending a transaction leaves the staged rows and the profile key well typed.
LEMMA RollbackType ==
    ASSUME TypeOK, NEW a \in Attempts, Rollback(a)
    PROVE  /\ staged' \in [Attempts -> SUBSET Kinds]
           /\ profileHolder' \in [Scans -> Attempts \cup {NoAttempt}]
BY DEF TypeOK, Rollback

\* Every action of the scan service keeps every variable in its type.
THEOREM TypeCorrect == Spec => []TypeOK
<1>1. Init => TypeOK
  BY ScanConstants DEF Init, TypeOK, Statuses, Stages, FailureCodes
<1>2. TypeOK /\ [Next]_vars => TypeOK'
  <2> SUFFICES ASSUME TypeOK, [Next]_vars PROVE TypeOK'
    OBVIOUS
  <2> USE DEF TypeOK
  <2>1. ASSUME NEW s \in Scans, NEW a \in Attempts, Request(s, a) PROVE TypeOK'
    <3>1. <<"scan_requested">> \in Seq(Events)
      BY DEF Events
    <3>2. events' \in [Scans -> Seq(Events)]
      BY <2>1, <3>1, TraceType DEF Request, Requestable
    <3> QED
      BY <2>1, <3>2 DEF Request, Requestable, Goto, Statuses, Stages, readers, process
  <2>2. ASSUME NEW s \in Scans, NEW a \in Attempts, CallExecute(s, a) PROVE TypeOK'
    BY <2>2, ScanConstants DEF CallExecute, Goto, Stages, rows, readers, process
  <2>3. ASSUME NEW a \in Attempts, Load(a) PROVE TypeOK'
    BY <2>3, ScanConstants DEF Load, Goto, Stages, rows, readers, process
  <2>4. ASSUME NEW a \in Attempts, Start(a) PROVE TypeOK'
    <3>1. <<"scan_started">> \in Seq(Events)
      BY DEF Events
    <3>2. events' \in [Scans -> Seq(Events)]
      BY <2>4, <3>1, TraceType DEF Start
    <3> QED
      BY <2>4, <3>2 DEF Start, Goto, Statuses, Stages, readers, process
  <2>5. ASSUME NEW a \in Attempts, StartRefused(a) PROVE TypeOK'
    BY <2>5, ScanConstants DEF StartRefused, Goto, Stages, rows, readers, process
  <2>6. ASSUME NEW a \in Attempts, PolicyUnavailable(a) PROVE TypeOK'
    BY <2>6, ScanConstants DEF PolicyUnavailable, Goto, Stages, rows, readers, process
  <2>7. ASSUME NEW a \in Attempts, FlushInventory(a) PROVE TypeOK'
    BY <2>7, ScanConstants DEF FlushInventory, Goto, Stages, rows, readers, process, Kinds
  <2>8. ASSUME NEW a \in Attempts, Extract(a) PROVE TypeOK'
    BY <2>8, ScanConstants DEF Extract, Goto, Stages, rows, readers, process, Kinds
  <2>9. ASSUME NEW a \in Attempts, Index(a) PROVE TypeOK'
    BY <2>9, ScanConstants DEF Index, Goto, Stages, rows, readers, process, Kinds
  <2>10. ASSUME NEW a \in Attempts, Seal(a) PROVE TypeOK'
    <3>1. <<"context_documents_created", "scan_completed">> \in Seq(Events)
      BY DEF Events
    <3>2. events' \in [Scans -> Seq(Events)]
      BY <2>10, <3>1, TraceType DEF Seal, SealTrail
    <3>3. artifacts' \in [Scans -> SUBSET (Attempts \X Kinds)]
      <4>1. {a} \X staged[a] \subseteq Attempts \X Kinds
        OBVIOUS
      <4>2. \A s \in Scans : artifacts[s] \cup ({a} \X staged[a]) \subseteq Attempts \X Kinds
        BY <4>1
      <4> QED
        BY <2>10, <4>2 DEF Seal
    <3>4. /\ staged' \in [Attempts -> SUBSET Kinds]
          /\ profileHolder' \in [Scans -> Attempts \cup {NoAttempt}]
      BY <2>10, RollbackType DEF Seal
    <3>5. /\ status' \in [Scans -> Statuses]
          /\ pc' \in [Attempts -> Stages]
      BY <2>10 DEF Seal, Goto, Statuses, Stages
    <3> QED
      BY <2>10, <3>2, <3>3, <3>4, <3>5 DEF Seal, readers, process
  <2>11. ASSUME NEW a \in Attempts, Abort(a) PROVE TypeOK'
    BY <2>11, RollbackType DEF Abort, Goto, Stages, rows, readers, process
  <2>12. ASSUME NEW a \in Attempts, MarkFailed(a) PROVE TypeOK'
    <3>1. <<"scan_failed">> \in Seq(Events)
      BY DEF Events
    <3>2. events' \in [Scans -> Seq(Events)]
      BY <2>12, <3>1, TraceType DEF MarkFailed
    <3>3. failureCode' \in [Scans -> FailureCodes]
      BY <2>12 DEF MarkFailed
    <3>4. /\ status' \in [Scans -> Statuses]
          /\ pc' \in [Attempts -> Stages]
      BY <2>12 DEF MarkFailed, Goto, Statuses, Stages
    <3> QED
      BY <2>12, <3>2, <3>3, <3>4 DEF MarkFailed, readers, process
  <2>13. ASSUME NEW a \in Attempts, MarkFailedRefused(a) PROVE TypeOK'
    BY <2>13, ScanConstants DEF MarkFailedRefused, Goto, Stages, rows, readers, process
  <2>14. ASSUME Crash PROVE TypeOK'
    BY <2>14, ScanConstants DEF Crash, Stages, Live, rows
  <2>15. ASSUME NEW r \in Readers, NEW s \in Scans, OpenScan(r, s) PROVE TypeOK'
    BY <2>15, ScanConstants DEF OpenScan, rows, work, process
  <2>16. ASSUME NEW r \in Readers, ReadArtifacts(r) PROVE TypeOK'
    BY <2>16, ScanConstants DEF ReadArtifacts, rows, work, process
  <2>17. CASE UNCHANGED vars
    BY <2>17 DEF vars, rows, work, readers, process
  <2> QED
    BY <2>1, <2>2, <2>3, <2>4, <2>5, <2>6, <2>7, <2>8, <2>9, <2>10, <2>11, <2>12, <2>13, <2>14, <2>15, <2>16, <2>17 DEF Next, Proceed
<1> QED
  BY <1>1, <1>2, PTL DEF Spec

----------------------------------------------------------------------------
\* The inductive invariant: what readers, traces and clients may rely on, and
\* the single-writer facts that make it inductive.
LifecycleInv ==
    /\ TypeOK
    /\ SingleWriter
    /\ NoPartialInventory
    /\ OneInventory
    /\ ReadsAgree
    /\ TrailMatchesStatus

RowInv == NoPartialInventory /\ OneInventory /\ ReadsAgree /\ TrailMatchesStatus

\* A step that leaves rows and reads alone keeps what is said about them.
LEMMA RowsUntouched ==
    ASSUME LifecycleInv, UNCHANGED <<rows, served>>
    PROVE  RowInv'
BY DEF LifecycleInv, RowInv, rows, NoPartialInventory, OneInventory, ReadsAgree,
       TrailMatchesStatus, LastEvent, InventoryOf

\* An attempt that is not between its first flush and its end can move freely
\* as long as it takes no key and the rows stay: the writers are the same.
LEMMA OutsideTransaction ==
    ASSUME LifecycleInv, NEW a \in Attempts, NEW stage \in Stages \ HoldsProfile,
           stage # "idle", pc[a] # "idle", Goto(a, stage),
           UNCHANGED <<rows, job, staged, profileHolder, reading>>
    PROVE  SingleWriter'
BY DEF LifecycleInv, TypeOK, SingleWriter, WriterInv, CallInv, ReaderInv,
       Goto, StagedAt, HoldsProfile, rows

\* The last event of a trail that has just been extended.
LEMMA LastOfExtended ==
    ASSUME NEW old \in Seq(Events), NEW es \in Seq(Events), es # <<>>
    PROVE  /\ old \o es # <<>>
           /\ (old \o es)[Len(old \o es)] = es[Len(es)]
OBVIOUS

\* The transaction that moves a scan's status appends the event that says so;
\* every other scan keeps its status and trail.
LEMMA TrailExtended ==
    ASSUME LifecycleInv, NEW s \in Scans, NEW new \in Statuses \ {"ABSENT"},
           NEW es \in Seq(Events), es # <<>>, Trace(s, es),
           status' = [status EXCEPT ![s] = new],
           es[Len(es)] = CASE new = "PENDING"   -> "scan_requested"
                           [] new = "RUNNING"   -> "scan_started"
                           [] new = "COMPLETED" -> "scan_completed"
                           [] OTHER             -> "scan_failed"
    PROVE  TrailMatchesStatus'
<1>1. events[s] \in Seq(Events)
  BY DEF LifecycleInv, TypeOK
<1>2. events'[s] = events[s] \o es /\ status'[s] = new
  BY DEF LifecycleInv, TypeOK, Trace
<1>3. events'[s] # <<>> /\ LastEvent(s)' = es[Len(es)]
  BY <1>1, <1>2, LastOfExtended DEF LastEvent
<1>4. \A t \in Scans \ {s} : events'[t] = events[t] /\ status'[t] = status[t]
  BY DEF LifecycleInv, TypeOK, Trace
<1> QED
  BY <1>2, <1>3, <1>4 DEF LifecycleInv, TrailMatchesStatus, LastEvent

\* Ending transaction a frees its key only.
LEMMA OthersKeepTheirKey ==
    ASSUME LifecycleInv, NEW a \in Attempts, Rollback(a)
    PROVE  \A b \in Attempts \ {a} :
             /\ staged'[b] = staged[b]
             /\ pc[b] \in HoldsProfile => profileHolder'[job[b]] = b
BY DEF LifecycleInv, TypeOK, SingleWriter, WriterInv, CallInv, Rollback, HoldsProfile
LEMMA InitInv == Init => LifecycleInv
<1>1. Init => TypeOK
  BY ScanConstants DEF Init, TypeOK, Statuses, Stages, FailureCodes
<1> QED
  BY <1>1 DEF Init, LifecycleInv, SingleWriter, WriterInv, CallInv, ReaderInv,
              HoldsProfile, NoPartialInventory, OneInventory, ReadsAgree,
              TrailMatchesStatus

\* One step per action.  Only Request, Start, Seal and MarkFailed write rows;
\* only FlushInventory takes a profile key and only Seal completes a scan.
LEMMA StepInv == LifecycleInv /\ TypeOK' /\ [Next]_vars => RowInv' /\ SingleWriter'
<1> SUFFICES ASSUME LifecycleInv, TypeOK', [Next]_vars
             PROVE  RowInv' /\ SingleWriter'
  OBVIOUS
<1> USE DEF LifecycleInv
<1>1. ASSUME NEW s \in Scans, NEW a \in Attempts, Request(s, a)
      PROVE  RowInv' /\ SingleWriter'
  <2>1. TrailMatchesStatus'
    <3>1. <<"scan_requested">> \in Seq(Events)
      BY DEF Events
    <3> QED
      BY <1>1, <3>1, TrailExtended DEF Request, Requestable, Statuses
  <2>2. /\ status[s] = "ABSENT" /\ status'[s] = "PENDING"
        /\ \A t \in Scans \ {s} : status'[t] = status[t]
        /\ UNCHANGED <<artifacts, served, reading, profileHolder, staged>>
    BY <1>1 DEF Request, Requestable, TypeOK, readers
  <2>3. NoPartialInventory' /\ OneInventory' /\ ReadsAgree'
    BY <2>2 DEF NoPartialInventory, OneInventory, ReadsAgree, InventoryOf
  <2>4. \A b \in Attempts : /\ b # a => pc'[b] = pc[b] /\ job'[b] = job[b]
                            /\ b = a => pc'[b] = "queued" /\ job'[b] = s
    BY <1>1 DEF Request, Requestable, Goto, TypeOK
  <2>5. WriterInv'
    BY <2>2, <2>4 DEF SingleWriter, WriterInv, CallInv, HoldsProfile
  <2>6. CallInv'
    BY <2>2, <2>4 DEF SingleWriter, CallInv
  <2>7. ReaderInv'
    BY <2>2 DEF SingleWriter, ReaderInv, TypeOK
  <2> QED
    BY <2>1, <2>3, <2>5, <2>6, <2>7 DEF RowInv, SingleWriter
<1>2. ASSUME NEW s \in Scans, NEW a \in Attempts, CallExecute(s, a)
      PROVE  RowInv' /\ SingleWriter'
  <2>1. \A b \in Attempts : /\ b # a => pc'[b] = pc[b] /\ job'[b] = job[b]
                            /\ b = a => pc'[b] = "queued" /\ job'[b] = s
    BY <1>2 DEF CallExecute, Goto, TypeOK
  <2>2. SingleWriter'
    BY <1>2, <2>1 DEF CallExecute, SingleWriter, WriterInv, CallInv, ReaderInv,
                      HoldsProfile, StagedAt, rows, readers
  <2> QED
    BY <1>2, <2>2, RowsUntouched DEF CallExecute, readers, RowInv
<1>3. ASSUME NEW a \in Attempts,
             Load(a) \/ StartRefused(a) \/ PolicyUnavailable(a) \/ MarkFailedRefused(a)
      PROVE  RowInv' /\ SingleWriter'
  <2>1. PICK stage \in {"loaded", "ended"} :
          /\ pc[a] # "idle"
          /\ Goto(a, stage)
          /\ UNCHANGED <<rows, job, staged, profileHolder, readers>>
    BY <1>3 DEF Load, StartRefused, PolicyUnavailable, MarkFailedRefused
  <2>2. SingleWriter'
    BY <2>1, OutsideTransaction DEF Stages, HoldsProfile, readers
  <2> QED
    BY <2>1, <2>2, RowsUntouched DEF readers, RowInv
<1>4. ASSUME NEW a \in Attempts, Start(a) PROVE RowInv' /\ SingleWriter'
  <2>1. job[a] \in Scans
    BY <1>4 DEF Start, SingleWriter, CallInv
  <2>2. TrailMatchesStatus'
    <3>1. <<"scan_started">> \in Seq(Events)
      BY DEF Events
    <3> QED
      BY <1>4, <2>1, <3>1, TrailExtended DEF Start, Statuses
  <2>3. /\ status[job[a]] # "COMPLETED" /\ status'[job[a]] = "RUNNING"
        /\ \A t \in Scans \ {job[a]} : status'[t] = status[t]
        /\ UNCHANGED <<artifacts, served, reading, profileHolder, staged, job>>
    BY <1>4, <2>1 DEF Start, ScanMutable, TypeOK, readers
  <2>4. NoPartialInventory' /\ OneInventory' /\ ReadsAgree'
    BY <2>3 DEF NoPartialInventory, OneInventory, ReadsAgree, InventoryOf
  <2>5. \A b \in Attempts : /\ b # a => pc'[b] = pc[b]
                            /\ b = a => pc'[b] = "scanning" /\ pc[b] = "loaded"
    BY <1>4 DEF Start, Goto, TypeOK
  <2>6. WriterInv'
    BY <2>1, <2>3, <2>5 DEF SingleWriter, WriterInv, CallInv, HoldsProfile
  <2>7. CallInv'
    BY <2>1, <2>3, <2>5 DEF SingleWriter, CallInv
  <2>8. ReaderInv'
    BY <2>1, <2>3 DEF SingleWriter, ReaderInv, TypeOK
  <2> QED
    BY <2>2, <2>4, <2>6, <2>7, <2>8 DEF RowInv, SingleWriter
<1>5. ASSUME NEW a \in Attempts, FlushInventory(a) PROVE RowInv' /\ SingleWriter'
  <2>1. job[a] \in Scans /\ status[job[a]] # "COMPLETED" /\ pc[a] = "scanning"
    BY <1>5 DEF FlushInventory, ChildrenMutable, SingleWriter, CallInv
  <2>2. /\ profileHolder[job[a]] = NoAttempt /\ profileHolder'[job[a]] = a
        /\ \A t \in Scans \ {job[a]} : profileHolder'[t] = profileHolder[t]
        /\ staged'[a] = {"files", "profile"} /\ pc'[a] = "extracting"
        /\ \A b \in Attempts \ {a} : staged'[b] = staged[b] /\ pc'[b] = pc[b]
    BY <1>5, <2>1 DEF FlushInventory, KeyFree, Goto, TypeOK
  <2>3. UNCHANGED <<rows, job, readers>>
    BY <1>5 DEF FlushInventory
  <2>4. WriterInv'
    <3> SUFFICES ASSUME NEW b \in Attempts, pc'[b] \in HoldsProfile
                 PROVE  /\ profileHolder'[job[b]] = b
                        /\ status[job[b]] # "COMPLETED"
                        /\ staged'[b] = StagedAt(pc'[b])
      BY <2>3 DEF WriterInv, rows
    <3>1. CASE b = a
      BY <2>1, <2>2, <3>1 DEF StagedAt
    <3>2. CASE b # a
      <4>1. /\ pc[b] \in HoldsProfile /\ job[b] \in Scans
            /\ profileHolder[job[b]] = b
        BY <2>2, <3>2 DEF SingleWriter, WriterInv, CallInv, HoldsProfile
      <4>2. job[b] # job[a]
        BY <2>2, <4>1, ScanConstants
      <4> QED
        BY <2>2, <3>2, <4>1, <4>2 DEF SingleWriter, WriterInv
    <3> QED
      BY <3>1, <3>2
  <2>5. CallInv' /\ ReaderInv'
    BY <2>1, <2>2, <2>3 DEF SingleWriter, CallInv, ReaderInv, rows, readers
  <2> QED
    BY <2>3, <2>4, <2>5, RowsUntouched DEF readers, RowInv, SingleWriter
<1>6. ASSUME NEW a \in Attempts, Extract(a) \/ Index(a) PROVE RowInv' /\ SingleWriter'
  <2>1. /\ pc[a] \in HoldsProfile /\ pc'[a] \in HoldsProfile
        /\ staged'[a] = StagedAt(pc'[a])
        /\ \A b \in Attempts \ {a} : staged'[b] = staged[b] /\ pc'[b] = pc[b]
        /\ UNCHANGED <<rows, profileHolder, job, readers>>
    BY <1>6 DEF Extract, Index, Goto, TypeOK, SingleWriter, WriterInv, HoldsProfile,
                StagedAt, Kinds
  <2>2. SingleWriter'
    BY <2>1 DEF SingleWriter, WriterInv, CallInv, ReaderInv, HoldsProfile, StagedAt,
                rows, readers
  <2> QED
    BY <2>1, <2>2, RowsUntouched DEF readers, RowInv
<1>7. ASSUME NEW a \in Attempts, Seal(a) PROVE RowInv' /\ SingleWriter'
  <2>1. /\ job[a] \in Scans /\ status[job[a]] # "COMPLETED"
        /\ staged[a] = Kinds /\ profileHolder[job[a]] = a
    BY <1>7 DEF Seal, SingleWriter, WriterInv, CallInv, HoldsProfile, StagedAt
  <2>2. TrailMatchesStatus'
    <3>1. <<"context_documents_created", "scan_completed">> \in Seq(Events)
      BY DEF Events
    <3> QED
      BY <1>7, <2>1, <3>1, TrailExtended DEF Seal, SealTrail, Statuses
  <2>3. /\ status'[job[a]] = "COMPLETED"
        /\ artifacts[job[a]] = {} /\ artifacts'[job[a]] = InventoryOf(a)
        /\ served[job[a]] = {}
        /\ \A t \in Scans \ {job[a]} :
             status'[t] = status[t] /\ artifacts'[t] = artifacts[t]
        /\ UNCHANGED <<served, reading, job>>
    <3>1. artifacts[job[a]] = {}
      BY <2>1 DEF NoPartialInventory
    <3>2. served[job[a]] = {}
      <4>1. \A b \in Attempts : <<b, "files">> \in InventoryOf(b)
        BY DEF InventoryOf, Kinds
      <4>2. ASSUME NEW v \in served[job[a]] PROVE FALSE
        <5>1. PICK b \in Attempts : v = {} /\ v = InventoryOf(b)
          BY <2>1, <3>1 DEF ReadsAgree
        <5> QED
          BY <4>1, <5>1
      <4> QED
        BY <4>2
    <3> QED
      BY <1>7, <2>1, <3>1, <3>2 DEF Seal, TypeOK, InventoryOf, readers
  <2>4. NoPartialInventory' /\ OneInventory' /\ ReadsAgree'
    BY <2>3 DEF NoPartialInventory, OneInventory, ReadsAgree, InventoryOf
  <2>5. /\ pc'[a] = "ended"
        /\ \A b \in Attempts \ {a} : pc'[b] = pc[b]
    BY <1>7 DEF Seal, Goto, TypeOK
  <2>6. \A b \in Attempts \ {a} :
          /\ staged'[b] = staged[b]
          /\ pc[b] \in HoldsProfile => profileHolder'[job[b]] = b /\ job[b] # job[a]
    BY <1>7, <2>1, OthersKeepTheirKey DEF Seal, SingleWriter, WriterInv
  <2>7. WriterInv'
    BY <2>3, <2>5, <2>6 DEF SingleWriter, WriterInv, CallInv, HoldsProfile
  <2>8. CallInv'
    BY <2>1, <2>3, <2>5 DEF SingleWriter, CallInv
  <2>9. ReaderInv'
    BY <2>1, <2>3 DEF SingleWriter, ReaderInv, TypeOK
  <2> QED
    BY <2>2, <2>4, <2>7, <2>8, <2>9 DEF RowInv, SingleWriter
<1>8. ASSUME NEW a \in Attempts, Abort(a) PROVE RowInv' /\ SingleWriter'
  <2>1. /\ pc[a] # "idle" /\ pc'[a] = "failing"
        /\ \A b \in Attempts \ {a} : pc'[b] = pc[b]
        /\ UNCHANGED <<rows, job, readers>>
    BY <1>8 DEF Abort, Goto, InTry, TypeOK
  <2>2. SingleWriter'
    BY <1>8, <2>1, OthersKeepTheirKey
       DEF Abort, SingleWriter, WriterInv, CallInv, ReaderInv, HoldsProfile,
           StagedAt, rows, readers
  <2> QED
    BY <2>1, <2>2, RowsUntouched DEF readers, RowInv
<1>9. ASSUME NEW a \in Attempts, MarkFailed(a) PROVE RowInv' /\ SingleWriter'
  <2>1. job[a] \in Scans
    BY <1>9 DEF MarkFailed, SingleWriter, CallInv
  <2>2. TrailMatchesStatus'
    <3>1. <<"scan_failed">> \in Seq(Events)
      BY DEF Events
    <3> QED
      BY <1>9, <2>1, <3>1, TrailExtended DEF MarkFailed, Statuses
  <2>3. /\ status[job[a]] # "COMPLETED" /\ status'[job[a]] = "FAILED"
        /\ \A t \in Scans \ {job[a]} : status'[t] = status[t]
        /\ UNCHANGED <<artifacts, served, reading, profileHolder, staged, job>>
    BY <1>9, <2>1 DEF MarkFailed, ScanMutable, TypeOK, readers
  <2>4. NoPartialInventory' /\ OneInventory' /\ ReadsAgree'
    BY <2>3 DEF NoPartialInventory, OneInventory, ReadsAgree, InventoryOf
  <2>5. \A b \in Attempts : /\ b # a => pc'[b] = pc[b]
                            /\ b = a => pc'[b] = "ended" /\ pc[b] = "failing"
    BY <1>9 DEF MarkFailed, Goto, TypeOK
  <2>6. WriterInv'
    BY <2>1, <2>3, <2>5 DEF SingleWriter, WriterInv, CallInv, HoldsProfile
  <2>7. CallInv'
    BY <2>1, <2>3, <2>5 DEF SingleWriter, CallInv
  <2>8. ReaderInv'
    BY <2>1, <2>3 DEF SingleWriter, ReaderInv, TypeOK
  <2> QED
    BY <2>2, <2>4, <2>6, <2>7, <2>8 DEF RowInv, SingleWriter
<1>10. ASSUME Crash PROVE RowInv' /\ SingleWriter'
  <2>1. \A b \in Attempts : pc'[b] = "idle" \/ pc'[b] = "ended"
    BY <1>10 DEF Crash, Live, TypeOK
  <2>2. SingleWriter'
    BY <1>10, <2>1 DEF Crash, Live, SingleWriter, WriterInv, CallInv, ReaderInv,
                       HoldsProfile, rows, TypeOK
  <2> QED
    BY <1>10, <2>2, RowsUntouched DEF Crash, RowInv
<1>11. ASSUME NEW r \in Readers, NEW s \in Scans, OpenScan(r, s)
       PROVE  RowInv' /\ SingleWriter'
  <2>1. SingleWriter'
    BY <1>11 DEF OpenScan, SingleWriter, WriterInv, CallInv, ReaderInv, rows, work,
                 TypeOK, HoldsProfile, StagedAt
  <2> QED
    BY <1>11, <2>1, RowsUntouched DEF OpenScan, RowInv
<1>12. ASSUME NEW r \in Readers, ReadArtifacts(r) PROVE RowInv' /\ SingleWriter'
  <2>1. reading[r] \in Scans /\ status[reading[r]] = "COMPLETED"
    BY <1>12 DEF ReadArtifacts, SingleWriter, ReaderInv, TypeOK
  <2>2. ReadsAgree'
    <3>1. /\ served'[reading[r]] = served[reading[r]] \cup {artifacts[reading[r]]}
          /\ \A t \in Scans \ {reading[r]} : served'[t] = served[t]
          /\ UNCHANGED artifacts
      BY <1>12, <2>1 DEF ReadArtifacts, TypeOK, rows
    <3>2. \E b \in Attempts : artifacts[reading[r]] = InventoryOf(b)
      BY <2>1 DEF OneInventory
    <3> QED
      <4>1. ASSUME NEW t \in Scans, NEW v \in served'[t]
            PROVE  v = artifacts'[t] /\ \E b \in Attempts : v = InventoryOf(b)
        <5>1. CASE v \in served[t]
          BY <3>1, <5>1 DEF ReadsAgree
        <5>2. CASE v \notin served[t]
          BY <3>1, <3>2, <5>2
        <5> QED
          BY <5>1, <5>2
      <4> QED
        BY <4>1 DEF ReadsAgree, InventoryOf
  <2>3. NoPartialInventory' /\ OneInventory' /\ TrailMatchesStatus'
    BY <1>12 DEF ReadArtifacts, NoPartialInventory, OneInventory, TrailMatchesStatus,
                 LastEvent, InventoryOf, rows
  <2>4. SingleWriter'
    BY <1>12 DEF ReadArtifacts, SingleWriter, WriterInv, CallInv, ReaderInv, rows, work,
                 TypeOK, HoldsProfile, StagedAt
  <2> QED
    BY <2>2, <2>3, <2>4 DEF RowInv
<1>13. CASE UNCHANGED vars
  <2>1. SingleWriter'
    BY <1>13 DEF vars, rows, work, readers, SingleWriter, WriterInv, CallInv, ReaderInv,
                 HoldsProfile, StagedAt
  <2> QED
    BY <1>13, <2>1, RowsUntouched DEF vars, readers, RowInv
<1> QED
  BY <1>1, <1>2, <1>3, <1>4, <1>5, <1>6, <1>7, <1>8, <1>9, <1>10, <1>11, <1>12, <1>13
     DEF Next, Proceed

\* The inductive invariant holds in every reachable state.
THEOREM LifecycleInvariant == Spec => []LifecycleInv
<1>1. LifecycleInv /\ TypeOK' /\ [Next]_vars => LifecycleInv'
  BY StepInv DEF LifecycleInv, RowInv
<1> QED
  BY InitInv, TypeCorrect, <1>1, PTL DEF Spec

\* No failed, running or pending scan shows rows, whatever aborts or crashes.
THEOREM NoPartialInventoryTheorem == Spec => []NoPartialInventory
<1>1. LifecycleInv => NoPartialInventory
  BY DEF LifecycleInv
<1> QED
  BY LifecycleInvariant, <1>1, PTL

\* A completed scan holds one execution's whole inventory.
THEOREM OneInventoryTheorem == Spec => []OneInventory
<1>1. LifecycleInv => OneInventory
  BY DEF LifecycleInv
<1> QED
  BY LifecycleInvariant, <1>1, PTL

\* Any two reads of a scan's artifacts agree, and are complete.
THEOREM ReadsAgreeTheorem == Spec => []ReadsAgree
<1>1. LifecycleInv => ReadsAgree
  BY DEF LifecycleInv
<1> QED
  BY LifecycleInvariant, <1>1, PTL

\* A scan's last lifecycle event names its status.
THEOREM TrailTheorem == Spec => []TrailMatchesStatus
<1>1. LifecycleInv => TrailMatchesStatus
  BY DEF LifecycleInv
<1> QED
  BY LifecycleInvariant, <1>1, PTL
\* From its first flush on, an execution alone writes its scan, which is not yet
\* completed, and has staged exactly what its progress says.
THEOREM SingleWriterTheorem == Spec => []SingleWriter
<1>1. LifecycleInv => SingleWriter
  BY DEF LifecycleInv
<1> QED
  BY LifecycleInvariant, <1>1, PTL

-----------------------------------------------------------------------------
(* Steps: the immutability of completed scans and the promise.             *)

\* A COMPLETED row, its artifacts and its trail are the same after any step.
CompletedUnchanged ==
    \A s \in Scans : status[s] = "COMPLETED" =>
        UNCHANGED <<status[s], failureCode[s], artifacts[s], events[s]>>

LEMMA CompletedStep == LifecycleInv /\ [Next]_vars => CompletedUnchanged
<1> SUFFICES ASSUME LifecycleInv, [Next]_vars PROVE CompletedUnchanged
  OBVIOUS
<1> USE DEF CompletedUnchanged, LifecycleInv
<1>1. ASSUME UNCHANGED rows PROVE CompletedUnchanged
  BY <1>1 DEF rows
<1>2. ASSUME NEW s \in Scans, NEW a \in Attempts, Request(s, a)
      PROVE  CompletedUnchanged
  BY <1>2 DEF Request, Requestable, Trace, TypeOK
<1>3. ASSUME NEW a \in Attempts, Start(a) PROVE CompletedUnchanged
  BY <1>3 DEF Start, Trace, ScanMutable, TypeOK
<1>4. ASSUME NEW a \in Attempts, Seal(a) PROVE CompletedUnchanged
  BY <1>4 DEF Seal, Trace, ScanMutable, TypeOK
<1>5. ASSUME NEW a \in Attempts, MarkFailed(a) PROVE CompletedUnchanged
  BY <1>5 DEF MarkFailed, Trace, ScanMutable, TypeOK
<1> QED
  BY <1>1, <1>2, <1>3, <1>4, <1>5
     DEF Next, Proceed, vars, CallExecute, Load, StartRefused, PolicyUnavailable,
         FlushInventory, Extract, Index, Abort, MarkFailedRefused, Crash, OpenScan,
         ReadArtifacts

\* "A completed scan is immutable", with any callers, failures and crashes.
THEOREM ImmutableTheorem == Spec => CompletedScansAreImmutable
<1>1. LifecycleInv /\ [Next]_vars =>
        [\A s \in Scans : status[s] = "COMPLETED" =>
           UNCHANGED <<status[s], failureCode[s], artifacts[s], events[s]>>]_vars
  BY CompletedStep DEF CompletedUnchanged
<1> QED
  BY LifecycleInvariant, <1>1, PTL DEF Spec, CompletedScansAreImmutable

\* Only the attempt of a scan writes its row, once there is one.
OrphansUnchanged ==
    \A s \in Scans : Orphaned(s) =>
        UNCHANGED <<status[s], failureCode[s], artifacts[s], events[s]>>

LEMMA OrphanStep == LifecycleInv /\ [Next]_vars => OrphansUnchanged
<1> SUFFICES ASSUME LifecycleInv, [Next]_vars PROVE OrphansUnchanged
  OBVIOUS
<1> USE DEF OrphansUnchanged, LifecycleInv
<1>1. ASSUME UNCHANGED rows PROVE OrphansUnchanged
  BY <1>1 DEF rows
<1>2. ASSUME NEW s \in Scans, NEW a \in Attempts, Request(s, a) PROVE OrphansUnchanged
  BY <1>2 DEF Request, Requestable, Trace, TypeOK, Orphaned
<1>3. ASSUME NEW a \in Attempts, pc[a] # "ended", NEW s \in Scans, Orphaned(s)
      PROVE  s # job[a]
  BY <1>3 DEF Orphaned
<1>4. ASSUME NEW a \in Attempts, Start(a) PROVE OrphansUnchanged
  BY <1>3, <1>4 DEF Start, Trace, TypeOK
<1>5. ASSUME NEW a \in Attempts, Seal(a) PROVE OrphansUnchanged
  BY <1>3, <1>5 DEF Seal, Trace, TypeOK
<1>6. ASSUME NEW a \in Attempts, MarkFailed(a) PROVE OrphansUnchanged
  BY <1>3, <1>6 DEF MarkFailed, Trace, TypeOK
<1> QED
  BY <1>1, <1>2, <1>4, <1>5, <1>6
     DEF Next, Proceed, vars, CallExecute, Load, StartRefused, PolicyUnavailable,
         FlushInventory, Extract, Index, Abort, MarkFailedRefused, Crash, OpenScan,
         ReadArtifacts

\* Nothing resumes or fails a scan whose execution is gone, whoever calls what.
THEOREM OrphansTheorem == Spec => OrphansStayPut
<1>1. LifecycleInv /\ [Next]_vars =>
        [\A s \in Scans : Orphaned(s) =>
           UNCHANGED <<status[s], failureCode[s], artifacts[s], events[s]>>]_vars
  BY OrphanStep DEF OrphansUnchanged
<1> QED
  BY LifecycleInvariant, <1>1, PTL DEF Spec, OrphansStayPut

----------------------------------------------------------------------------
\* ApiInv is inductive once execute is only called by the task of a request.
LEMMA ApiStep ==
    ASSUME ~DirectCalls, LifecycleInv, ApiInv, [Next]_vars
    PROVE  ApiInv'
<1> USE DEF LifecycleInv
<1>0. \A a \in Attempts : /\ job[a] \in Scans \cup {NoScan}
                          /\ pc[a] # "idle" => job[a] \in Scans /\ status[job[a]] # "ABSENT"
  BY DEF TypeOK, SingleWriter, CallInv
<1>1. ASSUME NEW s \in Scans, NEW a \in Attempts, Request(s, a) PROVE ApiInv'
  <2>1. /\ status[s] = "ABSENT" /\ status'[s] = "PENDING"
        /\ \A t \in Scans \ {s} : status'[t] = status[t]
    BY <1>1 DEF Request, Requestable, TypeOK
  <2>2. /\ pc'[a] = "queued" /\ job'[a] = s
        /\ \A b \in Attempts \ {a} : pc'[b] = pc[b] /\ job'[b] = job[b]
    BY <1>1 DEF Request, Requestable, Goto, TypeOK
  <2>3. \A b \in Attempts : job[b] # s
    BY <1>0, <2>1, ScanConstants DEF ApiInv
  <2> QED
    BY <1>0, <2>1, <2>2, <2>3 DEF ApiInv, InTry
<1>2. ASSUME NEW a \in Attempts, NEW stage \in Stages, pc[a] # "idle", stage # "idle",
             Goto(a, stage), UNCHANGED <<status, job>>,
             stage \in {"queued", "loaded"} => status[job[a]] = "PENDING",
             stage \in InTry \cup {"failing"} => status[job[a]] = "RUNNING"
      PROVE  ApiInv'
  BY <1>2 DEF ApiInv, Goto, TypeOK
<1>3. ASSUME NEW a \in Attempts, Load(a) PROVE ApiInv'
  BY <1>2, <1>3 DEF Load, rows, Stages, InTry
<1>4. ASSUME NEW a \in Attempts,
             StartRefused(a) \/ PolicyUnavailable(a) \/ MarkFailedRefused(a)
      PROVE  ApiInv'
  BY <1>2, <1>4 DEF StartRefused, PolicyUnavailable, MarkFailedRefused, rows, Stages, InTry
<1>5. ASSUME NEW a \in Attempts, FlushInventory(a) \/ Extract(a) \/ Index(a) \/ Abort(a)
      PROVE  ApiInv'
  <2>1. PICK stage \in {"extracting", "indexing", "sealing", "failing"} :
          pc[a] \in InTry /\ Goto(a, stage) /\ UNCHANGED <<status, job>>
    BY <1>5 DEF FlushInventory, Extract, Index, Abort, rows, InTry
  <2>2. status[job[a]] = "RUNNING"
    BY <2>1 DEF ApiInv
  <2> QED
    BY <1>2, <2>1, <2>2 DEF Stages, InTry
<1>6. ASSUME NEW a \in Attempts, Start(a) \/ Seal(a) \/ MarkFailed(a) PROVE ApiInv'
  <2>1. job[a] \in Scans /\ pc[a] # "idle"
    BY <1>0, <1>6 DEF Start, Seal, MarkFailed
  <2>2. /\ \A t \in Scans \ {job[a]} : status'[t] = status[t]
        /\ \A b \in Attempts \ {a} : pc'[b] = pc[b]
        /\ job' = job
        /\ \/ pc'[a] = "scanning" /\ status'[job[a]] = "RUNNING"
           \/ pc'[a] = "ended"
    BY <1>6, <2>1 DEF Start, Seal, MarkFailed, Goto, TypeOK
  <2>3. \A b \in Attempts \ {a} : job[b] # job[a]
    BY <2>1, ScanConstants DEF ApiInv
  <2> QED
    BY <1>0, <2>1, <2>2, <2>3 DEF ApiInv, InTry
<1>7. ASSUME Crash PROVE ApiInv'
  BY <1>7 DEF Crash, ApiInv, Live, InTry, Stages, rows, TypeOK
<1>8. ASSUME UNCHANGED <<status, pc, job>> PROVE ApiInv'
  BY <1>8 DEF ApiInv
<1> QED
  BY <1>1, <1>3, <1>4, <1>5, <1>6, <1>7, <1>8
     DEF Next, Proceed, CallExecute, vars, rows, work, OpenScan, ReadArtifacts

\* Every step is a step of the promise or leaves its variables alone.
LEMMA PromiseStep ==
    ASSUME ~DirectCalls, LifecycleInv, ApiInv, [Next]_vars
    PROVE  [Promise!Next]_(Promise!scanVars)
<1> USE DEF LifecycleInv, Promise!Next, Promise!Move, Promise!scanVars
<1>1. ASSUME NEW s \in Scans, NEW a \in Attempts, Request(s, a)
      PROVE  Promise!Create(s)
  BY <1>1 DEF Request, Requestable, Promise!Create
<1>2. ASSUME NEW a \in Attempts, Start(a) PROVE job[a] \in Scans /\ Promise!Begin(job[a])
  BY <1>2 DEF Start, Promise!Begin, ApiInv, SingleWriter, CallInv
<1>3. ASSUME NEW a \in Attempts, Seal(a)
      PROVE  job[a] \in Scans /\ Promise!Complete(job[a])
  <2>1. job[a] \in Scans /\ status[job[a]] = "RUNNING"
    BY <1>3 DEF Seal, ApiInv, InTry, SingleWriter, CallInv
  <2>2. artifacts[job[a]] = {} /\ staged[a] = Kinds
    BY <1>3, <2>1 DEF Seal, SingleWriter, WriterInv, HoldsProfile, StagedAt,
                      NoPartialInventory
  <2>3. artifacts' = [artifacts EXCEPT ![job[a]] = InventoryOf(a)]
    BY <1>3, <2>2 DEF Seal, InventoryOf
  <2> QED
    BY <1>3, <2>1, <2>3 DEF Seal, Promise!Complete
<1>4. ASSUME NEW a \in Attempts, MarkFailed(a)
      PROVE  job[a] \in Scans /\ Promise!Fail(job[a])
  BY <1>4 DEF MarkFailed, Promise!Fail, ApiInv, SingleWriter, CallInv
<1>5. ASSUME UNCHANGED rows PROVE UNCHANGED Promise!scanVars
  BY <1>5 DEF rows
<1> QED
  BY <1>1, <1>2, <1>3, <1>4, <1>5
     DEF Next, Proceed, vars, CallExecute, Load, StartRefused, PolicyUnavailable,
         FlushInventory, Extract, Index, Abort, MarkFailedRefused, Crash, OpenScan,
         ReadArtifacts

\* As the API schedules them, scans run once and end atomically: the detailed
\* specification implements the abstract one, crashes included.
THEOREM PromiseTheorem == ASSUME ~DirectCalls PROVE Spec => ImplementsPromise
<1>1. Init => ApiInv /\ Promise!Init
  BY DEF Init, ApiInv, InTry, Promise!Init
<1>2. LifecycleInv /\ ApiInv /\ [Next]_vars => ApiInv'
  BY ApiStep
<1>3. LifecycleInv /\ ApiInv /\ [Next]_vars => [Promise!Next]_(Promise!scanVars)
  BY PromiseStep
<1> QED
  BY LifecycleInvariant, <1>1, <1>2, <1>3, PTL
     DEF Spec, ImplementsPromise, Promise!Spec
----------------------------------------------------------------------------
\* Only failed scans have a failure code.
CodesAreFailures == \A s \in Scans : status[s] # "FAILED" => failureCode[s] = "NONE"

LEMMA CodesStep ==
    ASSUME LifecycleInv, ApiInv, CodesAreFailures, [Next]_vars
    PROVE  CodesAreFailures'
<1> USE DEF LifecycleInv
<1>0. \A a \in Attempts : pc[a] # "idle" => job[a] \in Scans
  BY DEF SingleWriter, CallInv
<1>1. ASSUME NEW s \in Scans, NEW a \in Attempts, Request(s, a) PROVE CodesAreFailures'
  BY <1>1 DEF Request, Requestable, CodesAreFailures, TypeOK
<1>2. ASSUME NEW a \in Attempts, Start(a) PROVE CodesAreFailures'
  <2>1. job[a] \in Scans /\ status[job[a]] = "PENDING" /\ failureCode' = failureCode
    BY <1>0, <1>2 DEF Start, ApiInv
  <2> QED
    BY <1>2, <2>1 DEF Start, CodesAreFailures, TypeOK
<1>3. ASSUME NEW a \in Attempts, Seal(a) PROVE CodesAreFailures'
  <2>1. job[a] \in Scans /\ status[job[a]] = "RUNNING" /\ failureCode' = failureCode
    BY <1>0, <1>3 DEF Seal, ApiInv, InTry
  <2> QED
    BY <1>3, <2>1 DEF Seal, CodesAreFailures, TypeOK
<1>4. ASSUME NEW a \in Attempts, MarkFailed(a) PROVE CodesAreFailures'
  BY <1>0, <1>4 DEF MarkFailed, CodesAreFailures, TypeOK
<1>5. ASSUME UNCHANGED <<status, failureCode>> PROVE CodesAreFailures'
  BY <1>5 DEF CodesAreFailures
<1> QED
  BY <1>1, <1>2, <1>3, <1>4, <1>5
     DEF Next, Proceed, vars, rows, CallExecute, Load, StartRefused, PolicyUnavailable,
         FlushInventory, Extract, Index, Abort, MarkFailedRefused, Crash, OpenScan,
         ReadArtifacts

\* As the API schedules them, a scan that is completed never failed: it has no
\* failure code, although sealing does not clear the column.
THEOREM NoFailureCodeTheorem == ASSUME ~DirectCalls PROVE Spec => []NoFailureCodeOnSuccess
<1>1. Init => ApiInv /\ CodesAreFailures
  BY DEF Init, ApiInv, InTry, CodesAreFailures
<1>2. LifecycleInv /\ ApiInv /\ [Next]_vars => ApiInv'
  BY ApiStep
<1>3. LifecycleInv /\ ApiInv /\ CodesAreFailures /\ [Next]_vars => CodesAreFailures'
  BY CodesStep
<1>4. CodesAreFailures => NoFailureCodeOnSuccess
  BY DEF CodesAreFailures, NoFailureCodeOnSuccess
<1> QED
  BY LifecycleInvariant, <1>1, <1>2, <1>3, <1>4, PTL DEF Spec
=============================================================================
