---------------------------- MODULE RoutesProofs ----------------------------
(****************************************************************************)
(* Machine-checked safety of the routes: the columns and the charges of    *)
(* the jobs, the counting of the quotas, the group an administrator stays  *)
(* in, the credentials that were spent, and the types of their tables; for *)
(* any number of rows, printers, users, periods and overlapping requests.  *)
(****************************************************************************)
EXTENDS JobRoutes, JobQuota, Organizations, Sessions, CollectionLemmas

ColumnName == {"status", "printer", "slot", "hold"}

(* Each key has no row, or a row with all the columns.                     *)
IsTable(t) ==
    /\ t = [j \in Job |-> t[j]]
    /\ \A j \in Job : t[j] \in {Absent, Deleted} \/ t[j] = [f \in ColumnName |-> t[j][f]]

(* A job is charged only while it is completed, once: the UPDATE of        *)
(* complete_job is guarded by the status it sets, and whatever takes a job *)
(* out of completed starts a new account.                                  *)
ChargeInv ==
    /\ charges = [j \in Job |-> charges[j]]
    /\ \A j \in Job : charges[j] \in {0, 1} /\ (charges[j] = 1 => jobs[j].status = "completed")

(* A statement names columns of its operation only; those of a scheduler   *)
(* run are the place of a job and its status, and the rows it flushed stay *)
(* there: no one else writes before its commit.                            *)
CallInv ==
    /\ call = [c \in Caller |-> call[c]]
    /\ \A c \in Caller : call[c] # NoCall => DOMAIN call[c].set \subseteq call[c].cols

RunInv ==
    /\ run.phase \in {"cleaning", "flushed"} =>
            \A j \in DOMAIN run.stale : DOMAIN run.stale[j] \subseteq PlaceColumns
    /\ run.phase = "flushed" => \A j \in DOMAIN run.stale : j \in Job => Exists(j)
    /\ run.phase = "picked" => \A j \in DOMAIN run.set : DOMAIN run.set[j] \subseteq PlaceColumns

JobsInv == IsTable(jobs) /\ ChargeInv /\ CallInv /\ RunInv

(* The step of ColumnsSurvive.                                             *)
Survive ==
    \A j \in Job, f \in DOMAIN Column :
        Exists(j) /\ Exists(j)' /\ jobs'[j][f] # jobs[j][f] =>
            /\ \A c \in Caller : call'[c] # call[c] => j = call[c].job /\ f \in call[c].cols
            /\ run' # run => f \in PlaceColumns
-----------------------------------------------------------------------------
LEMMA Columns == DOMAIN Column = ColumnName
BY DEF Column, ColumnName

(* What a statement does to a row: it keeps the columns it does not name.  *)
LEMMA UpdatedRow ==
    ASSUME NEW row, row = [f \in ColumnName |-> row[f]], NEW set
    PROVE  /\ Updated(row, set) = [f \in ColumnName |-> Updated(row, set)[f]]
           /\ \A f \in ColumnName : f \notin DOMAIN set => Updated(row, set)[f] = row[f]
<1>1. DOMAIN row = ColumnName
  OBVIOUS
<1>2. Updated(row, set) = [f \in ColumnName |-> IF f \in DOMAIN set THEN set[f] ELSE row[f]]
  BY <1>1 DEF Updated
<1> QED
  BY <1>2

LEMMA ChangedColumns ==
    ASSUME NEW row, NEW want
    PROVE  DOMAIN Changed(row, want) \subseteq DOMAIN want
BY DEF Changed

LEMMA RowOf ==
    ASSUME IsTable(jobs), NEW j \in Job, Exists(j)
    PROVE  jobs[j] = [f \in ColumnName |-> jobs[j][f]]
BY DEF IsTable, Exists

(* Whatever table is stored, the accounts stay right.                      *)
LEMMA StoreCharges ==
    ASSUME ChargeInv, NEW t, Store(t)
    PROVE  ChargeInv' /\ jobs' = t
BY DEF ChargeInv, Store

(* Others write, or drop a row, only while the run has flushed nothing.    *)
LEMMA FlushedRowsStay ==
    ASSUME RunInv, WriterFree \/ UNCHANGED jobs, UNCHANGED run
    PROVE  RunInv'
BY DEF RunInv, WriterFree, Exists

(* A handler's read leaves a statement about its own columns.              *)
LEMMA BeginCalls ==
    ASSUME CallInv, NEW c \in Caller, NEW j, NEW cols, NEW want, DOMAIN want \subseteq cols,
           Begin(c, j, cols, want)
    PROVE  CallInv' /\ UNCHANGED <<jobs, run, clock, charges>>
<1> DEFINE e == [kind |-> "update", job |-> j, cols |-> cols, set |-> Changed(jobs[j], want)]
<1>1. call' = [call EXCEPT ![c] = e] /\ UNCHANGED <<jobs, run, clock, charges>>
  BY DEF Begin
<1>2. DOMAIN e.set \subseteq e.cols
  BY ChangedColumns
<1> HIDE DEF e
<1> QED
  BY <1>1, <1>2 DEF CallInv

LEMMA BeginRawCalls ==
    ASSUME CallInv, NEW c \in Caller, NEW j, NEW s, BeginRaw(c, j, s)
    PROVE  CallInv' /\ UNCHANGED <<jobs, run, clock, charges>>
<1> DEFINE e == [kind |-> "update", job |-> j, cols |-> StatusColumn, set |-> [status |-> s]]
<1>1. call' = [call EXCEPT ![c] = e] /\ UNCHANGED <<jobs, run, clock, charges>>
  BY DEF BeginRaw
<1>2. DOMAIN e.set \subseteq e.cols
  BY DEF StatusColumn
<1> HIDE DEF e
<1> QED
  BY <1>1, <1>2 DEF CallInv

LEMMA BeginDeleteCalls ==
    ASSUME CallInv, NEW c \in Caller, NEW j, BeginDelete(c, j)
    PROVE  CallInv' /\ UNCHANGED <<jobs, run, clock, charges>>
<1> DEFINE e == [kind |-> "delete", job |-> j, cols |-> {}, set |-> <<>>]
<1>1. call' = [call EXCEPT ![c] = e] /\ UNCHANGED <<jobs, run, clock, charges>>
  BY DEF BeginDelete
<1>2. DOMAIN e.set \subseteq e.cols
  OBVIOUS
<1> HIDE DEF e
<1> QED
  BY <1>1, <1>2 DEF CallInv

LEMMA HandlerReads ==
    ASSUME CallInv, NEW c \in Caller, NEW j \in Job, HandlerStep(c, j)
    PROVE  CallInv' /\ UNCHANGED <<jobs, run, clock, charges>>
<1>1. ASSUME NEW s, Begin(c, j, StatusColumn, [status |-> s])
      PROVE  CallInv' /\ UNCHANGED <<jobs, run, clock, charges>>
  <2>1. DOMAIN [status |-> s] \subseteq StatusColumn
    BY DEF StatusColumn
  <2> QED
    BY <1>1, <2>1, BeginCalls
<1>2. ASSUME NEW h, Begin(c, j, HoldColumn, [hold |-> h])
      PROVE  CallInv' /\ UNCHANGED <<jobs, run, clock, charges>>
  <2>1. DOMAIN [hold |-> h] \subseteq HoldColumn
    BY DEF HoldColumn
  <2> QED
    BY <1>2, <2>1, BeginCalls
<1>3. ASSUME NEW s, NEW p, NEW k,
             Begin(c, j, PlaceColumns, [status |-> s, printer |-> p, slot |-> k])
      PROVE  CallInv' /\ UNCHANGED <<jobs, run, clock, charges>>
  <2>1. DOMAIN [status |-> s, printer |-> p, slot |-> k] \subseteq PlaceColumns
    BY DEF PlaceColumns
  <2> QED
    BY <1>3, <2>1, BeginCalls
<1>4. CASE BeginStart(c, j) \/ BeginFail(c, j) \/ BeginCancel(c, j)
  BY <1>1, <1>4 DEF BeginStart, BeginFail, BeginCancel
<1>5. CASE BeginReset(c, j)
  BY <1>3, <1>5 DEF BeginReset
<1>6. CASE BeginMove(c, j)
  BY <1>3, <1>6 DEF BeginMove
<1>7. CASE BeginPatch(c, j)
  BY <1>1, <1>2, <1>7 DEF BeginPatch
<1>8. CASE BeginLink(c, j) \/ BeginDispatchRoute(c, j)
  BY <1>8, BeginRawCalls DEF BeginLink, BeginDispatchRoute
<1>9. CASE BeginDelete(c, j)
  BY <1>9, BeginDeleteCalls
<1> QED
  BY <1>4, <1>5, <1>6, <1>7, <1>8, <1>9 DEF HandlerStep
-----------------------------------------------------------------------------
(* A commit touches the row its statement names and the columns it sets.   *)
LEMMA CommitKeeps ==
    ASSUME JobsInv, NEW c \in Caller, Commit(c)
    PROVE  JobsInv' /\ Survive
<1> DEFINE k == call[c].job
           row == IF call[c].kind = "delete" THEN Deleted ELSE Updated(jobs[k], call[c].set)
           t == IF Exists(k) THEN [jobs EXCEPT ![k] = row] ELSE jobs
<1>1. Store(t) /\ call' = [call EXCEPT ![c] = NoCall] /\ UNCHANGED <<run, clock>> /\ call[c] # NoCall
  BY DEF Commit
<1>2. jobs' = t /\ ChargeInv'
  BY <1>1, StoreCharges DEF JobsInv
<1>3. CallInv' /\ RunInv'
  BY <1>1, FlushedRowsStay DEF JobsInv, CallInv, Commit
<1>4. jobs = [j \in Job |-> jobs[j]]
  BY DEF JobsInv, IsTable
<1>5. CASE k \in Job /\ Exists(k)
  <2>1. jobs[k] = [f \in ColumnName |-> jobs[k][f]]
    BY <1>5, RowOf DEF JobsInv
  <2>2. row = Deleted \/ row = [f \in ColumnName |-> row[f]]
    BY <2>1, UpdatedRow
  <2>3. \A f \in ColumnName : row # Deleted /\ row[f] # jobs[k][f] => f \in call[c].cols
    <3> SUFFICES ASSUME NEW f \in ColumnName, row # Deleted, f \notin call[c].cols
                 PROVE  row[f] = jobs[k][f]
      OBVIOUS
    <3>1. f \notin DOMAIN call[c].set
      BY <1>1 DEF JobsInv, CallInv
    <3> QED
      BY <2>1, <3>1, UpdatedRow
  <2> HIDE DEF row
  <2>4. jobs' = [jobs EXCEPT ![k] = row]
    BY <1>2, <1>5
  <2> HIDE DEF k, t
  <2>5. jobs'[k] = row /\ \A j \in Job : j # k => jobs'[j] = jobs[j]
    BY <1>4, <1>5, <2>4
  <2>6. IsTable(jobs')
    BY <1>4, <2>2, <2>4, <2>5 DEF JobsInv, IsTable
  <2>7. \A d \in Caller : call'[d] # call[d] => d = c
    BY <1>1 DEF JobsInv, CallInv
  <2>8. Survive
    BY <1>1, <2>3, <2>5, <2>7, Columns DEF Survive, Exists, k
  <2> QED
    BY <1>2, <1>3, <2>6, <2>8 DEF JobsInv, IsTable
<1>6. CASE ~ (k \in Job /\ Exists(k))
  <2>1. jobs' = jobs
    BY <1>2, <1>4, <1>6
  <2> QED
    BY <1>2, <1>3, <2>1 DEF JobsInv, IsTable, Survive
<1> QED
  BY <1>5, <1>6

(* Statements of the scheduler on some of the rows.                        *)
LEMMA PlacesKept ==
    ASSUME NEW t, IsTable(t), NEW a, \A j \in DOMAIN a : DOMAIN a[j] \subseteq PlaceColumns,
           \A j \in DOMAIN a : j \in Job => t[j] \notin {Absent, Deleted}
    PROVE  /\ IsTable(Rewritten(t, a))
           /\ \A j \in Job, f \in ColumnName \ PlaceColumns : Rewritten(t, a)[j][f] = t[j][f]
<1> DEFINE u == Rewritten(t, a)
<1>1. \A j \in Job : j \in DOMAIN a =>
         /\ u[j] = [f \in ColumnName |-> u[j][f]]
         /\ \A f \in ColumnName \ PlaceColumns : u[j][f] = t[j][f]
  <2> SUFFICES ASSUME NEW j \in Job, j \in DOMAIN a
               PROVE  /\ u[j] = [f \in ColumnName |-> u[j][f]]
                      /\ \A f \in ColumnName \ PlaceColumns : u[j][f] = t[j][f]
    OBVIOUS
  <2>1. u[j] = Updated(t[j], a[j])
    BY DEF Rewritten
  <2>2. t[j] = [f \in ColumnName |-> t[j][f]]
    BY DEF IsTable
  <2>3. /\ Updated(t[j], a[j]) = [f \in ColumnName |-> Updated(t[j], a[j])[f]]
        /\ \A f \in ColumnName : f \notin DOMAIN a[j] => Updated(t[j], a[j])[f] = t[j][f]
    BY <2>2, UpdatedRow
  <2> QED
    BY <2>1, <2>3
<1>2. \A j \in Job : j \notin DOMAIN a => u[j] = t[j]
  BY DEF Rewritten
<1>3. u = [j \in Job |-> u[j]]
  BY DEF Rewritten
<1> HIDE DEF u
<1>4. IsTable(u)
  BY <1>1, <1>2, <1>3 DEF IsTable
<1> QED
  BY <1>1, <1>2, <1>4 DEF u
-----------------------------------------------------------------------------
(* One lemma per kind of step: it keeps the invariant and what ColumnsSurvive *)
(* says of a step.                                                         *)
LEMMA JobInsertKeeps ==
    ASSUME JobsInv, NEW j \in Job, NEW row, Insert(j, row),
           row = [f \in ColumnName |-> row[f]]
    PROVE  JobsInv' /\ Survive
<1>1. /\ jobs[j] = Absent
      /\ jobs' = [jobs EXCEPT ![j] = row]
      /\ UNCHANGED <<call, run, clock, charges>>
  BY DEF Insert
<1>2. jobs = [i \in Job |-> jobs[i]]
  BY DEF JobsInv, IsTable
<1>3. jobs'[j] = row /\ \A i \in Job : i # j => jobs'[i] = jobs[i]
  BY <1>1, <1>2
<1>4. IsTable(jobs')
  BY <1>1, <1>2, <1>3 DEF JobsInv, IsTable
<1>5. charges[j] # 1
  BY <1>1 DEF JobsInv, ChargeInv, Absent
<1>6. ChargeInv'
  BY <1>1, <1>3, <1>5 DEF JobsInv, ChargeInv
<1>7. Survive
  BY <1>1, <1>3 DEF Survive, Exists
<1>8. RunInv'
  BY <1>1, FlushedRowsStay DEF JobsInv, Insert
<1> QED
  BY <1>1, <1>4, <1>6, <1>7, <1>8 DEF JobsInv, IsTable, CallInv

LEMMA CreateKeeps ==
    ASSUME JobsInv, NEW j \in Job, CreateStep(j)
    PROVE  JobsInv' /\ Survive
<1>1. ASSUME NEW p, NEW h
      PROVE  Pending(p, h) = [f \in ColumnName |-> Pending(p, h)[f]]
  BY DEF Pending, ColumnName
<1>2. ASSUME NEW p, NEW h, Insert(j, Pending(p, h))
      PROVE  JobsInv' /\ Survive
  BY <1>1, <1>2, JobInsertKeeps
<1> QED
  BY <1>2 DEF CreateStep, CreateJob, CreateBatch, ScheduleFromPreset,
              ScheduleFromModel, RepeatJob

(* The guard on the present status is what makes the charge the only one.  *)
LEMMA CompleteKeeps ==
    ASSUME JobsInv, NEW j \in Job, CompleteJob(j)
    PROVE  JobsInv' /\ Survive
<1> DEFINE row == [jobs[j] EXCEPT !["status"] = "completed"]
           n == IF charges[j] < 2 THEN charges[j] + 1 ELSE charges[j]
<1>1. /\ Exists(j) /\ jobs[j].status # "completed"
      /\ jobs' = [jobs EXCEPT ![j] = row]
      /\ charges' = [charges EXCEPT ![j] = n]
      /\ UNCHANGED <<call, run, clock>>
  BY DEF CompleteJob, Wins
<1>2. jobs = [i \in Job |-> jobs[i]] /\ charges = [i \in Job |-> charges[i]]
  BY DEF JobsInv, IsTable, ChargeInv
<1>3. charges[j] = 0
  BY <1>1 DEF JobsInv, ChargeInv
<1>4. n = 1
  BY <1>3
<1>5. jobs[j] = [f \in ColumnName |-> jobs[j][f]]
  BY <1>1, RowOf DEF JobsInv
<1>6. row = [f \in ColumnName |-> row[f]] /\ row["status"] = "completed"
  BY <1>5 DEF ColumnName
<1> HIDE DEF row, n
<1>7. jobs'[j] = row /\ \A i \in Job : i # j => jobs'[i] = jobs[i]
  BY <1>1, <1>2
<1>8. charges'[j] = 1 /\ \A i \in Job : i # j => charges'[i] = charges[i]
  BY <1>1, <1>2, <1>4
<1>9. IsTable(jobs')
  BY <1>1, <1>2, <1>6, <1>7 DEF JobsInv, IsTable
<1>10. ChargeInv'
  BY <1>1, <1>2, <1>6, <1>7, <1>8 DEF JobsInv, ChargeInv
<1>11. Survive
  BY <1>1 DEF Survive
<1>12. RunInv'
  BY <1>1, FlushedRowsStay DEF JobsInv, CompleteJob
<1> QED
  BY <1>1, <1>9, <1>10, <1>11, <1>12 DEF JobsInv, IsTable, CallInv

(* A statement without a handler behind it.                                *)
LEMMA TableStored ==
    ASSUME JobsInv, NEW t, Store(t), IsTable(t), WriterFree, UNCHANGED <<call, run, clock>>
    PROVE  JobsInv' /\ Survive
<1>1. ChargeInv' /\ jobs' = t
  BY StoreCharges DEF JobsInv
<1>2. Survive
  BY DEF Survive
<1>3. RunInv'
  BY FlushedRowsStay DEF JobsInv
<1> QED
  BY <1>1, <1>2, <1>3 DEF JobsInv, IsTable, CallInv

LEMMA BulkKeeps ==
    ASSUME JobsInv, NEW S, BulkUpdate(S)
    PROVE  JobsInv' /\ Survive
<1>1. WriterFree /\ UNCHANGED <<call, run, clock>>
  BY DEF BulkUpdate
<1>2. ASSUME NEW D, NEW f \in ColumnName, NEW v, \A j \in D : j \in Job => Exists(j),
             Store([j \in Job |-> IF j \in D THEN [jobs[j] EXCEPT ![f] = v] ELSE jobs[j]])
      PROVE  JobsInv' /\ Survive
  <2> DEFINE t == [j \in Job |-> IF j \in D THEN [jobs[j] EXCEPT ![f] = v] ELSE jobs[j]]
  <2>1. ASSUME NEW j \in Job
        PROVE  t[j] \in {Absent, Deleted} \/ t[j] = [g \in ColumnName |-> t[j][g]]
    <3>1. CASE j \in D
      <4>1. jobs[j] = [g \in ColumnName |-> jobs[j][g]]
        BY <1>2, <3>1, RowOf DEF JobsInv
      <4>2. t[j] = [jobs[j] EXCEPT ![f] = v]
        BY <3>1
      <4> QED
        BY <4>1, <4>2
    <3>2. CASE j \notin D
      BY <3>2 DEF JobsInv, IsTable
    <3> QED
      BY <3>1, <3>2
  <2>2. t = [j \in Job |-> t[j]]
    OBVIOUS
  <2>3. Store(t)
    BY <1>2
  <2> HIDE DEF t
  <2>4. IsTable(t)
    BY <2>1, <2>2 DEF IsTable
  <2> QED
    BY <1>1, <2>3, <2>4, TableStored
<1> DEFINE cancelled == {j \in S : jobs[j].status = "pending"}
           deleted == {j \in S : jobs[j].status \in {"pending", "cancelled"}}
           held == {j \in S : Exists(j)}
<1>3. CASE Store([j \in Job |-> IF j \in cancelled THEN [jobs[j] EXCEPT !["status"] = "cancelled"]
                                ELSE jobs[j]])
  <2>1. \A j \in cancelled : j \in Job => Exists(j)
    BY DEF Exists, Absent, Deleted
  <2> QED
    BY <1>2, <1>3, <2>1 DEF ColumnName
<1>4. CASE Store([j \in Job |-> IF j \in deleted THEN Deleted ELSE jobs[j]])
  <2> DEFINE t == [j \in Job |-> IF j \in deleted THEN Deleted ELSE jobs[j]]
  <2>1. IsTable(t)
    BY DEF JobsInv, IsTable
  <2> QED
    BY <1>1, <1>4, <2>1, TableStored
<1>5. ASSUME NEW h, Store([j \in Job |-> IF j \in held THEN [jobs[j] EXCEPT !["hold"] = h]
                                         ELSE jobs[j]])
      PROVE  JobsInv' /\ Survive
  <2>1. \A j \in held : j \in Job => Exists(j)
    OBVIOUS
  <2> QED
    BY <1>2, <1>5, <2>1 DEF ColumnName
<1> QED
  BY <1>3, <1>4, <1>5 DEF BulkUpdate

LEMMA AbandonKeeps ==
    ASSUME JobsInv, NEW c \in Caller, Abandon(c)
    PROVE  JobsInv' /\ Survive
<1>1. call' = [call EXCEPT ![c] = NoCall] /\ UNCHANGED <<jobs, run, clock, charges>>
  BY DEF Abandon
<1>2. CallInv' /\ RunInv'
  BY <1>1, FlushedRowsStay DEF JobsInv, CallInv
<1> QED
  BY <1>1, <1>2 DEF JobsInv, IsTable, ChargeInv, Survive
-----------------------------------------------------------------------------
(* The scheduler.  Each of its statements sets the place of jobs that are  *)
(* still there.                                                            *)
LEMMA ScheduleStored ==
    ASSUME JobsInv, NEW t, IsTable(t), Store(t), UNCHANGED <<call, clock>>, run' = NoRun,
           \A j \in Job, f \in ColumnName \ PlaceColumns : t[j][f] = jobs[j][f]
    PROVE  JobsInv' /\ Survive
<1>1. ChargeInv' /\ jobs' = t
  BY StoreCharges DEF JobsInv
<1>2. IsTable(jobs)'
  BY <1>1 DEF IsTable
<1>3. Survive
  BY <1>1, Columns DEF Survive
<1> QED
  BY <1>1, <1>2, <1>3 DEF JobsInv, CallInv, RunInv, NoRun

LEMMA AssignedPlaces ==
    ASSUME NEW t, NEW a \in Assignments(t)
    PROVE  /\ DOMAIN Assigned(t, a) = DOMAIN a
           /\ \A j \in DOMAIN a : DOMAIN Assigned(t, a)[j] \subseteq PlaceColumns
           /\ \A j \in DOMAIN a : j \in Job => t[j] \notin {Absent, Deleted}
<1>1. DOMAIN Assigned(t, a) = DOMAIN a
  BY DEF Assigned
<1>2. ASSUME NEW j \in DOMAIN a
      PROVE  DOMAIN Assigned(t, a)[j] \subseteq PlaceColumns
  <2> DEFINE want == [status |-> "scheduled", printer |-> a[j][1], slot |-> a[j][2]]
  <2>1. Assigned(t, a)[j] = Changed(t[j], want)
    BY DEF Assigned
  <2>2. DOMAIN want = PlaceColumns
    BY DEF PlaceColumns
  <2> HIDE DEF want
  <2> QED
    BY <2>1, <2>2, ChangedColumns
<1>3. \A j \in DOMAIN a : t[j].status = "pending"
  BY DEF Assignments
<1>4. \A j \in DOMAIN a : t[j] \notin {Absent, Deleted}
  BY <1>3 DEF Absent, Deleted
<1> QED
  BY <1>1, <1>2, <1>4

LEMMA SchedulerKeeps ==
    ASSUME JobsInv, SchedulerStep
    PROVE  JobsInv' /\ Survive
<1>1. CASE BeginSchedule
  <2> DEFINE want == [status |-> "pending", printer |-> NoPrinter, slot |-> 0]
             reset == [j \in {i \in Job : Stale(i)} |-> Changed(jobs[j], want)]
  <2>1. UNCHANGED <<jobs, call, clock, charges>> /\ run' = [phase |-> "cleaning", stale |-> reset]
    BY <1>1 DEF BeginSchedule
  <2>2. DOMAIN want = PlaceColumns
    BY DEF PlaceColumns
  <2> HIDE DEF want
  <2>3. \A j \in DOMAIN reset : DOMAIN reset[j] \subseteq PlaceColumns
    BY <2>2, ChangedColumns
  <2> HIDE DEF reset
  <2> QED
    BY <2>1, <2>3 DEF JobsInv, IsTable, ChargeInv, CallInv, RunInv, Survive
<1>2. CASE FlushStale
  <2>1. UNCHANGED <<jobs, call, clock, charges>> /\ run.phase = "cleaning"
    BY <1>2 DEF FlushStale
  <2>2. CASE \A j \in DOMAIN run.stale : Exists(j)
    <3>1. run' = [phase |-> "flushed", stale |-> run.stale]
      BY <1>2, <2>2 DEF FlushStale
    <3> QED
      BY <2>1, <2>2, <3>1 DEF JobsInv, IsTable, ChargeInv, CallInv, RunInv, Survive, Exists
  <2>3. CASE ~ \A j \in DOMAIN run.stale : Exists(j)
    <3>1. run' = NoRun
      BY <1>2, <2>3 DEF FlushStale
    <3> QED
      BY <2>1, <3>1 DEF JobsInv, IsTable, ChargeInv, CallInv, RunInv, Survive, NoRun
  <2> QED
    BY <2>2, <2>3
<1>3. CASE CommitFlushed
  <2> DEFINE cleaned == Rewritten(jobs, run.stale)
  <2>1. UNCHANGED <<call, clock>> /\ run' = NoRun /\ run.phase = "flushed"
    BY <1>3 DEF CommitFlushed
  <2>2. PICK a \in Assignments(cleaned) : Store(Rewritten(cleaned, Assigned(cleaned, a)))
    BY <1>3 DEF CommitFlushed
  <2>3. /\ IsTable(cleaned)
        /\ \A j \in Job, f \in ColumnName \ PlaceColumns : cleaned[j][f] = jobs[j][f]
    BY <2>1, PlacesKept DEF JobsInv, RunInv, Exists
  <2> HIDE DEF cleaned
  <2> DEFINE b == Assigned(cleaned, a)
  <2>4. /\ \A j \in DOMAIN b : DOMAIN b[j] \subseteq PlaceColumns
        /\ \A j \in DOMAIN b : j \in Job => cleaned[j] \notin {Absent, Deleted}
    BY AssignedPlaces
  <2> HIDE DEF b
  <2>5. /\ IsTable(Rewritten(cleaned, b))
        /\ \A j \in Job, f \in ColumnName \ PlaceColumns : Rewritten(cleaned, b)[j][f] = cleaned[j][f]
    BY <2>3, <2>4, PlacesKept
  <2>6. Store(Rewritten(cleaned, b))
    BY <2>2 DEF b
  <2>7. \A j \in Job, f \in ColumnName \ PlaceColumns : Rewritten(cleaned, b)[j][f] = jobs[j][f]
    BY <2>3, <2>5
  <2> QED
    BY <2>1, <2>5, <2>6, <2>7, ScheduleStored
<1>4. CASE PickSlots
  <2>1. UNCHANGED <<jobs, call, clock, charges>>
    BY <1>4 DEF PickSlots
  <2>2. PICK a \in Assignments(jobs) : run' = [phase |-> "picked", set |-> Assigned(jobs, a)]
    BY <1>4 DEF PickSlots
  <2>3. \A j \in DOMAIN Assigned(jobs, a) : DOMAIN Assigned(jobs, a)[j] \subseteq PlaceColumns
    BY AssignedPlaces
  <2> QED
    BY <2>1, <2>2, <2>3 DEF JobsInv, IsTable, ChargeInv, CallInv, RunInv, Survive
<1>5. CASE CommitPicked
  <2>1. UNCHANGED <<call, clock>> /\ run' = NoRun
    BY <1>5 DEF CommitPicked
  <2>2. \A j \in DOMAIN run.set : DOMAIN run.set[j] \subseteq PlaceColumns
    BY <1>5 DEF CommitPicked, JobsInv, RunInv
  <2>3. CASE \A j \in DOMAIN run.set : Exists(j)
    <3>1. Store(Rewritten(jobs, run.set))
      BY <1>5, <2>3 DEF CommitPicked
    <3>2. /\ IsTable(Rewritten(jobs, run.set))
          /\ \A j \in Job, f \in ColumnName \ PlaceColumns : Rewritten(jobs, run.set)[j][f] = jobs[j][f]
      BY <2>2, <2>3, PlacesKept DEF JobsInv, Exists
    <3> QED
      BY <2>1, <3>1, <3>2, ScheduleStored
  <2>4. CASE ~ \A j \in DOMAIN run.set : Exists(j)
    <3>1. UNCHANGED <<jobs, charges>>
      BY <1>5, <2>4 DEF CommitPicked
    <3> QED
      BY <2>1, <3>1 DEF JobsInv, IsTable, ChargeInv, CallInv, RunInv, Survive, NoRun
  <2> QED
    BY <2>3, <2>4
<1>6. CASE RollBack
  <2>1. UNCHANGED <<jobs, call, clock, charges>> /\ run' = NoRun
    BY <1>6 DEF RollBack
  <2> QED
    BY <2>1 DEF JobsInv, IsTable, ChargeInv, CallInv, RunInv, Survive, NoRun
<1> QED
  BY <1>1, <1>2, <1>3, <1>4, <1>5, <1>6 DEF SchedulerStep
-----------------------------------------------------------------------------
LEMMA JobsStart == JobsInit => JobsInv
BY DEF JobsInit, JobsInv, IsTable, ChargeInv, CallInv, RunInv, Absent, NoCall, NoRun

LEMMA JobStepKeeps ==
    ASSUME JobsInv, [JobsNext]_jobVars
    PROVE  JobsInv' /\ Survive
<1>1. ASSUME NEW j \in Job, CreateStep(j) \/ CompleteJob(j)
      PROVE  JobsInv' /\ Survive
  BY <1>1, CreateKeeps, CompleteKeeps
<1>2. ASSUME NEW c \in Caller, Commit(c) \/ Abandon(c)
      PROVE  JobsInv' /\ Survive
  BY <1>2, CommitKeeps, AbandonKeeps
<1>3. ASSUME NEW c \in Caller, NEW j \in Job, HandlerStep(c, j)
      PROVE  JobsInv' /\ Survive
  <2>1. CallInv' /\ UNCHANGED <<jobs, run, clock, charges>>
    BY <1>3, HandlerReads DEF JobsInv
  <2>2. RunInv'
    BY <2>1, FlushedRowsStay DEF JobsInv
  <2> QED
    BY <2>1, <2>2 DEF JobsInv, IsTable, ChargeInv, Survive
<1>4. ASSUME NEW S, BulkUpdate(S)
      PROVE  JobsInv' /\ Survive
  BY <1>4, BulkKeeps
<1>5. CASE PassSlot \/ UNCHANGED jobVars
  <2>1. UNCHANGED <<jobs, call, run, charges>>
    BY <1>5 DEF PassSlot, jobVars
  <2>2. RunInv'
    BY <2>1, FlushedRowsStay DEF JobsInv
  <2> QED
    BY <2>1, <2>2 DEF JobsInv, IsTable, ChargeInv, CallInv, Survive
<1> QED
  BY <1>1, <1>2, <1>3, <1>4, <1>5, SchedulerKeeps DEF JobsNext

LEMMA JobsAlways == JobsSpec => []JobsInv
<1>1. JobsInv /\ [JobsNext]_jobVars => JobsInv'
  BY JobStepKeeps
<1> QED
  BY <1>1, JobsStart, PTL DEF JobsSpec

(* The filament of a finished job is deducted once, however many threads   *)
(* complete, reset, bulk-edit and reschedule it at the same time.          *)
THEOREM ChargedAtMostOnce == JobsSpec => []ChargedOnce
<1>1. JobsInv => ChargedOnce
  BY DEF JobsInv, ChargeInv, ChargedOnce
<1> QED
  BY <1>1, JobsAlways, PTL

(* No request and no scheduler run, however late it commits, writes a row  *)
(* or a column that is none of its business.                               *)
THEOREM LateCommitsKeepColumns == JobsSpec => ColumnsSurvive
<1>1. JobsInv /\ [JobsNext]_jobVars =>
        [\A j \in Job, f \in DOMAIN Column :
             Exists(j) /\ Exists(j)' /\ jobs'[j][f] # jobs[j][f] =>
                /\ \A c \in Caller : call'[c] # call[c] => j = call[c].job /\ f \in call[c].cols
                /\ run' # run => f \in PlaceColumns]_jobVars
  BY JobStepKeeps DEF Survive
<1> QED
  BY <1>1, JobsAlways, PTL DEF JobsSpec, ColumnsSurvive

-----------------------------------------------------------------------------
QuotaTypeOK ==
    /\ period \in 1 .. Periods
    /\ usage \in [1 .. Periods -> Nat \cup {NoUsage}]
    /\ request \in [Request -> [pc : {"idle", "inserting", "checked", "counting"}, key : 0 .. Periods]]
    /\ \A r \in Request : request[r].pc = "inserting" => request[r].key # 0
    /\ made \in [1 .. Periods -> Nat]
    /\ lost \in Nat

QuotaInv == QuotaTypeOK /\ EveryJobCounted

LEMMA PeriodsFinite == Periods \in Nat /\ IsFiniteSet(1 .. Periods)
BY JobQuotaAssumption, FS_Interval

LEMMA UsedType ==
    ASSUME QuotaTypeOK
    PROVE  /\ Used \in [1 .. Periods -> Int] /\ made \in [1 .. Periods -> Int]
           /\ SumFunction(Used) \in Int /\ SumFunction(made) \in Int
           /\ IsFiniteSet(Counting) /\ Cardinality(Counting) \in Nat
<1>1. Used \in [1 .. Periods -> Int] /\ made \in [1 .. Periods -> Int]
  BY DEF QuotaTypeOK, Used
<1>2. SumFunction(Used) \in Int /\ SumFunction(made) \in Int
  BY <1>1, PeriodsFinite, SumType
<1>3. IsFiniteSet(Counting)
  BY JobQuotaAssumption, FS_Subset DEF Counting
<1> QED
  BY <1>1, <1>2, <1>3, FS_CardinalityType

LEMMA QuotaStarts == QuotaInit => QuotaInv
<1> SUFFICES ASSUME QuotaInit PROVE QuotaInv
  OBVIOUS
<1>1. QuotaTypeOK
  BY JobQuotaAssumption DEF QuotaInit, QuotaTypeOK, Idle
<1>2. Counting = {} /\ Cardinality(Counting) = 0
  BY FS_EmptySet DEF QuotaInit, Counting, Idle
<1>3. made = [p \in 1 .. Periods |-> 0] /\ Used = [p \in 1 .. Periods |-> 0] /\ lost = 0
  BY DEF QuotaInit, Used
<1>4. EveryJobCounted
  BY <1>2, <1>3, PeriodsFinite, SumZero DEF EveryJobCounted
<1> QED
  BY <1>1, <1>4 DEF QuotaInv

(* What a request's step to another place does to those that have to count.*)
LEMMA GoIs ==
    ASSUME QuotaTypeOK, NEW r \in Request,
           NEW pc \in {"idle", "inserting", "checked", "counting"}, NEW key \in 0 .. Periods,
           pc = "inserting" => key # 0, Go(r, pc, key)
    PROVE  /\ request' \in [Request -> [pc : {"idle", "inserting", "checked", "counting"}, key : 0 .. Periods]]
           /\ \A q \in Request : request'[q].pc = "inserting" => request'[q].key # 0
           /\ Counting' = IF pc = "counting" THEN Counting \cup {r} ELSE Counting \ {r}
<1>1. request' = [request EXCEPT ![r] = [pc |-> pc, key |-> key]]
  BY DEF Go
<1>2. \A q \in Request : request'[q] = IF q = r THEN [pc |-> pc, key |-> key] ELSE request[q]
  BY <1>1 DEF QuotaTypeOK
<1> QED
  BY <1>1, <1>2 DEF QuotaTypeOK, Counting

(* A step that neither makes nor counts a job.                             *)
LEMMA UncountedKeeps ==
    ASSUME QuotaInv, QuotaTypeOK', SumFunction(made') = SumFunction(made), Used' = Used,
           Counting' = Counting, lost' = lost
    PROVE  QuotaInv'
BY DEF QuotaInv, EveryJobCounted

LEMMA QuotaInsertKeeps ==
    ASSUME QuotaInv, NEW r \in Request, InsertUsage(r)
    PROVE  QuotaInv'
<1> DEFINE k == request[r].key
<1>1. QuotaTypeOK /\ request[r].pc = "inserting" /\ k \in 1 .. Periods /\ 0 \in 0 .. Periods
  BY PeriodsFinite DEF QuotaInv, QuotaTypeOK, InsertUsage
<1>2. Go(r, "checked", 0) \/ Go(r, "idle", 0)
  BY DEF InsertUsage
<1>3. /\ request' \in [Request -> [pc : {"idle", "inserting", "checked", "counting"}, key : 0 .. Periods]]
      /\ \A q \in Request : request'[q].pc = "inserting" => request'[q].key # 0
      /\ Counting' = Counting \ {r}
  BY <1>1, <1>2, GoIs
<1>4. Counting' = Counting
  BY <1>1, <1>3 DEF Counting
<1>5. UNCHANGED <<period, made, lost>>
  BY DEF InsertUsage
<1>6. \/ usage' = usage
      \/ usage[k] = NoUsage /\ usage' = [usage EXCEPT ![k] = 0]
  BY DEF InsertUsage
<1>7. usage' \in [1 .. Periods -> Nat \cup {NoUsage}] /\ Used' = Used
  <2>1. CASE usage' = usage
    BY <1>1, <2>1 DEF QuotaTypeOK, Used
  <2>2. CASE usage[k] = NoUsage /\ usage' = [usage EXCEPT ![k] = 0]
    <3>1. usage \in [1 .. Periods -> Nat \cup {NoUsage}]
      BY <1>1 DEF QuotaTypeOK
    <3>2. usage' \in [1 .. Periods -> Nat \cup {NoUsage}]
      BY <2>2, <3>1
    <3>3. ASSUME NEW p \in 1 .. Periods
          PROVE  (IF usage'[p] = NoUsage THEN 0 ELSE usage'[p]) = (IF usage[p] = NoUsage THEN 0 ELSE usage[p])
      BY <1>1, <2>2, <3>1 DEF NoUsage
    <3> QED
      BY <3>2, <3>3 DEF Used
  <2> QED
    BY <1>6, <2>1, <2>2
<1>8. QuotaTypeOK'
  BY <1>1, <1>3, <1>5, <1>7 DEF QuotaTypeOK
<1> QED
  BY <1>4, <1>5, <1>7, <1>8, UncountedKeeps

LEMMA CommitKeepsCount ==
    ASSUME QuotaInv, NEW r \in Request, CommitJob(r)
    PROVE  QuotaInv'
<1> DEFINE n == made[period] + 1
<1>1. QuotaTypeOK /\ request[r].pc = "checked" /\ 0 \in 0 .. Periods /\ period \in 1 .. Periods /\ n \in Nat
  BY PeriodsFinite DEF QuotaInv, QuotaTypeOK, CommitJob
<1>2. /\ request' \in [Request -> [pc : {"idle", "inserting", "checked", "counting"}, key : 0 .. Periods]]
      /\ \A q \in Request : request'[q].pc = "inserting" => request'[q].key # 0
      /\ Counting' = Counting \cup {r}
  BY <1>1, GoIs DEF CommitJob
<1>3. made' = [made EXCEPT ![period] = n] /\ UNCHANGED <<period, usage, lost>>
  BY <1>1 DEF CommitJob, QuotaTypeOK
<1>4. r \notin Counting
  BY <1>1 DEF Counting
<1>5. /\ made \in [1 .. Periods -> Int] /\ SumFunction(made) \in Int /\ SumFunction(Used) \in Int
      /\ IsFiniteSet(Counting) /\ Cardinality(Counting) \in Nat
  BY <1>1, UsedType
<1>6. Cardinality(Counting') = Cardinality(Counting) + 1
  BY <1>2, <1>4, <1>5, FS_AddElement
<1>7. SumFunction(made') = SumFunction(made) - made[period] + n
  <2> HIDE DEF n
  <2> QED
    <3>1. period \in 1 .. Periods /\ n \in Int /\ IsFiniteSet(1 .. Periods)
      BY <1>1, PeriodsFinite
    <3>2. SumFunction([made EXCEPT ![period] = n]) = SumFunction(made) - made[period] + n
      BY <1>5, <3>1, SumExcept
    <3> QED
      BY <1>3, <3>2
<1>8. SumFunction(made') = SumFunction(made) + 1
  BY <1>1, <1>5, <1>7
<1>9. QuotaTypeOK'
  BY <1>1, <1>2, <1>3 DEF QuotaTypeOK
<1>10. Used' = Used /\ lost' = lost /\ lost \in Nat
  BY <1>1, <1>3 DEF Used, QuotaTypeOK
<1>11. EveryJobCounted'
  BY <1>5, <1>6, <1>8, <1>10 DEF QuotaInv, EveryJobCounted
<1> QED
  BY <1>9, <1>11 DEF QuotaInv

LEMMA CountKeepsCount ==
    ASSUME QuotaInv, NEW r \in Request, CountJob(r)
    PROVE  QuotaInv'
<1> DEFINE n == Used[period] + 1
<1>1. QuotaTypeOK /\ request[r].pc = "counting" /\ 0 \in 0 .. Periods /\ period \in 1 .. Periods
  BY PeriodsFinite DEF QuotaInv, QuotaTypeOK, CountJob
<1>2. /\ request' \in [Request -> [pc : {"idle", "inserting", "checked", "counting"}, key : 0 .. Periods]]
      /\ \A q \in Request : request'[q].pc = "inserting" => request'[q].key # 0
      /\ Counting' = Counting \ {r}
  BY <1>1, GoIs DEF CountJob
<1>3. usage' = [usage EXCEPT ![period] = Counted(@)] /\ UNCHANGED <<period, made, lost>>
  BY DEF CountJob
<1>4. /\ usage' \in [1 .. Periods -> Nat \cup {NoUsage}]
      /\ Used' = [Used EXCEPT ![period] = n] /\ n \in Nat
  <2>1. usage \in [1 .. Periods -> Nat \cup {NoUsage}] /\ period \in 1 .. Periods
    BY <1>1 DEF QuotaTypeOK
  <2>2. /\ Counted(usage[period]) \in Nat /\ Counted(usage[period]) = n
        /\ Counted(usage[period]) # NoUsage
    BY <2>1 DEF Counted, Used, NoUsage
  <2>3. usage' = [usage EXCEPT ![period] = n] /\ n \in Nat /\ n # NoUsage
    BY <1>3, <2>2
  <2> HIDE DEF n
  <2>4. ASSUME NEW p \in 1 .. Periods
        PROVE  (IF usage'[p] = NoUsage THEN 0 ELSE usage'[p])
                  = IF p = period THEN n ELSE IF usage[p] = NoUsage THEN 0 ELSE usage[p]
    BY <2>1, <2>3
  <2> QED
    BY <2>1, <2>3, <2>4 DEF Used
<1>5. r \in Counting
  BY <1>1 DEF Counting
<1>6. /\ Used \in [1 .. Periods -> Int] /\ SumFunction(Used) \in Int /\ SumFunction(made) \in Int
      /\ IsFiniteSet(Counting) /\ Cardinality(Counting) \in Nat
  BY <1>1, UsedType
<1>7. Cardinality(Counting') = Cardinality(Counting) - 1
  BY <1>2, <1>5, <1>6, FS_RemoveElement
<1>8. SumFunction(Used') = SumFunction(Used) - Used[period] + n
  <2> HIDE DEF n
  <2> QED
    <3>1. period \in 1 .. Periods /\ n \in Int /\ IsFiniteSet(1 .. Periods)
      BY <1>1, <1>4, PeriodsFinite
    <3>2. SumFunction([Used EXCEPT ![period] = n]) = SumFunction(Used) - Used[period] + n
      BY <1>6, <3>1, SumExcept
    <3> QED
      BY <1>4, <3>2
<1>9. SumFunction(Used') = SumFunction(Used) + 1
  BY <1>1, <1>6, <1>8
<1>10. QuotaTypeOK'
  BY <1>1, <1>2, <1>3, <1>4 DEF QuotaTypeOK
<1>11. lost' = lost /\ lost \in Nat /\ made' = made
  BY <1>1, <1>3 DEF QuotaTypeOK
<1>12. EveryJobCounted'
  BY <1>6, <1>7, <1>9, <1>11 DEF QuotaInv, EveryJobCounted
<1> QED
  BY <1>10, <1>12 DEF QuotaInv

LEMMA CrashKeepsCount == QuotaInv /\ Crash => QuotaInv'
<1> SUFFICES ASSUME QuotaInv, Crash PROVE QuotaInv'
  OBVIOUS
<1>1. QuotaTypeOK /\ Periods \in Nat
  BY PeriodsFinite DEF QuotaInv
<1>2. /\ lost' = lost + Cardinality(Counting) /\ request' = [r \in Request |-> Idle]
      /\ UNCHANGED <<period, usage, made>>
  BY DEF Crash
<1>3. /\ SumFunction(Used) \in Int /\ Cardinality(Counting) \in Nat /\ lost \in Nat
  BY <1>1, UsedType DEF QuotaTypeOK
<1>4. Counting' = {} /\ Cardinality(Counting') = 0
  BY <1>2, FS_EmptySet DEF Counting, Idle
<1>5. Used' = Used
  BY <1>2 DEF Used
<1>6. QuotaTypeOK'
  BY <1>1, <1>2, <1>3 DEF QuotaTypeOK, Idle
<1> QED
  BY <1>2, <1>3, <1>4, <1>5, <1>6 DEF QuotaInv, EveryJobCounted

LEMMA QuotaKept == QuotaInv /\ [QuotaNext]_quotaVars => QuotaInv'
<1> SUFFICES ASSUME QuotaInv, [QuotaNext]_quotaVars PROVE QuotaInv'
  OBVIOUS
<1>1. QuotaTypeOK /\ 0 \in 0 .. Periods /\ period \in 0 .. Periods /\ period # 0
  BY PeriodsFinite DEF QuotaInv, QuotaTypeOK
<1>2. ASSUME NEW r \in Request, CheckQuota(r) \/ FindNoRow(r) \/ DropRequest(r) PROVE QuotaInv'
  <2>1. UNCHANGED <<period, usage, made, lost>>
    BY <1>2 DEF CheckQuota, FindNoRow, DropRequest
  <2>2. request[r].pc # "counting"
    BY <1>2 DEF CheckQuota, FindNoRow, DropRequest
  <2>3. Go(r, "checked", 0) \/ Go(r, "inserting", period) \/ Go(r, "idle", 0)
    BY <1>2 DEF CheckQuota, FindNoRow, DropRequest
  <2>4. /\ request' \in [Request -> [pc : {"idle", "inserting", "checked", "counting"}, key : 0 .. Periods]]
        /\ \A q \in Request : request'[q].pc = "inserting" => request'[q].key # 0
        /\ Counting' = Counting \ {r}
    BY <1>1, <2>3, GoIs
  <2>5. Counting' = Counting
    BY <2>2, <2>4 DEF Counting
  <2>6. QuotaTypeOK' /\ Used' = Used
    BY <1>1, <2>1, <2>4 DEF QuotaTypeOK, Used
  <2> QED
    BY <2>1, <2>5, <2>6, UncountedKeeps
<1>3. CASE NextPeriod
  <2>1. QuotaTypeOK' /\ Used' = Used /\ Counting' = Counting
    BY <1>1, <1>3, PeriodsFinite DEF NextPeriod, QuotaTypeOK, Used, Counting
  <2> QED
    BY <1>3, <2>1, UncountedKeeps DEF NextPeriod
<1>4. CASE Crash
  BY <1>4, CrashKeepsCount
<1>5. CASE UNCHANGED quotaVars
  <2>1. QuotaTypeOK' /\ Used' = Used /\ Counting' = Counting
    BY <1>1, <1>5 DEF quotaVars, QuotaTypeOK, Used, Counting
  <2> QED
    BY <1>5, <2>1, UncountedKeeps DEF quotaVars
<1> QED
  BY <1>2, <1>3, <1>4, <1>5, QuotaInsertKeeps, CommitKeepsCount, CountKeepsCount DEF QuotaNext, QuotaStep

(* However requests interleave, a job made is counted once: its count is   *)
(* in the table, about to be written, or died with the server.             *)
THEOREM JobsAreCounted == QuotaSpec => []EveryJobCounted
<1>1. QuotaInv => EveryJobCounted
  BY DEF QuotaInv
<1> QED
  BY <1>1, QuotaStarts, QuotaKept, PTL DEF QuotaSpec

-----------------------------------------------------------------------------
LEMMA OrganizationsTypeStarts == OrganizationsInit => OrganizationsTypeOK
<1> SUFFICES ASSUME OrganizationsInit PROVE OrganizationsTypeOK
  OBVIOUS
<1> DEFINE first == CHOOSE p \in Person : TRUE
           second == CHOOSE p \in Person : p # first
           group == CHOOSE t \in Tenant : TRUE
<1>1. group \in Tenant
  BY OrganizationsAssumption
<1>2. PICK founded \in BOOLEAN :
        /\ people = [p \in Person |->
              CASE p = first -> [role |-> "admin", group |-> NoTenant]
                [] founded /\ p = second -> [role |-> "admin", group |-> group]
                [] OTHER -> NoPerson]
        /\ groups = [t \in Tenant |-> IF founded THEN "row" ELSE "unused"]
  BY DEF OrganizationsInit
<1>3. people \in [Person -> {NoPerson} \cup [role : Role, group : GroupId]]
  <2> HIDE DEF first, second, group
  <2>1. [role |-> "admin", group |-> NoTenant] \in [role : Role, group : GroupId]
        /\ [role |-> "admin", group |-> group] \in [role : Role, group : GroupId]
    BY <1>1 DEF Role, GroupId
  <2> DEFINE A == [role |-> "admin", group |-> NoTenant]
             B == [role |-> "admin", group |-> group]
             S == {NoPerson} \cup [role : Role, group : GroupId]
  <2>2. A \in S /\ B \in S /\ NoPerson \in S
    BY <2>1
  <2>3. people = [p \in Person |-> CASE p = first -> A
                                     [] founded /\ p = second -> B
                                     [] OTHER -> NoPerson]
    BY <1>2
  <2> HIDE DEF A, B, S
  <2>4. people \in [Person -> S]
    BY <2>2, <2>3
  <2> QED
    BY <2>4 DEF S
<1> QED
  BY <1>2, <1>3 DEF OrganizationsInit, OrganizationsTypeOK, GroupId

LEMMA OrganizationsStepTyped ==
    OrganizationsTypeOK /\ [OrganizationsNext]_orgVars => OrganizationsTypeOK'
<1> SUFFICES ASSUME OrganizationsTypeOK, [OrganizationsNext]_orgVars
             PROVE  OrganizationsTypeOK'
  OBVIOUS
<1> USE DEF OrganizationsTypeOK
<1>1. ASSUME NEW c \in AdminCall, Authenticate(c) PROVE OrganizationsTypeOK'
  <2>1. PICK p \in ActiveAdmins :
          callers' = [callers EXCEPT ![c] = [who |-> p, group |-> people[p].group]]
    BY <1>1 DEF Authenticate
  <2>2. p \in Person /\ people[p] \in [role : Role, group : GroupId]
    BY <2>1 DEF ActiveAdmins, NoPerson, Role
  <2> QED
    BY <1>1, <2>1, <2>2 DEF Authenticate
<1>2. ASSUME NEW c \in AdminCall, HandleAdmin(c) PROVE OrganizationsTypeOK'
  <2>1. callers' \in [AdminCall -> {NoCaller} \cup [who : Person, group : GroupId]]
    BY <1>2 DEF HandleAdmin, Answer
  <2>2. callers[c] \in [who : Person, group : GroupId]
    BY <1>2 DEF HandleAdmin
  <2>3. CASE CreateUser(c)
    <3>1. PICK p \in Person \ Listed, role \in Role,
               group \in IF Scoped(c) THEN {callers[c].group} ELSE GroupId :
            people' = [people EXCEPT ![p] = [role |-> role, group |-> group]]
      BY <2>3 DEF CreateUser
    <3>2. group \in GroupId
      BY <2>2
    <3>3. [role |-> role, group |-> group] \in [role : Role, group : GroupId]
      BY <3>2
    <3>4. people' \in [Person -> {NoPerson} \cup [role : Role, group : GroupId]]
      BY <3>1, <3>3
    <3>5. UNCHANGED <<groups, orgOf>>
      BY <2>3 DEF CreateUser
    <3> QED
      BY <2>1, <3>4, <3>5
  <2>4. CASE AlterUser(c)
    <3>1. PICK p \in Listed, role \in Role, group \in GroupId :
            people' = [people EXCEPT ![p] = [role |-> role, group |-> group]]
      BY <2>4 DEF AlterUser
    <3>2. people' \in [Person -> {NoPerson} \cup [role : Role, group : GroupId]]
      BY <3>1 DEF Listed
    <3>3. UNCHANGED <<groups, orgOf>>
      BY <2>4 DEF AlterUser
    <3> QED
      BY <2>1, <3>2, <3>3
  <2>5. CASE RemoveUser(c)
    BY <2>1, <2>5 DEF RemoveUser
  <2>6. CASE AddOrgMember(c)
    <3>1. PICK p \in Listed, t \in GroupRows : people' = [people EXCEPT ![p].group = t]
      BY <2>6 DEF AddOrgMember
    <3>2. people[p] \in [role : Role, group : GroupId] /\ t \in GroupId
      BY <3>1 DEF Listed, GroupRows, GroupId
    <3> QED
      BY <2>1, <2>6, <3>1, <3>2 DEF AddOrgMember
  <2>7. CASE CreateGroup(c)
    BY <2>1, <2>7 DEF CreateGroup
  <2>8. CASE RemoveGroup(c)
    <3>1. PICK t \in GroupRows :
            /\ people' = [p \in Person |->
                  IF people[p].group = t THEN [people[p] EXCEPT !.group = NoTenant] ELSE people[p]]
            /\ groups' = [groups EXCEPT ![t] = "gone"]
            /\ \/ orgOf' = [m \in OrgPrinter |-> IF orgOf[m] = t THEN NoTenant ELSE orgOf[m]]
               \/ UNCHANGED orgOf
      BY <2>8 DEF RemoveGroup
    <3>2. t # NoTenant /\ NoTenant \in GroupId
      BY <3>1, OrganizationsAssumption DEF GroupRows, GroupId
    <3>3. \A p \in Person : people[p].group = t => people[p] \in [role : Role, group : GroupId]
      BY <3>2 DEF NoPerson
    <3>4. people' \in [Person -> {NoPerson} \cup [role : Role, group : GroupId]]
      BY <3>1, <3>2, <3>3
    <3>5. groups' \in [Tenant -> {"unused", "row", "gone"}]
      BY <3>1
    <3>6. orgOf' \in [OrgPrinter -> GroupId]
      BY <3>1, <3>2
    <3> QED
      BY <2>1, <3>4, <3>5, <3>6
  <2>9. CASE AssignPrinter(c)
    BY <2>1, <2>9 DEF AssignPrinter, GroupId
  <2>10. CASE Refuse
    BY <2>1, <2>10 DEF Refuse
  <2> QED
    BY <1>2, <2>3, <2>4, <2>5, <2>6, <2>7, <2>8, <2>9, <2>10 DEF HandleAdmin
<1>3. CASE UNCHANGED orgVars
  BY <1>3 DEF orgVars
<1> QED
  BY <1>1, <1>2, <1>3 DEF OrganizationsNext

(* The tables and the callers read from them keep their types.             *)
THEOREM OrganizationsTypes == OrganizationsSpec => []OrganizationsTypeOK
BY OrganizationsTypeStarts, OrganizationsStepTyped, PTL DEF OrganizationsSpec

(* A scoped administrator makes and unmakes no superadmin and moves nobody *)
(* into or out of another group (ScopedAdminsStay): the guards of          *)
(* _check_org_admin_access and add_org_member suffice although the caller  *)
(* is judged by the row read before its handler ran.                       *)
THEOREM ScopedAdminsStayWithin == OrganizationsSpec => ScopedAdminsStay
<1> DEFINE Stay(c) ==
      /\ Superadmins' = Superadmins
      /\ \A t \in Tenant \ {callers[c].group}, p \in Person :
            people[p].group = t <=> people'[p].group = t
<1>1. ASSUME OrganizationsTypeOK, NEW c \in AdminCall, Scoped(c), callers[c] # NoCaller,
             CreateUser(c) \/ AlterUser(c) \/ RemoveUser(c) \/ AddOrgMember(c)
             \/ CreateGroup(c) \/ RemoveGroup(c) \/ AssignPrinter(c) \/ Refuse
      PROVE  Stay(c)
  <2> USE <1>1
  <2> DEFINE own == callers[c].group
  <2>1. own # NoTenant /\ own \in Tenant
    BY DEF Scoped, OrganizationsTypeOK, GroupId
  <2>2. people \in [Person -> {NoPerson} \cup [role : Role, group : GroupId]]
    BY DEF OrganizationsTypeOK
  <2>3. NoTenant \notin Tenant
    BY OrganizationsAssumption
  <2>4. ASSUME NEW p \in Person, NEW row \in {NoPerson} \cup [role : Role, group : GroupId],
               people' = [people EXCEPT ![p] = row],
               p \notin Superadmins,
               ~ (row.role = "admin" /\ row.group = NoTenant),
               people[p].group \in {NoTenant, own}, row.group \in {NoTenant, own}
        PROVE  Stay(c)
    <3>1. \A q \in Person : q # p => people'[q] = people[q]
      BY <2>2, <2>4
    <3>2. people'[p] = row
      BY <2>2, <2>4
    <3>3. Superadmins' = Superadmins
      BY <3>1, <3>2, <2>4 DEF Superadmins
    <3>4. \A t \in Tenant \ {own}, q \in Person : people[q].group = t <=> people'[q].group = t
      BY <3>1, <3>2, <2>3, <2>4
    <3> QED
      BY <3>3, <3>4
  <2>5. CASE CreateUser(c)
    <3>1. PICK p \in Person \ Listed, role \in Role :
            people' = [people EXCEPT ![p] = [role |-> role, group |-> own]]
      BY <2>5 DEF CreateUser
    <3>2. people[p] = NoPerson
      BY <3>1 DEF Listed
    <3>3. [role |-> role, group |-> own] \in [role : Role, group : GroupId]
      BY <2>1 DEF GroupId
    <3>4. p \notin Superadmins /\ people[p].group = NoTenant
      BY <3>2 DEF Superadmins, NoPerson
    <3> QED
      BY <2>1, <2>4, <3>1, <3>3, <3>4
  <2>6. CASE AlterUser(c)
    <3>1. PICK p \in Listed, role \in Role, group \in GroupId :
            /\ people[p].group = own /\ group = own
            /\ people' = [people EXCEPT ![p] = [role |-> role, group |-> group]]
      BY <2>6 DEF AlterUser, MayManage
    <3>2. p \in Person /\ p \notin Superadmins
      BY <2>1, <3>1 DEF Listed, Superadmins
    <3>3. [role |-> role, group |-> group] \in [role : Role, group : GroupId]
      BY <3>1
    <3> QED
      BY <2>1, <2>4, <3>1, <3>2, <3>3
  <2>7. CASE RemoveUser(c)
    <3>1. PICK p \in Listed : people[p].group = own /\ people' = [people EXCEPT ![p] = NoPerson]
      BY <2>7 DEF RemoveUser, MayManage
    <3>2. p \in Person /\ p \notin Superadmins
      BY <2>1, <3>1 DEF Listed, Superadmins
    <3> QED
      BY <2>4, <3>1, <3>2 DEF NoPerson
  <2>8. CASE AddOrgMember(c)
    <3>1. PICK p \in Listed : /\ p \notin Superadmins
                              /\ people[p].group \in {NoTenant, own}
                              /\ people' = [people EXCEPT ![p].group = own]
      BY <2>8 DEF AddOrgMember, MayAdd
    <3>2. people[p] \in [role : Role, group : GroupId] /\ p \in Person
      BY <2>2 DEF Listed
    <3> DEFINE row == [people[p] EXCEPT !.group = own]
    <3>3. row \in [role : Role, group : GroupId] /\ row.group = own
      BY <2>1, <3>2 DEF GroupId
    <3>4. people' = [people EXCEPT ![p] = row]
      BY <3>1, <2>2, <3>2
    <3> HIDE DEF row
    <3> QED
      BY <2>1, <2>4, <3>1, <3>2, <3>3, <3>4
  <2>9. CASE UNCHANGED people
    BY <2>9 DEF Superadmins
  <2> QED
    BY <2>5, <2>6, <2>7, <2>8, <2>9 DEF CreateGroup, RemoveGroup, AssignPrinter, Refuse
<1>2. ASSUME OrganizationsTypeOK, [OrganizationsNext]_orgVars,
             NEW c \in AdminCall, callers[c] # NoCaller, Scoped(c), callers'[c] = NoCaller
      PROVE  Stay(c)
  <2> USE <1>2
  <2>1. callers \in [AdminCall -> {NoCaller} \cup [who : Person, group : GroupId]]
    BY DEF OrganizationsTypeOK
  <2>2. ASSUME NEW d \in AdminCall, Authenticate(d) PROVE FALSE
    BY <2>1, <2>2 DEF Authenticate
  <2>3. ASSUME NEW d \in AdminCall, HandleAdmin(d) PROVE d = c
    BY <2>1, <2>3 DEF HandleAdmin, Answer
  <2>4. ~ UNCHANGED orgVars
    BY DEF orgVars
  <2>5. HandleAdmin(c)
    BY <2>2, <2>3, <2>4 DEF OrganizationsNext
  <2> HIDE DEF Stay
  <2> QED
    BY <2>5, <1>1 DEF HandleAdmin
<1>3. OrganizationsTypeOK /\ [OrganizationsNext]_orgVars
      => [\A c \in AdminCall :
            /\ callers[c] # NoCaller /\ Scoped(c) /\ callers'[c] = NoCaller
            =>
            /\ Superadmins' = Superadmins
            /\ \A t \in Tenant \ {callers[c].group}, p \in Person :
                  people[p].group = t <=> people'[p].group = t]_orgVars
  BY <1>2
<1> QED
  BY <1>3, OrganizationsTypes, PTL DEF OrganizationsSpec, ScopedAdminsStay
-----------------------------------------------------------------------------
(* What has been spent was handed out; a spent row is gone from its table, *)
(* and a spent token leaves the blacklist only once it has expired.        *)
SpentInv ==
    \A c \in spent :
        /\ credential[c] # "none"
        /\ credential[c] \in JwtKind => c \in blacklist \cup expired
        /\ credential[c] \in RowKind => c \notin open

(* A credential is handed out under a number that is free.                 *)
LEMMA HandOutIsFresh ==
    ASSUME SpentInv, NEW kind, HandOut(kind)
    PROVE  \A c \in spent : credential'[c] = credential[c] /\ (c \in open' <=> c \in open)
<1>1. PICK d \in Fresh : /\ credential' = [credential EXCEPT ![d] = kind]
                         /\ open' = IF kind \in RowKind THEN open \cup {d} ELSE open
  BY DEF HandOut
<1>2. d \notin spent
  BY DEF Fresh, SpentInv
<1> QED
  BY <1>1, <1>2

LEMMA SpentKept == SpentInv /\ [SessionsNext]_sessionVars => SpentInv'
<1> SUFFICES ASSUME SpentInv, [SessionsNext]_sessionVars PROVE SpentInv'
  OBVIOUS
<1> USE DEF SpentInv
<1>1. CASE Login \/ SocketToken \/ ForgotPassword
  <2>1. PICK kind : HandOut(kind)
    BY <1>1 DEF Login, SocketToken, ForgotPassword
  <2> QED
    BY <1>1, <2>1, HandOutIsFresh DEF Login, SocketToken, ForgotPassword
<1>2. CASE OidcLogin
  <2>1. PICK d \in Fresh :
          /\ credential' = [credential EXCEPT ![d] = "state"]
          /\ open' \subseteq open \cup {d}
    BY <1>2 DEF OidcLogin
  <2>2. d \notin spent
    BY DEF Fresh
  <2> QED
    BY <1>2, <2>1, <2>2 DEF OidcLogin
<1>3. CASE ProviderAnswers
  <2>1. UNCHANGED <<expired, blacklist, spent>> /\ (HandOut("code") \/ UNCHANGED <<credential, open>>)
    BY <1>3 DEF ProviderAnswers
  <2> QED
    BY <2>1, HandOutIsFresh
<1>4. ASSUME NEW c \in Credential, VerifyChallenge(c) PROVE SpentInv'
  <2>1. /\ credential[c] = "challenge"
        /\ blacklist' = blacklist \cup {c} /\ spent' = spent \cup {c}
        /\ UNCHANGED expired
    BY <1>4 DEF VerifyChallenge, Accepts, LookingDoor
  <2>2. PICK d \in Fresh : /\ credential' = [credential EXCEPT ![d] = "session"]
                           /\ open' = IF "session" \in RowKind THEN open \cup {d} ELSE open
    BY <1>4 DEF VerifyChallenge, HandOut
  <2>3. d \notin spent' /\ open' = open
    BY <2>1, <2>2 DEF Fresh, RowKind
  <2> QED
    BY <2>1, <2>2, <2>3 DEF JwtKind, RowKind
<1>5. ASSUME NEW c \in Credential, Logout(c) PROVE SpentInv'
  BY <1>5 DEF Logout, Decodes, JwtKind, RowKind
<1>6. ASSUME NEW c \in Credential, ResetPassword(c) \/ OidcCallback(c) PROVE SpentInv'
  BY <1>6 DEF ResetPassword, OidcCallback, JwtKind, RowKind
<1>7. ASSUME NEW c \in Credential, Exchange(c) PROVE SpentInv'
  <2>1. /\ credential[c] = "code"
        /\ open' \subseteq open \ {c} /\ spent' = spent \cup {c}
        /\ UNCHANGED <<expired, blacklist>>
        /\ \/ UNCHANGED credential
           \/ \E d \in Fresh : credential' = [credential EXCEPT ![d] = "session"]
    BY <1>7 DEF Exchange
  <2>2. \A d \in Fresh : d \notin spent'
    BY <2>1 DEF Fresh
  <2>3. \A e \in spent' : credential'[e] = credential[e]
    <3>1. CASE UNCHANGED credential
      BY <3>1
    <3>2. ASSUME NEW d \in Fresh, credential' = [credential EXCEPT ![d] = "session"]
          PROVE  \A e \in spent' : credential'[e] = credential[e]
      BY <2>2, <3>2
    <3> QED
      BY <2>1, <3>1, <3>2
  <2> QED
    BY <2>1, <2>3 DEF JwtKind, RowKind
<1>8. CASE Clean
  BY <1>8 DEF Clean, Outdated
<1>9. ASSUME NEW c \in Credential, Expire(c) PROVE SpentInv'
  BY <1>9 DEF Expire
<1>10. CASE \/ LoginFails \/ SetupSecondFactor \/ ConfirmSecondFactor \/ DisableSecondFactor
           \/ AdminDisablesSecondFactor \/ DeleteUser \/ WindowPasses \/ RestartAuth
           \/ (\E active \in {"active", "disabled"} : UpdateUser(active))
           \/ UNCHANGED sessionVars
  <2>1. UNCHANGED <<credential, expired, blacklist, open, spent>>
    BY <1>10 DEF LoginFails, SetupSecondFactor, ConfirmSecondFactor, DisableSecondFactor,
                 AdminDisablesSecondFactor, SecondFactorGoes, DeleteUser, WindowPasses,
                 RestartAuth, UpdateUser, sessionVars
  <2> QED
    BY <2>1
<1> QED
  BY <1>1, <1>2, <1>3, <1>4, <1>5, <1>6, <1>7, <1>8, <1>9, <1>10 DEF SessionsNext

(* A token that was signed out and a link, state or code that was redeemed *)
(* stay refused at every door that looks them up, whatever the cleaner     *)
(* deletes beside them; /ws and the perimeter decode a token and no more.  *)
THEOREM SpentStaysRefused == SessionsSpec => []SpentStaysSpent
<1>1. SessionsInit => SpentInv
  BY DEF SessionsInit, SpentInv
<1>2. SpentInv => SpentStaysSpent
  BY DEF SpentInv, SpentStaysSpent, Accepts, Decodes, LookingDoor, Door, JwtKind, RowKind
<1> QED
  BY <1>1, <1>2, SpentKept, PTL DEF SessionsSpec

-----------------------------------------------------------------------------
(* The types of the jobs table and of the statements under way.            *)
(* Each row that exists, and each statement about to be made, sets columns *)
(* to values of theirs.                                                    *)
RowsTyped(t) == \A j \in Job : t[j] \notin {Absent, Deleted} => IsSetClause(t[j])
CallsTyped == \A c \in Caller : call[c] # NoCall => call[c].job \in Job /\ IsSetClause(call[c].set)
Clauses(a) == \A j \in DOMAIN a : j \in Job => IsSetClause(a[j])
RunTyped ==
    /\ run.phase \in {"idle", "cleaning", "flushed", "picked"}
    /\ run.phase \in {"cleaning", "flushed"} => Clauses(run.stale)
    /\ run.phase = "picked" => Clauses(run.set)

JobsTypeInv == JobsInv /\ RowsTyped(jobs) /\ CallsTyped /\ RunTyped /\ clock \in Slot

LEMMA JobsTyped == JobsTypeInv => JobsTypeOK
<1> SUFFICES ASSUME JobsTypeInv PROVE JobsTypeOK
  OBVIOUS
<1>1. \A j \in Job : Exists(j) => DOMAIN jobs[j] = DOMAIN Column /\ IsSetClause(jobs[j])
  <2> SUFFICES ASSUME NEW j \in Job, Exists(j)
               PROVE  DOMAIN jobs[j] = DOMAIN Column /\ IsSetClause(jobs[j])
    OBVIOUS
  <2>1. jobs[j] = [f \in ColumnName |-> jobs[j][f]]
    BY RowOf DEF JobsTypeInv, JobsInv
  <2>2. IsSetClause(jobs[j])
    BY DEF JobsTypeInv, RowsTyped, Exists
  <2> QED
    BY <2>1, <2>2, Columns
<1>2. charges \in [Job -> 0 .. 2]
  BY DEF JobsTypeInv, JobsInv, ChargeInv
<1> QED
  BY <1>1, <1>2 DEF JobsTypeInv, JobsTypeOK, CallsTyped, RunTyped

LEMMA JobsTypeStarts == JobsInit => JobsTypeInv
<1> SUFFICES ASSUME JobsInit PROVE JobsTypeInv
  OBVIOUS
<1>1. RowsTyped(jobs) /\ CallsTyped
  BY DEF JobsInit, RowsTyped, CallsTyped
<1>2. RunTyped
  BY DEF JobsInit, RunTyped, NoRun
<1>3. clock \in Slot
  BY JobRoutesAssumption DEF JobsInit, Slot
<1> QED
  BY <1>1, <1>2, <1>3, JobsStart DEF JobsTypeInv

LEMMA ChangedTyped ==
    ASSUME NEW row, NEW want, IsSetClause(want)
    PROVE  IsSetClause(Changed(row, want))
BY DEF IsSetClause, Changed

LEMMA UpdatedTyped ==
    ASSUME NEW row, NEW set, IsSetClause(row), IsSetClause(set)
    PROVE  IsSetClause(Updated(row, set))
BY DEF IsSetClause, Updated

LEMMA StatusClause == ASSUME NEW s \in JobStatus PROVE IsSetClause([status |-> s])
BY DEF IsSetClause, Column

LEMMA HoldClause == ASSUME NEW h \in BOOLEAN PROVE IsSetClause([hold |-> h])
BY DEF IsSetClause, Column

LEMMA PlaceClause ==
    ASSUME NEW s \in JobStatus, NEW p \in Printer \cup {NoPrinter}, NEW k \in Slot
    PROVE  IsSetClause([status |-> s, printer |-> p, slot |-> k])
BY DEF IsSetClause, Column

LEMMA PendingTyped ==
    ASSUME NEW p \in Printer \cup {NoPrinter}, NEW h \in BOOLEAN
    PROVE  IsSetClause(Pending(p, h))
<1>1. 0 \in Slot
  BY JobRoutesAssumption DEF Slot
<1>2. "pending" \in JobStatus
  BY DEF JobStatus
<1> QED
  BY <1>1, <1>2 DEF IsSetClause, Column, Pending

LEMMA RowIsTyped ==
    ASSUME JobsTypeInv, NEW j \in Job, Exists(j)
    PROVE  /\ IsSetClause(jobs[j])
           /\ jobs[j].status \in JobStatus /\ jobs[j].printer \in Printer \cup {NoPrinter}
<1>1. IsSetClause(jobs[j])
  BY DEF JobsTypeInv, RowsTyped, Exists
<1>2. jobs[j] = [f \in ColumnName |-> jobs[j][f]]
  BY RowOf DEF JobsTypeInv, JobsInv
<1>3. {"status", "printer"} \subseteq DOMAIN jobs[j]
  BY <1>2 DEF ColumnName
<1>4. jobs[j]["status"] \in Column["status"] /\ jobs[j]["printer"] \in Column["printer"]
  BY <1>1, <1>3 DEF IsSetClause
<1> QED
  BY <1>1, <1>4 DEF Column

(* A statement is kept for later.                                          *)
LEMMA CallMade ==
    ASSUME JobsTypeInv, NEW c \in Caller, NEW e, call' = [call EXCEPT ![c] = e],
           e # NoCall => e.job \in Job /\ IsSetClause(e.set)
    PROVE  CallsTyped'
BY DEF JobsTypeInv, JobsInv, CallInv, CallsTyped

LEMMA ReadTyped ==
    ASSUME JobsTypeInv, NEW c \in Caller, NEW j \in Job, NEW cols, NEW want, IsSetClause(want),
           Begin(c, j, cols, want)
    PROVE  CallsTyped'
<1> DEFINE e == [kind |-> "update", job |-> j, cols |-> cols, set |-> Changed(jobs[j], want)]
<1>1. call' = [call EXCEPT ![c] = e]
  BY DEF Begin
<1>2. e.job \in Job /\ IsSetClause(e.set)
  BY ChangedTyped
<1> HIDE DEF e
<1> QED
  BY <1>1, <1>2, CallMade

LEMMA RawTyped ==
    ASSUME JobsTypeInv, NEW c \in Caller, NEW j \in Job, NEW s \in JobStatus, BeginRaw(c, j, s)
    PROVE  CallsTyped'
<1> DEFINE e == [kind |-> "update", job |-> j, cols |-> StatusColumn, set |-> [status |-> s]]
<1>1. call' = [call EXCEPT ![c] = e]
  BY DEF BeginRaw
<1>2. e.job \in Job /\ IsSetClause(e.set)
  BY StatusClause
<1> HIDE DEF e
<1> QED
  BY <1>1, <1>2, CallMade

LEMMA HandlerTyped ==
    ASSUME JobsTypeInv, NEW c \in Caller, NEW j \in Job, HandlerStep(c, j)
    PROVE  CallsTyped'
<1>1. ASSUME NEW s \in JobStatus, Begin(c, j, StatusColumn, [status |-> s]) PROVE CallsTyped'
  <2>1. IsSetClause([status |-> s])
    BY StatusClause
  <2> QED
    BY <1>1, <2>1, ReadTyped
<1>2. /\ {"pending", "scheduled", "printing", "cancelled", "failed", "completed"} \subseteq JobStatus
      /\ 0 \in Slot
  BY JobRoutesAssumption DEF JobStatus, Slot
<1>3. CASE BeginStart(c, j) \/ BeginFail(c, j) \/ BeginCancel(c, j)
  BY <1>1, <1>2, <1>3 DEF BeginStart, BeginFail, BeginCancel
<1>4. CASE BeginReset(c, j)
  <2>1. IsSetClause([status |-> "pending", printer |-> NoPrinter, slot |-> 0])
    BY <1>2, PlaceClause
  <2> QED
    BY <1>4, <2>1, ReadTyped DEF BeginReset
<1>5. CASE BeginMove(c, j)
  <2> DEFINE s == IF jobs[j].status = "pending" THEN "scheduled" ELSE jobs[j].status
  <2>1. PICK p \in Printer, k \in Slot \ {0} :
          Begin(c, j, PlaceColumns, [status |-> s, printer |-> p, slot |-> k])
    BY <1>5 DEF BeginMove
  <2>2. Exists(j)
    BY <2>1 DEF Begin
  <2>3. s \in JobStatus
    BY <1>2, <2>2, RowIsTyped
  <2> HIDE DEF s
  <2>4. IsSetClause([status |-> s, printer |-> p, slot |-> k])
    BY <2>3, PlaceClause
  <2> QED
    BY <2>1, <2>4, ReadTyped
<1>6. CASE BeginPatch(c, j)
  <2>1. ASSUME NEW h \in BOOLEAN, Begin(c, j, HoldColumn, [hold |-> h]) PROVE CallsTyped'
    <3>1. IsSetClause([hold |-> h])
      BY HoldClause
    <3> QED
      BY <2>1, <3>1, ReadTyped
  <2> QED
    BY <1>1, <1>6, <2>1 DEF BeginPatch
<1>7. CASE BeginLink(c, j) \/ BeginDispatchRoute(c, j)
  BY <1>2, <1>7, RawTyped DEF BeginLink, BeginDispatchRoute
<1>8. CASE BeginDelete(c, j)
  <2> DEFINE e == [kind |-> "delete", job |-> j, cols |-> {}, set |-> <<>>]
  <2>1. call' = [call EXCEPT ![c] = e]
    BY <1>8 DEF BeginDelete
  <2>2. e.job \in Job /\ IsSetClause(e.set)
    BY DEF IsSetClause
  <2> HIDE DEF e
  <2> QED
    BY <2>1, <2>2, CallMade
<1> QED
  BY <1>3, <1>4, <1>5, <1>6, <1>7, <1>8 DEF HandlerStep

(* Statements of the scheduler on jobs that are there.                     *)
LEMMA ClausesStored ==
    ASSUME NEW t, RowsTyped(t), NEW a, Clauses(a),
           \A j \in DOMAIN a : j \in Job => t[j] \notin {Absent, Deleted}
    PROVE  RowsTyped(Rewritten(t, a))
<1> SUFFICES ASSUME NEW j \in Job, Rewritten(t, a)[j] \notin {Absent, Deleted}
             PROVE  IsSetClause(Rewritten(t, a)[j])
  BY DEF RowsTyped
<1>1. Rewritten(t, a)[j] = IF j \in DOMAIN a THEN Updated(t[j], a[j]) ELSE t[j]
  BY DEF Rewritten
<1>2. CASE j \in DOMAIN a
  <2>1. IsSetClause(t[j])
    BY <1>2 DEF RowsTyped
  <2>2. IsSetClause(a[j])
    BY <1>2 DEF Clauses
  <2> QED
    BY <1>1, <1>2, <2>1, <2>2, UpdatedTyped
<1>3. CASE j \notin DOMAIN a
  BY <1>1, <1>3 DEF RowsTyped
<1> QED
  BY <1>2, <1>3

LEMMA AssignedClauses ==
    ASSUME clock \in Slot, NEW t, NEW a \in Assignments(t)
    PROVE  Clauses(Assigned(t, a)) /\ DOMAIN Assigned(t, a) = DOMAIN a
<1> DEFINE free == (Printer \X (clock + 1 .. Horizon)) \ Booked(t)
<1>1. PICK S \in SUBSET Job : a \in [S -> free]
  BY DEF Assignments
<1>2. ASSUME NEW j \in DOMAIN a, j \in Job PROVE IsSetClause(Assigned(t, a)[j])
  <2>1. a[j] \in Printer \X (clock + 1 .. Horizon)
    BY <1>1, <1>2
  <2>2. a[j][1] \in Printer /\ a[j][2] \in clock + 1 .. Horizon
    BY <2>1
  <2>3. a[j][2] \in Slot
    BY <2>2, JobRoutesAssumption DEF Slot
  <2>4. "scheduled" \in JobStatus
    BY DEF JobStatus
  <2> DEFINE want == [status |-> "scheduled", printer |-> a[j][1], slot |-> a[j][2]]
  <2>5. IsSetClause(want)
    BY <2>2, <2>3, <2>4, PlaceClause
  <2>6. Assigned(t, a)[j] = Changed(t[j], want)
    BY DEF Assigned
  <2> HIDE DEF want
  <2> QED
    BY <2>5, <2>6, ChangedTyped
<1>3. DOMAIN Assigned(t, a) = DOMAIN a
  BY DEF Assigned
<1> QED
  BY <1>2, <1>3 DEF Clauses

LEMMA SchedulerTyped ==
    ASSUME JobsTypeInv, SchedulerStep
    PROVE  RowsTyped(jobs') /\ RunTyped'
<1>1. CASE BeginSchedule
  <2> DEFINE want == [status |-> "pending", printer |-> NoPrinter, slot |-> 0]
             reset == [j \in {i \in Job : Stale(i)} |-> Changed(jobs[j], want)]
  <2>1. UNCHANGED jobs /\ run' = [phase |-> "cleaning", stale |-> reset]
    BY <1>1 DEF BeginSchedule
  <2>2. IsSetClause(want)
    <3>1. "pending" \in JobStatus /\ 0 \in Slot
      BY JobRoutesAssumption DEF JobStatus, Slot
    <3> QED
      BY <3>1, PlaceClause
  <2> HIDE DEF want
  <2>3. Clauses(reset)
    BY <2>2, ChangedTyped DEF Clauses
  <2> HIDE DEF reset
  <2> QED
    BY <2>1, <2>3 DEF JobsTypeInv, RowsTyped, RunTyped
<1>2. CASE FlushStale
  BY <1>2 DEF FlushStale, JobsTypeInv, RowsTyped, RunTyped, NoRun
<1>3. CASE CommitFlushed
  <2> DEFINE cleaned == Rewritten(jobs, run.stale)
  <2>1. run' = NoRun /\ run.phase = "flushed"
    BY <1>3 DEF CommitFlushed
  <2>2. PICK a \in Assignments(cleaned) : Store(Rewritten(cleaned, Assigned(cleaned, a)))
    BY <1>3 DEF CommitFlushed
  <2>3. RowsTyped(cleaned)
    BY <2>1, ClausesStored DEF JobsTypeInv, RunTyped, JobsInv, RunInv, Exists
  <2> HIDE DEF cleaned
  <2> DEFINE b == Assigned(cleaned, a)
  <2>4. Clauses(b) /\ DOMAIN b = DOMAIN a
    BY AssignedClauses DEF JobsTypeInv
  <2>5. \A j \in DOMAIN b : j \in Job => cleaned[j] \notin {Absent, Deleted}
    BY <2>4, AssignedPlaces
  <2> HIDE DEF b
  <2>6. RowsTyped(Rewritten(cleaned, b))
    BY <2>3, <2>4, <2>5, ClausesStored
  <2>7. jobs' = Rewritten(cleaned, b)
    BY <2>2 DEF b, Store
  <2> QED
    BY <2>1, <2>6, <2>7 DEF RunTyped, NoRun
<1>4. CASE PickSlots
  <2>1. PICK a \in Assignments(jobs) : run' = [phase |-> "picked", set |-> Assigned(jobs, a)]
    BY <1>4 DEF PickSlots
  <2>2. Clauses(Assigned(jobs, a))
    BY AssignedClauses DEF JobsTypeInv
  <2> QED
    BY <1>4, <2>1, <2>2 DEF PickSlots, JobsTypeInv, RowsTyped, RunTyped
<1>5. CASE CommitPicked
  <2>1. run' = NoRun
    BY <1>5 DEF CommitPicked
  <2>2. CASE \A j \in DOMAIN run.set : Exists(j)
    <3>1. jobs' = Rewritten(jobs, run.set)
      BY <1>5, <2>2 DEF CommitPicked, Store
    <3>2. RowsTyped(Rewritten(jobs, run.set))
      BY <1>5, <2>2, ClausesStored DEF CommitPicked, JobsTypeInv, RunTyped, Exists
    <3>3. RowsTyped(jobs')
      BY <3>1, <3>2
    <3> QED
      BY <2>1, <3>3 DEF RunTyped, NoRun
  <2>3. CASE ~ \A j \in DOMAIN run.set : Exists(j)
    BY <1>5, <2>1, <2>3 DEF CommitPicked, JobsTypeInv, RowsTyped, RunTyped, NoRun
  <2> QED
    BY <2>2, <2>3
<1>6. CASE RollBack
  BY <1>6 DEF RollBack, JobsTypeInv, RowsTyped, RunTyped, NoRun
<1> QED
  BY <1>1, <1>2, <1>3, <1>4, <1>5, <1>6 DEF SchedulerStep

LEMMA BulkTyped ==
    ASSUME JobsTypeInv, NEW S, BulkUpdate(S)
    PROVE  RowsTyped(jobs')
<1>1. ASSUME NEW D, NEW f \in ColumnName, NEW v \in Column[f], \A j \in D : j \in Job => Exists(j),
             Store([j \in Job |-> IF j \in D THEN [jobs[j] EXCEPT ![f] = v] ELSE jobs[j]])
      PROVE  RowsTyped(jobs')
  <2> SUFFICES ASSUME NEW j \in Job, jobs'[j] \notin {Absent, Deleted} PROVE IsSetClause(jobs'[j])
    BY DEF RowsTyped
  <2>1. jobs'[j] = IF j \in D THEN [jobs[j] EXCEPT ![f] = v] ELSE jobs[j]
    BY <1>1 DEF Store
  <2>2. CASE j \in D
    <3>1. IsSetClause(jobs[j])
      BY <1>1, <2>2, RowIsTyped
    <3>2. IsSetClause([jobs[j] EXCEPT ![f] = v])
      BY <3>1 DEF IsSetClause
    <3> QED
      BY <2>1, <2>2, <3>2
  <2>3. CASE j \notin D
    BY <2>1, <2>3 DEF JobsTypeInv, RowsTyped
  <2> QED
    BY <2>2, <2>3
<1>2. "cancelled" \in Column["status"] /\ BOOLEAN = Column["hold"] /\ {"status", "hold"} \subseteq ColumnName
  BY DEF Column, JobStatus, ColumnName
<1> DEFINE cancelled == {j \in S : jobs[j].status = "pending"}
           deleted == {j \in S : jobs[j].status \in {"pending", "cancelled"}}
           held == {j \in S : Exists(j)}
<1>3. CASE Store([j \in Job |-> IF j \in cancelled THEN [jobs[j] EXCEPT !["status"] = "cancelled"]
                                ELSE jobs[j]])
  <2>1. \A j \in cancelled : j \in Job => Exists(j)
    BY DEF Exists, Absent, Deleted
  <2> QED
    BY <1>1, <1>2, <1>3, <2>1
<1>4. CASE Store([j \in Job |-> IF j \in deleted THEN Deleted ELSE jobs[j]])
  BY <1>4 DEF Store, JobsTypeInv, RowsTyped
<1>5. ASSUME NEW h \in BOOLEAN, Store([j \in Job |-> IF j \in held THEN [jobs[j] EXCEPT !["hold"] = h]
                                                     ELSE jobs[j]])
      PROVE  RowsTyped(jobs')
  <2>1. \A j \in held : j \in Job => Exists(j)
    OBVIOUS
  <2> QED
    BY <1>1, <1>2, <1>5, <2>1
<1> QED
  BY <1>3, <1>4, <1>5 DEF BulkUpdate

LEMMA CommitTyped ==
    ASSUME JobsTypeInv, NEW c \in Caller, Commit(c)
    PROVE  RowsTyped(jobs') /\ CallsTyped'
<1> DEFINE j == call[c].job
           row == IF call[c].kind = "delete" THEN Deleted ELSE Updated(jobs[j], call[c].set)
<1>1. /\ call[c] # NoCall /\ call' = [call EXCEPT ![c] = NoCall]
      /\ Store(IF Exists(j) THEN [jobs EXCEPT ![j] = row] ELSE jobs)
  BY DEF Commit
<1>2. CallsTyped'
  BY <1>1, CallMade
<1>3. j \in Job /\ IsSetClause(call[c].set)
  BY <1>1 DEF JobsTypeInv, CallsTyped
<1>4. CASE ~Exists(j)
  BY <1>1, <1>2, <1>4 DEF Store, JobsTypeInv, RowsTyped
<1>5. CASE Exists(j)
  <2>1. IsSetClause(jobs[j])
    BY <1>3, <1>5, RowIsTyped
  <2>2. row = Deleted \/ IsSetClause(row)
    BY <1>3, <2>1, UpdatedTyped
  <2> HIDE DEF row, j
  <2>3. jobs' = [jobs EXCEPT ![j] = row]
    BY <1>1, <1>5 DEF Store
  <2>4. \A i \in Job : jobs'[i] = IF i = j THEN row ELSE jobs[i]
    BY <1>3, <2>3 DEF JobsTypeInv, JobsInv, IsTable
  <2>5. RowsTyped(jobs')
    BY <2>2, <2>4 DEF JobsTypeInv, RowsTyped
  <2> QED
    BY <1>2, <2>5
<1> QED
  BY <1>4, <1>5

LEMMA InsertTyped ==
    ASSUME JobsTypeInv, NEW j \in Job, NEW row, Insert(j, row), IsSetClause(row)
    PROVE  RowsTyped(jobs') /\ UNCHANGED <<call, run, clock>>
<1>1. jobs' = [jobs EXCEPT ![j] = row] /\ UNCHANGED <<call, run, clock>>
  BY DEF Insert
<1>2. \A i \in Job : jobs'[i] = IF i = j THEN row ELSE jobs[i]
  BY <1>1 DEF JobsTypeInv, JobsInv, IsTable
<1> QED
  BY <1>1, <1>2 DEF JobsTypeInv, RowsTyped

LEMMA JobsStepTyped == JobsTypeInv /\ [JobsNext]_jobVars => JobsTypeInv'
<1> SUFFICES ASSUME JobsTypeInv, [JobsNext]_jobVars PROVE JobsTypeInv'
  OBVIOUS
<1>1. JobsInv'
  BY JobStepKeeps DEF JobsTypeInv
<1>2. /\ UNCHANGED jobs => RowsTyped(jobs')
      /\ UNCHANGED call => CallsTyped'
      /\ UNCHANGED run => RunTyped'
      /\ UNCHANGED clock => clock' \in Slot
  BY DEF JobsTypeInv, RowsTyped, CallsTyped, RunTyped, Clauses
<1>3. RowsTyped(jobs') /\ CallsTyped' /\ RunTyped' /\ clock' \in Slot => JobsTypeInv'
  BY <1>1 DEF JobsTypeInv, RowsTyped
<1>4. ASSUME NEW j \in Job, CreateStep(j) PROVE JobsTypeInv'
  <2>1. ASSUME NEW p \in Printer \cup {NoPrinter}, NEW h \in BOOLEAN, Insert(j, Pending(p, h))
        PROVE  JobsTypeInv'
    <3>1. IsSetClause(Pending(p, h))
      BY PendingTyped
    <3>2. RowsTyped(jobs') /\ UNCHANGED <<call, run, clock>>
      BY <2>1, <3>1, InsertTyped
    <3> QED
      BY <1>2, <1>3, <3>2
  <2>2. CASE RepeatJob(j)
    <3>1. PICK o \in Job : Exists(o) /\ Insert(j, Pending(jobs[o].printer, FALSE))
      BY <2>2 DEF RepeatJob
    <3>2. jobs[o].printer \in Printer \cup {NoPrinter}
      BY <3>1, RowIsTyped
    <3> QED
      BY <2>1, <3>1, <3>2
  <2> QED
    BY <1>4, <2>1, <2>2 DEF CreateStep, CreateJob, CreateBatch, ScheduleFromPreset, ScheduleFromModel
<1>5. ASSUME NEW j \in Job, CompleteJob(j) PROVE JobsTypeInv'
  <2>1. /\ Exists(j) /\ UNCHANGED <<call, run, clock>>
        /\ jobs' = [jobs EXCEPT ![j] = [jobs[j] EXCEPT !["status"] = "completed"]]
    BY <1>5 DEF CompleteJob
  <2> DEFINE row == [jobs[j] EXCEPT !["status"] = "completed"]
  <2>2. IsSetClause(row)
    <3>1. IsSetClause(jobs[j])
      BY <2>1, RowIsTyped
    <3>2. "completed" \in Column["status"]
      BY DEF Column, JobStatus
    <3> QED
      BY <3>1, <3>2 DEF IsSetClause
  <2>3. jobs' = [jobs EXCEPT ![j] = row]
    BY <2>1
  <2> HIDE DEF row
  <2>4. \A i \in Job : jobs'[i] = IF i = j THEN row ELSE jobs[i]
    BY <2>3 DEF JobsTypeInv, JobsInv, IsTable
  <2>5. RowsTyped(jobs')
    BY <2>2, <2>4 DEF JobsTypeInv, RowsTyped
  <2> QED
    BY <1>2, <1>3, <2>1, <2>5
<1>6. ASSUME NEW c \in Caller, Commit(c) PROVE JobsTypeInv'
  <2>1. UNCHANGED <<run, clock>>
    BY <1>6 DEF Commit
  <2> QED
    BY <1>2, <1>3, <1>6, <2>1, CommitTyped
<1>7. ASSUME NEW c \in Caller, Abandon(c) PROVE JobsTypeInv'
  <2>1. call' = [call EXCEPT ![c] = NoCall] /\ UNCHANGED <<jobs, run, clock>>
    BY <1>7 DEF Abandon
  <2>2. CallsTyped'
    BY <2>1, CallMade
  <2> QED
    BY <1>2, <1>3, <2>1, <2>2
<1>8. ASSUME NEW c \in Caller, NEW j \in Job, HandlerStep(c, j) PROVE JobsTypeInv'
  <2>1. UNCHANGED <<jobs, run, clock>>
    BY <1>8, HandlerReads DEF JobsTypeInv, JobsInv
  <2> QED
    BY <1>2, <1>3, <1>8, <2>1, HandlerTyped
<1>9. ASSUME NEW S \in SUBSET Job, BulkUpdate(S) PROVE JobsTypeInv'
  <2>1. UNCHANGED <<call, run, clock>>
    BY <1>9 DEF BulkUpdate
  <2> QED
    BY <1>2, <1>3, <1>9, <2>1, BulkTyped
<1>10. ASSUME SchedulerStep PROVE JobsTypeInv'
  <2>1. UNCHANGED <<call, clock>>
    BY <1>10 DEF SchedulerStep, BeginSchedule, FlushStale, CommitFlushed, PickSlots, CommitPicked, RollBack
  <2> QED
    BY <1>2, <1>3, <1>10, <2>1, SchedulerTyped
<1>11. ASSUME PassSlot PROVE JobsTypeInv'
  <2>1. clock' \in Slot
    BY <1>11, JobRoutesAssumption DEF PassSlot, JobsTypeInv, Slot
  <2> QED
    BY <1>2, <1>3, <1>11, <2>1 DEF PassSlot
<1>12. ASSUME UNCHANGED jobVars PROVE JobsTypeInv'
  BY <1>2, <1>3, <1>12 DEF jobVars
<1> QED
  BY <1>4, <1>5, <1>6, <1>7, <1>8, <1>9, <1>10, <1>11, <1>12 DEF JobsNext

-----------------------------------------------------------------------------
(* Types of the sessions.                                                  *)
LEMMA HandOutTyped ==
    ASSUME SessionsTypeOK, NEW k \in JwtKind \cup RowKind, HandOut(k)
    PROVE  /\ credential' \in [Credential -> JwtKind \cup RowKind \cup {"none"}]
           /\ open' \subseteq Credential
BY DEF HandOut, Fresh, SessionsTypeOK

LEMMA SessionsStepTyped == SessionsTypeOK /\ [SessionsNext]_sessionVars => SessionsTypeOK'
<1> SUFFICES ASSUME SessionsTypeOK, [SessionsNext]_sessionVars PROVE SessionsTypeOK'
  OBVIOUS
<1> DEFINE Kinds == JwtKind \cup RowKind
           Tables == /\ credential' \in [Credential -> Kinds \cup {"none"}]
                     /\ open' \subseteq Credential
           Sets == expired' \subseteq Credential /\ blacklist' \subseteq Credential /\ spent' \subseteq Credential
           User == account' \in Account /\ failures' \in 0..LockoutAfter /\ callback' \in BOOLEAN
<1>1. Tables /\ Sets /\ User => SessionsTypeOK'
  BY DEF SessionsTypeOK
<1>2. /\ UNCHANGED <<credential, open>> => Tables
      /\ UNCHANGED <<expired, blacklist, spent>> => Sets
      /\ UNCHANGED <<account, failures, callback>> => User
  BY DEF SessionsTypeOK
<1>3. LockoutAfter \in Nat
  BY SessionsAssumption
<1>4. ASSUME NEW k \in Kinds, HandOut(k) PROVE Tables
  BY <1>4, HandOutTyped
<1>5. /\ "session" \in Kinds /\ "socket" \in Kinds /\ "enrolment" \in Kinds /\ "link" \in Kinds /\ "code" \in Kinds
      /\ \A e \in BOOLEAN : LoginKind(e) \in Kinds
  BY DEF JwtKind, RowKind, LoginKind
<1>6. CASE LoginFails \/ WindowPasses
  <2>1. failures' \in 0..LockoutAfter
    BY <1>3, <1>6 DEF LoginFails, WindowPasses, SessionsTypeOK
  <2> QED
    BY <1>1, <1>2, <1>6, <2>1 DEF LoginFails, WindowPasses, SessionsTypeOK
<1>7. CASE Login \/ SocketToken \/ ForgotPassword
  <2>1. Tables
    BY <1>4, <1>5, <1>7 DEF Login, SocketToken, ForgotPassword
  <2> QED
    BY <1>1, <1>2, <1>7, <2>1 DEF Login, SocketToken, ForgotPassword
<1>8. CASE OidcLogin
  <2>1. Tables
    BY <1>8 DEF OidcLogin, Fresh, SessionsTypeOK, RowKind
  <2> QED
    BY <1>1, <1>2, <1>8, <2>1 DEF OidcLogin
<1>9. CASE ProviderAnswers
  <2>1. Tables
    BY <1>2, <1>4, <1>5, <1>9 DEF ProviderAnswers
  <2>2. account' \in Account
    BY <1>9 DEF ProviderAnswers, SessionsTypeOK, Account
  <2> QED
    BY <1>1, <1>2, <1>9, <2>1, <2>2 DEF ProviderAnswers, SessionsTypeOK
<1>10. ASSUME NEW from, NEW to \in {"off", "enrolling", "on"}, SecondFactorGoes(from, to)
       PROVE  SessionsTypeOK'
  <2>1. account' \in Account
    BY <1>10 DEF SecondFactorGoes, SessionsTypeOK, Account
  <2> QED
    BY <1>1, <1>2, <1>10, <2>1 DEF SecondFactorGoes, SessionsTypeOK
<1>11. CASE SetupSecondFactor \/ ConfirmSecondFactor \/ DisableSecondFactor \/ AdminDisablesSecondFactor
  BY <1>10, <1>11 DEF SetupSecondFactor, ConfirmSecondFactor, DisableSecondFactor, AdminDisablesSecondFactor
<1>12. ASSUME NEW active \in {"active", "disabled"}, UpdateUser(active) PROVE SessionsTypeOK'
  <2>1. account' \in Account
    BY <1>12 DEF UpdateUser, SessionsTypeOK, Account
  <2> QED
    BY <1>1, <1>2, <1>12, <2>1 DEF UpdateUser, SessionsTypeOK
<1>13. CASE DeleteUser
  BY <1>1, <1>2, <1>13 DEF DeleteUser, SessionsTypeOK, Account
<1>14. CASE Clean \/ RestartAuth
  BY <1>14 DEF Clean, RestartAuth, SessionsTypeOK
<1>15. ASSUME NEW c \in Credential, VerifyChallenge(c) PROVE SessionsTypeOK'
  <2>1. Tables
    BY <1>4, <1>5, <1>15 DEF VerifyChallenge
  <2> QED
    BY <1>1, <1>2, <1>15, <2>1 DEF VerifyChallenge, SessionsTypeOK
<1>16. ASSUME NEW c \in Credential, Logout(c) \/ ResetPassword(c) \/ OidcCallback(c) \/ Expire(c)
       PROVE  SessionsTypeOK'
  BY <1>16 DEF Logout, ResetPassword, OidcCallback, Expire, SessionsTypeOK
<1>17. ASSUME NEW c \in Credential, Exchange(c) PROVE SessionsTypeOK'
  <2>1. Tables
    BY <1>17 DEF Exchange, Fresh, SessionsTypeOK, JwtKind
  <2> QED
    BY <1>1, <1>2, <1>17, <2>1 DEF Exchange, SessionsTypeOK
<1>18. CASE UNCHANGED sessionVars
  BY <1>1, <1>2, <1>18 DEF sessionVars
<1> QED
  BY <1>6, <1>7, <1>8, <1>9, <1>11, <1>12, <1>13, <1>14, <1>15, <1>16, <1>17, <1>18 DEF SessionsNext

LEMMA SessionsTypeStarts == SessionsInit => SessionsTypeOK
<1> SUFFICES ASSUME SessionsInit PROVE SessionsTypeOK
  OBVIOUS
<1>1. credential \in [Credential -> JwtKind \cup RowKind \cup {"none"}]
  BY DEF SessionsInit
<1>2. account \in Account
  BY DEF SessionsInit, Account
<1>3. failures \in 0..LockoutAfter
  BY SessionsAssumption DEF SessionsInit
<1> QED
  BY <1>1, <1>2, <1>3 DEF SessionsInit, SessionsTypeOK
=============================================================================
