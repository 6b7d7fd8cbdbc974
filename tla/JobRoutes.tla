----------------------------- MODULE JobRoutes -----------------------------
(***************************************************************************)
(* The operators' routes on the jobs table (modules/jobs/routes) with the  *)
(* scheduler run beside them.  Sync handlers run on threads: a handler     *)
(* reads the row, checks it, and later commits.  SQLAlchemy's UPDATE names *)
(* only the columns whose value differs from the one read, and finds the   *)
(* row by its key alone, so what a handler will write is fixed when it     *)
(* reads: the SET clause of its statement.                                 *)
(*                                                                         *)
(* A time slot is a number; slots up to the clock are past.  Statuses      *)
(* submitted and rejected are no members of JobStatus: a row cannot be     *)
(* loaded with them, so no job ever has them and the approval routes'      *)
(* guards are never met.                                                   *)
(*                                                                         *)
(* Definitions whose name ends in "Fault" are bugs this code could have    *)
(* had; no action uses them.                                               *)
(***************************************************************************)
EXTENDS Naturals, FiniteSets

CONSTANTS
    Job,        \* primary keys of jobs
    Printer,    \* primary keys of printers
    NoPrinter,  \* printer_id NULL
    Caller,     \* threads of the server that run a handler
    Horizon     \* last time slot

ASSUME JobRoutesAssumption ==
    /\ NoPrinter \notin Printer
    /\ Horizon \in Nat

VARIABLES
    jobs,       \* the table: a row, or Absent
    call,       \* the statement each thread is about to flush, or NoCall
    run,        \* the scheduler run
    clock,      \* slots up to here have passed
    charges     \* deductions of each job since it last left completed, up to 2

jobVars == <<jobs, call, run, clock, charges>>

JobStatus == {"pending", "scheduled", "printing", "paused", "completed", "failed", "cancelled"}

Slot == 0 .. Horizon    \* 0: scheduled_start NULL

Column == [status |-> JobStatus, printer |-> Printer \cup {NoPrinter}, slot |-> Slot,
           hold |-> BOOLEAN]

IsSetClause(set) == /\ DOMAIN set \subseteq DOMAIN Column
                    /\ \A f \in DOMAIN set : set[f] \in Column[f]

(* No row: its key is not used yet, or its row was deleted.                *)
Absent == [status |-> "absent"]
Deleted == [status |-> "deleted"]

NoCall == [kind |-> "none"]

(* The columns an operation is about.                                      *)
StatusColumn == {"status"}
HoldColumn == {"hold"}
PlaceColumns == {"status", "printer", "slot"}

NoRun == [phase |-> "idle"]

Exists(j) == jobs[j] \notin {Absent, Deleted}

(* The statement's columns: those a handler set to another value than read *)
(* (fault: every mapped column of the row is written back).                *)
ChangedFault(row, want) == [f \in DOMAIN row |-> IF f \in DOMAIN want THEN want[f] ELSE row[f]]
Changed(row, want) == [f \in {g \in DOMAIN want : want[g] # row[g]} |-> want[f]]

Updated(row, set) == [f \in DOMAIN row |-> IF f \in DOMAIN set THEN set[f] ELSE row[f]]

(* The rows of t after one statement for each job of a.                    *)
Rewritten(t, a) == [j \in Job |-> IF j \in DOMAIN a THEN Updated(t[j], a[j]) ELSE t[j]]

(* A new row (fault: with the status of the approval workflow, which the   *)
(* Enum column does not load).                                             *)
PendingFault(p, h) == [status |-> "submitted", printer |-> p, slot |-> 0, hold |-> h]
Pending(p, h) == [status |-> "pending", printer |-> p, slot |-> 0, hold |-> h]

JobsInit ==
    /\ jobs = [j \in Job |-> Absent]
    /\ call = [c \in Caller |-> NoCall]
    /\ run = NoRun
    /\ clock = 0
    /\ charges = [j \in Job |-> 0]

(* SQLite has one writer: from its flush to its commit the run is it.      *)
WriterFree == run.phase # "flushed"

-----------------------------------------------------------------------------
(* New rows, each by one insert of a pending job: create_job and bulk (no  *)
(* printer), batch (a preferred printer, hold for queue_only), a preset, a *)
(* model of the library (a printer or none), and repeat, which keeps the   *)
(* original's printer.                                                     *)

Insert(j, row) ==
    /\ jobs[j] = Absent /\ WriterFree
    /\ jobs' = [jobs EXCEPT ![j] = row]
    /\ UNCHANGED <<call, run, clock, charges>>

CreateJob(j) == \E h \in BOOLEAN : Insert(j, Pending(NoPrinter, h))

CreateBatch(j) == \E p \in Printer, h \in BOOLEAN : Insert(j, Pending(p, h))

ScheduleFromPreset(j) == Insert(j, Pending(NoPrinter, FALSE))

ScheduleFromModel(j) ==
    \E p \in Printer \cup {NoPrinter} : Insert(j, Pending(p, FALSE))

RepeatJob(j) == \E o \in Job : Exists(o) /\ Insert(j, Pending(jobs[o].printer, FALSE))

-----------------------------------------------------------------------------
(* Handlers that read, check and commit later.                             *)

Begin(c, j, cols, want) ==
    /\ call[c] = NoCall /\ Exists(j)
    /\ call' = [call EXCEPT ![c] =
                 [kind |-> "update", job |-> j, cols |-> cols, set |-> Changed(jobs[j], want)]]
    /\ UNCHANGED <<jobs, run, clock, charges>>

Waiting(j) == jobs[j].status \in {"pending", "scheduled"}

BeginStart(c, j) == Waiting(j) /\ Begin(c, j, StatusColumn, [status |-> "printing"])

(* Any status will do for fail_job and reset_job.                          *)
BeginFail(c, j) == Begin(c, j, StatusColumn, [status |-> "failed"])

BeginReset(c, j) ==
    Begin(c, j, PlaceColumns, [status |-> "pending", printer |-> NoPrinter, slot |-> 0])

BeginCancel(c, j) == Waiting(j) /\ Begin(c, j, StatusColumn, [status |-> "cancelled"])

(* move_job: refused when another scheduled or printing job has the slot   *)
Conflict(j, p, s) ==
    \E o \in Job \ {j} : /\ jobs[o].status \in {"scheduled", "printing"}
                         /\ jobs[o].printer = p /\ jobs[o].slot = s

BeginMove(c, j) ==
    \E p \in Printer, s \in Slot \ {0} :
        /\ ~Conflict(j, p, s)
        /\ Begin(c, j, PlaceColumns,
                 [status |-> IF jobs[j].status = "pending" THEN "scheduled" ELSE jobs[j].status,
                  printer |-> p, slot |-> s])

(* update_job: any field of JobUpdate, here the status or the hold         *)
BeginPatch(c, j) ==
    \/ \E s \in JobStatus : Begin(c, j, StatusColumn, [status |-> s])
    \/ \E h \in BOOLEAN : Begin(c, j, HoldColumn, [hold |-> h])

(* Raw statements name their columns whatever was read.                    *)
BeginRaw(c, j, s) ==
    /\ call[c] = NoCall /\ Exists(j) /\ jobs[j].printer # NoPrinter
    /\ call' = [call EXCEPT ![c] =
                 [kind |-> "update", job |-> j, cols |-> StatusColumn, set |-> [status |-> s]]]
    /\ UNCHANGED <<jobs, run, clock, charges>>

(* link_job_to_print: the status follows that of the print's row, on the   *)
(* job's printer, and the job's own is not looked at                       *)
BeginLink(c, j) == \E s \in {"completed", "failed", "printing"} : BeginRaw(c, j, s)

(* dispatch_job: checked before the upload, written after it               *)
BeginDispatchRoute(c, j) == Waiting(j) /\ BeginRaw(c, j, "printing")

BeginDelete(c, j) ==
    /\ call[c] = NoCall /\ Exists(j)
    /\ call' = [call EXCEPT ![c] = [kind |-> "delete", job |-> j, cols |-> {}, set |-> <<>>]]
    /\ UNCHANGED <<jobs, run, clock, charges>>

(* The request ends without its commit: the upload of a dispatch fails, a  *)
(* statement raises.                                                       *)
Abandon(c) ==
    /\ call[c] # NoCall
    /\ call' = [call EXCEPT ![c] = NoCall]
    /\ UNCHANGED <<jobs, run, clock, charges>>

(* The table is written; a job that leaves completed starts a new account. *)
Store(newJobs) ==
    /\ jobs' = newJobs
    /\ charges' = [j \in Job |-> IF newJobs[j].status = "completed" THEN charges[j] ELSE 0]

(* The commit.  An UPDATE that finds no row raises (ORM) or does nothing   *)
(* (raw); either way the request ends.                                     *)
Commit(c) ==
    /\ call[c] # NoCall /\ WriterFree
    /\ LET j == call[c].job
           row == IF call[c].kind = "delete" THEN Deleted ELSE Updated(jobs[j], call[c].set)
       IN  Store(IF Exists(j) THEN [jobs EXCEPT ![j] = row] ELSE jobs)
    /\ call' = [call EXCEPT ![c] = NoCall]
    /\ UNCHANGED <<run, clock>>

-----------------------------------------------------------------------------
(* Handlers whose condition is in the WHERE of their statement.            *)

(* complete_job: the UPDATE decides who deducts; the rest of the request   *)
(* is the same transaction (fault: the first revision's check of the row   *)
(* read before, which a concurrent call passes too).                       *)
WinsFault(j) == TRUE
Wins(j) == jobs[j].status # "completed"

CompleteJob(j) ==
    /\ Exists(j) /\ WriterFree /\ Wins(j)
    /\ jobs' = [jobs EXCEPT ![j].status = "completed"]
    /\ charges' = [charges EXCEPT ![j] = IF @ < 2 THEN @ + 1 ELSE @]
    /\ UNCHANGED <<call, run, clock>>

(* bulk_update_jobs on some jobs                                           *)
BulkUpdate(S) ==
    LET cancelled == {j \in S : jobs[j].status = "pending"}
        deleted == {j \in S : jobs[j].status \in {"pending", "cancelled"}}
        held == {j \in S : Exists(j)}
    IN  /\ WriterFree
        /\ \/ Store([j \in Job |-> IF j \in cancelled THEN [jobs[j] EXCEPT !.status = "cancelled"]
                                   ELSE jobs[j]])
           \/ Store([j \in Job |-> IF j \in deleted THEN Deleted ELSE jobs[j]])
           \/ \E h \in BOOLEAN :
                Store([j \in Job |-> IF j \in held THEN [jobs[j] EXCEPT !.hold = h] ELSE jobs[j]])
        /\ UNCHANGED <<call, run, clock>>

-----------------------------------------------------------------------------
(* Scheduler.run, once for each POST /scheduler/run: nothing else calls it. *)
(* Stale schedules are reset and flushed, which makes the run the writer;  *)
(* then pending jobs are read and written at the commit.                   *)
Stale(j) == jobs[j].status = "scheduled" /\ jobs[j].slot \in 1 .. clock

BeginSchedule ==
    /\ run = NoRun
    /\ UNCHANGED <<jobs, call, clock, charges>>
    /\ run' = [phase |-> "cleaning",
               stale |-> [j \in {i \in Job : Stale(i)} |->
                            Changed(jobs[j], [status |-> "pending", printer |-> NoPrinter, slot |-> 0])]]

(* The flush, not committed yet: others still read the rows as they were.  *)
(* A row deleted since the read makes the whole run fail.                  *)
FlushStale ==
    /\ run.phase = "cleaning" /\ DOMAIN run.stale # {}
    /\ run' = IF \A j \in DOMAIN run.stale : Exists(j)
              THEN [phase |-> "flushed", stale |-> run.stale]
              ELSE NoRun
    /\ UNCHANGED <<jobs, call, clock, charges>>

(* Where a pending job of t may go: any slot to come that no scheduled,    *)
(* printing or completed job of the printer has, each taken once.          *)
Booked(t) == {<<t[j].printer, t[j].slot>> :
                 j \in {i \in Job : t[i].status \in {"scheduled", "printing", "completed"}}}

Assignments(t) ==
    LET free == (Printer \X (clock + 1 .. Horizon)) \ Booked(t)
        todo == {j \in Job : t[j].status = "pending" /\ ~t[j].hold}
    IN  UNION {{a \in [S -> free] : \A i, j \in S : i # j => a[i] # a[j]} : S \in SUBSET todo}

Assigned(t, a) ==
    [j \in DOMAIN a |-> Changed(t[j], [status |-> "scheduled", printer |-> a[j][1], slot |-> a[j][2]])]

(* With stale rows flushed the reads and the commit are one transaction.   *)
CommitFlushed ==
    /\ run.phase = "flushed"
    /\ run' = NoRun
    /\ UNCHANGED <<call, clock>>
    /\ LET cleaned == Rewritten(jobs, run.stale)
       IN  \E a \in Assignments(cleaned) : Store(Rewritten(cleaned, Assigned(cleaned, a)))

(* Without, other requests commit between the reads and the commit.        *)
PickSlots ==
    /\ run.phase = "cleaning" /\ DOMAIN run.stale = {}
    /\ UNCHANGED <<jobs, call, clock, charges>>
    /\ \E a \in Assignments(jobs) : run' = [phase |-> "picked", set |-> Assigned(jobs, a)]

(* The run ends before its commit: there is no active printer, or a        *)
(* statement raises.  What it flushed is rolled back.                      *)
RollBack ==
    /\ run # NoRun
    /\ run' = NoRun
    /\ UNCHANGED <<jobs, call, clock, charges>>

CommitPicked ==
    /\ run.phase = "picked"
    /\ run' = NoRun
    /\ UNCHANGED <<call, clock>>
    /\ IF \A j \in DOMAIN run.set : Exists(j)
       THEN Store(Rewritten(jobs, run.set))
       ELSE UNCHANGED <<jobs, charges>>

PassSlot ==
    /\ clock < Horizon
    /\ clock' = clock + 1
    /\ UNCHANGED <<jobs, call, run, charges>>

-----------------------------------------------------------------------------
SchedulerStep ==
    BeginSchedule \/ FlushStale \/ CommitFlushed \/ PickSlots \/ CommitPicked \/ RollBack

CreateStep(j) ==
    \/ CreateJob(j) \/ CreateBatch(j) \/ ScheduleFromPreset(j) \/ ScheduleFromModel(j)
    \/ RepeatJob(j)

HandlerStep(c, j) ==
    \/ BeginStart(c, j) \/ BeginFail(c, j) \/ BeginReset(c, j) \/ BeginCancel(c, j)
    \/ BeginMove(c, j) \/ BeginPatch(c, j) \/ BeginLink(c, j) \/ BeginDispatchRoute(c, j)
    \/ BeginDelete(c, j)

JobsNext ==
    \/ \E j \in Job : CreateStep(j) \/ CompleteJob(j)
    \/ \E c \in Caller : Commit(c) \/ Abandon(c) \/ \E j \in Job : HandlerStep(c, j)
    \/ \E S \in SUBSET Job : BulkUpdate(S)
    \/ SchedulerStep
    \/ PassSlot

JobsSpec == JobsInit /\ [][JobsNext]_jobVars

-----------------------------------------------------------------------------
(* Properties                                                              *)

JobsTypeOK ==
    /\ \A j \in Job : Exists(j) => DOMAIN jobs[j] = DOMAIN Column /\ IsSetClause(jobs[j])
    /\ \A c \in Caller : call[c] # NoCall =>
            call[c].job \in Job /\ IsSetClause(call[c].set)
    /\ run.phase \in {"idle", "cleaning", "flushed", "picked"}
    /\ clock \in Slot
    /\ charges \in [Job -> 0 .. 2]

(* Concurrent and repeated /complete calls deduct a job's filament once    *)
(* (docstring of complete_job, jobs_lifecycle.py:81-101), whatever other   *)
(* requests and scheduler runs come between.                               *)
ChargedOnce == \A j \in Job : charges[j] <= 1

(* A handler that read the row long ago does not undo what others wrote    *)
(* since: its commit changes its own job only, and only the columns the    *)
(* operation is about.  A hold set by an operator survives every request    *)
(* and every scheduler run that does not mention it.                       *)
ColumnsSurvive ==
    [][\A j \in Job, f \in DOMAIN Column :
         Exists(j) /\ Exists(j)' /\ jobs'[j][f] # jobs[j][f] =>
            /\ \A c \in Caller : call'[c] # call[c] => j = call[c].job /\ f \in call[c].cols
            /\ run' # run => f \in PlaceColumns]_jobVars
=============================================================================
