--------------------------- MODULE PrintTracking ---------------------------
(***************************************************************************)
(* How the prints of one Bambu printer become rows of print_jobs and move  *)
(* the rows of jobs (backend/modules/printers/monitors/mqtt_printer.py and *)
(* mqtt_job_lifecycle.py): the printer and its MQTT reports, the monitor   *)
(* whose network thread handles them while its main thread recovers rows   *)
(* left running, the HMS error path, the dispatch threads that start       *)
(* prints, and the scheduler that assigns jobs to the printer.             *)
(*                                                                         *)
(* The printer's own behaviour is external: it starts, pauses and ends     *)
(* prints and publishes its state on every change and now and then between *)
(* (at most MaxWire reports wait for the callback).  A print is numbered,  *)
(* and file is the job whose file it prints, NoJob when it is none's.      *)
(*                                                                         *)
(* Definitions whose name ends in "Fault" are bugs this code could have    *)
(* had; no action uses them.  They show that the properties can fail.      *)
(***************************************************************************)
EXTENDS Naturals, Sequences, FiniteSets

CONSTANTS
    Job,            \* rows of jobs the printer may print
    NoJob,          \* no job
    Name,           \* the name a job's file, item or model is matched by
    Dispatcher,     \* threads that run POST /jobs/{id}/dispatch
    MaxPrints,      \* bound on the prints the printer starts
    MaxWire,        \* bound on reports not yet handled
    MaxDrops,       \* bound on connections lost
    MaxRestarts,    \* bound on monitors stopped
    StopCodes,      \* may the printer raise a print-stopping HMS code
    DbErrors,       \* may a statement or commit of the monitor raise
    Refused,        \* handlers with a statement the database cannot prepare
    PromptStatus,   \* does a report always arrive within recovery's 3 s
    SerialRuns      \* is no job written between a scheduler's read and commit

ASSUME TrackingAssumption ==
    /\ NoJob \notin Job
    /\ MaxPrints \in Nat /\ MaxWire \in Nat \ {0}
    /\ MaxDrops \in Nat /\ MaxRestarts \in Nat
    /\ StopCodes \in BOOLEAN /\ DbErrors \in BOOLEAN /\ PromptStatus \in BOOLEAN
    /\ SerialRuns \in BOOLEAN

ASSUME RefusedAssumption == Refused \subseteq {"start", "end", "stop"}

VARIABLES
    printer,    \* the printer: gcode_state, print number, its file, HMS flag
    outcome,    \* the state in which each print ended
    flagged,    \* prints during which a print-stopping code was up
    online,     \* is the monitor's MQTT connection up
    wire,       \* reports published and not yet handled
    drops,      \* connections lost so far
    restarts,   \* monitors stopped so far
    mon,        \* the PrinterMonitor object and where its two threads are
    rows,       \* print_jobs rows of this printer, by id
    jobs,       \* status of each job, and whether printer_id is this printer
    planned,    \* pending jobs a scheduler run has read and not yet committed
    dispatch    \* where each dispatch thread is

environment == <<printer, outcome, flagged>>
connection == <<online, wire, drops, restarts>>
tables == <<rows, jobs>>
vars == <<environment, connection, mon, tables, planned, dispatch>>

Active == {"RUNNING", "PAUSE"}
Resting == {"IDLE", "FINISH", "FAILED"}
GcodeState == Active \cup Resting \cup {"PREPARE"}
Ended == {"completed", "failed", "cancelled"}
JobStatus == {"pending", "scheduled", "printing"} \cup Ended
Queued == {"scheduled", "pending"}
MaybeJob == Job \cup {NoJob}

Report == [g : GcodeState, print : Nat, file : MaybeJob, hms : BOOLEAN]

(* _state before the first report has been merged.                         *)
NoReport == [g |-> "NONE", print |-> 0, file |-> NoJob, hms |-> FALSE]

(* A row of print_jobs.  print is the print it was inserted for; made says *)
(* that scheduled_job_id names a jobs row inserted when the print ended.   *)
Row == [status : {"running"} \cup Ended, link : MaybeJob, made : BOOLEAN, print : Nat]

(* PrinterMonitor: _state, _last_gcode_state, _current_job_id (0: None),   *)
(* _linked_job_id; pc is the callback's place, rec the recovery's, which   *)
(* remembers the rows it read and, in at, the print of the time it began.  *)
Monitor == [st : Report \cup {NoReport}, last : GcodeState \cup {"NONE"},
            cur : Nat, linked : MaybeJob, pc : {"idle", "merged"},
            rec : {"down", "select", "sleep", "done"}, snap : SUBSET Nat, at : Nat]

NewMonitor == [st |-> NoReport, last |-> "NONE", cur |-> 0, linked |-> NoJob,
               pc |-> "idle", rec |-> "select", snap |-> {}, at |-> 0]

NoMonitor == [NewMonitor EXCEPT !.rec = "down"]

Thread == [pc : {"idle", "sending", "sent"}, job : MaybeJob]
IdleThread == [pc |-> "idle", job |-> NoJob]

RunningRows == {r \in DOMAIN rows : rows[r].status = "running"}

Latest(R) == CHOOSE r \in R : \A q \in R : q <= r

TypeOK ==
    /\ printer \in Report
    /\ outcome \in [1..MaxPrints -> Resting \cup {"NONE"}]
    /\ flagged \subseteq 1..MaxPrints
    /\ online \in BOOLEAN
    /\ wire \in Seq(Report)
    /\ drops \in 0..MaxDrops /\ restarts \in 0..MaxRestarts
    /\ mon \in Monitor
    /\ rows \in Seq(Row)
    /\ jobs \in [Job -> [status : JobStatus, here : BOOLEAN]]
    /\ planned \subseteq Job
    /\ dispatch \in [Dispatcher -> Thread]

(* The monitor has connected and recovered nothing; jobs wait for the      *)
(* scheduler, some of them created for this printer.                       *)
Init ==
    /\ printer = [g |-> "IDLE", print |-> 0, file |-> NoJob, hms |-> FALSE]
    /\ outcome = [p \in 1..MaxPrints |-> "NONE"]
    /\ flagged = {}
    /\ online = TRUE
    /\ wire = <<printer>>
    /\ drops = 0 /\ restarts = 0
    /\ mon = [NewMonitor EXCEPT !.rec = "done"]
    /\ rows = <<>>
    /\ jobs \in [Job -> [status : {"pending"}, here : BOOLEAN]]
    /\ planned = {}
    /\ dispatch = [d \in Dispatcher |-> IdleThread]

-----------------------------------------------------------------------------
(* The printer.                                                            *)

Publish(p) ==
    /\ printer' = p
    /\ online => Len(wire) < MaxWire
    /\ wire' = IF online THEN Append(wire, p) ELSE wire
    /\ UNCHANGED <<online, drops, restarts>>

StartPrint(f) ==
    /\ printer.g \in Resting
    /\ printer.print < MaxPrints
    /\ Publish([printer EXCEPT !.g = "PREPARE", !.print = @ + 1, !.file = f])
    /\ flagged' = IF printer.hms THEN flagged \cup {printer.print + 1} ELSE flagged
    /\ UNCHANGED outcome

(* Someone starts a file at the printer or from the slicer.                *)
LocalPrint ==
    /\ \E f \in MaybeJob : StartPrint(f)
    /\ UNCHANGED <<mon, tables, planned, dispatch>>

ChangeState(from, to) ==
    /\ printer.g \in from
    /\ Publish([printer EXCEPT !.g = to])
    /\ UNCHANGED <<flagged, mon, tables, planned, dispatch>>

(* Heating up for a new print takes longer than recovery's three seconds.  *)
HeatUp ==
    /\ mon.rec \in {"select", "sleep"} => printer.print = mon.at
    /\ ChangeState({"PREPARE"}, "RUNNING")
    /\ UNCHANGED outcome

PausePrint == ChangeState({"RUNNING"}, "PAUSE") /\ UNCHANGED outcome
ResumePrint == ChangeState({"PAUSE"}, "RUNNING") /\ UNCHANGED outcome

EndPrint(from, to) ==
    /\ ChangeState(from, to)
    /\ outcome' = [outcome EXCEPT ![printer.print] = to]

FinishPrint == EndPrint({"RUNNING"}, "FINISH")

AbortPrint == \E to \in {"FAILED", "IDLE"} : EndPrint({"PREPARE"} \cup Active, to)

Settle == ChangeState({"FINISH", "FAILED"}, "IDLE") /\ UNCHANGED outcome

RaiseStopCode ==
    /\ StopCodes
    /\ printer.g \in Active
    /\ ~printer.hms
    /\ Publish([printer EXCEPT !.hms = TRUE])
    /\ flagged' = flagged \cup {printer.print}
    /\ UNCHANGED <<outcome, mon, tables, planned, dispatch>>

ClearStopCode ==
    /\ printer.hms
    /\ Publish([printer EXCEPT !.hms = FALSE])
    /\ UNCHANGED <<outcome, flagged, mon, tables, planned, dispatch>>

Telemetry ==
    /\ wire = <<>>
    /\ Publish(printer)
    /\ UNCHANGED <<outcome, flagged, mon, tables, planned, dispatch>>

-----------------------------------------------------------------------------
(* The connection, and the daemon that replaces dead monitors.             *)

LoseConnection ==
    /\ online
    /\ drops < MaxDrops
    /\ drops' = drops + 1
    /\ online' = FALSE
    /\ wire' = <<>>
    /\ UNCHANGED <<environment, restarts, mon, tables, planned, dispatch>>

(* The MQTT client's own reconnect: the same monitor, which asks for a     *)
(* full status in on_connect.                                              *)
Reconnect ==
    /\ ~online
    /\ mon.rec # "down"
    /\ online' = TRUE
    /\ wire' = <<printer>>
    /\ UNCHANGED <<environment, drops, restarts, mon, tables, planned, dispatch>>

(* The health check drops a dead monitor, or the process dies.             *)
StopMonitor ==
    /\ mon.rec # "down"
    /\ restarts < MaxRestarts
    /\ restarts' = restarts + 1
    /\ online' = FALSE
    /\ wire' = <<>>
    /\ mon' = NoMonitor
    /\ UNCHANGED <<environment, drops, tables, planned, dispatch>>

Connect ==
    /\ mon.rec = "down"
    /\ mon' = [NewMonitor EXCEPT !.at = printer.print]
    /\ online' = TRUE
    /\ wire' = <<printer>>
    /\ UNCHANGED <<environment, drops, restarts, tables, planned, dispatch>>

-----------------------------------------------------------------------------
(* The callback _on_status, one report at a time under self._lock.         *)

(* _fail_active_job_for_hms, on the codes of the state merged so far: the  *)
(* running row and its linked job fail in one transaction.                 *)
FailLinkedFault(j) == jobs          \* linked job forgotten
FailLinked(j) ==
    [k \in Job |-> IF k = j THEN [jobs[k] EXCEPT !.status = "failed"] ELSE jobs[k]]

FailForStopCode ==
    /\ "stop" \notin Refused
    /\ mon.pc = "idle"
    /\ wire # <<>>
    /\ mon.st.hms
    /\ RunningRows # {}
    /\ LET r == Latest(RunningRows) IN
           /\ rows' = [rows EXCEPT ![r].status = "failed"]
           /\ jobs' = FailLinked(rows[r].link)
    /\ UNCHANGED <<environment, connection, mon, planned, dispatch>>

MergeReport ==
    /\ mon.pc = "idle"
    /\ wire # <<>>
    /\ mon' = [mon EXCEPT !.st = Head(wire), !.pc = "merged"]
    /\ wire' = Tail(wire)
    /\ UNCHANGED <<environment, online, drops, restarts, tables, planned, dispatch>>

(* The state change the callback sees, and the branches of                 *)
(* _on_state_change: entering Active untracked, and leaving it.            *)
Changed == mon.pc = "merged" /\ mon.st.g # mon.last

StartSeenFault == Changed /\ mon.st.g \in Active /\ mon.last # "RUNNING" \* tracked or not
StartSeen ==
    /\ Changed
    /\ mon.st.g \in Active /\ mon.cur = 0
    /\ mon.last # "RUNNING"

EndSeenFault == Changed /\ mon.st.g \in Resting /\ mon.last = "RUNNING"  \* PAUSE missing
EndSeen == Changed /\ mon.st.g \in Resting /\ mon.last \in Active

(* What the callback leaves behind in every branch: _last_gcode_state.     *)
Handled == [mon EXCEPT !.pc = "idle", !.last = mon.st.g]

(* _job_started finds a running row, as after a reconnect.                 *)
ResumableFault == {}                \* no look at the database first
Resumable == RunningRows

ResumeRow ==
    /\ StartSeen
    /\ Resumable # {}
    /\ LET r == Latest(Resumable) IN
           mon' = [Handled EXCEPT !.cur = r, !.linked = rows[r].link]
    /\ UNCHANGED <<environment, connection, tables, planned, dispatch>>

(* record_job_started.  Stale schedules of the printer are swept; the job  *)
(* is matched by name, else by a sole layer count or a sole candidate near *)
(* its scheduled time (either may pick any candidate or none); with no     *)
(* match the printer's scheduled jobs are bumped.                          *)
Swept(old) == {j \in old : jobs[j].here /\ jobs[j].status = "scheduled"}

Candidates(old) ==
    {j \in Job \ Swept(old) : jobs[j].here /\ jobs[j].status \in Queued}

Matches(C) ==
    LET named == {j \in C : mon.st.file # NoJob /\ Name[j] = Name[mon.st.file]}
    IN  IF named # {} THEN named ELSE C \cup {NoJob}

Unassigned == [status |-> "pending", here |-> FALSE]
Assigned == [status |-> "scheduled", here |-> TRUE]

BumpedFault(old, j) == {k \in Job : jobs[k].here}   \* no status in the WHERE
Bumped(old, j) ==
    Swept(old) \cup {k \in Job : j = NoJob /\ jobs[k].here /\ jobs[k].status = "scheduled"}

InsertRow ==
    /\ StartSeen
    /\ "start" \notin Refused
    /\ Resumable = {} \/ DbErrors       \* an error of the SELECT is swallowed
    /\ \E old \in SUBSET Job : \E j \in Matches(Candidates(old)) :
           /\ mon' = [Handled EXCEPT !.cur = Len(rows) + 1, !.linked = j]
           /\ rows' = Append(rows, [status |-> "running", link |-> j,
                                    made |-> FALSE, print |-> mon.st.print])
           /\ jobs' = [k \in Job |->
                  IF k = j THEN [jobs[k] EXCEPT !.status = "printing"]
                  ELSE IF k \in Bumped(old, j) THEN Unassigned
                  ELSE jobs[k]]
    /\ UNCHANGED <<environment, connection, planned, dispatch>>

(* The transaction of record_job_started is rolled back: nothing tracked.  *)
StartNotRecorded ==
    /\ StartSeen
    /\ DbErrors \/ ("start" \in Refused /\ Resumable = {})
    /\ mon' = Handled
    /\ UNCHANGED <<environment, connection, tables, planned, dispatch>>

(* record_job_ended.                                                       *)
RawConclusionFault(g) == g          \* gcode_state stored as the status
ConclusionFault(g) == IF g = "FAILED" THEN "failed" ELSE "completed"
Conclusion(g) ==
    CASE g = "FINISH" -> "completed" [] g = "FAILED" -> "failed" [] g = "IDLE" -> "cancelled"

AlreadyEndedFault(r) == FALSE       \* no guard against a second end
AlreadyEnded(r) == rows[r].status \in Ended

Untracked == [Handled EXCEPT !.cur = 0, !.linked = NoJob]

ConcludeLinkedFault(s) == jobs      \* linked job left as it is
ConcludeLinked(s) ==
    [k \in Job |-> IF k = mon.linked THEN [jobs[k] EXCEPT !.status = s] ELSE jobs[k]]

RecordEnd ==
    /\ EndSeen
    /\ "end" \notin Refused
    /\ mon.cur # 0 /\ ~AlreadyEnded(mon.cur)
    /\ LET s == Conclusion(mon.st.g) IN
           /\ rows' = [rows EXCEPT ![mon.cur] =
                  IF mon.linked = NoJob
                  THEN [@ EXCEPT !.status = s, !.link = NoJob, !.made = TRUE]
                  ELSE [@ EXCEPT !.status = s]]
           /\ jobs' = ConcludeLinked(s)
    /\ mon' = Untracked
    /\ UNCHANGED <<environment, connection, planned, dispatch>>

(* The row ended before (HMS, recovery), or the transaction raised.        *)
EndNotRecorded ==
    /\ EndSeen
    /\ mon.cur # 0 /\ (AlreadyEnded(mon.cur) \/ DbErrors \/ "end" \in Refused)
    /\ mon' = Untracked
    /\ UNCHANGED <<environment, connection, tables, planned, dispatch>>

(* Every other report: no change, a change within Active while tracked, an *)
(* end with nothing tracked.  FINISH or FAILED to IDLE starts _try_dispatch,*)
(* which imports a module that does not exist and logs the ImportError.    *)
NothingToRecord ==
    /\ mon.pc = "merged"
    /\ ~StartSeen
    /\ EndSeen => mon.cur = 0
    /\ mon' = Handled
    /\ UNCHANGED <<environment, connection, tables, planned, dispatch>>

-----------------------------------------------------------------------------
(* _recover_orphaned_jobs, on the main thread, without self._lock.         *)

RecoverSelect ==
    /\ mon.rec = "select"
    /\ \/ /\ RunningRows # {}
          /\ mon' = [mon EXCEPT !.rec = "sleep", !.snap = RunningRows]
       \/ /\ RunningRows = {} \/ DbErrors
          /\ mon' = [mon EXCEPT !.rec = "done", !.at = 0]
    /\ UNCHANGED <<environment, connection, tables, planned, dispatch>>

(* After three seconds: the printer prints, the latest row read is tracked *)
(* again (its linked job is not) and older ones are cancelled; otherwise,  *)
(* no report having come included, all are completed.                      *)
PrintingFault == mon.st.g = "RUNNING"   \* a paused print taken for idle
Printing == mon.st.g \in Active

RecoveredStatus(r) ==
    IF ~Printing THEN "completed"
    ELSE IF r = Latest(mon.snap) THEN rows[r].status ELSE "cancelled"

RecoverRows ==
    /\ mon.rec = "sleep"
    /\ PromptStatus => mon.st # NoReport
    /\ mon' = [mon EXCEPT !.rec = "done", !.snap = {}, !.at = 0,
                          !.cur = IF Printing THEN Latest(mon.snap) ELSE @]
    /\ rows' = [r \in DOMAIN rows |->
                  IF r \in mon.snap THEN [rows[r] EXCEPT !.status = RecoveredStatus(r)]
                                    ELSE rows[r]]
    /\ UNCHANGED <<environment, connection, jobs, planned, dispatch>>

RecoveryNotCommitted ==
    /\ mon.rec = "sleep"
    /\ DbErrors
    /\ PromptStatus => mon.st # NoReport
    /\ mon' = [mon EXCEPT !.rec = "done", !.snap = {}, !.at = 0,
                          !.cur = IF Printing THEN Latest(mon.snap) ELSE @]
    /\ UNCHANGED <<environment, connection, tables, planned, dispatch>>

-----------------------------------------------------------------------------
(* Scheduler.run: schedules two hours late go back to pending, and some of *)
(* the pending jobs are assigned to this printer.  Sweeping takes the write*)
(* lock; without it jobs are read first and written by id at the commit.   *)
RunScheduler ==
    /\ \E old \in SUBSET {j \in Job : jobs[j].status = "scheduled"} :
       \E new \in SUBSET (old \cup {j \in Job : jobs[j].status = "pending"}) :
           jobs' = [j \in Job |->
               IF j \in new THEN Assigned ELSE IF j \in old THEN Unassigned ELSE jobs[j]]
    /\ UNCHANGED <<environment, connection, mon, rows, planned, dispatch>>

BeginRun ==
    /\ ~SerialRuns
    /\ planned = {}
    /\ planned' = {j \in Job : jobs[j].status = "pending"}
    /\ UNCHANGED <<environment, connection, mon, tables, dispatch>>

CommitRun ==
    /\ planned # {}
    /\ planned' = {}
    /\ \E new \in SUBSET planned :
           jobs' = [j \in Job |-> IF j \in new THEN Assigned ELSE jobs[j]]
    /\ UNCHANGED <<environment, connection, mon, rows, dispatch>>

(* dispatch_job: the status is read, the file uploaded and the start       *)
(* command published, the status written at the end.                       *)
BeginDispatch(d, j) ==
    /\ dispatch[d].pc = "idle"
    /\ jobs[j].here /\ jobs[j].status \in Queued
    /\ dispatch' = [dispatch EXCEPT ![d] = [pc |-> "sending", job |-> j]]
    /\ UNCHANGED <<environment, connection, mon, tables, planned>>

FailDispatch(d) ==
    /\ dispatch[d].pc = "sending"
    /\ dispatch' = [dispatch EXCEPT ![d] = IdleThread]
    /\ UNCHANGED <<environment, connection, mon, tables, planned>>

(* A printer that is busy ignores the command; publishing it succeeds.     *)
SendPrint(d) ==
    /\ dispatch[d].pc = "sending"
    /\ dispatch' = [dispatch EXCEPT ![d].pc = "sent"]
    /\ \/ StartPrint(dispatch[d].job)
       \/ printer.g \notin Resting /\ UNCHANGED <<environment, connection>>
    /\ UNCHANGED <<mon, tables, planned>>

MarkPrinting(d) ==
    /\ dispatch[d].pc = "sent"
    /\ dispatch' = [dispatch EXCEPT ![d] = IdleThread]
    /\ \/ jobs' = [jobs EXCEPT ![dispatch[d].job].status = "printing"]
       \/ UNCHANGED jobs                   \* the error of the UPDATE is logged
    /\ UNCHANGED <<environment, connection, mon, rows, planned>>

-----------------------------------------------------------------------------
PrinterStep ==
    \/ LocalPrint \/ HeatUp \/ PausePrint \/ ResumePrint \/ FinishPrint \/ AbortPrint
    \/ Settle \/ RaiseStopCode \/ ClearStopCode \/ Telemetry

ConnectionStep == LoseConnection \/ Reconnect \/ StopMonitor \/ Connect

CallbackStep ==
    \/ FailForStopCode \/ MergeReport \/ ResumeRow \/ InsertRow \/ StartNotRecorded
    \/ RecordEnd \/ EndNotRecorded \/ NothingToRecord

RecoveryStep == RecoverSelect \/ RecoverRows \/ RecoveryNotCommitted

DispatchStep(d) ==
    \/ \E j \in Job : BeginDispatch(d, j)
    \/ FailDispatch(d) \/ SendPrint(d) \/ MarkPrinting(d)

Next ==
    \/ PrinterStep \/ ConnectionStep \/ CallbackStep \/ RecoveryStep
    \/ RunScheduler \/ BeginRun \/ CommitRun
    \/ \E d \in Dispatcher : DispatchStep(d)

Spec == Init /\ [][Next]_vars

(* The threads of the monitor and of the dispatcher run, the daemon        *)
(* reconnects, and the printer goes on with a print until it is over.      *)
(* Its steps are strongly fair since they wait for room on the wire (the   *)
(* model's bound) and a print may be paused again and again.               *)
Fairness ==
    /\ WF_vars(MergeReport)
    /\ WF_vars(CallbackStep /\ mon.pc = "merged")
    /\ WF_vars(RecoveryStep)
    /\ WF_vars(Reconnect) /\ WF_vars(Connect)
    /\ SF_vars(HeatUp) /\ SF_vars(ResumePrint) /\ SF_vars(FinishPrint)
    /\ \A d \in Dispatcher : WF_vars(FailDispatch(d) \/ SendPrint(d)) /\ WF_vars(MarkPrinting(d))

FairSpec == Spec /\ Fairness

-----------------------------------------------------------------------------
(* At most one print_jobs row of the printer is running.                   *)
OneRunningRow == Cardinality(RunningRows) <= 1

(* A print has one row: neither a reconnect nor the recovery racing the    *)
(* first reports makes the monitor insert a second one.                    *)
OneRowPerPrint ==
    \A q, r \in DOMAIN rows : rows[q].print = rows[r].print => q = r

(* While its monitor is not replaced and the database answers, the rows of *)
(* a printer are an account of its prints (PrintLedger): one row each, in  *)
(* order, none before the last has ended, and no end is ever revised.      *)
Account == [r \in DOMAIN rows |-> [print |-> rows[r].print, status |-> rows[r].status]]
Ledger == INSTANCE PrintLedger WITH Prints <- 1..MaxPrints, Revisable <- FALSE, ledger <- Account
KeepsLedger == Ledger!Spec

(* Across restarts they remain such an account: all that a recovery racing *)
(* the first reports can do to it is to complete the newest entry, which   *)
(* may have ended, otherwise, while recovery slept.                        *)
RevisedLedger ==
    INSTANCE PrintLedger WITH Prints <- 1..MaxPrints, Revisable <- TRUE, ledger <- Account
KeepsRevisedLedger == RevisedLedger!Spec

(* Until the monitor is first replaced, the end of a row is recorded once: *)
(* neither the FINISH or FAILED report that follows an HMS failure, nor a  *)
(* stop code after an end, rewrites it.                                    *)
EndsAreFinal ==
    [][restarts = 0 => \A r \in DOMAIN rows : rows[r].status \in Ended =>
           rows'[r].status = rows[r].status]_vars

(* Until the monitor is first replaced, a job it linked follows its print: *)
(* it is printing exactly while its row runs, and takes the row's end.     *)
FollowPrints ==
    /\ \A j \in Job : jobs[j].status = "printing" =>
           \E r \in RunningRows : rows[r].link = j
    /\ \A r \in DOMAIN rows : rows[r].link # NoJob =>
           jobs[rows[r].link].status =
               IF rows[r].status = "running" THEN "printing" ELSE rows[r].status

JobsFollowPrints == restarts = 0 => FollowPrints

(* Whatever connection, restart and database do, a job never moves back:   *)
(* no print displaces a job that is printing or starts one that has ended. *)
(* (Recovery during a database error may make one end overwrite another.)  *)
Moves == {<<"pending", "scheduled">>, <<"scheduled", "pending">>}
    \cup (Queued \X {"printing"}) \cup ({"printing"} \X Ended) \cup (Ended \X Ended)

JobsMoveForward ==
    [][\A j \in Job : jobs'[j].status # jobs[j].status =>
           <<jobs[j].status, jobs'[j].status>> \in Moves]_vars

(* A row's status is what became of the print it was inserted for: no end  *)
(* is taken for another, whatever the order of reports and stop codes.     *)
OutcomeFaithful ==
    \A r \in DOMAIN rows : LET p == rows[r].print IN
        /\ rows[r].status = "completed" => outcome[p] = "FINISH"
        /\ rows[r].status = "cancelled" => outcome[p] = "IDLE"
        /\ rows[r].status = "failed" => outcome[p] = "FAILED" \/ p \in flagged

(* Every running row is closed at last, across outages and restarts.       *)
RowsClose ==
    \A r \in 1..(MaxPrints + MaxRestarts) :
        (r \in RunningRows) ~> (r \in DOMAIN rows /\ rows[r].status \in Ended)

(* A job that is printing ends (FEATURES.md, job lifecycle states), unless *)
(* the monitor is replaced, which forgets the job it linked.               *)
PrintingConcludes ==
    \A j \in Job :
        (jobs[j].status = "printing") ~> (jobs[j].status \in Ended \/ restarts > 0)

(* A job that is printing, its file on the printer and no dispatch of it   *)
(* under way, ends, whoever started the print (FEATURES.md, lifecycle).    *)
PrintedJobsConclude ==
    \A j \in Job :
        (/\ jobs[j].status = "printing"
         /\ printer.g \in Active /\ printer.file = j
         /\ \A d \in Dispatcher : dispatch[d].job # j) ~> (jobs[j].status # "printing")

(* A monitor that has seen its printer print tracks a row of print_jobs:   *)
(* the start of every print is recorded (record_job_started).              *)
StartsAreTracked == mon.pc = "idle" /\ mon.last \in Active => mon.cur # 0

(* Recovery closes running rows only, never one that has ended meanwhile   *)
(* (docstring of _recover_orphaned_jobs).                                  *)
RecoveryClosesOrphans ==
    [][RecoverRows => \A r \in DOMAIN rows : rows'[r].status # rows[r].status =>
           rows[r].status = "running"]_vars

=============================================================================
