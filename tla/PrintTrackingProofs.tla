------------------------ MODULE PrintTrackingProofs ------------------------
(***************************************************************************)
(* Machine-checked safety of the print tracking, for any number of jobs,   *)
(* dispatch threads, prints, waiting reports, lost connections and monitor *)
(* restarts; each theorem names the faults it excludes.                    *)
(***************************************************************************)
EXTENDS PrintTracking, TLAPS, FiniteSetTheorems, WellFoundedInduction

(* The row a query orders first by start time descending exists.           *)
LEMMA LatestIn ==
    ASSUME NEW n \in Nat, NEW R \in SUBSET (1..n), R # {}
    PROVE  Latest(R) \in R
<1> DEFINE T == {k \in Nat : \E r \in R : r = n - k}
<1>1. T # {} /\ T \subseteq Nat
  <2>1. PICK r \in R : TRUE
    OBVIOUS
  <2>2. n - r \in Nat /\ r = n - (n - r)
    BY <2>1
  <2> QED
    BY <2>1, <2>2
<1>2. \E x \in T : \A y \in T : ~ (<<y, x>> \in OpToRel(<, Nat))
  <2> HIDE DEF T
  <2> QED
    BY <1>1, NatLessThanWellFounded, WFMin
<1>3. PICK x \in T : \A y \in T : ~ (y < x)
  BY <1>2 DEF OpToRel
<1>4. PICK m \in R : m = n - x
  BY <1>3
<1>5. ASSUME NEW q \in R PROVE q <= m
  <2>1. n - q \in T
    OBVIOUS
  <2>2. ~ (n - q < x)
    BY <1>3, <2>1
  <2> QED
    BY <1>4, <2>2
<1> QED
  BY <1>4, <1>5 DEF Latest

(* What the types rest on: prints stay within their bound and an active    *)
(* printer has one, and recovery wakes up with rows it read before.        *)
Bounds ==
    /\ printer.print \in 0..MaxPrints
    /\ printer.g \notin Resting => printer.print # 0
    /\ mon.snap \subseteq DOMAIN rows
    /\ mon.rec = "sleep" => mon.snap # {}
    /\ mon.cur \in 0..Len(rows)

TypeInv == TypeOK /\ Bounds
-----------------------------------------------------------------------------
(* The rows a query by status returns, and the latest of them.             *)
LEMMA LatestRunning ==
    ASSUME TypeOK, RunningRows # {}
    PROVE  Latest(RunningRows) \in DOMAIN rows /\ rows[Latest(RunningRows)].status = "running"
<1>1. Len(rows) \in Nat /\ DOMAIN rows = 1..Len(rows)
  BY DEF TypeOK
<1>2. RunningRows \in SUBSET (1..Len(rows))
  BY <1>1 DEF RunningRows
<1>3. Latest(RunningRows) \in RunningRows
  BY <1>1, <1>2, LatestIn
<1> QED
  BY <1>3 DEF RunningRows

LEMMA LatestSnap ==
    ASSUME TypeInv, mon.rec = "sleep"
    PROVE  Latest(mon.snap) \in mon.snap
<1>1. Len(rows) \in Nat /\ DOMAIN rows = 1..Len(rows)
  BY DEF TypeInv, TypeOK
<1>2. mon.snap \in SUBSET (1..Len(rows)) /\ mon.snap # {}
  BY <1>1 DEF TypeInv, Bounds
<1> QED
  BY <1>1, <1>2, LatestIn

(* A row rewritten in place leaves a table of the same length.             *)
LEMMA RowUpdate ==
    ASSUME NEW R \in Seq(Row), NEW i \in DOMAIN R, NEW e \in Row
    PROVE  /\ [R EXCEPT ![i] = e] \in Seq(Row)
           /\ Len([R EXCEPT ![i] = e]) = Len(R)
           /\ DOMAIN [R EXCEPT ![i] = e] = DOMAIN R
OBVIOUS

LEMMA PublishType ==
    ASSUME TypeInv, NEW p \in Report, Publish(p),
           p.print \in 0..MaxPrints, p.g \notin Resting => p.print # 0
    PROVE  /\ printer' \in Report
           /\ printer'.print \in 0..MaxPrints /\ (printer'.g \notin Resting => printer'.print # 0)
           /\ online' \in BOOLEAN /\ wire' \in Seq(Report)
           /\ drops' \in 0..MaxDrops /\ restarts' \in 0..MaxRestarts
BY DEF TypeInv, TypeOK, Publish
-----------------------------------------------------------------------------
LEMMA StartPrintType ==
    ASSUME TypeInv, NEW f \in MaybeJob, StartPrint(f), UNCHANGED mon, UNCHANGED rows
    PROVE  /\ printer' \in Report
           /\ outcome' \in [1..MaxPrints -> Resting \cup {"NONE"}]
           /\ flagged' \subseteq 1..MaxPrints
           /\ online' \in BOOLEAN /\ wire' \in Seq(Report)
           /\ drops' \in 0..MaxDrops /\ restarts' \in 0..MaxRestarts
           /\ Bounds'
<1> DEFINE p == [printer EXCEPT !.g = "PREPARE", !.print = @ + 1, !.file = f]
<1> USE TrackingAssumption
<1>1. p \in Report /\ p.print = printer.print + 1
  <2>1. printer \in [g : GcodeState, print : Nat, file : MaybeJob, hms : BOOLEAN]
    BY DEF TypeInv, TypeOK, Report
  <2>2. printer.print + 1 \in Nat /\ "PREPARE" \in GcodeState
    BY <2>1 DEF GcodeState
  <2> QED
    BY <2>1, <2>2 DEF Report
<1>2. p.print \in 1..MaxPrints /\ p.print # 0
  BY <1>1 DEF TypeInv, Bounds, StartPrint
<1>3. Publish(p)
  BY DEF StartPrint
<1> HIDE DEF p
<1>4. p.print \in 0..MaxPrints
  BY <1>2
<1>5. /\ printer' \in Report
      /\ printer'.print \in 0..MaxPrints /\ (printer'.g \notin Resting => printer'.print # 0)
      /\ online' \in BOOLEAN /\ wire' \in Seq(Report)
      /\ drops' \in 0..MaxDrops /\ restarts' \in 0..MaxRestarts
  BY <1>1, <1>2, <1>3, <1>4, PublishType
<1>6. flagged' \subseteq 1..MaxPrints
  BY <1>1, <1>2 DEF StartPrint, TypeInv, TypeOK
<1> QED
  BY <1>5, <1>6 DEF StartPrint, TypeInv, TypeOK, Bounds

(* A change of gcode_state keeps the number of the print.                  *)
LEMMA ChangeStateType ==
    ASSUME TypeInv, NEW from, NEW to \in GcodeState, ChangeState(from, to),
           from \subseteq GcodeState, to \notin Resting => from \cap Resting = {},
           outcome' \in [1..MaxPrints -> Resting \cup {"NONE"}]
    PROVE  TypeInv'
<1> DEFINE p == [printer EXCEPT !.g = to]
<1>1. p \in Report /\ p.print = printer.print /\ p.g = to /\ printer.g \in from
  BY DEF TypeInv, TypeOK, Report, ChangeState
<1>2. Publish(p)
  BY DEF ChangeState
<1> HIDE DEF p
<1>3. p.print \in 0..MaxPrints /\ (p.g \notin Resting => p.print # 0)
  BY <1>1 DEF TypeInv, Bounds
<1> QED
  BY <1>1, <1>2, <1>3, PublishType DEF TypeInv, TypeOK, Bounds, ChangeState, tables

-----------------------------------------------------------------------------
LEMMA PrinterStepType == TypeInv /\ PrinterStep => TypeInv'
<1> SUFFICES ASSUME TypeInv, PrinterStep PROVE TypeInv'
  OBVIOUS
<1> USE DEF Active, Resting, GcodeState
<1>1. CASE LocalPrint
  <2>1. PICK f \in MaybeJob : StartPrint(f)
    BY <1>1 DEF LocalPrint
  <2>2. UNCHANGED <<mon, rows, jobs, planned, dispatch>>
    BY <1>1 DEF LocalPrint, tables
  <2> QED
    BY <2>1, <2>2, StartPrintType DEF TypeInv, TypeOK
<1>2. CASE HeatUp \/ PausePrint \/ ResumePrint \/ Settle
  <2>1. PICK from \in SUBSET GcodeState, to \in GcodeState :
           /\ ChangeState(from, to)
           /\ to \notin Resting => from \cap Resting = {}
    <3>1. CASE HeatUp
      BY <3>1 DEF HeatUp
    <3>2. CASE PausePrint
      BY <3>2 DEF PausePrint
    <3>3. CASE ResumePrint
      BY <3>3 DEF ResumePrint
    <3>4. CASE Settle
      BY <3>4 DEF Settle
    <3> QED
      BY <1>2, <3>1, <3>2, <3>3, <3>4
  <2>2. outcome' \in [1..MaxPrints -> Resting \cup {"NONE"}]
    BY <1>2 DEF HeatUp, PausePrint, ResumePrint, Settle, TypeInv, TypeOK
  <2> QED
    BY <2>1, <2>2, ChangeStateType
<1>3. CASE FinishPrint \/ AbortPrint
  <2>1. PICK from \in SUBSET GcodeState, to \in Resting : EndPrint(from, to)
    BY <1>3 DEF FinishPrint, AbortPrint
  <2>2. outcome' \in [1..MaxPrints -> Resting \cup {"NONE"}]
    BY <2>1 DEF EndPrint, TypeInv, TypeOK
  <2>3. ChangeState(from, to)
    BY <2>1 DEF EndPrint
  <2> QED
    BY <2>2, <2>3, ChangeStateType
<1>4. CASE RaiseStopCode \/ ClearStopCode \/ Telemetry
  <2>1. PICK h \in BOOLEAN : Publish([printer EXCEPT !.hms = h])
    <3>1. printer = [printer EXCEPT !.hms = printer.hms] /\ printer.hms \in BOOLEAN
      BY DEF TypeInv, TypeOK, Report
    <3> QED
      BY <1>4, <3>1 DEF RaiseStopCode, ClearStopCode, Telemetry
  <2> DEFINE p == [printer EXCEPT !.hms = h]
  <2>2. p \in Report /\ p.print = printer.print /\ p.g = printer.g
    BY DEF TypeInv, TypeOK, Report
  <2>3. Publish(p)
    BY <2>1
  <2> HIDE DEF p
  <2>4. p.print \in 0..MaxPrints /\ (p.g \notin Resting => p.print # 0)
    BY <2>2 DEF TypeInv, Bounds
  <2>5. /\ printer' \in Report
        /\ printer'.print \in 0..MaxPrints /\ (printer'.g \notin Resting => printer'.print # 0)
        /\ online' \in BOOLEAN /\ wire' \in Seq(Report)
        /\ drops' \in 0..MaxDrops /\ restarts' \in 0..MaxRestarts
    BY <2>2, <2>3, <2>4, PublishType
  <2>6. flagged' \subseteq 1..MaxPrints
    <3>1. CASE RaiseStopCode
      <4>1. printer.print \in 1..MaxPrints
        BY <3>1, TrackingAssumption DEF RaiseStopCode, TypeInv, Bounds
      <4> QED
        BY <3>1, <4>1 DEF RaiseStopCode, TypeInv, TypeOK
    <3> QED
      BY <1>4, <3>1 DEF ClearStopCode, Telemetry, TypeInv, TypeOK
  <2>7. UNCHANGED <<outcome, mon, rows, jobs, planned, dispatch>>
    BY <1>4 DEF RaiseStopCode, ClearStopCode, Telemetry, tables
  <2> QED
    BY <2>5, <2>6, <2>7 DEF TypeInv, TypeOK, Bounds
<1> QED
  BY <1>1, <1>2, <1>3, <1>4 DEF PrinterStep

LEMMA NewMonitorType == NewMonitor \in Monitor
<1>1. {} \in SUBSET Nat /\ 0 \in Nat /\ NoJob \in MaybeJob
  BY DEF MaybeJob
<1>2. NoReport \in Report \cup {NoReport}
  OBVIOUS
<1> HIDE DEF NoReport
<1> QED
  BY <1>1, <1>2 DEF NewMonitor, Monitor

LEMMA ConnectionStepType == TypeInv /\ ConnectionStep => TypeInv'
<1> SUFFICES ASSUME TypeInv, ConnectionStep PROVE TypeInv'
  OBVIOUS
<1> USE TrackingAssumption
<1> USE DEF TypeInv, TypeOK, Bounds, environment, tables
<1>1. <<printer>> \in Seq(Report) /\ <<>> \in Seq(Report) /\ printer.print \in Nat
  BY DEF Report
<1>2. NewMonitor \in Monitor
  BY NewMonitorType
<1>3. CASE LoseConnection
  <2>1. drops' \in 0..MaxDrops
    BY <1>3 DEF LoseConnection
  <2> QED
    BY <1>1, <1>3, <2>1 DEF LoseConnection
<1>4. CASE Reconnect
  BY <1>1, <1>4 DEF Reconnect
<1>5. CASE StopMonitor
  <2>1. NoMonitor \in Monitor
    BY <1>2 DEF NoMonitor, Monitor
  <2>2. NoMonitor.snap = {} /\ NoMonitor.cur = 0 /\ NoMonitor.rec = "down"
    BY DEF NoMonitor, NewMonitor
  <2>3. /\ restarts < MaxRestarts /\ restarts' = restarts + 1 /\ online' = FALSE
        /\ wire' = <<>> /\ mon' = NoMonitor
        /\ UNCHANGED <<printer, outcome, flagged, drops, rows, jobs, planned, dispatch>>
    BY <1>5 DEF StopMonitor
  <2>4. restarts' \in 0..MaxRestarts
    BY <2>3
  <2>5. TypeOK'
    BY <1>1, <2>1, <2>3, <2>4
  <2> QED
    BY <2>2, <2>3, <2>5
<1>6. CASE Connect
  <2>1. mon' \in Monitor
    BY <1>1, <1>2, <1>6 DEF Connect, Monitor
  <2>2. mon'.snap = {} /\ mon'.cur = 0 /\ mon'.rec = "select"
    BY <1>6 DEF Connect, NewMonitor
  <2>3. /\ online' = TRUE /\ wire' = <<printer>>
        /\ UNCHANGED <<printer, outcome, flagged, drops, restarts, rows, jobs,
                       planned, dispatch>>
    BY <1>6 DEF Connect
  <2> QED
    BY <1>1, <2>1, <2>2, <2>3
<1> QED
  BY <1>3, <1>4, <1>5, <1>6 DEF ConnectionStep
-----------------------------------------------------------------------------
(* What every branch of the callback leaves in the monitor.                *)
LEMMA HandledType ==
    ASSUME TypeOK, mon.pc = "merged", NEW c \in Nat, NEW j \in MaybeJob
    PROVE  LET M == [Handled EXCEPT !.cur = c, !.linked = j]
           IN  /\ Handled \in Monitor
               /\ Handled.snap = mon.snap /\ Handled.rec = mon.rec /\ Handled.cur = mon.cur
               /\ M \in Monitor /\ M.snap = mon.snap /\ M.rec = mon.rec /\ M.cur = c
<1>1. mon.st.g \in GcodeState \cup {"NONE"}
  BY DEF TypeOK, Monitor, Report, NoReport
<1>2. mon \in Monitor
  BY DEF TypeOK
<1> QED
  BY <1>1, <1>2 DEF Handled, Monitor

LEMMA SetStatus ==
    ASSUME TypeOK, NEW r \in DOMAIN rows, NEW s \in Ended
    PROVE  /\ [rows EXCEPT ![r].status = s] \in Seq(Row)
           /\ Len([rows EXCEPT ![r].status = s]) = Len(rows)
           /\ DOMAIN [rows EXCEPT ![r].status = s] = DOMAIN rows
<1>1. rows[r] \in Row
  BY DEF TypeOK
<1>2. [rows[r] EXCEPT !.status = s] \in Row
  BY <1>1 DEF Row
<1>3. rows \in Seq(Row)
  BY DEF TypeOK
<1> QED
  BY <1>2, <1>3, RowUpdate

(* What an InsertRow assigns, given the swept schedules and the match.     *)
InsertAs(old, j) ==
    /\ mon' = [Handled EXCEPT !.cur = Len(rows) + 1, !.linked = j]
    /\ rows' = Append(rows, [status |-> "running", link |-> j,
                             made |-> FALSE, print |-> mon.st.print])
    /\ jobs' = [k \in Job |->
           IF k = j THEN [jobs[k] EXCEPT !.status = "printing"]
           ELSE IF k \in Bumped(old, j) THEN Unassigned
           ELSE jobs[k]]

LEMMA CallbackStepType == TypeInv /\ CallbackStep => TypeInv'
<1> SUFFICES ASSUME TypeInv, CallbackStep PROVE TypeInv'
  OBVIOUS
<1> USE TrackingAssumption
<1> USE DEF TypeInv, environment, connection, tables
<1>a. /\ mon \in Monitor /\ rows \in Seq(Row) /\ wire \in Seq(Report)
      /\ jobs \in [Job -> [status : JobStatus, here : BOOLEAN]]
      /\ Len(rows) \in Nat /\ DOMAIN rows = 1..Len(rows)
  BY DEF TypeOK
<1>1. CASE FailForStopCode
  <2> DEFINE r == Latest(RunningRows)
  <2>1. r \in DOMAIN rows
    BY <1>1, LatestRunning DEF FailForStopCode
  <2>2. rows' = [rows EXCEPT ![r].status = "failed"] /\ jobs' = FailLinked(rows[r].link)
    BY <1>1 DEF FailForStopCode
  <2>3. UNCHANGED <<printer, outcome, flagged, online, wire, drops, restarts, mon,
                    planned, dispatch>>
    BY <1>1 DEF FailForStopCode
  <2> HIDE DEF r
  <2>4. rows' \in Seq(Row) /\ Len(rows') = Len(rows) /\ DOMAIN rows' = DOMAIN rows
    BY <2>1, <2>2, SetStatus DEF Ended
  <2>5. jobs' \in [Job -> [status : JobStatus, here : BOOLEAN]]
    BY <1>a, <2>2 DEF FailLinked, JobStatus, Ended
  <2> QED
    BY <2>3, <2>4, <2>5 DEF TypeOK, Bounds
<1>2. CASE MergeReport
  <2>1. Head(wire) \in Report /\ Tail(wire) \in Seq(Report)
    BY <1>2, <1>a DEF MergeReport
  <2>2. mon' \in Monitor
    BY <1>2, <1>a, <2>1 DEF MergeReport, Monitor
  <2>3. mon'.snap = mon.snap /\ mon'.cur = mon.cur /\ mon'.rec = mon.rec
    BY <1>2, <1>a DEF MergeReport, Monitor
  <2> QED
    BY <1>2, <2>1, <2>2, <2>3 DEF MergeReport, TypeOK, Bounds
<1>3. CASE ResumeRow
  <2> DEFINE r == Latest(RunningRows)
  <2>1. r \in 1..Len(rows) /\ mon.pc = "merged"
    BY <1>3, <1>a, LatestRunning DEF ResumeRow, Resumable, StartSeen, Changed
  <2>2. rows[r].link \in MaybeJob
    <3>1. rows[r] \in Row
      BY <1>a, <2>1
    <3> QED
      BY <3>1 DEF Row
  <2>3. mon' = [Handled EXCEPT !.cur = r, !.linked = rows[r].link]
    BY <1>3 DEF ResumeRow, Resumable
  <2>4. UNCHANGED <<printer, outcome, flagged, online, wire, drops, restarts, rows,
                    jobs, planned, dispatch>>
    BY <1>3 DEF ResumeRow
  <2> HIDE DEF r
  <2>5. /\ mon' \in Monitor
        /\ mon'.snap = mon.snap /\ mon'.rec = mon.rec /\ mon'.cur = r
    <3>1. r \in Nat
      BY <1>a, <2>1
    <3> QED
      BY <2>1, <2>2, <2>3, <3>1, HandledType
  <2> QED
    BY <2>1, <2>4, <2>5 DEF TypeOK, Bounds
<1>4. CASE InsertRow
  <2>0. PICK old \in SUBSET Job : \E j \in Matches(Candidates(old)) : InsertAs(old, j)
    BY <1>4 DEF InsertRow, InsertAs
  <2>1. PICK j \in Matches(Candidates(old)) :
           /\ mon' = [Handled EXCEPT !.cur = Len(rows) + 1, !.linked = j]
           /\ rows' = Append(rows, [status |-> "running", link |-> j,
                                    made |-> FALSE, print |-> mon.st.print])
           /\ jobs' = [k \in Job |->
                  IF k = j THEN [jobs[k] EXCEPT !.status = "printing"]
                  ELSE IF k \in Bumped(old, j) THEN Unassigned
                  ELSE jobs[k]]
    BY <2>0 DEF InsertAs
  <2>2. mon.pc = "merged"
    BY <1>4 DEF InsertRow, StartSeen, Changed
  <2>3. UNCHANGED <<printer, outcome, flagged, online, wire, drops, restarts,
                    planned, dispatch>>
    BY <1>4 DEF InsertRow
  <2>4. j \in MaybeJob
    BY DEF Matches, Candidates, MaybeJob
  <2>5. mon.st.print \in Nat
    BY <1>a DEF Monitor, Report, NoReport
  <2>6. [status |-> "running", link |-> j, made |-> FALSE, print |-> mon.st.print] \in Row
    BY <2>4, <2>5 DEF Row
  <2>7. rows' \in Seq(Row) /\ Len(rows') = Len(rows) + 1 /\ DOMAIN rows \subseteq DOMAIN rows'
    BY <1>a, <2>1, <2>6
  <2>8. jobs' \in [Job -> [status : JobStatus, here : BOOLEAN]]
    BY <1>a, <2>1 DEF JobStatus, Unassigned
  <2>9. /\ mon' \in Monitor
        /\ mon'.snap = mon.snap /\ mon'.rec = mon.rec /\ mon'.cur = Len(rows) + 1
    <3>1. Len(rows) + 1 \in Nat
      BY <1>a
    <3> QED
      BY <3>1, <2>1, <2>2, <2>4, HandledType
  <2> QED
    BY <1>a, <2>3, <2>7, <2>8, <2>9 DEF TypeOK, Bounds
<1>5. CASE StartNotRecorded \/ NothingToRecord
  <2>1. mon' = Handled /\ mon.pc = "merged"
    BY <1>5 DEF StartNotRecorded, NothingToRecord, StartSeen, Changed
  <2>2. UNCHANGED <<printer, outcome, flagged, online, wire, drops, restarts, rows, jobs,
                    planned, dispatch>>
    BY <1>5 DEF StartNotRecorded, NothingToRecord
  <2>4. mon' \in Monitor /\ mon'.snap = mon.snap /\ mon'.rec = mon.rec /\ mon'.cur = mon.cur
    <3>1. 0 \in Nat /\ NoJob \in MaybeJob
      BY DEF MaybeJob
    <3> QED
      BY <2>1, <3>1, HandledType
  <2> QED
    BY <2>2, <2>4 DEF TypeOK, Bounds
<1>6. CASE RecordEnd \/ EndNotRecorded
  <2>1. mon' = [Handled EXCEPT !.cur = 0, !.linked = NoJob] /\ mon.pc = "merged"
    BY <1>6 DEF RecordEnd, EndNotRecorded, EndSeen, Changed, Untracked
  <2>2. UNCHANGED <<printer, outcome, flagged, online, wire, drops, restarts,
                    planned, dispatch>>
    BY <1>6 DEF RecordEnd, EndNotRecorded
  <2>3. 0 \in Nat /\ NoJob \in MaybeJob
    BY DEF MaybeJob
  <2>4. /\ mon' \in Monitor
        /\ mon'.snap = mon.snap /\ mon'.rec = mon.rec /\ mon'.cur = 0
    BY <2>1, <2>3, HandledType
  <2>5. /\ rows' \in Seq(Row) /\ Len(rows') = Len(rows) /\ DOMAIN rows' = DOMAIN rows
        /\ jobs' \in [Job -> [status : JobStatus, here : BOOLEAN]]
    <3>1. CASE EndNotRecorded
      BY <1>a, <3>1 DEF EndNotRecorded
    <3>2. CASE RecordEnd
      <4> DEFINE s == Conclusion(mon.st.g)
      <4>1. s \in Ended
        BY <3>2 DEF RecordEnd, EndSeen, Resting, Conclusion, Ended
      <4>2. jobs' = ConcludeLinked(s)
        BY <3>2 DEF RecordEnd
      <4>3. mon.cur \in DOMAIN rows
        BY <1>a, <3>2 DEF RecordEnd, Bounds
      <4> DEFINE e == IF mon.linked = NoJob
                      THEN [rows[mon.cur] EXCEPT !.status = s, !.link = NoJob, !.made = TRUE]
                      ELSE [rows[mon.cur] EXCEPT !.status = s]
      <4>4. rows' = [rows EXCEPT ![mon.cur] = e]
        BY <3>2 DEF RecordEnd
      <4> HIDE DEF s
      <4>5. e \in Row
        <5>1. rows[mon.cur] \in [status : {"running"} \cup Ended, link : MaybeJob,
                                 made : BOOLEAN, print : Nat]
          <6>1. rows[mon.cur] \in Row
            BY <1>a, <4>3
          <6> QED
            BY <6>1 DEF Row
        <5>2. [rows[mon.cur] EXCEPT !.status = s] \in Row
          BY <5>1, <4>1 DEF Row
        <5>3. [rows[mon.cur] EXCEPT !.status = s, !.link = NoJob, !.made = TRUE] \in Row
          BY <5>1, <4>1, <2>3 DEF Row
        <5> QED
          BY <5>2, <5>3
      <4> HIDE DEF e
      <4>6. jobs' \in [Job -> [status : JobStatus, here : BOOLEAN]]
        BY <1>a, <4>1, <4>2 DEF ConcludeLinked, JobStatus
      <4> QED
        BY <1>a, <4>3, <4>4, <4>5, <4>6, RowUpdate
    <3> QED
      BY <1>6, <3>1, <3>2
  <2> QED
    BY <1>a, <2>2, <2>4, <2>5 DEF TypeOK, Bounds
<1> QED
  BY <1>1, <1>2, <1>3, <1>4, <1>5, <1>6 DEF CallbackStep

LEMMA RecoveryStepType == TypeInv /\ RecoveryStep => TypeInv'
<1> SUFFICES ASSUME TypeInv, RecoveryStep PROVE TypeInv'
  OBVIOUS
<1> USE DEF TypeInv, environment, connection, tables
<1>1. /\ mon \in Monitor /\ rows \in Seq(Row)
      /\ Len(rows) \in Nat /\ DOMAIN rows = 1..Len(rows)
  BY DEF TypeOK
<1>2. UNCHANGED <<printer, outcome, flagged, online, wire, drops, restarts, jobs,
                  planned, dispatch>>
  BY DEF RecoveryStep, RecoverSelect, RecoverRows, RecoveryNotCommitted
<1>3. CASE RecoverSelect
  <2>1. RunningRows \in SUBSET Nat /\ RunningRows \subseteq DOMAIN rows
    BY <1>1 DEF RunningRows
  <2>2. UNCHANGED rows
    BY <1>3 DEF RecoverSelect
  <2>3. /\ mon' \in Monitor /\ mon'.cur = mon.cur
        /\ mon'.snap \subseteq DOMAIN rows /\ (mon'.rec = "sleep" => mon'.snap # {})
    <3>1. CASE /\ RunningRows # {}
               /\ mon' = [mon EXCEPT !.rec = "sleep", !.snap = RunningRows]
      BY <1>1, <2>1, <3>1 DEF Monitor
    <3>2. CASE mon' = [mon EXCEPT !.rec = "done", !.at = 0]
      BY <1>1, <3>2 DEF Monitor, Bounds
    <3> QED
      BY <1>3, <3>1, <3>2 DEF RecoverSelect
  <2> QED
    BY <1>2, <2>2, <2>3 DEF TypeOK, Bounds
<1>4. CASE RecoverRows \/ RecoveryNotCommitted
  <2> DEFINE c == IF Printing THEN Latest(mon.snap) ELSE mon.cur
  <2>1. mon.rec = "sleep"
    BY <1>4 DEF RecoverRows, RecoveryNotCommitted
  <2>2. mon' = [mon EXCEPT !.rec = "done", !.snap = {}, !.at = 0, !.cur = c]
    BY <1>1, <1>4 DEF RecoverRows, RecoveryNotCommitted, Monitor
  <2>3. c \in 0..Len(rows)
    <3>1. mon.cur \in 0..Len(rows)
      BY DEF Bounds
    <3>2. Latest(mon.snap) \in 0..Len(rows)
      BY <1>1, <2>1, LatestSnap DEF Bounds
    <3> QED
      BY <3>1, <3>2
  <2> HIDE DEF c
  <2>4. /\ mon' \in Monitor /\ mon'.cur \in 0..Len(rows)
        /\ mon'.snap = {} /\ mon'.rec = "done"
    <3>1. c \in Nat /\ {} \in SUBSET Nat
      BY <1>1, <2>3
    <3> QED
      BY <1>1, <2>2, <2>3, <3>1 DEF Monitor
  <2>5. rows' \in Seq(Row) /\ Len(rows') = Len(rows)
    <3>1. CASE RecoveryNotCommitted
      BY <1>1, <3>1 DEF RecoveryNotCommitted
    <3>2. CASE RecoverRows
      <4> DEFINE e(r) == IF r \in mon.snap THEN [rows[r] EXCEPT !.status = RecoveredStatus(r)]
                                           ELSE rows[r]
      <4>1. ASSUME NEW r \in DOMAIN rows PROVE e(r) \in Row
        <5>1. rows[r] \in Row
          BY <1>1
        <5>2. RecoveredStatus(r) \in {"running"} \cup Ended
          BY <5>1 DEF RecoveredStatus, Ended, Row
        <5> QED
          BY <5>1, <5>2 DEF Row
      <4>2. rows' = [r \in 1..Len(rows) |-> e(r)]
        BY <1>1, <3>2 DEF RecoverRows
      <4> HIDE DEF e
      <4> QED
        BY <1>1, <4>1, <4>2
    <3> QED
      BY <1>4, <3>1, <3>2
  <2> QED
    BY <1>2, <2>4, <2>5 DEF TypeOK, Bounds
<1> QED
  BY <1>3, <1>4 DEF RecoveryStep

LEMMA DispatchStepType == ASSUME NEW d \in Dispatcher PROVE TypeInv /\ DispatchStep(d) => TypeInv'
<1> SUFFICES ASSUME TypeInv, DispatchStep(d) PROVE TypeInv'
  OBVIOUS
<1> USE DEF TypeInv, environment, connection, tables
<1>1. dispatch \in [Dispatcher -> Thread] /\ IdleThread \in Thread
  BY DEF TypeOK, Thread, IdleThread, MaybeJob
<1>2. ASSUME NEW j \in Job, BeginDispatch(d, j) PROVE TypeInv'
  BY <1>1, <1>2 DEF BeginDispatch, Thread, MaybeJob, TypeOK, Bounds
<1>3. CASE FailDispatch(d)
  BY <1>1, <1>3 DEF FailDispatch, TypeOK, Bounds
<1>4. CASE SendPrint(d)
  <2>1. dispatch' \in [Dispatcher -> Thread] /\ dispatch[d].job \in MaybeJob
    BY <1>1, <1>4 DEF SendPrint, Thread
  <2>2. UNCHANGED <<mon, rows, jobs, planned>>
    BY <1>4 DEF SendPrint
  <2>3. CASE StartPrint(dispatch[d].job)
    BY <2>1, <2>2, <2>3, StartPrintType DEF TypeOK
  <2>4. CASE UNCHANGED <<environment, connection>>
    BY <2>1, <2>2, <2>4 DEF TypeOK, Bounds
  <2> QED
    BY <1>4, <2>3, <2>4 DEF SendPrint
<1>5. CASE MarkPrinting(d)
  <2>1. dispatch' \in [Dispatcher -> Thread]
    BY <1>1, <1>5 DEF MarkPrinting
  <2>2. jobs' \in [Job -> [status : JobStatus, here : BOOLEAN]]
    BY <1>5 DEF MarkPrinting, TypeOK, JobStatus
  <2> QED
    BY <1>5, <2>1, <2>2 DEF MarkPrinting, TypeOK, Bounds
<1> QED
  BY <1>2, <1>3, <1>4, <1>5 DEF DispatchStep

LEMMA JobsStepType ==
    TypeInv /\ (RunScheduler \/ BeginRun \/ CommitRun) => TypeInv'
<1> SUFFICES ASSUME TypeInv, RunScheduler \/ BeginRun \/ CommitRun PROVE TypeInv'
  OBVIOUS
<1> USE DEF TypeInv, environment, connection, tables
<1>1. Assigned \in [status : JobStatus, here : BOOLEAN]
      /\ Unassigned \in [status : JobStatus, here : BOOLEAN]
  BY DEF Assigned, Unassigned, JobStatus
<1>2. jobs' \in [Job -> [status : JobStatus, here : BOOLEAN]]
  BY <1>1 DEF TypeOK, RunScheduler, BeginRun, CommitRun
<1>3. planned' \subseteq Job
  BY DEF TypeOK, RunScheduler, BeginRun, CommitRun
<1>4. UNCHANGED <<printer, outcome, flagged, online, wire, drops, restarts, mon, rows,
                  dispatch>>
  BY DEF TypeOK, RunScheduler, BeginRun, CommitRun
<1> QED
  BY <1>2, <1>3, <1>4 DEF TypeOK, Bounds
-----------------------------------------------------------------------------
LEMMA InitType == Init => TypeInv
<1> SUFFICES ASSUME Init PROVE TypeInv
  OBVIOUS
<1>1. printer \in Report /\ printer.print = 0 /\ printer.g = "IDLE"
  BY DEF Init, Report, GcodeState, Resting, MaybeJob
<1>2. mon \in Monitor /\ mon.snap = {} /\ mon.rec = "done" /\ mon.cur = 0
  BY NewMonitorType DEF Init, NewMonitor, Monitor
<1>3. outcome \in [1..MaxPrints -> Resting \cup {"NONE"}]
  BY DEF Init
<1>4. wire \in Seq(Report) /\ rows \in Seq(Row) /\ Len(rows) = 0
  BY <1>1 DEF Init
<1>5. dispatch \in [Dispatcher -> Thread]
  BY DEF Init, Thread, IdleThread, MaybeJob
<1>6. jobs \in [Job -> [status : JobStatus, here : BOOLEAN]]
  <2>1. jobs \in [Job -> [status : {"pending"}, here : BOOLEAN]]
    BY DEF Init
  <2> QED
    BY <2>1 DEF JobStatus
<1>7. /\ online \in BOOLEAN /\ planned \subseteq Job
      /\ flagged \subseteq 1..MaxPrints
  BY DEF Init
<1>8. drops \in 0..MaxDrops /\ restarts \in 0..MaxRestarts
  <2>1. drops = 0 /\ restarts = 0
    BY DEF Init
  <2> QED
    BY <2>1, TrackingAssumption
<1>9. TypeOK
  BY <1>1, <1>2, <1>3, <1>4, <1>5, <1>6, <1>7, <1>8 DEF TypeOK
<1>10. Bounds
  BY <1>1, <1>2, <1>4, TrackingAssumption DEF Bounds, Resting
<1> QED
  BY <1>9, <1>10 DEF TypeInv

LEMMA NextType ==
    ASSUME TypeInv, [Next]_vars
    PROVE  TypeInv'
<1>1. CASE UNCHANGED vars
  BY <1>1 DEF vars, environment, connection, tables, TypeInv, TypeOK, Bounds
<1> QED
  BY <1>1, PrinterStepType, ConnectionStepType, CallbackStepType, RecoveryStepType,
     JobsStepType, DispatchStepType DEF Next

LEMMA TypeInvariant == Spec => []TypeInv
BY InitType, NextType, PTL DEF Spec

(* Every variable keeps its type, in particular the row the monitor tracks *)
(* exists, whatever fails: MQTT, the process or the database.              *)
THEOREM TypeCorrect == Spec => []TypeOK
<1>1. TypeInv => TypeOK
  BY DEF TypeInv
<1> QED
  BY <1>1, TypeInvariant, PTL
-----------------------------------------------------------------------------
(* Which steps write the rows, and what the others leave alone.            *)
RowStep == FailForStopCode \/ InsertRow \/ RecordEnd \/ RecoverRows

LEMMA RowsUnchanged ==
    ASSUME [Next]_vars, ~RowStep
    PROVE  rows' = rows
<1>1. CASE PrinterStep
  BY <1>1 DEF PrinterStep, LocalPrint, HeatUp, PausePrint, ResumePrint, FinishPrint, AbortPrint,
     Settle, RaiseStopCode, ClearStopCode, Telemetry, EndPrint, ChangeState, tables
<1>2. CASE ConnectionStep
  BY <1>2 DEF ConnectionStep, LoseConnection, Reconnect, StopMonitor, Connect, tables
<1>3. CASE CallbackStep \/ RecoveryStep
  BY <1>3 DEF CallbackStep, RecoveryStep, RowStep, MergeReport, ResumeRow, StartNotRecorded,
     EndNotRecorded, NothingToRecord, RecoverSelect, RecoveryNotCommitted, tables
<1>4. CASE RunScheduler \/ BeginRun \/ CommitRun
  BY <1>4 DEF RunScheduler, BeginRun, CommitRun, tables
<1>5. ASSUME NEW d \in Dispatcher, DispatchStep(d) PROVE rows' = rows
  BY <1>5 DEF DispatchStep, BeginDispatch, FailDispatch, SendPrint, MarkPrinting, tables
<1> QED
  BY <1>1, <1>2, <1>3, <1>4, <1>5 DEF Next, vars, tables

(* How a step may change the rows: it appends a running one, or ends some. *)
LEMMA RowsGrow ==
    ASSUME TypeInv, [Next]_vars, NEW r \in DOMAIN rows
    PROVE  /\ r \in DOMAIN rows'
           /\ rows'[r].status = "running" => rows[r].status = "running"
<1> USE DEF TypeInv
<1>1. /\ rows \in Seq(Row) /\ Len(rows) \in Nat /\ DOMAIN rows = 1..Len(rows)
      /\ rows[r] \in Row
  BY DEF TypeOK
<1>2. CASE FailForStopCode
  BY <1>1, <1>2 DEF FailForStopCode, Row
<1>3. CASE InsertRow
  <2>1. PICK e : rows' = Append(rows, e)
    BY <1>3 DEF InsertRow
  <2> QED
    BY <1>1, <2>1
<1>4. CASE RecordEnd
  <2> DEFINE s == Conclusion(mon.st.g)
  <2>1. s \in Ended
    BY <1>4 DEF RecordEnd, EndSeen, Resting, Conclusion, Ended
  <2>2. DOMAIN rows' = DOMAIN rows /\ (rows'[r] = rows[r] \/ rows'[r].status = s)
    <3> DEFINE e == IF mon.linked = NoJob
                    THEN [rows[mon.cur] EXCEPT !.status = s, !.link = NoJob, !.made = TRUE]
                    ELSE [rows[mon.cur] EXCEPT !.status = s]
    <3>1. rows' = [rows EXCEPT ![mon.cur] = e]
      BY <1>4 DEF RecordEnd
    <3>2. ASSUME mon.cur = r PROVE e.status = s
      BY <1>1, <3>2 DEF Row
    <3> HIDE DEF e, s
    <3> QED
      BY <1>1, <3>1, <3>2
  <2> QED
    BY <2>1, <2>2 DEF Ended
<1>5. CASE RecoverRows
  <2>1. mon.rec = "sleep" /\ DOMAIN rows' = DOMAIN rows
    BY <1>5 DEF RecoverRows
  <2>2. CASE r \notin mon.snap
    BY <1>5, <2>2 DEF RecoverRows
  <2>3. CASE r \in mon.snap
    <3>1. rows'[r] = [rows[r] EXCEPT !.status = RecoveredStatus(r)]
      BY <1>5, <2>3 DEF RecoverRows
    <3>2. rows'[r].status = RecoveredStatus(r)
      BY <1>1, <3>1 DEF Row
    <3> QED
      BY <2>1, <3>2 DEF RecoveredStatus
  <2> QED
    BY <2>1, <2>2, <2>3
<1> QED
  BY <1>2, <1>3, <1>4, <1>5, RowsUnchanged DEF RowStep

(* A database that answers: without DbErrors a row is inserted only when   *)
(* no row runs, so the query by status never finds two.                    *)
SoleRunning == \A q, r \in RunningRows : q = r

LEMMA SoleRunningAlways ==
    ASSUME DbErrors = FALSE
    PROVE  Spec => []SoleRunning
<1>1. Init => SoleRunning
  BY DEF Init, SoleRunning, RunningRows
<1>2. TypeInv /\ SoleRunning /\ [Next]_vars => SoleRunning'
  <2> SUFFICES ASSUME TypeInv, SoleRunning, [Next]_vars,
                      NEW q \in RunningRows', NEW r \in RunningRows'
               PROVE  q = r
    BY DEF SoleRunning
  <2>1. CASE q \in DOMAIN rows /\ r \in DOMAIN rows
    BY <2>1, RowsGrow DEF RunningRows, SoleRunning
  <2>2. CASE ~(q \in DOMAIN rows /\ r \in DOMAIN rows)
    <3>1. InsertRow
      <4>1. DOMAIN rows' # DOMAIN rows
        BY <2>2 DEF RunningRows
      <4>2. ~FailForStopCode /\ ~RecordEnd /\ ~RecoverRows
        BY <4>1 DEF FailForStopCode, RecordEnd, RecoverRows
      <4> QED
        BY <4>1, <4>2, RowsUnchanged DEF RowStep
    <3>2. RunningRows = {} /\ \E e : rows' = Append(rows, e)
      BY <3>1 DEF InsertRow, Resumable
    <3>3. ASSUME NEW x \in RunningRows' PROVE x = Len(rows) + 1
      <4>1. rows \in Seq(Row)
        BY DEF TypeInv, TypeOK
      <4>2. x \notin DOMAIN rows
        BY <3>2, <3>3, RowsGrow DEF RunningRows
      <4> QED
        BY <3>2, <3>3, <4>1, <4>2 DEF RunningRows
    <3> QED
      BY <3>3
  <2> QED
    BY <2>1, <2>2
<1> QED
  BY <1>1, <1>2, TypeInvariant, PTL DEF Spec

(* At most one row of the printer runs, whatever the reports, lost         *)
(* connections and restarts, if the monitor's SELECTs do not fail.         *)
THEOREM SoleRunningRow ==
    ASSUME DbErrors = FALSE
    PROVE  Spec => []OneRunningRow
<1>1. SoleRunning => OneRunningRow
  <2> SUFFICES ASSUME SoleRunning PROVE Cardinality(RunningRows) <= 1
    BY DEF OneRunningRow
  <2>1. CASE RunningRows = {}
    BY <2>1, FS_EmptySet
  <2>2. CASE RunningRows # {}
    <3>1. PICK r : RunningRows = {r}
      BY <2>2 DEF SoleRunning
    <3> QED
      BY <3>1, FS_Singleton
  <2> QED
    BY <2>1, <2>2
<1> QED
  BY <1>1, SoleRunningAlways, PTL
-----------------------------------------------------------------------------
(* Until a monitor is stopped there is no recovery to run.                 *)
NoRecovery == restarts = 0 => mon.rec = "done"

LEMMA RecoveryIdle == Spec => []NoRecovery
<1>1. Init => NoRecovery
  BY DEF Init, NoRecovery, NewMonitor
<1>2. TypeInv /\ NoRecovery /\ [Next]_vars => NoRecovery'
  <2> SUFFICES ASSUME TypeInv, NoRecovery, [Next]_vars PROVE NoRecovery'
    OBVIOUS
  <2> USE DEF NoRecovery, connection
  <2>1. mon \in Monitor /\ restarts \in Nat
    BY TrackingAssumption DEF TypeInv, TypeOK
  <2>2. CASE PrinterStep
    BY <2>2 DEF PrinterStep, LocalPrint, HeatUp, PausePrint, ResumePrint, FinishPrint,
       AbortPrint, Settle, RaiseStopCode, ClearStopCode, Telemetry, EndPrint, ChangeState,
       StartPrint, Publish
  <2>3. CASE ConnectionStep
    BY <2>1, <2>3 DEF ConnectionStep, LoseConnection, Reconnect, StopMonitor, Connect
  <2>4. CASE CallbackStep
    <3>1. UNCHANGED restarts
      BY <2>4 DEF CallbackStep, FailForStopCode, MergeReport, ResumeRow, InsertRow,
         StartNotRecorded, RecordEnd, EndNotRecorded, NothingToRecord
    <3>2. mon'.rec = mon.rec
      BY <2>1, <2>4 DEF CallbackStep, FailForStopCode, MergeReport, ResumeRow, InsertRow,
         StartNotRecorded, RecordEnd, EndNotRecorded, NothingToRecord, Untracked, Handled,
         Monitor
    <3> QED
      BY <3>1, <3>2
  <2>5. CASE RecoveryStep
    <3>1. restarts # 0
      BY <2>5 DEF RecoveryStep, RecoverSelect, RecoverRows, RecoveryNotCommitted
    <3>2. UNCHANGED restarts
      BY <2>5 DEF RecoveryStep, RecoverSelect, RecoverRows, RecoveryNotCommitted
    <3> QED
      BY <3>1, <3>2
  <2>6. CASE RunScheduler \/ BeginRun \/ CommitRun
    BY <2>6 DEF RunScheduler, BeginRun, CommitRun
  <2>7. ASSUME NEW d \in Dispatcher, DispatchStep(d) PROVE NoRecovery'
    BY <2>7 DEF DispatchStep, BeginDispatch, FailDispatch, SendPrint, MarkPrinting, StartPrint,
       Publish
  <2> QED
    BY <2>2, <2>3, <2>4, <2>5, <2>6, <2>7 DEF Next, vars
<1> QED
  BY <1>1, <1>2, TypeInvariant, PTL DEF Spec

(* Reports, stop codes, lost connections and failed transactions never     *)
(* rewrite the end of a row; only the recovery of a restarted monitor can. *)
THEOREM EndsFinal == Spec => EndsAreFinal
<1> DEFINE Step == restarts = 0 => \A r \in DOMAIN rows : rows[r].status \in Ended =>
                       rows'[r].status = rows[r].status
<1>1. TypeInv /\ NoRecovery /\ [Next]_vars => Step
  <2> SUFFICES ASSUME TypeInv, NoRecovery, [Next]_vars, restarts = 0,
                      NEW r \in DOMAIN rows, rows[r].status \in Ended
               PROVE  rows'[r].status = rows[r].status
    OBVIOUS
  <2>1. rows \in Seq(Row) /\ rows[r].status # "running"
    BY DEF TypeInv, TypeOK, Ended
  <2>2. CASE FailForStopCode
    <3>1. Latest(RunningRows) # r
      BY <2>1, <2>2, LatestRunning DEF FailForStopCode, TypeInv
    <3> QED
      BY <2>1, <2>2, <3>1 DEF FailForStopCode
  <2>3. CASE InsertRow
    <3>1. PICK e : rows' = Append(rows, e)
      BY <2>3 DEF InsertRow
    <3> QED
      BY <2>1, <3>1
  <2>4. CASE RecordEnd
    <3>1. mon.cur # r
      BY <2>4 DEF RecordEnd, AlreadyEnded
    <3> QED
      BY <2>1, <2>4, <3>1 DEF RecordEnd
  <2>5. ~RecoverRows
    BY DEF RecoverRows, NoRecovery
  <2> QED
    BY <2>2, <2>3, <2>4, <2>5, RowsUnchanged DEF RowStep
<1>2. TypeInv /\ NoRecovery /\ [Next]_vars => [Step]_vars
  BY <1>1
<1> QED
  BY <1>2, TypeInvariant, RecoveryIdle, PTL DEF Spec, EndsAreFinal
-----------------------------------------------------------------------------
(* Jobs that have begun.  A job a row or the monitor is linked to has, and *)
(* only the scheduler's gap or a dispatch could take it back.              *)
Begun == {"printing"} \cup Ended

LinksBegun ==
    /\ planned = {}
    /\ \A r \in DOMAIN rows : rows[r].link \in Job => jobs[rows[r].link].status \in Begun
    /\ mon.linked \in Job => jobs[mon.linked].status \in Begun

(* What a step may do to the jobs: begin a queued one, end a begun one, or *)
(* move one between the queues.                                            *)
JobStep ==
    \A j \in Job : \/ jobs'[j].status = jobs[j].status
                   \/ jobs[j].status \in Queued /\ jobs'[j].status \in Queued \cup {"printing"}
                   \/ jobs[j].status \in Begun /\ jobs'[j].status \in Ended

LEMMA KeepBegun ==
    ASSUME JobStep, NEW j \in Job, jobs[j].status \in Begun
    PROVE  jobs'[j].status \in Begun
BY DEF JobStep, Begun, Queued, Ended

(* Steps that leave the jobs, the links of the rows and planned alone.     *)
LEMMA OtherSteps ==
    ASSUME TypeInv, LinksBegun, [Next]_vars, Dispatcher = {}, SerialRuns,
           ~FailForStopCode, ~InsertRow, ~RecordEnd, ~RunScheduler
    PROVE  /\ jobs' = jobs /\ planned' = planned
           /\ mon'.linked \in {mon.linked, NoJob} \cup {rows[r].link : r \in DOMAIN rows}
           /\ DOMAIN rows' = DOMAIN rows
           /\ \A r \in DOMAIN rows : rows'[r].link = rows[r].link
<1> USE DEF tables, connection
<1>1. mon \in Monitor /\ rows \in Seq(Row)
  BY DEF TypeInv, TypeOK
<1>2. CASE PrinterStep
  BY <1>2 DEF PrinterStep, LocalPrint, HeatUp, PausePrint, ResumePrint, FinishPrint, AbortPrint,
     Settle, RaiseStopCode, ClearStopCode, Telemetry, EndPrint, ChangeState
<1>3. CASE ConnectionStep
  <2>1. jobs' = jobs /\ planned' = planned /\ rows' = rows
    BY <1>3 DEF ConnectionStep, LoseConnection, Reconnect, StopMonitor, Connect
  <2>2. mon'.linked \in {mon.linked, NoJob}
    BY <1>3 DEF ConnectionStep, LoseConnection, Reconnect, StopMonitor, Connect, NoMonitor,
       NewMonitor
  <2> QED
    BY <2>1, <2>2
<1>4. CASE CallbackStep
  <2>1. jobs' = jobs /\ planned' = planned /\ rows' = rows
    BY <1>4 DEF CallbackStep, MergeReport, ResumeRow, StartNotRecorded, EndNotRecorded,
       NothingToRecord
  <2>2. CASE ResumeRow
    <3> DEFINE r == Latest(RunningRows)
    <3>1. r \in DOMAIN rows
      BY <2>2, LatestRunning DEF ResumeRow, Resumable, TypeInv
    <3>2. mon' = [Handled EXCEPT !.cur = r, !.linked = rows[r].link]
      BY <2>2 DEF ResumeRow, Resumable
    <3> HIDE DEF r
    <3>3. mon'.linked = rows[r].link
      BY <1>1, <3>2 DEF Handled, Monitor
    <3> QED
      BY <2>1, <3>1, <3>3
  <2>3. CASE ~ResumeRow
    <3>1. mon'.linked \in {mon.linked, NoJob}
      BY <1>1, <1>4, <2>3 DEF CallbackStep, MergeReport, StartNotRecorded, EndNotRecorded,
         NothingToRecord, Untracked, Handled, Monitor
    <3> QED
      BY <2>1, <3>1
  <2> QED
    BY <2>2, <2>3
<1>5. CASE RecoveryStep
  <2>1. jobs' = jobs /\ planned' = planned
    BY <1>5 DEF RecoveryStep, RecoverSelect, RecoverRows, RecoveryNotCommitted
  <2>2. mon'.linked = mon.linked
    BY <1>1, <1>5 DEF RecoveryStep, RecoverSelect, RecoverRows, RecoveryNotCommitted, Monitor
  <2>3. CASE RecoverRows
    <3>1. DOMAIN rows' = DOMAIN rows
      BY <2>3 DEF RecoverRows
    <3>2. ASSUME NEW r \in DOMAIN rows PROVE rows'[r].link = rows[r].link
      <4>1. rows[r] \in Row
        BY <1>1
      <4>2. rows'[r] = IF r \in mon.snap THEN [rows[r] EXCEPT !.status = RecoveredStatus(r)]
                                         ELSE rows[r]
        BY <2>3 DEF RecoverRows
      <4> QED
        BY <4>1, <4>2 DEF Row
    <3> QED
      BY <2>1, <2>2, <3>1, <3>2
  <2>4. CASE ~RecoverRows
    <3>1. rows' = rows
      BY <1>5, <2>4 DEF RecoveryStep, RecoverSelect, RecoveryNotCommitted
    <3> QED
      BY <2>1, <2>2, <3>1
  <2> QED
    BY <2>3, <2>4
<1>6. ~BeginRun /\ ~CommitRun
  BY DEF BeginRun, CommitRun, LinksBegun
<1>7. CASE UNCHANGED vars
  BY <1>7 DEF vars
<1> QED
  BY <1>2, <1>3, <1>4, <1>5, <1>6, <1>7 DEF Next

(* The jobs a new print displaces are scheduled, and the one it takes is   *)
(* queued: neither has begun.                                              *)
LEMMA InsertJobs ==
    ASSUME TypeInv, InsertRow
    PROVE  \E j \in MaybeJob :
               /\ j \in Job => jobs[j].status \in Queued
               /\ rows' = Append(rows, [status |-> "running", link |-> j,
                                        made |-> FALSE, print |-> mon.st.print])
               /\ mon'.linked = j /\ mon'.cur = Len(rows) + 1
               /\ \A k \in Job : k = j => jobs'[k].status = "printing"
               /\ \A k \in Job : k # j /\ jobs'[k] # jobs[k] =>
                      jobs[k].status = "scheduled" /\ jobs'[k].status = "pending"
               /\ planned' = planned
<1> USE TrackingAssumption
<1>1. PICK old \in SUBSET Job : \E j \in Matches(Candidates(old)) : InsertAs(old, j)
  BY DEF InsertRow, InsertAs
<1>2. PICK j \in Matches(Candidates(old)) : InsertAs(old, j)
  BY <1>1
<1>3. j \in MaybeJob /\ (j \in Job => jobs[j].status \in Queued)
  BY DEF Matches, Candidates, MaybeJob
<1>4. mon'.linked = j /\ mon'.cur = Len(rows) + 1
  BY <1>2 DEF InsertAs, Handled, TypeInv, TypeOK, Monitor
<1>5. ASSUME NEW k \in Job, k = j PROVE jobs'[k].status = "printing"
  BY <1>2, <1>5 DEF InsertAs, TypeInv, TypeOK
<1>6. ASSUME NEW k \in Job, k # j, jobs'[k] # jobs[k]
      PROVE  jobs[k].status = "scheduled" /\ jobs'[k].status = "pending"
  <2>1. k \in Bumped(old, j) /\ jobs'[k] = Unassigned
    BY <1>2, <1>6 DEF InsertAs
  <2> QED
    BY <2>1 DEF Bumped, Swept, Unassigned
<1> QED
  BY <1>2, <1>3, <1>4, <1>5, <1>6 DEF InsertAs, InsertRow

LEMMA LinksStep ==
    ASSUME TypeInv, LinksBegun, [Next]_vars, Dispatcher = {}, SerialRuns
    PROVE  JobStep /\ LinksBegun'
<1> USE TrackingAssumption
<1>1. /\ mon \in Monitor /\ rows \in Seq(Row)
      /\ jobs \in [Job -> [status : JobStatus, here : BOOLEAN]]
  BY DEF TypeInv, TypeOK
<1>2. CASE FailForStopCode
  <2> DEFINE r == Latest(RunningRows)
  <2>1. r \in DOMAIN rows
    BY <1>2, LatestRunning DEF FailForStopCode, TypeInv
  <2>2. rows' = [rows EXCEPT ![r].status = "failed"] /\ jobs' = FailLinked(rows[r].link)
        /\ UNCHANGED <<mon, planned>>
    BY <1>2 DEF FailForStopCode
  <2> HIDE DEF r
  <2>3. DOMAIN rows' = DOMAIN rows /\ \A q \in DOMAIN rows : rows'[q].link = rows[q].link
    BY <1>1, <2>1, <2>2 DEF Row
  <2>4. JobStep
    BY <1>1, <2>1, <2>2 DEF FailLinked, LinksBegun, JobStep, Ended
  <2> QED
    BY <2>2, <2>3, <2>4, KeepBegun DEF LinksBegun
<1>3. CASE InsertRow
  <2>1. PICK j \in MaybeJob :
               /\ j \in Job => jobs[j].status \in Queued
               /\ rows' = Append(rows, [status |-> "running", link |-> j,
                                        made |-> FALSE, print |-> mon.st.print])
               /\ mon'.linked = j
               /\ \A k \in Job : k = j => jobs'[k].status = "printing"
               /\ \A k \in Job : k # j /\ jobs'[k] # jobs[k] =>
                      jobs[k].status = "scheduled" /\ jobs'[k].status = "pending"
               /\ planned' = planned
    BY <1>3, InsertJobs
  <2>2. JobStep
    BY <2>1 DEF JobStep, Queued
  <2>3. ASSUME NEW q \in DOMAIN rows', rows'[q].link \in Job
        PROVE  jobs'[rows'[q].link].status \in Begun
    <3>1. CASE q \in DOMAIN rows
      <4>1. rows'[q] = rows[q]
        BY <1>1, <2>1, <3>1
      <4> QED
        BY <2>2, <2>3, <3>1, <4>1, KeepBegun DEF LinksBegun
    <3>2. CASE q \notin DOMAIN rows
      <4>1. rows'[q].link = j
        BY <1>1, <2>1, <3>2
      <4> QED
        BY <2>1, <2>3, <4>1 DEF Begun
    <3> QED
      BY <3>1, <3>2
  <2>4. mon'.linked \in Job => jobs'[mon'.linked].status \in Begun
    BY <2>1 DEF Begun
  <2> QED
    BY <2>1, <2>2, <2>3, <2>4 DEF LinksBegun
<1>4. CASE RecordEnd
  <2> DEFINE s == Conclusion(mon.st.g)
  <2>1. s \in Ended
    BY <1>4 DEF RecordEnd, EndSeen, Resting, Conclusion, Ended
  <2>2. jobs' = ConcludeLinked(s) /\ planned' = planned /\ mon' = Untracked
    BY <1>4 DEF RecordEnd
  <2>3. mon'.linked = NoJob
    BY <1>1, <2>2 DEF Untracked, Handled, Monitor
  <2>4. DOMAIN rows' = DOMAIN rows
        /\ \A q \in DOMAIN rows : rows'[q].link \in {rows[q].link, NoJob}
    <3> DEFINE e == IF mon.linked = NoJob
                    THEN [rows[mon.cur] EXCEPT !.status = s, !.link = NoJob, !.made = TRUE]
                    ELSE [rows[mon.cur] EXCEPT !.status = s]
    <3>1. rows' = [rows EXCEPT ![mon.cur] = e]
      BY <1>4 DEF RecordEnd
    <3>2. ASSUME mon.cur \in DOMAIN rows PROVE e.link \in {rows[mon.cur].link, NoJob}
      <4>1. rows[mon.cur] \in Row
        BY <1>1, <3>2
      <4> QED
        BY <4>1 DEF Row
    <3> HIDE DEF e
    <3> QED
      BY <1>1, <3>1, <3>2
  <2> HIDE DEF s
  <2>5. JobStep
    BY <1>1, <2>1, <2>2 DEF ConcludeLinked, LinksBegun, JobStep
  <2> QED
    BY <2>2, <2>3, <2>4, <2>5, KeepBegun DEF LinksBegun
<1>5. CASE RunScheduler
  <2>1. JobStep
    BY <1>1, <1>5 DEF RunScheduler, JobStep, Queued, Assigned, Unassigned
  <2>2. UNCHANGED <<mon, rows, planned>>
    BY <1>5 DEF RunScheduler
  <2> QED
    BY <2>1, <2>2, KeepBegun DEF LinksBegun
<1>6. CASE ~FailForStopCode /\ ~InsertRow /\ ~RecordEnd /\ ~RunScheduler
  <2>1. /\ jobs' = jobs /\ planned' = planned
        /\ mon'.linked \in {mon.linked, NoJob} \cup {rows[r].link : r \in DOMAIN rows}
        /\ DOMAIN rows' = DOMAIN rows
        /\ \A r \in DOMAIN rows : rows'[r].link = rows[r].link
    BY <1>6, OtherSteps
  <2> QED
    BY <2>1 DEF LinksBegun, JobStep
<1> QED
  BY <1>2, <1>3, <1>4, <1>5, <1>6

(* No report, connection, restart or database error moves a job back: no   *)
(* print displaces a job that is printing or starts one that has ended.    *)
(* The dispatch route and the scheduler's gap are excluded, which can.     *)
THEOREM JobsForward ==
    ASSUME Dispatcher = {}, SerialRuns
    PROVE  Spec => JobsMoveForward
<1> DEFINE Step == \A j \in Job : jobs'[j].status # jobs[j].status =>
                       <<jobs[j].status, jobs'[j].status>> \in Moves
<1>1. Init => LinksBegun
  BY TrackingAssumption DEF Init, LinksBegun, NewMonitor
<1>2. TypeInv /\ LinksBegun /\ [Next]_vars => LinksBegun'
  BY LinksStep
<1>3. TypeInv /\ LinksBegun /\ [Next]_vars => Step
  <2> SUFFICES ASSUME JobStep, NEW j \in Job, jobs'[j].status # jobs[j].status
               PROVE  <<jobs[j].status, jobs'[j].status>> \in Moves
    BY LinksStep
  <2>1. CASE jobs[j].status \in Queued /\ jobs'[j].status \in Queued \cup {"printing"}
    BY <2>1 DEF Queued, Moves
  <2>2. CASE jobs[j].status \in Begun /\ jobs'[j].status \in Ended
    BY <2>2 DEF Begun, Moves
  <2> QED
    BY <2>1, <2>2 DEF JobStep
<1>4. TypeInv /\ LinksBegun /\ [Next]_vars => [Step]_vars
  BY <1>3
<1> QED
  BY <1>1, <1>2, <1>4, TypeInvariant, PTL DEF Spec, JobsMoveForward
-----------------------------------------------------------------------------
(* The monitor's link agrees with the row it tracks while that row runs.   *)
CurLinked ==
    mon.cur \in DOMAIN rows /\ rows[mon.cur].status = "running" =>
        mon.linked = rows[mon.cur].link

(* A job is linked to one row: it can be matched only before it begins.    *)
UniqueLinks ==
    \A q, r \in DOMAIN rows : rows[q].link \in Job /\ rows[q].link = rows[r].link => q = r

FollowInv == LinksBegun /\ CurLinked /\ UniqueLinks /\ FollowPrints

LEMMA TrackedKept ==
    ASSUME TypeInv, mon.rec = "done", CurLinked, [Next]_vars, ~FailForStopCode, ~InsertRow, ~RecordEnd
    PROVE  rows' = rows /\ CurLinked'
<1> USE DEF tables, connection
<1>1. mon \in Monitor /\ rows \in Seq(Row) /\ 0 \notin DOMAIN rows
  BY DEF TypeInv, TypeOK
<1>2. ~RecoveryStep
  BY DEF RecoveryStep, RecoverSelect, RecoverRows, RecoveryNotCommitted
<1>3. rows' = rows
  BY <1>2, RowsUnchanged DEF RowStep, RecoveryStep
<1>4. CASE UNCHANGED mon
  BY <1>3, <1>4 DEF CurLinked
<1>5. CASE ConnectionStep
  <2>1. UNCHANGED mon \/ mon'.cur = 0
    BY <1>5 DEF ConnectionStep, LoseConnection, Reconnect, StopMonitor, Connect, NoMonitor,
       NewMonitor
  <2> QED
    BY <1>1, <1>3, <1>4, <2>1 DEF CurLinked
<1>6. CASE ResumeRow
  <2> DEFINE r == Latest(RunningRows)
  <2>1. mon' = [Handled EXCEPT !.cur = r, !.linked = rows[r].link]
    BY <1>6 DEF ResumeRow, Resumable
  <2> HIDE DEF r
  <2>2. mon'.cur = r /\ mon'.linked = rows[r].link
    BY <1>1, <2>1 DEF Handled, Monitor
  <2> QED
    BY <1>3, <2>2 DEF CurLinked
<1>7. CASE MergeReport \/ StartNotRecorded \/ NothingToRecord
  <2>1. mon'.cur = mon.cur /\ mon'.linked = mon.linked
    BY <1>1, <1>7 DEF MergeReport, StartNotRecorded, NothingToRecord, Handled, Monitor
  <2> QED
    BY <1>3, <2>1 DEF CurLinked
<1>8. CASE EndNotRecorded
  <2>1. mon'.cur = 0
    BY <1>1, <1>8 DEF EndNotRecorded, Untracked, Handled, Monitor
  <2> QED
    BY <1>1, <1>3, <2>1 DEF CurLinked
<1>9. CASE PrinterStep
  BY <1>4, <1>9 DEF PrinterStep, LocalPrint, HeatUp, PausePrint, ResumePrint, FinishPrint,
     AbortPrint, Settle, RaiseStopCode, ClearStopCode, Telemetry, EndPrint, ChangeState
<1>10. CASE RunScheduler \/ BeginRun \/ CommitRun
  BY <1>4, <1>10 DEF RunScheduler, BeginRun, CommitRun
<1>11. ASSUME NEW d \in Dispatcher, DispatchStep(d) PROVE UNCHANGED mon
  BY <1>11 DEF DispatchStep, BeginDispatch, FailDispatch, SendPrint, MarkPrinting
<1> QED
  BY <1>2, <1>3, <1>4, <1>5, <1>6, <1>7, <1>8, <1>9, <1>10, <1>11
  DEF Next, CallbackStep, vars

(* A row's end and its job's are written together.                         *)
LEMMA EndTogether ==
    ASSUME TypeInv, FollowInv, NEW r \in RunningRows, NEW s \in Ended,
           DOMAIN rows' = DOMAIN rows,
           \A q \in DOMAIN rows : q # r => rows'[q] = rows[q],
           rows'[r].status = s, rows'[r].link = rows[r].link,
           jobs' = [k \in Job |-> IF k = rows[r].link THEN [jobs[k] EXCEPT !.status = s]
                                  ELSE jobs[k]]
    PROVE  UniqueLinks' /\ FollowPrints'
<1> USE DEF FollowInv, Ended
<1>1. /\ jobs \in [Job -> [status : JobStatus, here : BOOLEAN]]
      /\ \A q \in DOMAIN rows : rows[q].link \in Job \cup {NoJob}
      /\ r \in DOMAIN rows
  <2>1. \A q \in DOMAIN rows : rows[q] \in Row
    BY DEF TypeInv, TypeOK
  <2> QED
    BY <2>1 DEF TypeInv, TypeOK, Row, MaybeJob, RunningRows
<1>2. \A q \in DOMAIN rows : rows'[q].link = rows[q].link
  OBVIOUS
<1>3. UniqueLinks'
  BY <1>2 DEF UniqueLinks
<1>4. \A k \in Job : jobs'[k].status = IF k = rows[r].link THEN s ELSE jobs[k].status
  BY <1>1
<1>5. ASSUME NEW k \in Job, jobs'[k].status = "printing"
      PROVE  \E q \in RunningRows' : rows'[q].link = k
  <2>1. k # rows[r].link /\ jobs[k].status = "printing"
    BY <1>4, <1>5
  <2>2. PICK q \in RunningRows : rows[q].link = k
    BY <2>1 DEF FollowPrints
  <2> QED
    BY <1>1, <2>1, <2>2 DEF RunningRows
<1>6. ASSUME NEW q \in DOMAIN rows, rows[q].link # NoJob
      PROVE  jobs'[rows[q].link].status =
                 IF rows'[q].status = "running" THEN "printing" ELSE rows'[q].status
  <2>1. rows[q].link \in Job
    BY <1>1, <1>6
  <2>2. CASE q = r
    BY <1>4, <2>1, <2>2
  <2>3. CASE q # r
    <3>1. rows[q].link # rows[r].link
      BY <1>1, <2>1, <2>3 DEF UniqueLinks
    <3> QED
      BY <1>4, <1>6, <2>1, <2>3, <3>1 DEF FollowPrints
  <2> QED
    BY <2>2, <2>3
<1> QED
  BY <1>2, <1>3, <1>5, <1>6 DEF FollowPrints

LEMMA FollowStep ==
    ASSUME TypeInv, mon.rec = "done", FollowInv, [Next]_vars, Dispatcher = {}, SerialRuns
    PROVE  FollowInv'
<1> USE TrackingAssumption
<1>1. /\ mon \in Monitor /\ rows \in Seq(Row) /\ DOMAIN rows = 1..Len(rows)
      /\ jobs \in [Job -> [status : JobStatus, here : BOOLEAN]]
  BY DEF TypeInv, TypeOK
<1>2. LinksBegun'
  BY LinksStep DEF FollowInv
<1>3. CASE FailForStopCode
  <2> DEFINE r == Latest(RunningRows)
  <2>1. r \in RunningRows
    BY <1>3, LatestRunning DEF FailForStopCode, TypeInv, RunningRows
  <2>2. rows' = [rows EXCEPT ![r].status = "failed"] /\ jobs' = FailLinked(rows[r].link)
        /\ mon' = mon
    BY <1>3 DEF FailForStopCode
  <2> HIDE DEF r
  <2>3. rows[r] \in Row
    BY <1>1, <2>1 DEF RunningRows
  <2>4. /\ DOMAIN rows' = DOMAIN rows /\ rows'[r].status = "failed"
        /\ rows'[r].link = rows[r].link
        /\ \A q \in DOMAIN rows : q # r => rows'[q] = rows[q]
    BY <1>1, <2>1, <2>2, <2>3 DEF Row, RunningRows
  <2>5. UniqueLinks' /\ FollowPrints'
    BY <2>1, <2>2, <2>4, EndTogether DEF FailLinked, Ended
  <2>6. CurLinked'
    BY <2>2, <2>4 DEF FollowInv, CurLinked
  <2> QED
    BY <1>2, <2>5, <2>6 DEF FollowInv
<1>4. CASE RecordEnd
  <2> DEFINE s == Conclusion(mon.st.g)
             r == mon.cur
  <2>1. s \in Ended
    BY <1>4 DEF RecordEnd, EndSeen, Resting, Conclusion, Ended
  <2>2. r \in DOMAIN rows /\ rows[r] \in Row
    BY <1>1, <1>4 DEF RecordEnd, TypeInv, Bounds
  <2>3. r \in RunningRows
    BY <1>4, <2>2 DEF RecordEnd, AlreadyEnded, RunningRows, Row
  <2>4. rows[r].link = mon.linked
    BY <2>3 DEF FollowInv, CurLinked, RunningRows
  <2>5. /\ DOMAIN rows' = DOMAIN rows /\ rows'[r].status = s
        /\ rows'[r].link = rows[r].link
        /\ \A q \in DOMAIN rows : q # r => rows'[q] = rows[q]
    <3> DEFINE e == IF mon.linked = NoJob
                    THEN [rows[r] EXCEPT !.status = s, !.link = NoJob, !.made = TRUE]
                    ELSE [rows[r] EXCEPT !.status = s]
    <3>1. rows' = [rows EXCEPT ![r] = e]
      BY <1>4 DEF RecordEnd
    <3>2. e.status = s /\ e.link = rows[r].link
      BY <2>2, <2>4 DEF Row
    <3> HIDE DEF e
    <3> QED
      BY <1>1, <2>2, <3>1, <3>2
  <2>6. jobs' = ConcludeLinked(s) /\ mon'.cur = 0
    BY <1>1, <1>4 DEF RecordEnd, Untracked, Handled, Monitor
  <2> HIDE DEF s, r
  <2>7. jobs' = [k \in Job |-> IF k = rows[r].link THEN [jobs[k] EXCEPT !.status = s] ELSE jobs[k]]
    BY <2>4, <2>6 DEF ConcludeLinked
  <2>8. UniqueLinks' /\ FollowPrints'
    BY <2>1, <2>3, <2>5, <2>7, EndTogether
  <2>9. CurLinked'
    BY <1>1, <2>5, <2>6 DEF CurLinked
  <2> QED
    BY <1>2, <2>8, <2>9 DEF FollowInv
<1>5. CASE InsertRow
  <2>1. PICK j \in MaybeJob :
               /\ j \in Job => jobs[j].status \in Queued
               /\ rows' = Append(rows, [status |-> "running", link |-> j,
                                        made |-> FALSE, print |-> mon.st.print])
               /\ mon'.linked = j /\ mon'.cur = Len(rows) + 1
               /\ \A k \in Job : k = j => jobs'[k].status = "printing"
               /\ \A k \in Job : k # j /\ jobs'[k] # jobs[k] =>
                      jobs[k].status = "scheduled" /\ jobs'[k].status = "pending"
    BY <1>5, InsertJobs
  <2> DEFINE n == Len(rows) + 1
  <2>2. /\ DOMAIN rows' = DOMAIN rows \cup {n} /\ n \notin DOMAIN rows
        /\ \A q \in DOMAIN rows : rows'[q] = rows[q]
        /\ rows'[n].link = j /\ rows'[n].status = "running"
    BY <1>1, <2>1
  <2> HIDE DEF n
  <2>3. \A q \in DOMAIN rows : rows[q].link \in Job => jobs[rows[q].link].status \in Begun
    BY DEF FollowInv, LinksBegun
  <2>4. \A q \in DOMAIN rows : rows[q].link \in Job => rows[q].link # j
    BY <2>1, <2>3 DEF Begun, Queued, Ended
  <2>5. UniqueLinks'
    BY <2>2, <2>4 DEF FollowInv, UniqueLinks
  <2>6. CurLinked'
    BY <2>1, <2>2 DEF CurLinked, n
  <2>7. ASSUME NEW k \in Job, jobs'[k].status = "printing"
        PROVE  \E q \in RunningRows' : rows'[q].link = k
    <3>1. CASE k = j
      BY <2>2, <3>1 DEF RunningRows
    <3>2. CASE k # j
      <4>1. jobs[k].status = "printing"
        BY <2>1, <2>7, <3>2
      <4>2. PICK q \in RunningRows : rows[q].link = k
        BY <4>1 DEF FollowInv, FollowPrints
      <4> QED
        BY <2>2, <4>2 DEF RunningRows
    <3> QED
      BY <3>1, <3>2
  <2>8. ASSUME NEW q \in DOMAIN rows', rows'[q].link # NoJob
        PROVE  jobs'[rows'[q].link].status =
                   IF rows'[q].status = "running" THEN "printing" ELSE rows'[q].status
    <3>1. CASE q = n
      BY <2>1, <2>2, <2>8, <3>1 DEF MaybeJob
    <3>2. CASE q \in DOMAIN rows
      <4>1. rows[q] \in Row /\ rows'[q] = rows[q]
        BY <1>1, <2>2, <3>2
      <4>2. rows[q].link \in Job
        BY <2>8, <4>1 DEF Row, MaybeJob
      <4>3. jobs[rows[q].link].status # "scheduled"
        BY <2>3, <3>2, <4>2 DEF Begun, Ended
      <4>4. jobs'[rows[q].link] = jobs[rows[q].link]
        BY <2>1, <2>4, <3>2, <4>2, <4>3
      <4> QED
        BY <2>8, <3>2, <4>1, <4>4 DEF FollowInv, FollowPrints
    <3> QED
      BY <2>2, <3>1, <3>2
  <2> QED
    BY <1>2, <2>5, <2>6, <2>7, <2>8 DEF FollowInv, FollowPrints
<1>6. CASE ~FailForStopCode /\ ~InsertRow /\ ~RecordEnd
  <2>1. rows' = rows /\ CurLinked'
    BY <1>6, TrackedKept DEF FollowInv
  <2>2. UniqueLinks'
    BY <2>1 DEF FollowInv, UniqueLinks
  <2>3. CASE RunScheduler
    <3>1. \A k \in Job : jobs'[k] # jobs[k] =>
              jobs[k].status \in Queued /\ jobs'[k].status \in Queued
      BY <1>1, <2>3 DEF RunScheduler, Queued, Assigned, Unassigned
    <3>2. ASSUME NEW q \in DOMAIN rows, rows[q].link # NoJob
          PROVE  jobs'[rows[q].link] = jobs[rows[q].link]
      <4>1. rows[q] \in Row
        BY <1>1
      <4>2. rows[q].link \in Job
        BY <3>2, <4>1 DEF Row, MaybeJob
      <4> QED
        BY <3>1, <3>2, <4>2 DEF FollowInv, LinksBegun, Begun, Ended, Queued
    <3>3. \A k \in Job : jobs'[k].status = "printing" => jobs[k].status = "printing"
      BY <3>1 DEF Queued
    <3> QED
      BY <1>2, <2>1, <2>2, <3>2, <3>3 DEF FollowInv, FollowPrints, RunningRows
  <2>4. CASE ~RunScheduler
    <3>1. jobs' = jobs
      BY <1>6, <2>4, OtherSteps DEF FollowInv
    <3> QED
      BY <1>2, <2>1, <2>2, <3>1 DEF FollowInv, FollowPrints, RunningRows
  <2> QED
    BY <2>3, <2>4
<1> QED
  BY <1>3, <1>4, <1>5, <1>6

LEMMA RestartsGrow ==
    ASSUME TypeInv, [Next]_vars, restarts' = 0
    PROVE  restarts = 0
<1> USE DEF connection
<1>1. restarts \in Nat
  BY TrackingAssumption DEF TypeInv, TypeOK
<1>2. CASE ConnectionStep
  BY <1>1, <1>2 DEF ConnectionStep, LoseConnection, Reconnect, StopMonitor, Connect
<1>3. CASE PrinterStep
  BY <1>3 DEF PrinterStep, LocalPrint, HeatUp, PausePrint, ResumePrint, FinishPrint, AbortPrint,
     Settle, RaiseStopCode, ClearStopCode, Telemetry, EndPrint, ChangeState, StartPrint, Publish
<1>4. CASE CallbackStep
  BY <1>4 DEF CallbackStep, FailForStopCode, MergeReport, ResumeRow, InsertRow,
     StartNotRecorded, RecordEnd, EndNotRecorded, NothingToRecord
<1>5. CASE RecoveryStep
  BY <1>5 DEF RecoveryStep, RecoverSelect, RecoverRows, RecoveryNotCommitted
<1>6. CASE RunScheduler \/ BeginRun \/ CommitRun
  BY <1>6 DEF RunScheduler, BeginRun, CommitRun
<1>7. ASSUME NEW d \in Dispatcher, DispatchStep(d) PROVE restarts' = restarts
  BY <1>7 DEF DispatchStep, BeginDispatch, FailDispatch, SendPrint, MarkPrinting, StartPrint,
     Publish
<1> QED
  BY <1>2, <1>3, <1>4, <1>5, <1>6, <1>7 DEF Next, vars

(* Until the monitor is first replaced, a linked job is printing exactly   *)
(* while its row runs and takes the row's end, through stop codes, missed  *)
(* reports and failed transactions.                                        *)
THEOREM JobsFollow ==
    ASSUME Dispatcher = {}, SerialRuns
    PROVE  Spec => []JobsFollowPrints
<1> DEFINE Inv == restarts = 0 => FollowInv
<1>1. Init => Inv
  <2> SUFFICES ASSUME Init PROVE FollowInv
    OBVIOUS
  <2>1. rows = <<>> /\ planned = {} /\ mon.linked = NoJob
    BY DEF Init, NewMonitor
  <2>2. \A j \in Job : jobs[j].status = "pending"
    BY DEF Init
  <2> QED
    BY <2>1, <2>2, TrackingAssumption
    DEF FollowInv, LinksBegun, CurLinked, UniqueLinks, FollowPrints
<1>2. TypeInv /\ NoRecovery /\ Inv /\ [Next]_vars => Inv'
  BY FollowStep, RestartsGrow DEF NoRecovery
<1>3. Inv => JobsFollowPrints
  BY DEF FollowInv, JobsFollowPrints
<1> QED
  BY <1>1, <1>2, <1>3, TypeInvariant, RecoveryIdle, PTL DEF Spec
=============================================================================
