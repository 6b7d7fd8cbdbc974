------------------------- MODULE PrintLedgerProofs -------------------------
(***************************************************************************)
(* The rows of a printer are in the order of its prints, one to each, and  *)
(* are a ledger (PrintLedger), for any number of prints, waiting reports,  *)
(* lost connections, jobs and dispatch threads.  The argument is about the *)
(* order of reports: what the monitor hears of a print is never followed   *)
(* by something earlier, and a print that rests is over.                   *)
(***************************************************************************)
EXTENDS PrintTrackingProofs

(* Report y may be heard after report x.                                   *)
Follows(x, y) ==
    /\ x.print <= y.print
    /\ x.print = y.print =>
           /\ x.g \in Resting => y.g \in Resting
           /\ x.g \in Active => y.g \in Active \cup Resting

LEMMA FollowsTransitive ==
    ASSUME NEW x, NEW y, NEW z, x.print \in Nat, y.print \in Nat, z.print \in Nat,
           Follows(x, y), Follows(y, z)
    PROVE  Follows(x, z)
BY DEF Follows

Numbered(x) == x.g \in Active => x.print # 0

(* The state merged last, the reports that wait and the printer's state    *)
(* follow one another.                                                     *)
Stream ==
    /\ Follows(mon.st, printer) /\ Numbered(mon.st)
    /\ \A i \in DOMAIN wire : /\ Follows(mon.st, wire[i]) /\ Follows(wire[i], printer)
                              /\ Numbered(wire[i])
    /\ \A i, j \in DOMAIN wire : i < j => Follows(wire[i], wire[j])

LEMMA StreamTypes ==
    ASSUME TypeInv
    PROVE  /\ mon \in Monitor /\ mon.st.print \in Nat
           /\ printer \in Report /\ printer.print \in Nat
           /\ wire \in Seq(Report) /\ \A i \in DOMAIN wire : wire[i].print \in Nat
<1>1. mon \in Monitor /\ printer \in Report /\ wire \in Seq(Report)
  BY DEF TypeInv, TypeOK
<1>2. mon.st.print \in Nat
  BY <1>1 DEF Monitor, Report, NoReport
<1>3. printer.print \in Nat
  BY <1>1 DEF Report
<1>4. ASSUME NEW i \in DOMAIN wire PROVE wire[i].print \in Nat
  <2>1. wire[i] \in Report
    BY <1>1
  <2> QED
    BY <2>1 DEF Report
<1> QED
  BY <1>1, <1>2, <1>3, <1>4

(* A printer that publishes its next state lengthens the stream.           *)
LEMMA PublishStream ==
    ASSUME TypeInv, Stream, NEW p \in Report, Publish(p), Follows(printer, p), Numbered(p),
           mon' = mon
    PROVE  Stream'
<1>1. /\ mon.st.print \in Nat /\ printer.print \in Nat /\ p.print \in Nat
      /\ wire \in Seq(Report) /\ \A i \in DOMAIN wire : wire[i].print \in Nat
  BY StreamTypes DEF Report
<1>2. Follows(mon.st, p) /\ \A i \in DOMAIN wire : Follows(wire[i], p)
  BY <1>1, FollowsTransitive DEF Stream
<1>3. Follows(p, p)
  BY <1>1 DEF Follows
<1>4. printer' = p /\ (wire' = wire \/ wire' = Append(wire, p))
  BY DEF Publish
<1>5. CASE wire' = wire
  BY <1>2, <1>4, <1>5 DEF Stream
<1>6. CASE wire' = Append(wire, p)
  <2> DEFINE n == Len(wire) + 1
  <2>1. /\ DOMAIN wire' = DOMAIN wire \cup {n} /\ wire'[n] = p
        /\ \A i \in DOMAIN wire : wire'[i] = wire[i] /\ i < n /\ i # n
        /\ DOMAIN wire \subseteq Int /\ n \in Int
    BY <1>1, <1>6
  <2> HIDE DEF n
  <2>2. \A i \in DOMAIN wire' : /\ Follows(mon.st, wire'[i]) /\ Follows(wire'[i], p)
                                /\ Numbered(wire'[i])
    BY <1>2, <1>3, <2>1 DEF Stream
  <2>3. ASSUME NEW i \in DOMAIN wire', NEW j \in DOMAIN wire', i < j
        PROVE  Follows(wire'[i], wire'[j])
    <3>1. CASE i \in DOMAIN wire /\ j \in DOMAIN wire
      BY <2>1, <2>3, <3>1 DEF Stream
    <3>2. CASE i \in DOMAIN wire /\ j = n
      BY <1>2, <2>1, <3>2
    <3>3. CASE i = n
      BY <2>1, <2>3, <3>3
    <3> QED
      BY <2>1, <3>1, <3>2, <3>3
  <2> QED
    BY <1>2, <1>4, <2>2, <2>3 DEF Stream
<1> QED
  BY <1>4, <1>5, <1>6

(* A start, a change within a print and its end follow the printer's state.*)
Speaks == \E p \in Report : Publish(p) /\ Follows(printer, p) /\ Numbered(p)

LEMMA StartSpeaks ==
    ASSUME TypeInv, NEW f \in MaybeJob, StartPrint(f)
    PROVE  Speaks
<1> DEFINE p == [printer EXCEPT !.g = "PREPARE", !.print = @ + 1, !.file = f]
<1>1. p \in Report /\ p.print = printer.print + 1 /\ p.g = "PREPARE" /\ printer.print \in Nat
  <2>1. printer \in Report /\ printer.print \in Nat
    BY StreamTypes
  <2>2. printer.print + 1 \in Nat /\ "PREPARE" \in GcodeState
    BY <2>1 DEF GcodeState
  <2> QED
    BY <2>1, <2>2 DEF Report
<1>2. Publish(p)
  BY DEF StartPrint
<1> HIDE DEF p
<1>3. Follows(printer, p) /\ Numbered(p)
  BY <1>1 DEF Follows, Numbered, Active
<1> QED
  BY <1>1, <1>2, <1>3 DEF Speaks

LEMMA ChangeSpeaks ==
    ASSUME TypeInv, NEW p \in Report, Publish(p), p.print = printer.print,
           \/ p.g = printer.g
           \/ p.g \in Resting
           \/ p.g \in Active /\ printer.g \notin Resting
    PROVE  Speaks
<1>1. printer.print \in Nat
  BY StreamTypes
<1>2. Follows(printer, p)
  BY <1>1 DEF Follows
<1>3. Numbered(p)
  BY DEF Numbered, TypeInv, Bounds, Active, Resting
<1> QED
  BY <1>2, <1>3 DEF Speaks
-----------------------------------------------------------------------------
LEMMA PrinterSpeaks ==
    ASSUME TypeInv, PrinterStep
    PROVE  Speaks /\ mon' = mon /\ rows' = rows
<1>1. printer \in Report
  BY StreamTypes
<1>2. mon' = mon /\ rows' = rows
  BY DEF PrinterStep, LocalPrint, HeatUp, PausePrint, ResumePrint, FinishPrint, AbortPrint,
     Settle, RaiseStopCode, ClearStopCode, Telemetry, EndPrint, ChangeState, tables
<1> SUFFICES Speaks
  BY <1>2
<1>3. CASE LocalPrint
  BY <1>3, StartSpeaks DEF LocalPrint
<1>4. ASSUME NEW from \in SUBSET GcodeState, NEW to \in GcodeState, ChangeState(from, to),
             to \in Resting \/ (to \in Active /\ from \cap Resting = {})
      PROVE  Speaks
  <2> DEFINE p == [printer EXCEPT !.g = to]
  <2>1. p \in Report /\ p.print = printer.print /\ p.g = to
    BY <1>1 DEF Report
  <2>2. Publish(p) /\ printer.g \in from
    BY <1>4 DEF ChangeState
  <2> HIDE DEF p
  <2> QED
    BY <1>4, <2>1, <2>2, ChangeSpeaks
<1>5. CASE HeatUp
  BY <1>4, <1>5 DEF HeatUp, Active, Resting, GcodeState
<1>6. CASE PausePrint
  BY <1>4, <1>6 DEF PausePrint, Active, Resting, GcodeState
<1>7. CASE ResumePrint
  BY <1>4, <1>7 DEF ResumePrint, Active, Resting, GcodeState
<1>8. CASE FinishPrint
  BY <1>4, <1>8 DEF FinishPrint, EndPrint, Active, Resting, GcodeState
<1>9. CASE AbortPrint
  BY <1>4, <1>9 DEF AbortPrint, EndPrint, Active, Resting, GcodeState
<1>10. CASE Settle
  BY <1>4, <1>10 DEF Settle, Active, Resting, GcodeState
<1>11. CASE RaiseStopCode \/ ClearStopCode \/ Telemetry
  <2>1. PICK h \in BOOLEAN : Publish([printer EXCEPT !.hms = h])
    <3>1. printer = [printer EXCEPT !.hms = printer.hms] /\ printer.hms \in BOOLEAN
      BY <1>1 DEF Report
    <3> QED
      BY <1>11, <3>1 DEF RaiseStopCode, ClearStopCode, Telemetry
  <2> DEFINE p == [printer EXCEPT !.hms = h]
  <2>2. p \in Report /\ p.print = printer.print /\ p.g = printer.g
    BY <1>1 DEF Report
  <2>3. Publish(p)
    BY <2>1
  <2> HIDE DEF p
  <2> QED
    BY <2>2, <2>3, ChangeSpeaks
<1> QED
  BY <1>3, <1>5, <1>6, <1>7, <1>8, <1>9, <1>10, <1>11 DEF PrinterStep

LEMMA SpeaksStream ==
    ASSUME TypeInv, Stream, Speaks, mon' = mon
    PROVE  Stream'
BY PublishStream DEF Speaks

LEMMA ConnectionStream ==
    ASSUME TypeInv, Stream, ConnectionStep
    PROVE  Stream'
<1> USE StreamTypes DEF Stream
<1>1. printer' = printer
  BY DEF ConnectionStep, LoseConnection, Reconnect, StopMonitor, Connect, environment
<1>2. mon'.st = mon.st \/ mon'.st = NoReport
  BY DEF ConnectionStep, LoseConnection, Reconnect, StopMonitor, Connect, NoMonitor, NewMonitor
<1>3. wire' = <<>> \/ wire' = <<printer>>
  BY DEF ConnectionStep, LoseConnection, Reconnect, StopMonitor, Connect
<1>4. Follows(mon'.st, printer) /\ Numbered(mon'.st)
  BY <1>2 DEF Follows, Numbered, NoReport, Active, Resting
<1>5. Follows(printer, printer) /\ Numbered(printer)
  BY DEF Follows, Numbered, TypeInv, Bounds, Active, Resting
<1> QED
  BY <1>1, <1>3, <1>4, <1>5

LEMMA MergeStream ==
    ASSUME TypeInv, Stream, MergeReport
    PROVE  Stream' /\ Follows(mon.st, mon'.st)
<1>1. wire \in Seq(Report) /\ wire # <<>> /\ mon \in Monitor
  BY StreamTypes DEF MergeReport
<1>2. printer' = printer /\ wire' = Tail(wire)
  BY DEF MergeReport, environment
<1>3. mon'.st = wire[1]
  BY <1>1 DEF MergeReport, Monitor
<1>4. /\ 1 \in DOMAIN wire
      /\ \A i \in DOMAIN wire' : /\ i + 1 \in DOMAIN wire /\ wire'[i] = wire[i + 1]
                                 /\ i \in Nat /\ 1 < i + 1
  BY <1>1, <1>2
<1>5. \A i \in DOMAIN wire' : /\ Follows(mon'.st, wire'[i]) /\ Follows(wire'[i], printer)
                              /\ Numbered(wire'[i])
  BY <1>3, <1>4 DEF Stream
<1>6. ASSUME NEW i \in DOMAIN wire', NEW j \in DOMAIN wire', i < j
      PROVE  Follows(wire'[i], wire'[j])
  <2>1. i + 1 < j + 1
    BY <1>4, <1>6
  <2> QED
    BY <1>4, <2>1 DEF Stream
<1> QED
  BY <1>2, <1>3, <1>4, <1>5, <1>6 DEF Stream

(* The other steps leave the stream alone.                                 *)
LEMMA OtherStream ==
    ASSUME TypeInv, [Next]_vars, ~PrinterStep, ~ConnectionStep, ~MergeReport,
           \A d \in Dispatcher : ~SendPrint(d)
    PROVE  UNCHANGED <<printer, wire, mon.st>>
<1> USE DEF environment, connection
<1>1. mon \in Monitor
  BY StreamTypes
<1>2. CASE CallbackStep
  <2>1. UNCHANGED <<printer, wire>>
    BY <1>2 DEF CallbackStep, FailForStopCode, ResumeRow, InsertRow, StartNotRecorded, RecordEnd,
       EndNotRecorded, NothingToRecord
  <2>2. mon'.st = mon.st
    BY <1>1, <1>2 DEF CallbackStep, FailForStopCode, ResumeRow, InsertRow, StartNotRecorded,
       RecordEnd, EndNotRecorded, NothingToRecord, Handled, Untracked, Monitor
  <2> QED
    BY <2>1, <2>2
<1>3. CASE RecoveryStep
  BY <1>1, <1>3 DEF RecoveryStep, RecoverSelect, RecoverRows, RecoveryNotCommitted, Monitor
<1>4. CASE RunScheduler \/ BeginRun \/ CommitRun
  BY <1>4 DEF RunScheduler, BeginRun, CommitRun
<1>5. ASSUME NEW d \in Dispatcher, DispatchStep(d) PROVE UNCHANGED <<printer, wire, mon.st>>
  BY <1>5 DEF DispatchStep, BeginDispatch, FailDispatch, MarkPrinting
<1> QED
  BY <1>2, <1>3, <1>4, <1>5 DEF Next, vars

LEMMA StreamStep ==
    ASSUME TypeInv, Stream, [Next]_vars
    PROVE  Stream'
<1>1. ASSUME NEW d \in Dispatcher, SendPrint(d) PROVE Stream'
  <2>1. mon' = mon /\ dispatch[d].job \in MaybeJob
    BY <1>1 DEF SendPrint, TypeInv, TypeOK, Thread
  <2>2. CASE StartPrint(dispatch[d].job)
    BY <2>1, <2>2, StartSpeaks, SpeaksStream
  <2>3. CASE UNCHANGED <<environment, connection>>
    BY <2>1, <2>3 DEF environment, connection, Stream
  <2> QED
    BY <1>1, <2>2, <2>3 DEF SendPrint
<1>2. CASE UNCHANGED <<printer, wire, mon.st>>
  BY <1>2 DEF Stream
<1> QED
  BY <1>1, <1>2, PrinterSpeaks, SpeaksStream, ConnectionStream, MergeStream, OtherStream
-----------------------------------------------------------------------------
(* A row keeps the print it was inserted for.                              *)
LEMMA RowPrints ==
    ASSUME TypeInv, [Next]_vars, ~InsertRow
    PROVE  /\ DOMAIN rows' = DOMAIN rows
           /\ \A r \in DOMAIN rows : rows'[r].print = rows[r].print
<1>1. rows \in Seq(Row) /\ \A r \in DOMAIN rows : rows[r] \in Row
  BY DEF TypeInv, TypeOK
<1>2. CASE FailForStopCode
  BY <1>1, <1>2 DEF FailForStopCode, Row
<1>3. CASE RecordEnd
  <2> DEFINE s == Conclusion(mon.st.g)
             e == IF mon.linked = NoJob
                  THEN [rows[mon.cur] EXCEPT !.status = s, !.link = NoJob, !.made = TRUE]
                  ELSE [rows[mon.cur] EXCEPT !.status = s]
  <2>1. rows' = [rows EXCEPT ![mon.cur] = e]
    BY <1>3 DEF RecordEnd
  <2>2. ASSUME mon.cur \in DOMAIN rows PROVE e.print = rows[mon.cur].print
    <3>1. rows[mon.cur] \in Row
      BY <1>1, <2>2
    <3> HIDE DEF s
    <3> QED
      BY <3>1 DEF Row
  <2> HIDE DEF e
  <2> QED
    BY <1>1, <2>1, <2>2
<1>4. CASE RecoverRows
  <2>1. DOMAIN rows' = DOMAIN rows
    BY <1>4 DEF RecoverRows
  <2>2. ASSUME NEW r \in DOMAIN rows PROVE rows'[r].print = rows[r].print
    <3>1. rows'[r] = IF r \in mon.snap THEN [rows[r] EXCEPT !.status = RecoveredStatus(r)]
                                       ELSE rows[r]
      BY <1>4 DEF RecoverRows
    <3> QED
      BY <1>1, <3>1 DEF Row
  <2> QED
    BY <2>1, <2>2
<1> QED
  BY <1>2, <1>3, <1>4, RowsUnchanged DEF RowStep

(* Rows are in the order of their prints, none is of a print not yet heard *)
(* of, and while nothing is tracked the last one's print is over.          *)
Order ==
    /\ \A r \in DOMAIN rows : rows[r].print <= mon.st.print
    /\ \A q, r \in DOMAIN rows : q < r => rows[q].print < rows[r].print
    /\ mon.cur = 0 =>
           \A r \in DOMAIN rows : rows[r].print = mon.st.print => mon.st.g \in Resting

(* How the monitor's state moves on in a step that inserts no row.         *)
LEMMA MonitorMoves ==
    ASSUME TypeInv, Stream, [Next]_vars, mon.rec = "done", restarts' = 0, ~InsertRow
    PROVE  /\ mon'.st.print \in Nat
           /\ Follows(mon.st, mon'.st)
           /\ mon'.cur = 0 => mon.cur = 0 \/ mon'.st.g \in Resting
<1>1. mon \in Monitor /\ mon.st.print \in Nat /\ Follows(mon.st, mon.st)
  BY StreamTypes DEF Follows
<1>2. CASE mon' = mon
  BY <1>1, <1>2
<1>3. CASE MergeReport
  <2>1. Follows(mon.st, mon'.st)
    BY <1>3, MergeStream
  <2>2. mon'.cur = mon.cur
    BY <1>1, <1>3 DEF MergeReport, Monitor
  <2>3. mon'.st.print \in Nat
    <3>1. mon'.st = wire[1] /\ 1 \in DOMAIN wire
      BY <1>1, <1>3, StreamTypes DEF MergeReport, Monitor
    <3> QED
      BY <3>1, StreamTypes
  <2> QED
    BY <2>1, <2>2, <2>3
<1>4. CASE ResumeRow
  <2> DEFINE r == Latest(RunningRows)
  <2>1. r \in DOMAIN rows /\ r # 0
    BY <1>4, LatestRunning DEF ResumeRow, Resumable, TypeInv, TypeOK
  <2>2. mon' = [Handled EXCEPT !.cur = r, !.linked = rows[r].link]
    BY <1>4 DEF ResumeRow, Resumable
  <2> HIDE DEF r
  <2>3. mon'.st = mon.st /\ mon'.cur = r
    BY <1>1, <2>2 DEF Handled, Monitor
  <2> QED
    BY <1>1, <2>1, <2>3
<1>5. CASE StartNotRecorded \/ NothingToRecord
  <2>1. mon'.st = mon.st /\ mon'.cur = mon.cur
    BY <1>1, <1>5 DEF StartNotRecorded, NothingToRecord, Handled, Monitor
  <2> QED
    BY <1>1, <2>1
<1>6. CASE RecordEnd \/ EndNotRecorded
  <2>1. mon'.st = mon.st /\ mon.st.g \in Resting
    BY <1>1, <1>6 DEF RecordEnd, EndNotRecorded, EndSeen, Untracked, Handled, Monitor
  <2> QED
    BY <1>1, <2>1
<1>7. CASE CallbackStep
  <2>1. CASE FailForStopCode
    BY <1>2, <2>1 DEF FailForStopCode
  <2> QED
    BY <1>3, <1>4, <1>5, <1>6, <1>7, <2>1 DEF CallbackStep
<1>8. CASE PrinterStep
  BY <1>2, <1>8 DEF PrinterStep, LocalPrint, HeatUp, PausePrint, ResumePrint, FinishPrint,
     AbortPrint, Settle, RaiseStopCode, ClearStopCode, Telemetry, EndPrint, ChangeState
<1>9. CASE ConnectionStep
  <2>1. restarts \in Nat
    BY TrackingAssumption DEF TypeInv, TypeOK
  <2>2. ~StopMonitor /\ ~Connect
    BY <2>1 DEF StopMonitor, Connect
  <2> QED
    BY <1>2, <1>9, <2>2 DEF ConnectionStep, LoseConnection, Reconnect
<1>10. ~RecoveryStep
  BY DEF RecoveryStep, RecoverSelect, RecoverRows, RecoveryNotCommitted
<1>11. CASE RunScheduler \/ BeginRun \/ CommitRun
  BY <1>2, <1>11 DEF RunScheduler, BeginRun, CommitRun
<1>12. ASSUME NEW d \in Dispatcher, DispatchStep(d) PROVE mon' = mon
  BY <1>12 DEF DispatchStep, BeginDispatch, FailDispatch, SendPrint, MarkPrinting
<1>13. CASE UNCHANGED vars
  BY <1>2, <1>13 DEF vars
<1> QED
  BY <1>2, <1>7, <1>8, <1>9, <1>10, <1>11, <1>12, <1>13 DEF Next

(* What inserting a row does, the jobs apart.                              *)
LEMMA InsertEntry ==
    ASSUME TypeInv, InsertRow
    PROVE  /\ mon.cur = 0 /\ mon.st.g \in Active
           /\ mon'.st = mon.st /\ mon'.cur # 0
           /\ \E e \in Row : /\ rows' = Append(rows, e)
                             /\ e.print = mon.st.print /\ e.status = "running"
<1>1. mon \in Monitor /\ mon.st.print \in Nat /\ rows \in Seq(Row)
  BY StreamTypes DEF TypeInv, TypeOK
<1>2. PICK j \in MaybeJob :
           /\ rows' = Append(rows, [status |-> "running", link |-> j,
                                    made |-> FALSE, print |-> mon.st.print])
           /\ mon'.cur = Len(rows) + 1
  BY InsertJobs
<1>3. [status |-> "running", link |-> j, made |-> FALSE, print |-> mon.st.print] \in Row
  BY <1>1 DEF Row
<1>4. mon.cur = 0 /\ mon.st.g \in Active
  BY DEF InsertRow, StartSeen
<1>5. mon'.st = mon.st
  <2>1. PICK k : mon' = [Handled EXCEPT !.cur = Len(rows) + 1, !.linked = k]
    BY DEF InsertRow
  <2> QED
    BY <1>1, <2>1 DEF Handled, Monitor
<1>6. Len(rows) + 1 # 0
  BY <1>1
<1> QED
  BY <1>2, <1>3, <1>4, <1>5, <1>6

LEMMA OrderStep ==
    ASSUME TypeInv, Stream, Order, [Next]_vars, mon.rec = "done", restarts' = 0
    PROVE  Order'
<1>1. /\ rows \in Seq(Row) /\ DOMAIN rows = 1..Len(rows) /\ Len(rows) \in Nat
      /\ mon.st.print \in Nat
  BY StreamTypes DEF TypeInv, TypeOK
<1>2. \A r \in DOMAIN rows : rows[r].print \in Nat
  <2>1. \A r \in DOMAIN rows : rows[r] \in Row
    BY <1>1
  <2> QED
    BY <2>1 DEF Row
<1>3. CASE InsertRow
  <2>1. /\ mon.cur = 0 /\ mon.st.g \in Active
        /\ mon'.st = mon.st /\ mon'.cur # 0
    BY <1>3, InsertEntry
  <2>2. PICK e \in Row : rows' = Append(rows, e) /\ e.print = mon.st.print
    BY <1>3, InsertEntry
  <2>3. \A r \in DOMAIN rows : rows[r].print < mon.st.print
    BY <1>1, <1>2, <2>1 DEF Order, Active, Resting
  <2> DEFINE n == Len(rows) + 1
  <2>4. /\ DOMAIN rows' = DOMAIN rows \cup {n} /\ rows'[n] = e
        /\ \A r \in DOMAIN rows : rows'[r] = rows[r] /\ r < n /\ r # n
        /\ DOMAIN rows \subseteq Int /\ n \in Int
    BY <1>1, <2>2
  <2> HIDE DEF n
  <2>5. \A r \in DOMAIN rows' : rows'[r].print <= mon'.st.print
    BY <1>1, <1>2, <2>1, <2>2, <2>3, <2>4
  <2>6. ASSUME NEW q \in DOMAIN rows', NEW r \in DOMAIN rows', q < r
        PROVE  rows'[q].print < rows'[r].print
    <3>1. q # n
      BY <2>4, <2>6
    <3>2. CASE r = n
      BY <2>2, <2>3, <2>4, <3>1, <3>2
    <3>3. CASE r # n
      BY <2>4, <2>6, <3>1, <3>3 DEF Order
    <3> QED
      BY <3>2, <3>3
  <2> QED
    BY <2>1, <2>5, <2>6 DEF Order
<1>4. CASE ~InsertRow
  <2>1. /\ DOMAIN rows' = DOMAIN rows
        /\ \A r \in DOMAIN rows : rows'[r].print = rows[r].print
    BY <1>4, RowPrints
  <2>2. /\ mon'.st.print \in Nat
        /\ Follows(mon.st, mon'.st)
        /\ mon'.cur = 0 => mon.cur = 0 \/ mon'.st.g \in Resting
    BY <1>4, MonitorMoves
  <2>3. \A r \in DOMAIN rows : rows[r].print <= mon'.st.print
    BY <1>1, <1>2, <2>2 DEF Order, Follows
  <2>4. ASSUME mon'.cur = 0, NEW r \in DOMAIN rows, rows[r].print = mon'.st.print
        PROVE  mon'.st.g \in Resting
    <3>1. CASE mon.cur = 0
      <4>1. rows[r].print <= mon.st.print /\ mon.st.print <= mon'.st.print
        BY <2>2 DEF Order, Follows
      <4>2. mon.st.print = mon'.st.print /\ rows[r].print = mon.st.print
        BY <1>1, <1>2, <2>2, <2>4, <4>1
      <4>3. mon.st.g \in Resting
        BY <3>1, <4>2 DEF Order
      <4> QED
        BY <2>2, <4>2, <4>3 DEF Follows
    <3> QED
      BY <2>2, <2>4, <3>1
  <2> QED
    BY <2>1, <2>3, <2>4 DEF Order
<1> QED
  BY <1>3, <1>4

LEMMA OrderInvariant == Spec => [](Stream /\ (restarts = 0 => Order))
<1> DEFINE First == restarts = 0 => Order
<1>1. Init => Stream /\ First
  <2> SUFFICES ASSUME Init PROVE Stream /\ Order
    OBVIOUS
  <2>1. /\ mon.st = NoReport /\ rows = <<>> /\ wire = <<printer>>
        /\ printer.print = 0 /\ printer.g = "IDLE"
    BY DEF Init, NewMonitor
  <2> QED
    BY <2>1 DEF Stream, Order, Follows, Numbered, NoReport, Active, Resting
<1>2. TypeInv /\ Stream /\ [Next]_vars => Stream'
  BY StreamStep
<1>3. TypeInv /\ NoRecovery /\ Stream /\ First /\ [Next]_vars => First'
  BY OrderStep, RestartsGrow DEF NoRecovery
<1> QED
  BY <1>1, <1>2, <1>3, TypeInvariant, RecoveryIdle, PTL DEF Spec

(* A print has one row while its monitor is not replaced: no sequence of   *)
(* reports, pauses, lost connections or failed transactions inserts a      *)
(* second one.                                                             *)
THEOREM RowPerPrint ==
    ASSUME MaxRestarts = 0
    PROVE  Spec => []OneRowPerPrint
<1>1. TypeInv /\ (restarts = 0 => Order) => OneRowPerPrint
  <2> SUFFICES ASSUME TypeInv, restarts = 0 => Order,
                      NEW q \in DOMAIN rows, NEW r \in DOMAIN rows,
                      rows[q].print = rows[r].print
               PROVE  q = r
    BY DEF OneRowPerPrint
  <2>1. restarts = 0
    BY DEF TypeInv, TypeOK
  <2>2. q \in Nat /\ r \in Nat
    BY DEF TypeInv, TypeOK
  <2>3. rows[q].print \in Nat
    <3>1. rows[q] \in Row
      BY DEF TypeInv, TypeOK
    <3> QED
      BY <3>1 DEF Row
  <2>4. ~(q < r) /\ ~(r < q)
    BY <2>1, <2>3 DEF Order
  <2> QED
    BY <2>2, <2>4
<1> QED
  BY <1>1, OrderInvariant, TypeInvariant, PTL
-----------------------------------------------------------------------------
(* Inserting a row enters its print in the ledger, revised or not.         *)
LEMMA EnterStep ==
    ASSUME TypeInv, Stream, DbErrors = FALSE, InsertRow,
           \A r \in DOMAIN rows : rows[r].print < mon.st.print
    PROVE  Ledger!Next /\ RevisedLedger!Next
<1>1. rows \in Seq(Row) /\ DOMAIN rows = 1..Len(rows) /\ Len(rows) \in Nat
  BY DEF TypeInv, TypeOK
<1>2. \A r \in DOMAIN rows : rows[r].print \in Nat /\ rows[r].status \in {"running"} \cup Ended
  <2>1. \A r \in DOMAIN rows : rows[r] \in Row
    BY <1>1
  <2> QED
    BY <2>1 DEF Row
<1>3. mon.cur = 0 /\ mon.st.g \in Active
  BY InsertEntry
<1>4. PICK e \in Row : /\ rows' = Append(rows, e)
                       /\ e.print = mon.st.print /\ e.status = "running"
  BY InsertEntry
<1> DEFINE p == mon.st.print
<1>5. p \in 1..MaxPrints
  <2>1. p \in Nat /\ printer.print \in Nat /\ p # 0 /\ p <= printer.print
    BY <1>3, StreamTypes DEF Stream, Numbered, Follows
  <2>2. printer.print <= MaxPrints
    BY DEF TypeInv, Bounds
  <2> QED
    BY <2>1, <2>2, TrackingAssumption
<1>6. \A r \in DOMAIN rows : rows[r].status \in Ended /\ rows[r].print < p
  <2>1. RunningRows = {}
    BY DEF InsertRow, Resumable
  <2>2. \A r \in DOMAIN rows : rows[r].status \in Ended
    BY <1>2, <2>1 DEF RunningRows
  <2> QED
    BY <2>2
<1>7. Account' = Append(Account, [print |-> p, status |-> "running"])
  <2>1. Account \in Seq([print : Nat, status : {"running"} \cup Ended]) /\ Len(Account) = Len(rows)
    BY <1>1, <1>2 DEF Account
  <2>2. DOMAIN rows' = 1..(Len(rows) + 1)
    BY <1>1, <1>4
  <2>3. \A r \in DOMAIN rows' : rows'[r] = IF r = Len(rows) + 1 THEN e ELSE rows[r]
    BY <1>1, <1>4
  <2> QED
    BY <1>1, <1>4, <2>1, <2>2, <2>3 DEF Account
<1>8. Ledger!Enter(p) /\ RevisedLedger!Enter(p)
  BY <1>6, <1>7 DEF Ledger!Enter, Ledger!Outcome, RevisedLedger!Enter, RevisedLedger!Outcome,
     Account, Ended
<1> QED
  BY <1>5, <1>8 DEF Ledger!Next, RevisedLedger!Next

(* Ending a running row concludes its entry.                               *)
LEMMA ConcludeStep ==
    ASSUME TypeInv, NEW r \in RunningRows, NEW s \in Ended,
           DOMAIN rows' = DOMAIN rows,
           rows'[r].print = rows[r].print, rows'[r].status = s,
           \A q \in DOMAIN rows : q # r => rows'[q] = rows[q]
    PROVE  Ledger!Next /\ RevisedLedger!Next
<1>1. r \in DOMAIN rows /\ rows[r].status = "running"
  BY DEF RunningRows
<1>2. Account' = [Account EXCEPT ![r].status = s]
  BY <1>1 DEF Account
<1>3. Ledger!Conclude(r, s) /\ RevisedLedger!Conclude(r, s)
  BY <1>1, <1>2 DEF Ledger!Conclude, RevisedLedger!Conclude, Account
<1>4. r \in DOMAIN Account /\ s \in Ledger!Outcome /\ s \in RevisedLedger!Outcome
  BY <1>1 DEF Account, Ledger!Outcome, RevisedLedger!Outcome, Ended
<1> QED
  BY <1>3, <1>4 DEF Ledger!Next, RevisedLedger!Next

(* The end that the monitor records concludes the entry it tracks.         *)
LEMMA EndConcludes ==
    ASSUME TypeInv, RecordEnd
    PROVE  Ledger!Next /\ RevisedLedger!Next
<1> DEFINE s == Conclusion(mon.st.g)
           r == mon.cur
           e == IF mon.linked = NoJob
                THEN [rows[r] EXCEPT !.status = s, !.link = NoJob, !.made = TRUE]
                ELSE [rows[r] EXCEPT !.status = s]
<1>1. rows \in Seq(Row) /\ \A q \in DOMAIN rows : rows[q] \in Row
  BY DEF TypeInv, TypeOK
<1>2. s \in Ended
  BY DEF RecordEnd, EndSeen, Resting, Conclusion, Ended
<1>3. r \in DOMAIN rows
  BY <1>1 DEF RecordEnd, TypeInv, Bounds
<1>4. r \in RunningRows
  BY <1>1, <1>3 DEF RecordEnd, AlreadyEnded, RunningRows, Row
<1>5. rows' = [rows EXCEPT ![r] = e]
  BY DEF RecordEnd
<1> HIDE DEF s, r
<1>6. e.status = s /\ e.print = rows[r].print
  BY <1>1, <1>3 DEF Row
<1> HIDE DEF e
<1>7. /\ DOMAIN rows' = DOMAIN rows /\ rows'[r].status = s
      /\ rows'[r].print = rows[r].print
      /\ \A q \in DOMAIN rows : q # r => rows'[q] = rows[q]
  BY <1>1, <1>3, <1>5, <1>6
<1> QED
  BY <1>2, <1>4, <1>7, ConcludeStep

(* While the monitor is not replaced and its statements do not fail, the   *)
(* tracking implements the ledger: every step enters a new print when no   *)
(* other runs, concludes a running entry, or leaves the account alone.     *)
THEOREM KeepsItsLedger ==
    ASSUME MaxRestarts = 0, DbErrors = FALSE
    PROVE  Spec => KeepsLedger
<1>1. Init => Ledger!Init
  BY DEF Init, Ledger!Init, Account
<1>2. TypeInv /\ NoRecovery /\ Stream /\ (restarts = 0 => Order) /\ [Next]_vars
          => [Ledger!Next]_Account
  <2> SUFFICES ASSUME TypeInv, NoRecovery, Stream, restarts = 0 => Order, [Next]_vars
               PROVE  [Ledger!Next]_Account
    OBVIOUS
  <2>1. restarts = 0
    BY DEF TypeInv, TypeOK
  <2>2. rows \in Seq(Row) /\ \A r \in DOMAIN rows : rows[r] \in Row
    BY DEF TypeInv, TypeOK
  <2>3. CASE InsertRow
    <3>1. mon.cur = 0 /\ mon.st.g \in Active
      BY <2>3, InsertEntry
    <3>2. \A r \in DOMAIN rows : rows[r].print \in Nat
      BY <2>2 DEF Row
    <3>3. \A r \in DOMAIN rows : rows[r].print < mon.st.print
      BY <2>1, <3>1, <3>2, StreamTypes DEF Order, Active, Resting
    <3> QED
      BY <2>3, <3>3, EnterStep
  <2>4. CASE FailForStopCode
    <3> DEFINE r == Latest(RunningRows)
    <3>1. r \in RunningRows
      BY <2>4, LatestRunning DEF FailForStopCode, TypeInv, RunningRows
    <3>2. rows' = [rows EXCEPT ![r].status = "failed"]
      BY <2>4 DEF FailForStopCode
    <3> HIDE DEF r
    <3>3. /\ DOMAIN rows' = DOMAIN rows /\ rows'[r].status = "failed"
          /\ rows'[r].print = rows[r].print
          /\ \A q \in DOMAIN rows : q # r => rows'[q] = rows[q]
      BY <2>2, <3>1, <3>2 DEF Row, RunningRows
    <3> QED
      BY <3>1, <3>3, ConcludeStep DEF Ended
  <2>5. CASE RecordEnd
    BY <2>5, EndConcludes
  <2>6. ~RecoverRows
    BY <2>1 DEF RecoverRows, NoRecovery
  <2>7. CASE ~InsertRow /\ ~FailForStopCode /\ ~RecordEnd
    <3>1. rows' = rows
      BY <2>6, <2>7, RowsUnchanged DEF RowStep
    <3> QED
      BY <3>1 DEF Account
  <2> QED
    BY <2>3, <2>4, <2>5, <2>7
<1> QED
  BY <1>1, <1>2, TypeInvariant, RecoveryIdle, OrderInvariant, PTL
  DEF Spec, KeepsLedger, Ledger!Spec
-----------------------------------------------------------------------------
(* What a report x leaves possible for the rows there are: none is of a    *)
(* later print, the print of a row has begun, and if the row has ended so  *)
(* has the print.                                                          *)
Accounts(x) ==
    \A r \in DOMAIN rows :
        /\ rows[r].print <= x.print
        /\ rows[r].print = x.print =>
               x.g \in Resting \/ (x.g \in Active /\ rows[r].status = "running")

(* The printer, the reports that wait and the one merged last, when there  *)
(* is one, account for the rows whoever inserted them, so that a monitor   *)
(* that has just connected inserts none for a print that has one.          *)
Heard ==
    /\ Accounts(printer)
    /\ \A i \in DOMAIN wire : Accounts(wire[i])
    /\ mon.st # NoReport => Accounts(mon.st)

(* No stop code has been reported.                                         *)
Silent ==
    /\ printer.hms = FALSE /\ mon.st.hms = FALSE
    /\ \A i \in DOMAIN wire : wire[i].hms = FALSE

(* Recovery has read one row, as no more run.                              *)
SoleSnap == \A q, r \in mon.snap : q = r

UniqueRows == \A q, r \in DOMAIN rows : rows[q].print = rows[r].print => q = r

LEMMA RowTypes ==
    ASSUME TypeInv
    PROVE  /\ rows \in Seq(Row) /\ Len(rows) \in Nat /\ DOMAIN rows = 1..Len(rows)
           /\ \A r \in DOMAIN rows : /\ rows[r].print \in Nat
                                     /\ rows[r].status \in {"running"} \cup Ended
<1>1. rows \in Seq(Row) /\ Len(rows) \in Nat /\ DOMAIN rows = 1..Len(rows)
  BY DEF TypeInv, TypeOK
<1>2. \A r \in DOMAIN rows : rows[r] \in Row
  BY <1>1
<1> QED
  BY <1>1, <1>2 DEF Row
-----------------------------------------------------------------------------
(* Nothing is said of stop codes.                                          *)
LEMMA SilentPublish ==
    ASSUME TypeInv, Silent, NEW p, Publish(p), p.hms = FALSE, mon' = mon
    PROVE  Silent'
<1>1. wire \in Seq(Report)
  BY StreamTypes
<1>2. printer' = p /\ (wire' = wire \/ wire' = Append(wire, p))
  BY DEF Publish
<1>3. \A i \in DOMAIN wire' : wire'[i].hms = FALSE
  <2>1. CASE wire' = wire
    BY <2>1 DEF Silent
  <2>2. CASE wire' = Append(wire, p)
    <3>1. \A i \in DOMAIN wire' : (i \in DOMAIN wire /\ wire'[i] = wire[i]) \/ wire'[i] = p
      BY <1>1, <2>2
    <3> QED
      BY <3>1 DEF Silent
  <2> QED
    BY <1>2, <2>1, <2>2
<1> QED
  BY <1>2, <1>3 DEF Silent

LEMMA SilentStart ==
    ASSUME TypeInv, Silent, NEW f, StartPrint(f), mon' = mon
    PROVE  Silent'
<1> DEFINE p == [printer EXCEPT !.g = "PREPARE", !.print = @ + 1, !.file = f]
<1>1. Publish(p) /\ p.hms = printer.hms
  BY StreamTypes DEF StartPrint, Report
<1> HIDE DEF p
<1> QED
  BY <1>1, SilentPublish DEF Silent

LEMMA SilentStep ==
    ASSUME TypeInv, Silent, StopCodes = FALSE, [Next]_vars
    PROVE  Silent'
<1>1. printer \in Report /\ mon \in Monitor /\ wire \in Seq(Report)
  BY StreamTypes
<1>2. CASE PrinterStep
  <2>1. mon' = mon
    BY <1>2 DEF PrinterStep, LocalPrint, HeatUp, PausePrint, ResumePrint, FinishPrint, AbortPrint,
       Settle, RaiseStopCode, ClearStopCode, Telemetry, EndPrint, ChangeState
  <2>2. CASE LocalPrint
    BY <2>1, <2>2, SilentStart DEF LocalPrint
  <2>3. ASSUME NEW from, NEW to, ChangeState(from, to) PROVE Silent'
    <3> DEFINE p == [printer EXCEPT !.g = to]
    <3>1. Publish(p) /\ p.hms = printer.hms
      BY <1>1, <2>3 DEF ChangeState, Report
    <3> HIDE DEF p
    <3> QED
      BY <2>1, <3>1, SilentPublish DEF Silent
  <2>4. CASE Telemetry
    BY <2>1, <2>4, SilentPublish DEF Telemetry, Silent
  <2>5. ~RaiseStopCode /\ ~ClearStopCode
    BY DEF RaiseStopCode, ClearStopCode, Silent
  <2> QED
    BY <1>2, <2>2, <2>3, <2>4, <2>5 DEF PrinterStep, HeatUp, PausePrint, ResumePrint, FinishPrint,
       AbortPrint, Settle, EndPrint
<1>3. CASE ConnectionStep
  <2>1. printer' = printer
    BY <1>3 DEF ConnectionStep, LoseConnection, Reconnect, StopMonitor, Connect, environment
  <2>2. mon'.st = mon.st \/ mon'.st = NoReport
    BY <1>3 DEF ConnectionStep, LoseConnection, Reconnect, StopMonitor, Connect, NoMonitor,
       NewMonitor
  <2>3. wire' = <<>> \/ wire' = <<printer>>
    BY <1>3 DEF ConnectionStep, LoseConnection, Reconnect, StopMonitor, Connect
  <2> QED
    BY <2>1, <2>2, <2>3 DEF Silent, NoReport
<1>4. CASE MergeReport
  <2>1. wire # <<>> /\ printer' = printer /\ wire' = Tail(wire) /\ mon'.st = Head(wire)
    BY <1>1, <1>4 DEF MergeReport, environment, Monitor
  <2>2. mon'.st = wire[1] /\ 1 \in DOMAIN wire
    BY <1>1, <2>1
  <2>3. \A i \in DOMAIN wire' : i + 1 \in DOMAIN wire /\ wire'[i] = wire[i + 1]
    BY <1>1, <2>1
  <2> QED
    BY <2>1, <2>2, <2>3 DEF Silent
<1>5. ASSUME NEW d \in Dispatcher, SendPrint(d) PROVE Silent'
  <2>1. mon' = mon
    BY <1>5 DEF SendPrint
  <2>2. CASE StartPrint(dispatch[d].job)
    BY <2>1, <2>2, SilentStart
  <2>3. CASE UNCHANGED <<environment, connection>>
    BY <2>1, <2>3 DEF environment, connection, Silent
  <2> QED
    BY <1>5, <2>2, <2>3 DEF SendPrint
<1>6. CASE UNCHANGED <<printer, wire, mon.st>>
  BY <1>6 DEF Silent
<1> QED
  BY <1>2, <1>3, <1>4, <1>5, <1>6, OtherStream
-----------------------------------------------------------------------------
(* The rows as they are: what the printer does and what is heard of it     *)
(* still accounts for them.                                                *)
LEMMA HeardPublish ==
    ASSUME TypeInv, Heard, NEW p, Publish(p), Accounts(p), mon' = mon, rows' = rows
    PROVE  Heard'
<1>1. wire \in Seq(Report)
  BY StreamTypes
<1>2. printer' = p /\ (wire' = wire \/ wire' = Append(wire, p))
  BY DEF Publish
<1>3. \A i \in DOMAIN wire' : (i \in DOMAIN wire /\ wire'[i] = wire[i]) \/ wire'[i] = p
  BY <1>1, <1>2
<1> QED
  BY <1>2, <1>3 DEF Heard, Accounts

(* The printer starts a print that has no row, and a print that has ended  *)
(* does not begin again.                                                   *)
LEMMA HeardFollows ==
    ASSUME TypeInv, Heard, NEW p \in Report, Publish(p), Follows(printer, p),
           mon' = mon, rows' = rows
    PROVE  Heard'
<1>1. /\ printer.print \in Nat /\ p.print \in Nat
      /\ \A r \in DOMAIN rows : rows[r].print \in Nat
  BY StreamTypes, RowTypes DEF Report
<1>2. Accounts(printer)
  BY DEF Heard
<1>3. Accounts(p)
  <2> SUFFICES ASSUME NEW r \in DOMAIN rows
               PROVE  /\ rows[r].print <= p.print
                      /\ rows[r].print = p.print =>
                           p.g \in Resting \/ (p.g \in Active /\ rows[r].status = "running")
    BY DEF Accounts
  <2>1. /\ rows[r].print <= printer.print
        /\ rows[r].print = printer.print =>
             printer.g \in Resting \/ (printer.g \in Active /\ rows[r].status = "running")
    BY <1>2 DEF Accounts
  <2>2. printer.print <= p.print
    BY DEF Follows
  <2>3. rows[r].print = p.print => rows[r].print = printer.print
    BY <1>1, <2>1, <2>2
  <2> QED
    BY <1>1, <2>1, <2>2, <2>3 DEF Follows
<1> QED
  BY <1>3, HeardPublish

(* A row ends while the report merged last is of a later print or of one   *)
(* that rests: so is all that is heard after it.                           *)
LEMMA HeardEnds ==
    ASSUME TypeInv, Stream, Heard, mon.st # NoReport, UNCHANGED <<printer, wire, mon.st>>,
           DOMAIN rows' = DOMAIN rows,
           \A r \in DOMAIN rows :
               /\ rows'[r].print = rows[r].print
               /\ \/ rows'[r].status = rows[r].status
                  \/ rows[r].print = mon.st.print => mon.st.g \in Resting
    PROVE  Heard'
<1>1. ASSUME NEW x, x.print \in Nat, Accounts(x), Follows(mon.st, x)
      PROVE  \A r \in DOMAIN rows' :
                 /\ rows'[r].print <= x.print
                 /\ rows'[r].print = x.print =>
                        x.g \in Resting \/ (x.g \in Active /\ rows'[r].status = "running")
  <2> SUFFICES ASSUME NEW r \in DOMAIN rows
               PROVE  /\ rows[r].print <= x.print
                      /\ rows[r].print = x.print =>
                           x.g \in Resting \/ (x.g \in Active /\ rows'[r].status = "running")
    OBVIOUS
  <2>1. /\ rows[r].print <= x.print
        /\ rows[r].print = x.print =>
             x.g \in Resting \/ (x.g \in Active /\ rows[r].status = "running")
    BY <1>1 DEF Accounts
  <2>2. rows[r].print <= mon.st.print
    BY DEF Heard, Accounts
  <2>3. mon.st.print \in Nat /\ rows[r].print \in Nat
    BY StreamTypes, RowTypes
  <2>4. ASSUME rows[r].print = x.print, rows'[r].status # rows[r].status
        PROVE  x.g \in Resting
    <3>1. mon.st.print <= x.print
      BY <1>1 DEF Follows
    <3>2. rows[r].print = mon.st.print /\ mon.st.print = x.print
      BY <1>1, <2>2, <2>3, <2>4, <3>1
    <3> QED
      BY <1>1, <2>4, <3>2 DEF Follows
  <2> QED
    BY <2>1, <2>4
<1>2. Follows(mon.st, mon.st)
  BY StreamTypes DEF Follows
<1>3. ASSUME NEW x, x.print \in Nat, Accounts(x), Follows(mon.st, x), x' = x
      PROVE  Accounts(x)'
  BY <1>1, <1>3 DEF Accounts
<1>4. Accounts(printer)' /\ Accounts(mon.st)'
  BY <1>1, <1>2, StreamTypes DEF Accounts, Heard, Stream
<1>5. \A i \in DOMAIN wire' : Accounts(wire[i])'
  BY <1>1, StreamTypes DEF Accounts, Heard, Stream
<1> QED
  BY <1>4, <1>5 DEF Heard

LEMMA HeardInsert ==
    ASSUME TypeInv, Stream, Heard, InsertRow
    PROVE  Heard'
<1>1. /\ mon.st.g \in Active /\ mon.st # NoReport
      /\ UNCHANGED <<printer, wire, mon.st>>
  <2>1. mon.st.g \in Active /\ mon'.st = mon.st
    BY InsertEntry
  <2>2. UNCHANGED <<printer, wire>>
    BY DEF InsertRow, environment, connection
  <2> QED
    BY <2>1, <2>2 DEF Active, NoReport
<1>2. PICK e \in Row : /\ rows' = Append(rows, e)
                       /\ e.print = mon.st.print /\ e.status = "running"
  BY InsertEntry
<1>3. \A r \in DOMAIN rows' : (r \in DOMAIN rows /\ rows'[r] = rows[r]) \/ rows'[r] = e
  BY <1>2, RowTypes
<1>4. ASSUME NEW x, x.print \in Nat, Accounts(x), Follows(mon.st, x)
      PROVE  \A r \in DOMAIN rows' :
                 /\ rows'[r].print <= x.print
                 /\ rows'[r].print = x.print =>
                        x.g \in Resting \/ (x.g \in Active /\ rows'[r].status = "running")
  <2>1. e.print <= x.print /\ (e.print = x.print => x.g \in Active \cup Resting)
    BY <1>1, <1>2, <1>4 DEF Follows
  <2> QED
    BY <1>2, <1>3, <1>4, <2>1 DEF Accounts
<1>5. Follows(mon.st, mon.st)
  BY StreamTypes DEF Follows
<1>6. Accounts(printer)' /\ Accounts(mon.st)'
  BY <1>1, <1>4, <1>5, StreamTypes DEF Accounts, Heard, Stream
<1>7. \A i \in DOMAIN wire' : Accounts(wire[i])'
  BY <1>1, <1>4, StreamTypes DEF Accounts, Heard, Stream
<1> QED
  BY <1>1, <1>6, <1>7 DEF Heard

LEMMA HeardRecordEnd ==
    ASSUME TypeInv, Stream, Heard, RecordEnd
    PROVE  Heard'
<1>1. /\ mon.st.g \in Resting /\ mon.st # NoReport
      /\ UNCHANGED <<printer, wire, mon.st>>
  BY StreamTypes DEF RecordEnd, EndSeen, Resting, NoReport, environment, connection, Untracked,
     Handled, Monitor
<1>2. /\ DOMAIN rows' = DOMAIN rows
      /\ \A r \in DOMAIN rows : rows'[r].print = rows[r].print
  <2>1. ~InsertRow
    BY DEF RecordEnd, EndSeen, InsertRow, StartSeen, Active, Resting
  <2> QED
    BY <2>1, RowPrints DEF Next, CallbackStep
<1> QED
  BY <1>1, <1>2, HeardEnds

LEMMA HeardRecover ==
    ASSUME TypeInv, Stream, Heard, SoleSnap, PromptStatus = TRUE, RecoverRows
    PROVE  Heard'
<1>1. /\ mon.st # NoReport
      /\ UNCHANGED <<printer, wire, mon.st>>
  BY StreamTypes DEF RecoverRows, environment, connection, Monitor
<1>2. /\ DOMAIN rows' = DOMAIN rows
      /\ \A r \in DOMAIN rows : rows'[r].print = rows[r].print
  <2>1. ~InsertRow
    <3>1. DOMAIN rows' = 1 .. Len(rows)
      BY RowTypes DEF RecoverRows
    <3>2. ASSUME NEW e \in Row, rows' = Append(rows, e) PROVE FALSE
      <4>1. Len(rows) + 1 \in DOMAIN rows'
        BY <3>2, RowTypes
      <4>2. Len(rows) + 1 \notin 1 .. Len(rows)
        BY RowTypes
      <4> QED
        BY <3>1, <4>1, <4>2
    <3> QED
      BY <3>2, InsertEntry
  <2> QED
    BY <2>1, RowPrints DEF Next, RecoveryStep
<1>3. ASSUME NEW r \in DOMAIN rows, rows'[r].status # rows[r].status,
             rows[r].print = mon.st.print
      PROVE  mon.st.g \in Resting
  <2>1. r \in mon.snap
    BY <1>3 DEF RecoverRows
  <2>2. r = Latest(mon.snap)
    BY <2>1, LatestSnap DEF RecoverRows, SoleSnap
  <2>3. ~Printing
    <3>1. rows'[r] = [rows[r] EXCEPT !.status = RecoveredStatus(r)]
      BY <2>1 DEF RecoverRows
    <3>2. rows[r] \in Row
      BY RowTypes
    <3>3. rows'[r].status = RecoveredStatus(r)
      BY <3>1, <3>2 DEF Row
    <3> QED
      BY <1>3, <2>2, <3>3 DEF RecoveredStatus
  <2> QED
    BY <1>1, <1>3, <2>3 DEF Heard, Accounts, Printing
<1> QED
  BY <1>1, <1>2, <1>3, HeardEnds

LEMMA HeardConnection ==
    ASSUME TypeInv, Heard, ConnectionStep
    PROVE  Heard'
<1>1. printer' = printer /\ rows' = rows
  BY DEF ConnectionStep, LoseConnection, Reconnect, StopMonitor, Connect, environment, tables
<1>2. mon'.st = mon.st \/ mon'.st = NoReport
  BY DEF ConnectionStep, LoseConnection, Reconnect, StopMonitor, Connect, NoMonitor, NewMonitor
<1>3. wire' = <<>> \/ wire' = <<printer>>
  BY DEF ConnectionStep, LoseConnection, Reconnect, StopMonitor, Connect
<1>4. \A i \in DOMAIN wire' : wire'[i] = printer
  BY <1>3
<1> QED
  BY <1>1, <1>2, <1>4 DEF Heard, Accounts

LEMMA HeardMerge ==
    ASSUME TypeInv, Heard, MergeReport
    PROVE  Heard'
<1>1. wire \in Seq(Report) /\ wire # <<>> /\ mon \in Monitor
  BY StreamTypes DEF MergeReport
<1>2. printer' = printer /\ wire' = Tail(wire) /\ rows' = rows
  BY DEF MergeReport, environment, tables
<1>3. mon'.st = wire[1] /\ 1 \in DOMAIN wire
  BY <1>1 DEF MergeReport, Monitor
<1>4. \A i \in DOMAIN wire' : i + 1 \in DOMAIN wire /\ wire'[i] = wire[i + 1]
  BY <1>1, <1>2
<1> QED
  BY <1>2, <1>3, <1>4 DEF Heard, Accounts
-----------------------------------------------------------------------------
LEMMA HeardStep ==
    ASSUME TypeInv, Stream, Heard, Silent, SoleSnap, PromptStatus = TRUE, [Next]_vars
    PROVE  Heard'
<1>1. CASE PrinterStep
  BY <1>1, PrinterSpeaks, HeardFollows DEF Speaks
<1>2. ASSUME NEW d \in Dispatcher, SendPrint(d) PROVE Heard'
  <2>1. mon' = mon /\ rows' = rows /\ dispatch[d].job \in MaybeJob
    BY <1>2 DEF SendPrint, TypeInv, TypeOK, Thread, tables
  <2>2. CASE StartPrint(dispatch[d].job)
    BY <2>1, <2>2, StartSpeaks, HeardFollows DEF Speaks
  <2>3. CASE UNCHANGED <<environment, connection>>
    BY <2>1, <2>3 DEF environment, connection, Heard, Accounts
  <2> QED
    BY <1>2, <2>2, <2>3 DEF SendPrint
<1>3. ~FailForStopCode
  BY DEF FailForStopCode, Silent
<1>4. CASE ~RowStep /\ UNCHANGED <<printer, wire, mon.st>>
  BY <1>4, RowsUnchanged DEF Heard, Accounts
<1> QED
  BY <1>1, <1>2, <1>3, <1>4, HeardInsert, HeardRecordEnd, HeardRecover, HeardConnection, HeardMerge,
     OtherStream DEF RowStep

LEMMA SnapStep ==
    ASSUME TypeInv, SoleSnap, SoleRunning, [Next]_vars
    PROVE  SoleSnap'
<1>1. mon \in Monitor
  BY StreamTypes
<1>2. mon'.snap = mon.snap \/ mon'.snap = {} \/ mon'.snap = RunningRows
  <2>1. CASE PrinterStep
    BY <2>1, PrinterSpeaks
  <2>2. CASE ConnectionStep
    BY <2>2 DEF ConnectionStep, LoseConnection, Reconnect, StopMonitor, Connect, NoMonitor,
       NewMonitor
  <2>3. CASE CallbackStep
    BY <1>1, <2>3 DEF CallbackStep, FailForStopCode, MergeReport, ResumeRow, InsertRow,
       StartNotRecorded, RecordEnd, EndNotRecorded, NothingToRecord, Handled, Untracked, Monitor
  <2>4. CASE RecoveryStep
    BY <1>1, <2>4 DEF RecoveryStep, RecoverSelect, RecoverRows, RecoveryNotCommitted, Monitor
  <2>5. CASE RunScheduler \/ BeginRun \/ CommitRun
    BY <2>5 DEF RunScheduler, BeginRun, CommitRun
  <2>6. ASSUME NEW d \in Dispatcher, DispatchStep(d) PROVE mon' = mon
    BY <2>6 DEF DispatchStep, BeginDispatch, FailDispatch, SendPrint, MarkPrinting
  <2> QED
    BY <2>1, <2>2, <2>3, <2>4, <2>5, <2>6 DEF Next, vars
<1> QED
  BY <1>2 DEF SoleSnap, SoleRunning

LEMMA UniqueStep ==
    ASSUME TypeInv, Heard, UniqueRows, DbErrors = FALSE, [Next]_vars
    PROVE  UniqueRows'
<1>1. CASE InsertRow
  <2>1. mon.st.g \in Active /\ mon.st # NoReport /\ RunningRows = {}
    <3>1. mon.st.g \in Active
      BY <1>1, InsertEntry
    <3>2. RunningRows = {}
      BY <1>1 DEF InsertRow, Resumable
    <3> QED
      BY <3>1, <3>2 DEF Active, NoReport
  <2>2. PICK e \in Row : rows' = Append(rows, e) /\ e.print = mon.st.print
    BY <1>1, InsertEntry
  <2>3. \A r \in DOMAIN rows : rows[r].print # e.print
    BY <2>1, <2>2 DEF Heard, Accounts, RunningRows, Active, Resting
  <2> DEFINE n == Len(rows) + 1
  <2>4. /\ DOMAIN rows' = DOMAIN rows \cup {n} /\ rows'[n] = e
        /\ \A r \in DOMAIN rows : rows'[r] = rows[r]
    BY <2>2, RowTypes
  <2> HIDE DEF n
  <2> QED
    BY <2>3, <2>4 DEF UniqueRows
<1>2. CASE ~InsertRow
  BY <1>2, RowPrints DEF UniqueRows
<1> QED
  BY <1>1, <1>2

(* A print has one row through any number of lost connections and          *)
(* restarts, although recovery on the main thread and the callback on the  *)
(* network thread write the rows of a monitor that has just connected.     *)
(* The database must answer, a report come within recovery's wait, and no  *)
(* stop code be raised, which ends the row of a print that goes on.        *)
THEOREM RowPerPrintRestarted ==
    ASSUME DbErrors = FALSE, PromptStatus = TRUE, StopCodes = FALSE
    PROVE  Spec => []OneRowPerPrint
<1> DEFINE Inv == Silent /\ Heard /\ SoleSnap /\ UniqueRows
<1>1. Init => Inv
  <2> SUFFICES ASSUME Init PROVE Inv
    OBVIOUS
  <2>1. /\ mon.st = NoReport /\ mon.snap = {} /\ rows = <<>> /\ wire = <<printer>>
        /\ printer.hms = FALSE
    BY DEF Init, NewMonitor
  <2> QED
    BY <2>1 DEF Silent, Heard, Accounts, SoleSnap, UniqueRows, NoReport
<1>2. TypeInv /\ Stream /\ SoleRunning /\ Inv /\ [Next]_vars => Inv'
  BY SilentStep, HeardStep, SnapStep, UniqueStep
<1>3. Inv => OneRowPerPrint
  BY DEF UniqueRows, OneRowPerPrint
<1>4. Spec => []Stream
  BY OrderInvariant, PTL
<1> QED
  BY <1>1, <1>2, <1>3, <1>4, TypeInvariant, SoleRunningAlways, PTL DEF Spec
-----------------------------------------------------------------------------
(* While recovery sleeps no newer print than that of its start is active:  *)
(* it takes longer to heat up.                                             *)
Awaited(x) == x.print >= mon.at /\ (x.g \in Active => x.print = mon.at)

Slow ==
    mon.rec \in {"select", "sleep"} =>
        /\ Awaited(printer)
        /\ \A i \in DOMAIN wire : Awaited(wire[i])
        /\ mon.st # NoReport => Awaited(mon.st)

(* A row that recovery has read is the newest; if it has ended since then, *)
(* it was by a report after which nothing can begin while recovery sleeps. *)
SnapNewest ==
    mon.rec = "sleep" =>
        /\ \A r \in mon.snap : r = Len(rows)
        /\ RunningRows = {} =>
               mon.st # NoReport /\ (mon.st.print = mon.at => mon.st.g \in Resting)

RunningNewest == \A r \in RunningRows : r = Len(rows)

Newest == Slow /\ SnapNewest /\ RunningNewest

(* What recovery's place in a step can be: a monitor connects or stops, or *)
(* recovery itself moves, or nothing of it changes.                        *)
LEMMA RecoveryMoves ==
    ASSUME TypeInv, [Next]_vars
    PROVE  \/ StopMonitor \/ Connect \/ RecoveryStep
           \/ UNCHANGED <<mon.rec, mon.at, mon.snap>>
<1>1. mon \in Monitor
  BY StreamTypes
<1>2. CASE PrinterStep
  BY <1>2, PrinterSpeaks
<1>3. CASE ConnectionStep
  BY <1>3 DEF ConnectionStep, LoseConnection, Reconnect
<1>4. CASE CallbackStep
  BY <1>1, <1>4 DEF CallbackStep, FailForStopCode, MergeReport, ResumeRow, InsertRow,
     StartNotRecorded, RecordEnd, EndNotRecorded, NothingToRecord, Handled, Untracked, Monitor
<1>5. CASE RunScheduler \/ BeginRun \/ CommitRun
  BY <1>5 DEF RunScheduler, BeginRun, CommitRun
<1>6. ASSUME NEW d \in Dispatcher, DispatchStep(d) PROVE mon' = mon
  BY <1>6 DEF DispatchStep, BeginDispatch, FailDispatch, SendPrint, MarkPrinting
<1> QED
  BY <1>2, <1>3, <1>4, <1>5, <1>6 DEF Next, vars

(* What the printer says next is no newer active print either.             *)
LEMMA SlowPublish ==
    ASSUME TypeInv, Slow, NEW p \in Report, Publish(p), p.print >= printer.print, mon' = mon,
           mon.rec \in {"select", "sleep"} /\ p.g \in Active =>
               p.print = printer.print /\ (printer.g \in Active \/ printer.print = mon.at)
    PROVE  Slow'
<1> SUFFICES ASSUME mon.rec \in {"select", "sleep"} PROVE Slow'
  BY DEF Slow
<1>1. wire \in Seq(Report) /\ mon.at \in Nat /\ p.print \in Nat /\ printer.print \in Nat
  BY StreamTypes DEF Report, Monitor
<1>2. printer' = p /\ (wire' = wire \/ wire' = Append(wire, p))
  BY DEF Publish
<1>3. Awaited(p)
  BY <1>1 DEF Slow, Awaited
<1>4. \A i \in DOMAIN wire' : (i \in DOMAIN wire /\ wire'[i] = wire[i]) \/ wire'[i] = p
  BY <1>1, <1>2
<1> QED
  BY <1>2, <1>3, <1>4 DEF Slow, Awaited

LEMMA SlowStart ==
    ASSUME TypeInv, Slow, NEW f \in MaybeJob, StartPrint(f), mon' = mon
    PROVE  Slow'
<1> DEFINE p == [printer EXCEPT !.g = "PREPARE", !.print = @ + 1, !.file = f]
<1>1. /\ p \in Report /\ p.print = printer.print + 1 /\ p.g = "PREPARE"
      /\ printer.print \in Nat
  <2>1. printer \in Report /\ printer.print \in Nat
    BY StreamTypes
  <2>2. printer.print + 1 \in Nat /\ "PREPARE" \in GcodeState
    BY <2>1 DEF GcodeState
  <2> QED
    BY <2>1, <2>2 DEF Report
<1>2. Publish(p)
  BY DEF StartPrint
<1> HIDE DEF p
<1>3. p.print >= printer.print /\ p.g \notin Active
  BY <1>1 DEF Active
<1> QED
  BY <1>1, <1>2, <1>3, SlowPublish

LEMMA SlowPrinter ==
    ASSUME TypeInv, Slow, PrinterStep
    PROVE  Slow'
<1>1. printer \in Report /\ printer.print \in Nat /\ mon' = mon
  BY StreamTypes, PrinterSpeaks
<1>2. CASE LocalPrint
  BY <1>1, <1>2, SlowStart DEF LocalPrint
<1>3. ASSUME NEW from \in SUBSET GcodeState, NEW to \in GcodeState, ChangeState(from, to),
             mon.rec \in {"select", "sleep"} /\ to \in Active =>
                 from \subseteq Active \/ printer.print = mon.at
      PROVE  Slow'
  <2> DEFINE p == [printer EXCEPT !.g = to]
  <2>1. p \in Report /\ p.print = printer.print /\ p.g = to
    BY <1>1 DEF Report
  <2>2. Publish(p) /\ printer.g \in from
    BY <1>3 DEF ChangeState
  <2> HIDE DEF p
  <2> QED
    BY <1>1, <1>3, <2>1, <2>2, SlowPublish
<1>4. CASE HeatUp
  BY <1>3, <1>4 DEF HeatUp, Active, Resting, GcodeState
<1>5. CASE PausePrint \/ ResumePrint
  BY <1>3, <1>5 DEF PausePrint, ResumePrint, Active, Resting, GcodeState
<1>6. CASE FinishPrint \/ AbortPrint \/ Settle
  BY <1>3, <1>6 DEF FinishPrint, AbortPrint, Settle, EndPrint, Active, Resting, GcodeState
<1>7. CASE RaiseStopCode \/ ClearStopCode \/ Telemetry
  <2>1. PICK h \in BOOLEAN : Publish([printer EXCEPT !.hms = h])
    <3>1. printer = [printer EXCEPT !.hms = printer.hms] /\ printer.hms \in BOOLEAN
      BY <1>1 DEF Report
    <3> QED
      BY <1>7, <3>1 DEF RaiseStopCode, ClearStopCode, Telemetry
  <2> DEFINE p == [printer EXCEPT !.hms = h]
  <2>2. p \in Report /\ p.print = printer.print /\ p.g = printer.g
    BY <1>1 DEF Report
  <2>3. Publish(p)
    BY <2>1
  <2> HIDE DEF p
  <2> QED
    BY <1>1, <2>2, <2>3, SlowPublish
<1> QED
  BY <1>2, <1>4, <1>5, <1>6, <1>7 DEF PrinterStep

LEMMA SlowStep ==
    ASSUME TypeInv, Slow, [Next]_vars
    PROVE  Slow'
<1>1. /\ mon \in Monitor /\ wire \in Seq(Report) /\ printer \in Report
      /\ printer.print \in Nat /\ mon.at \in Nat
  BY StreamTypes DEF Monitor
<1>2. CASE Connect
  <2>1. /\ mon'.at = printer.print /\ mon'.st = NoReport
        /\ wire' = <<printer>> /\ printer' = printer
    BY <1>2 DEF Connect, NewMonitor, environment
  <2>2. \A i \in DOMAIN wire' : wire'[i] = printer
    BY <2>1
  <2> QED
    BY <1>1, <2>1, <2>2 DEF Slow, Awaited
<1>3. CASE StopMonitor
  <2>1. mon'.rec = "down"
    BY <1>3 DEF StopMonitor, NoMonitor, NewMonitor
  <2> QED
    BY <2>1 DEF Slow
<1>4. CASE LoseConnection \/ Reconnect
  <2>1. printer' = printer /\ mon' = mon
    BY <1>4 DEF LoseConnection, Reconnect, environment
  <2>2. \A i \in DOMAIN wire' : wire'[i] = printer
    BY <1>4 DEF LoseConnection, Reconnect
  <2> QED
    BY <2>1, <2>2 DEF Slow, Awaited
<1>5. CASE MergeReport
  <2>1. wire # <<>> /\ printer' = printer /\ wire' = Tail(wire)
    BY <1>5 DEF MergeReport, environment
  <2>2. /\ mon'.st = wire[1] /\ 1 \in DOMAIN wire
        /\ mon'.rec = mon.rec /\ mon'.at = mon.at
    BY <1>1, <1>5, <2>1 DEF MergeReport, Monitor
  <2>3. \A i \in DOMAIN wire' : i + 1 \in DOMAIN wire /\ wire'[i] = wire[i + 1]
    BY <1>1, <2>1
  <2> QED
    BY <2>1, <2>2, <2>3 DEF Slow, Awaited
<1>6. ASSUME NEW d \in Dispatcher, SendPrint(d) PROVE Slow'
  <2>1. mon' = mon /\ dispatch[d].job \in MaybeJob
    BY <1>6 DEF SendPrint, TypeInv, TypeOK, Thread
  <2>2. CASE StartPrint(dispatch[d].job)
    BY <2>1, <2>2, SlowStart
  <2>3. CASE UNCHANGED <<environment, connection>>
    BY <2>1, <2>3 DEF environment, connection, Slow, Awaited
  <2> QED
    BY <1>6, <2>2, <2>3 DEF SendPrint
<1>7. CASE RecoveryStep /\ UNCHANGED <<printer, wire, mon.st>>
  <2>1. \/ mon'.rec = "done"
        \/ mon.rec = "select" /\ mon'.rec = "sleep" /\ mon'.at = mon.at
    BY <1>1, <1>7 DEF RecoveryStep, RecoverSelect, RecoverRows, RecoveryNotCommitted, Monitor
  <2> QED
    BY <1>7, <2>1 DEF Slow, Awaited
<1>8. CASE UNCHANGED <<mon.rec, mon.at>> /\ UNCHANGED <<printer, wire, mon.st>>
  BY <1>8 DEF Slow, Awaited
<1> QED
  BY <1>2, <1>3, <1>4, <1>5, <1>6, <1>7, <1>8, SlowPrinter, RecoveryMoves, OtherStream
  DEF ConnectionStep
-----------------------------------------------------------------------------
(* No row is inserted while recovery sleeps.                               *)
LEMMA NoneInserted ==
    ASSUME TypeInv, Slow, SnapNewest, DbErrors = FALSE, InsertRow
    PROVE  mon.rec # "sleep"
<1> SUFFICES ASSUME mon.rec = "sleep" PROVE FALSE
  OBVIOUS
<1>1. mon.st.g \in Active
  BY InsertEntry
<1>2. RunningRows = {}
  BY DEF InsertRow, Resumable
<1>3. mon.st # NoReport /\ (mon.st.print = mon.at => mon.st.g \in Resting)
  BY <1>2 DEF SnapNewest
<1>4. mon.st.print = mon.at
  BY <1>1, <1>3 DEF Slow, Awaited
<1> QED
  BY <1>1, <1>3, <1>4 DEF Active, Resting

LEMMA RowCount ==
    ASSUME TypeInv, [Next]_vars, ~InsertRow
    PROVE  Len(rows') = Len(rows)
<1>1. DOMAIN rows' = DOMAIN rows
  BY RowPrints
<1>2. rows' \in Seq(Row)
  BY NextType DEF TypeInv, TypeOK
<1> QED
  BY <1>1, <1>2, RowTypes

(* No ended row runs again.                                                *)
LEMMA RunningShrinks ==
    ASSUME TypeInv, [Next]_vars, ~InsertRow
    PROVE  RunningRows' \subseteq RunningRows
<1>1. \A r \in DOMAIN rows : rows[r] \in Row
  BY RowTypes
<1>2. CASE FailForStopCode
  BY <1>1, <1>2 DEF FailForStopCode, RunningRows, Row
<1>3. CASE RecordEnd
  <2>1. /\ DOMAIN rows' = DOMAIN rows
        /\ \A r \in DOMAIN rows : r # mon.cur => rows'[r] = rows[r]
    BY <1>3 DEF RecordEnd
  <2>2. mon.cur \in DOMAIN rows => rows[mon.cur].status = "running"
    BY <1>3, RowTypes DEF RecordEnd, AlreadyEnded
  <2> QED
    BY <2>1, <2>2 DEF RunningRows
<1>4. CASE RecoverRows
  <2> SUFFICES ASSUME NEW r \in DOMAIN rows, rows'[r].status = "running"
               PROVE  rows[r].status = "running"
    BY <1>4 DEF RecoverRows, RunningRows
  <2>1. rows'[r] = IF r \in mon.snap THEN [rows[r] EXCEPT !.status = RecoveredStatus(r)] ELSE rows[r]
    BY <1>4 DEF RecoverRows
  <2> QED
    BY <1>1, <2>1 DEF RecoveredStatus, Row
<1> QED
  BY <1>2, <1>3, <1>4, RowsUnchanged DEF RowStep, RunningRows

(* A row is inserted when none runs, for a print newer than every other's: *)
(* what the monitor has merged accounts for the rows.                      *)
LEMMA InsertsNewer ==
    ASSUME TypeInv, Heard, DbErrors = FALSE, InsertRow
    PROVE  RunningRows = {} /\ \A r \in DOMAIN rows : rows[r].print < mon.st.print
<1>1. mon.st.g \in Active /\ mon.st.print \in Nat
  BY InsertEntry, StreamTypes
<1>2. RunningRows = {}
  BY DEF InsertRow, Resumable
<1>3. Accounts(mon.st)
  BY <1>1 DEF Heard, Active, NoReport
<1>4. ASSUME NEW r \in DOMAIN rows PROVE rows[r].print < mon.st.print
  <2>1. rows[r].print \in Nat /\ rows[r].print <= mon.st.print
    BY <1>3, RowTypes DEF Accounts
  <2>2. rows[r].print # mon.st.print
    BY <1>1, <1>2, <1>3 DEF Accounts, RunningRows, Active, Resting
  <2> QED
    BY <1>1, <2>1, <2>2
<1> QED
  BY <1>2, <1>4

LEMMA RunningNewestStep ==
    ASSUME TypeInv, Heard, RunningNewest, DbErrors = FALSE, [Next]_vars
    PROVE  RunningNewest'
<1>1. CASE InsertRow
  <2>1. RunningRows = {}
    BY <1>1, InsertsNewer
  <2>2. PICK e \in Row : rows' = Append(rows, e)
    BY <1>1, InsertEntry
  <2>3. /\ DOMAIN rows' = DOMAIN rows \cup {Len(rows')}
        /\ \A r \in DOMAIN rows : rows'[r] = rows[r]
    BY <2>2, RowTypes
  <2> QED
    BY <2>1, <2>3 DEF RunningNewest, RunningRows
<1>2. CASE ~InsertRow
  <2>1. Len(rows') = Len(rows)
    BY <1>2, RowCount
  <2> QED
    BY <1>2, <2>1, RunningShrinks DEF RunningNewest
<1> QED
  BY <1>1, <1>2

(* Besides the callback's merging and a new monitor no step touches what   *)
(* the monitor has merged.                                                 *)
LEMMA StateMoves ==
    ASSUME TypeInv, [Next]_vars, ~MergeReport, ~StopMonitor, ~Connect
    PROVE  mon'.st = mon.st
<1>1. CASE ConnectionStep
  BY <1>1 DEF ConnectionStep, LoseConnection, Reconnect
<1>2. ASSUME NEW d \in Dispatcher, SendPrint(d) PROVE mon' = mon
  BY <1>2 DEF SendPrint
<1> QED
  BY <1>1, <1>2, PrinterSpeaks, OtherStream

LEMMA SnapNewestStep ==
    ASSUME TypeInv, Stream, Heard, Slow, SnapNewest, RunningNewest, SoleRunning,
           DbErrors = FALSE, Silent, [Next]_vars
    PROVE  SnapNewest'
<1>1. mon \in Monitor /\ mon.st.print \in Nat /\ mon.at \in Nat
  BY StreamTypes DEF Monitor
<1>2. CASE StopMonitor \/ Connect
  BY <1>2 DEF StopMonitor, Connect, NoMonitor, NewMonitor, SnapNewest
<1>3. CASE RecoveryStep
  <2>1. CASE RecoverSelect
    <3>1. UNCHANGED rows
      BY <2>1 DEF RecoverSelect, tables
    <3>2. \/ mon'.rec = "done"
          \/ mon'.rec = "sleep" /\ mon'.snap = RunningRows /\ RunningRows # {}
      BY <1>1, <2>1 DEF RecoverSelect, Monitor
    <3> QED
      BY <3>1, <3>2 DEF SnapNewest, RunningNewest, RunningRows
  <2>2. CASE RecoverRows \/ RecoveryNotCommitted
    <3>1. mon'.rec = "done"
      BY <1>1, <2>2 DEF RecoverRows, RecoveryNotCommitted, Monitor
    <3> QED
      BY <3>1 DEF SnapNewest
  <2> QED
    BY <1>3, <2>1, <2>2 DEF RecoveryStep
<1>4. CASE UNCHANGED <<mon.rec, mon.at, mon.snap>> /\ ~StopMonitor /\ ~Connect
  <2> SUFFICES ASSUME mon.rec = "sleep"
               PROVE  /\ \A r \in mon.snap : r = Len(rows')
                      /\ RunningRows' = {} =>
                             /\ mon'.st # NoReport
                             /\ mon'.st.print = mon.at => mon'.st.g \in Resting
    BY <1>4 DEF SnapNewest
  <2>1. ~InsertRow
    BY NoneInserted
  <2>2. Len(rows') = Len(rows)
    BY <2>1, RowCount
  <2>3. CASE RunningRows = {}
    <3>1. /\ mon.st # NoReport /\ mon.st.print >= mon.at
          /\ mon.st.print = mon.at => mon.st.g \in Resting
      BY <2>3 DEF SnapNewest, Slow, Awaited
    <3>2. CASE MergeReport
      <4>1. Follows(mon.st, mon'.st)
        BY <3>2, MergeStream
      <4>2. mon'.st \in Report /\ mon'.st.print \in Nat
        <5>1. wire \in Seq(Report) /\ wire # <<>> /\ mon'.st = Head(wire)
          BY <1>1, <3>2, StreamTypes DEF MergeReport, Monitor
        <5>2. mon'.st \in Report
          BY <5>1
        <5> QED
          BY <5>2 DEF Report
      <4>3. mon'.st # NoReport
        BY <4>2 DEF Report, NoReport, GcodeState, Active, Resting
      <4> QED
        BY <1>1, <2>2, <3>1, <4>1, <4>2, <4>3 DEF Follows, SnapNewest
    <3>3. CASE mon'.st = mon.st
      BY <2>2, <3>1, <3>3 DEF SnapNewest
    <3> QED
      BY <1>4, <3>2, <3>3, StateMoves
  <2>4. CASE RunningRows # {} /\ RunningRows' = {}
    <3>1. RecordEnd
      <4>1. rows' # rows
        BY <2>4 DEF RunningRows
      <4>2. ~FailForStopCode
        BY DEF FailForStopCode, Silent
      <4>3. ~RecoverRows
        BY <1>1, <1>4 DEF RecoverRows, Monitor
      <4> QED
        BY <2>1, <4>1, <4>2, <4>3, RowsUnchanged DEF RowStep
    <3>2. mon.st.g \in Resting /\ mon'.st = mon.st
      BY <1>1, <3>1 DEF RecordEnd, EndSeen, Untracked, Handled, Monitor
    <3> QED
      BY <2>2, <3>2 DEF SnapNewest, Resting, NoReport
  <2>5. CASE RunningRows' # {}
    BY <2>2, <2>5 DEF SnapNewest
  <2> QED
    BY <2>3, <2>4, <2>5
<1> QED
  BY <1>2, <1>3, <1>4, RecoveryMoves

(* Recovery leaves the newest entry as it is or completes it, a second end *)
(* if the callback has ended it meanwhile.                                 *)
LEMMA RecoverRevises ==
    ASSUME TypeInv, SoleSnap, SnapNewest, RecoverRows
    PROVE  RevisedLedger!Next \/ Account' = Account
<1> DEFINE r == Latest(mon.snap)
           s == RecoveredStatus(r)
<1>1. r \in mon.snap /\ r \in DOMAIN rows /\ r = Len(rows)
  <2>1. r \in mon.snap
    BY LatestSnap DEF RecoverRows
  <2> QED
    BY <2>1 DEF RecoverRows, SnapNewest, TypeInv, Bounds
<1>2. /\ DOMAIN rows' = DOMAIN rows
      /\ rows'[r] = [rows[r] EXCEPT !.status = s]
      /\ \A q \in DOMAIN rows : q # r => rows'[q] = rows[q]
  BY <1>1 DEF RecoverRows, SoleSnap
<1>3. s = "completed" \/ s = rows[r].status
  BY DEF RecoveredStatus
<1> HIDE DEF s, r
<1>4. /\ rows'[r].print = rows[r].print /\ rows'[r].status = s
      /\ rows[r].status \in {"running"} \cup Ended
  <2>1. rows[r] \in Row
    BY <1>1 DEF TypeInv, TypeOK
  <2> QED
    BY <1>2, <2>1 DEF Row
<1>5. CASE s = rows[r].status
  BY <1>2, <1>4, <1>5 DEF Account
<1>6. CASE s = "completed" /\ rows[r].status = "running"
  BY <1>1, <1>2, <1>4, <1>6, ConcludeStep DEF RunningRows, Ended
<1>7. CASE s = "completed" /\ rows[r].status \in Ended
  <2>1. Account' = [Account EXCEPT ![r].status = "completed"]
    BY <1>1, <1>2, <1>4, <1>7 DEF Account
  <2>2. Account # <<>> /\ Len(Account) = r /\ Account[r].status = rows[r].status
    <3>1. /\ Account \in Seq([print : Nat, status : {"running"} \cup Ended])
          /\ Len(Account) = Len(rows)
      BY RowTypes DEF Account
    <3> QED
      BY <1>1, <3>1 DEF Account
  <2> QED
    BY <1>7, <2>1, <2>2
    DEF RevisedLedger!Next, RevisedLedger!Revise, RevisedLedger!Outcome, Ended
<1> QED
  BY <1>3, <1>4, <1>5, <1>6, <1>7

(* Through any number of lost connections and restarts the rows remain an  *)
(* account of the prints: entered in the order of the prints, one to each, *)
(* none before the last has ended.  Recovery can do no more to it than to  *)
(* complete the newest entry once more, or first.                          *)
THEOREM KeepsLedgerRestarted ==
    ASSUME DbErrors = FALSE, PromptStatus = TRUE, StopCodes = FALSE
    PROVE  Spec => KeepsRevisedLedger
<1> DEFINE Inv == Silent /\ Heard /\ SoleSnap /\ Newest
<1>1. Init => Inv /\ RevisedLedger!Init
  <2> SUFFICES ASSUME Init PROVE Inv /\ RevisedLedger!Init
    OBVIOUS
  <2>1. /\ mon.st = NoReport /\ mon.snap = {} /\ mon.rec = "done"
        /\ rows = <<>> /\ wire = <<printer>> /\ printer.hms = FALSE
    BY DEF Init, NewMonitor
  <2> QED
    BY <2>1 DEF Silent, Heard, Accounts, SoleSnap, Newest, Slow, SnapNewest, RunningNewest,
       RunningRows, NoReport, RevisedLedger!Init, Account
<1>2. TypeInv /\ Stream /\ SoleRunning /\ Inv /\ [Next]_vars => Inv'
  BY SilentStep, HeardStep, SnapStep, SlowStep, SnapNewestStep, RunningNewestStep DEF Newest
<1>3. TypeInv /\ Stream /\ Inv /\ [Next]_vars => [RevisedLedger!Next]_Account
  <2> SUFFICES ASSUME TypeInv, Stream, Inv, [Next]_vars
               PROVE  RevisedLedger!Next \/ Account' = Account
    OBVIOUS
  <2>1. CASE InsertRow
    BY <2>1, EnterStep, InsertsNewer
  <2>2. CASE RecordEnd
    BY <2>2, EndConcludes
  <2>3. CASE RecoverRows
    BY <2>3, RecoverRevises DEF Newest
  <2>4. ~FailForStopCode
    BY DEF FailForStopCode, Silent
  <2>5. CASE ~InsertRow /\ ~RecordEnd /\ ~RecoverRows
    <3>1. rows' = rows
      BY <2>4, <2>5, RowsUnchanged DEF RowStep
    <3> QED
      BY <3>1 DEF Account
  <2> QED
    BY <2>1, <2>2, <2>3, <2>5
<1>4. Spec => []Stream
  BY OrderInvariant, PTL
<1> QED
  BY <1>1, <1>2, <1>3, <1>4, TypeInvariant, SoleRunningAlways, PTL
  DEF Spec, KeepsRevisedLedger, RevisedLedger!Spec
-----------------------------------------------------------------------------
(* While a print is under way it has no outcome, and none to come has one. *)
OutcomeOpen ==
    /\ printer.g \notin Resting => outcome[printer.print] = "NONE"
    /\ \A q \in 1..MaxPrints : q > printer.print => outcome[q] = "NONE"

(* Report y is heard right after report x: a print is active until the     *)
(* report of its outcome o.                                                *)
Steady(o, x, y) ==
    x.g \in Active => /\ y.print = x.print /\ y.print \in 1..MaxPrints
                      /\ \/ y.g \in Active
                         \/ y.g \in Resting /\ o[y.print] = y.g

(* While no connection is lost every state of the printer is heard.        *)
Chain ==
    /\ wire = <<>> => mon.st = printer
    /\ wire # <<>> => Steady(outcome, mon.st, wire[1]) /\ wire[Len(wire)] = printer
    /\ \A i \in DOMAIN wire : i + 1 \in DOMAIN wire => Steady(outcome, wire[i], wire[i + 1])

Flags(x) == x.hms => x.print \in flagged

FlagsHeard == Flags(printer) /\ Flags(mon.st) /\ \A i \in DOMAIN wire : Flags(wire[i])

(* A running row is the one tracked, of the print the monitor last heard   *)
(* of, whose end, once heard, is handled next.                             *)
HeardOut ==
    /\ mon.pc = "idle" => mon.last = mon.st.g
    /\ \A r \in RunningRows :
          /\ r = mon.cur /\ rows[r].print = mon.st.print /\ mon.last \in Active
          /\ mon.st.g \in Active \cup Resting
          /\ mon.st.g \in Resting => mon.pc = "merged" /\ outcome[mon.st.print] = mon.st.g
    /\ \A r \in DOMAIN rows : rows[r].print \in 1..MaxPrints

OutcomeInv == online /\ OutcomeOpen /\ Chain /\ FlagsHeard /\ HeardOut /\ OutcomeFaithful

(* A print that has an outcome keeps it.                                   *)
Lasting ==
    /\ \A p \in 1..MaxPrints : outcome[p] # "NONE" => outcome'[p] = outcome[p]
    /\ flagged \subseteq flagged'

LEMMA OutcomeStarts == Init => OutcomeInv
<1> SUFFICES ASSUME Init PROVE OutcomeInv
  OBVIOUS
<1> DEFINE p0 == [g |-> "IDLE", print |-> 0, file |-> NoJob, hms |-> FALSE]
<1>1. /\ printer = p0 /\ wire = <<p0>> /\ rows = <<>> /\ online = TRUE
      /\ mon.st = NoReport /\ mon.pc = "idle" /\ mon.last = "NONE"
      /\ outcome = [p \in 1..MaxPrints |-> "NONE"]
  BY DEF Init, NewMonitor
<1>2. p0.g = "IDLE" /\ p0.print = 0 /\ p0.hms = FALSE /\ NoReport.g = "NONE" /\ NoReport.hms = FALSE
  BY DEF NoReport
<1> HIDE DEF p0
<1>3. wire # <<>> /\ Len(wire) = 1 /\ wire[1] = p0 /\ DOMAIN wire = {1}
  BY <1>1
<1>4. OutcomeOpen
  BY <1>1, <1>2 DEF OutcomeOpen, Resting
<1>5. Chain
  BY <1>1, <1>2, <1>3 DEF Chain, Steady, Active
<1>6. FlagsHeard
  BY <1>1, <1>2, <1>3 DEF FlagsHeard, Flags
<1>7. HeardOut /\ OutcomeFaithful
  BY <1>1, <1>2 DEF HeardOut, OutcomeFaithful, RunningRows
<1> QED
  BY <1>1, <1>4, <1>5, <1>6, <1>7 DEF OutcomeInv

(* What a step of the printer publishes.                                   *)
Publishes ==
    \E p \in Report : /\ Publish(p) /\ (p.hms => p.print \in flagged')
                      /\ Lasting /\ OutcomeOpen' /\ Steady(outcome', printer, p)

LEMMA StartMoves ==
    ASSUME TypeInv, OutcomeInv, NEW f \in MaybeJob, StartPrint(f)
    PROVE  Publishes
<1> DEFINE p == [printer EXCEPT !.g = "PREPARE", !.print = @ + 1, !.file = f]
<1>1. printer \in Report /\ printer.print \in Nat /\ printer.print < MaxPrints /\ printer.g \in Resting
  BY StreamTypes DEF StartPrint
<1>2. p \in Report /\ p.print = printer.print + 1 /\ p.g = "PREPARE" /\ p.hms = printer.hms
  <2>1. printer.print + 1 \in Nat /\ "PREPARE" \in GcodeState
    BY <1>1 DEF GcodeState
  <2> QED
    BY <1>1, <2>1 DEF Report
<1>3. Publish(p) /\ outcome' = outcome
      /\ flagged' = IF printer.hms THEN flagged \cup {printer.print + 1} ELSE flagged
  BY DEF StartPrint
<1> HIDE DEF p
<1>4. printer' = p
  BY <1>3 DEF Publish
<1>5. OutcomeOpen'
  <2>1. printer.print + 1 \in 1..MaxPrints
    BY <1>1, TrackingAssumption
  <2>2. \A q \in 1..MaxPrints : q > printer.print => outcome[q] = "NONE"
    BY DEF OutcomeInv, OutcomeOpen
  <2> QED
    BY <1>1, <1>2, <1>3, <1>4, <2>1, <2>2 DEF OutcomeOpen
<1>6. Lasting /\ Steady(outcome', printer, p)
  BY <1>1, <1>3 DEF Lasting, Steady, Active, Resting
<1> QED
  BY <1>2, <1>3, <1>5, <1>6 DEF Publishes

(* A change of state, whatever it does to the outcomes.                    *)
LEMMA ChangeMoves ==
    ASSUME TypeInv, OutcomeInv, NEW from \in SUBSET GcodeState, NEW to \in GcodeState,
           ChangeState(from, to),
           \/ outcome' = outcome /\ from \cap Resting = {} /\ to \in Active
           \/ outcome' = outcome /\ from \subseteq Resting /\ to \in Resting
           \/ /\ outcome' = [outcome EXCEPT ![printer.print] = to]
              /\ from \cap Resting = {} /\ to \in Resting
    PROVE  Publishes
<1> DEFINE p == [printer EXCEPT !.g = to]
<1>1. /\ printer \in Report /\ printer.print \in Nat /\ printer.g \in from
      /\ printer.g \notin Resting => printer.print \in 1..MaxPrints
      /\ outcome \in [1..MaxPrints -> Resting \cup {"NONE"}]
  BY StreamTypes, TrackingAssumption DEF ChangeState, TypeInv, TypeOK, Bounds
<1>2. p \in Report /\ p.print = printer.print /\ p.g = to /\ p.hms = printer.hms
  BY <1>1 DEF Report
<1>3. Publish(p) /\ flagged' = flagged
  BY DEF ChangeState
<1> HIDE DEF p
<1>4. printer' = p
  BY <1>3 DEF Publish
<1>5. p.hms => p.print \in flagged'
  BY <1>2, <1>3 DEF OutcomeInv, FlagsHeard, Flags
<1>6. /\ printer.g \notin Resting => outcome[printer.print] = "NONE"
      /\ \A q \in 1..MaxPrints : q > printer.print => outcome[q] = "NONE"
  BY DEF OutcomeInv, OutcomeOpen
<1>7. CASE outcome' = outcome /\ from \cap Resting = {} /\ to \in Active
  BY <1>1, <1>2, <1>3, <1>4, <1>5, <1>6, <1>7
     DEF OutcomeOpen, Lasting, Steady, Publishes
<1>8. CASE outcome' = outcome /\ from \subseteq Resting /\ to \in Resting
  BY <1>1, <1>2, <1>3, <1>4, <1>5, <1>6, <1>8
     DEF OutcomeOpen, Lasting, Steady, Active, Resting, Publishes
<1>9. CASE /\ outcome' = [outcome EXCEPT ![printer.print] = to]
           /\ from \cap Resting = {} /\ to \in Resting
  <2>1. printer.print \in 1..MaxPrints /\ outcome[printer.print] = "NONE"
    BY <1>1, <1>6, <1>9
  <2>2. \A q \in 1..MaxPrints : outcome'[q] = IF q = printer.print THEN to ELSE outcome[q]
    BY <1>1, <1>9
  <2>3. Lasting
    BY <1>3, <2>1, <2>2 DEF Lasting
  <2>4. OutcomeOpen'
    BY <1>1, <1>2, <1>4, <1>6, <1>9, <2>2 DEF OutcomeOpen
  <2>5. Steady(outcome', printer, p)
    BY <1>2, <1>9, <2>1, <2>2 DEF Steady
  <2> QED
    BY <1>2, <1>3, <1>5, <2>3, <2>4, <2>5 DEF Publishes
<1> QED
  BY <1>7, <1>8, <1>9

(* A stop code raised or cleared, and telemetry.                           *)
LEMMA CodeMoves ==
    ASSUME TypeInv, OutcomeInv, RaiseStopCode \/ ClearStopCode \/ Telemetry
    PROVE  Publishes
<1>1. /\ printer \in Report /\ printer.print \in Nat /\ outcome' = outcome
      /\ printer.g \notin Resting => printer.print \in 1..MaxPrints
  BY StreamTypes, TrackingAssumption
     DEF RaiseStopCode, ClearStopCode, Telemetry, TypeInv, TypeOK, Bounds
<1>2. PICK h \in BOOLEAN : /\ Publish([printer EXCEPT !.hms = h]) /\ flagged \subseteq flagged'
                           /\ h => printer.print \in flagged'
  <2>1. CASE RaiseStopCode
    <3>1. Publish([printer EXCEPT !.hms = TRUE]) /\ flagged' = flagged \cup {printer.print}
      BY <2>1 DEF RaiseStopCode
    <3> QED
      BY <3>1
  <2>2. CASE ClearStopCode
    <3>1. Publish([printer EXCEPT !.hms = FALSE]) /\ flagged' = flagged
      BY <2>2 DEF ClearStopCode
    <3> QED
      BY <3>1
  <2>3. CASE Telemetry
    <3>1. Publish(printer) /\ flagged' = flagged
      BY <2>3 DEF Telemetry
    <3>2. printer = [printer EXCEPT !.hms = printer.hms] /\ printer.hms \in BOOLEAN
      BY <1>1 DEF Report
    <3>3. printer.hms => printer.print \in flagged
      BY DEF OutcomeInv, FlagsHeard, Flags
    <3> QED
      BY <3>1, <3>2, <3>3
  <2> QED
    BY <2>1, <2>2, <2>3
<1> DEFINE p == [printer EXCEPT !.hms = h]
<1>3. p \in Report /\ p.print = printer.print /\ p.g = printer.g /\ p.hms = h
  BY <1>1 DEF Report
<1>4. Publish(p)
  BY <1>2
<1> HIDE DEF p
<1>5. printer' = p
  BY <1>4 DEF Publish
<1>6. OutcomeOpen' /\ Lasting
  BY <1>1, <1>2, <1>3, <1>5 DEF OutcomeInv, OutcomeOpen, Lasting
<1>7. Steady(outcome', printer, p)
  BY <1>1, <1>3 DEF Steady, Active, Resting
<1> QED
  BY <1>2, <1>3, <1>4, <1>6, <1>7 DEF Publishes

LEMMA PrinterMoves ==
    ASSUME TypeInv, OutcomeInv, PrinterStep
    PROVE  Publishes /\ UNCHANGED <<mon, rows>>
<1> USE DEF Active, Resting, GcodeState
<1>1. UNCHANGED <<mon, rows>>
  BY DEF PrinterStep, LocalPrint, HeatUp, PausePrint, ResumePrint, FinishPrint, AbortPrint,
     Settle, RaiseStopCode, ClearStopCode, Telemetry, EndPrint, ChangeState, tables
<1>2. CASE LocalPrint
  BY <1>1, <1>2, StartMoves DEF LocalPrint
<1>3. CASE HeatUp
  BY <1>1, <1>3, ChangeMoves DEF HeatUp
<1>4. CASE PausePrint
  BY <1>1, <1>4, ChangeMoves DEF PausePrint
<1>5. CASE ResumePrint
  BY <1>1, <1>5, ChangeMoves DEF ResumePrint
<1>6. CASE FinishPrint
  BY <1>1, <1>6, ChangeMoves DEF FinishPrint, EndPrint
<1>7. CASE AbortPrint
  <2>1. PICK to \in {"FAILED", "IDLE"} : EndPrint({"PREPARE"} \cup Active, to)
    BY <1>7 DEF AbortPrint
  <2>2. {"PREPARE"} \cup Active \in SUBSET GcodeState /\ to \in GcodeState
    OBVIOUS
  <2> QED
    BY <1>1, <2>1, <2>2, ChangeMoves DEF EndPrint
<1>8. CASE Settle
  BY <1>1, <1>8, ChangeMoves DEF Settle
<1>9. CASE RaiseStopCode \/ ClearStopCode \/ Telemetry
  BY <1>1, <1>9, CodeMoves
<1> QED
  BY <1>1, <1>2, <1>3, <1>4, <1>5, <1>6, <1>7, <1>8, <1>9 DEF PrinterStep

(* What a row has been given stays true.                                   *)
LEMMA LastingRows ==
    ASSUME TypeInv, OutcomeInv, Lasting, UNCHANGED <<mon, rows>>
    PROVE  HeardOut' /\ OutcomeFaithful'
<1>1. /\ \A p \in 1..MaxPrints : outcome[p] # "NONE" => outcome'[p] = outcome[p]
      /\ flagged \subseteq flagged'
      /\ \A r \in DOMAIN rows : rows[r].print \in 1..MaxPrints
      /\ RunningRows' = RunningRows
  BY DEF Lasting, OutcomeInv, HeardOut, RunningRows
<1>2. HeardOut'
  <2>1. ASSUME NEW r \in RunningRows, mon.st.g \in Resting
        PROVE  outcome'[mon.st.print] = mon.st.g
    <3>1. rows[r].print = mon.st.print /\ outcome[mon.st.print] = mon.st.g /\ mon.st.g # "NONE"
      BY <2>1 DEF OutcomeInv, HeardOut, Resting
    <3> QED
      BY <1>1, <3>1 DEF RunningRows
  <2> QED
    BY <1>1, <2>1 DEF OutcomeInv, HeardOut
<1>3. OutcomeFaithful'
  BY <1>1 DEF OutcomeInv, OutcomeFaithful
<1> QED
  BY <1>2, <1>3

LEMMA PublishKeeps ==
    ASSUME TypeInv, OutcomeInv, Publishes, UNCHANGED <<mon, rows>>
    PROVE  OutcomeInv'
<1>1. PICK p \in Report : /\ Publish(p) /\ (p.hms => p.print \in flagged')
                          /\ Lasting /\ OutcomeOpen' /\ Steady(outcome', printer, p)
  BY DEF Publishes
<1>2. /\ wire \in Seq(Report) /\ online = TRUE /\ online' = online
      /\ printer' = p /\ wire' = Append(wire, p)
  BY <1>1 DEF TypeInv, TypeOK, OutcomeInv, Publish
<1> DEFINE n == Len(wire) + 1
<1>3. /\ DOMAIN wire' = DOMAIN wire \cup {n} /\ wire'[n] = p /\ Len(wire') = n /\ wire' # <<>>
      /\ \A i \in DOMAIN wire : wire'[i] = wire[i] /\ i < n /\ i # n /\ i \in Nat
      /\ n \in Nat /\ Len(wire) \in Nat /\ DOMAIN wire = 1..Len(wire)
      /\ wire = <<>> => n = 1
      /\ wire # <<>> => 1 \in DOMAIN wire /\ Len(wire) \in DOMAIN wire
  BY <1>2
<1>4. ASSUME NEW x, NEW y, Steady(outcome, x, y) PROVE Steady(outcome', x, y)
  BY <1>1, <1>4 DEF Steady, Lasting, Resting
<1>5. Chain'
  <2>1. CASE wire = <<>>
    <3>1. mon.st = printer
      BY <2>1 DEF OutcomeInv, Chain
    <3>2. DOMAIN wire' = {1} /\ wire'[1] = p /\ Len(wire') = 1
      BY <1>2, <2>1
    <3> QED
      BY <1>1, <1>2, <3>1, <3>2 DEF Chain
  <2>2. CASE wire # <<>>
    <3>1. Steady(outcome, mon.st, wire[1]) /\ wire[Len(wire)] = printer
      BY <2>2 DEF OutcomeInv, Chain
    <3>2. wire'[1] = wire[1] /\ Steady(outcome', mon.st, wire'[1])
      BY <1>3, <1>4, <2>2, <3>1
    <3>3. ASSUME NEW i \in DOMAIN wire', i + 1 \in DOMAIN wire'
          PROVE  Steady(outcome', wire'[i], wire'[i + 1])
      <4>1. i \in 1..Len(wire)
        BY <1>3, <3>3
      <4>2. CASE i = Len(wire)
        BY <1>1, <1>3, <2>2, <3>1, <4>2
      <4>3. CASE i # Len(wire)
        <5>1. i + 1 \in DOMAIN wire
          BY <1>3, <4>1, <4>3
        <5>2. Steady(outcome, wire[i], wire[i + 1])
          BY <1>3, <4>1, <5>1 DEF OutcomeInv, Chain
        <5> QED
          BY <1>3, <1>4, <4>1, <5>1, <5>2
      <4> QED
        BY <4>2, <4>3
    <3> QED
      BY <1>2, <1>3, <3>2, <3>3 DEF Chain
  <2> QED
    BY <2>1, <2>2
<1> HIDE DEF n
<1>6. FlagsHeard'
  BY <1>1, <1>2, <1>3 DEF OutcomeInv, FlagsHeard, Flags, Lasting
<1>7. HeardOut' /\ OutcomeFaithful'
  BY <1>1, LastingRows
<1> QED
  BY <1>1, <1>2, <1>5, <1>6, <1>7 DEF OutcomeInv
-----------------------------------------------------------------------------
LEMMA MergeKeeps ==
    ASSUME TypeInv, OutcomeInv, MergeReport
    PROVE  OutcomeInv'
<1>1. wire \in Seq(Report) /\ wire # <<>> /\ mon \in Monitor /\ mon.pc = "idle" /\ online
  BY StreamTypes DEF MergeReport, OutcomeInv
<1>2. UNCHANGED <<printer, outcome, flagged, online, rows>> /\ wire' = Tail(wire)
  BY DEF MergeReport, environment, tables
<1>3. /\ mon'.st = wire[1] /\ mon'.pc = "merged" /\ mon'.cur = mon.cur /\ mon'.last = mon.last
  BY <1>1 DEF MergeReport, Monitor
<1>4. /\ 1 \in DOMAIN wire /\ Len(wire) \in Nat /\ DOMAIN wire = 1..Len(wire) /\ Len(wire) # 0
      /\ Len(wire') = Len(wire) - 1 /\ DOMAIN wire' = 1..(Len(wire) - 1)
      /\ \A i \in DOMAIN wire' : i + 1 \in DOMAIN wire /\ wire'[i] = wire[i + 1] /\ i \in Nat
  BY <1>1, <1>2
<1>5. /\ Steady(outcome, mon.st, wire[1]) /\ wire[Len(wire)] = printer
      /\ \A i \in DOMAIN wire : i + 1 \in DOMAIN wire => Steady(outcome, wire[i], wire[i + 1])
  BY <1>1 DEF OutcomeInv, Chain
<1>6. Chain'
  <2>1. CASE Len(wire) = 1
    <3>1. wire' = <<>> /\ DOMAIN wire' = {}
      BY <1>1, <1>2, <1>4, <2>1
    <3> QED
      BY <1>2, <1>3, <1>5, <2>1, <3>1 DEF Chain
  <2>2. CASE Len(wire) # 1
    <3>1. /\ 1 \in DOMAIN wire' /\ 1 + 1 \in DOMAIN wire /\ wire' # <<>>
          /\ Len(wire') \in DOMAIN wire' /\ Len(wire') + 1 = Len(wire)
      BY <1>4, <2>2
    <3>2. Steady(outcome, mon'.st, wire'[1]) /\ wire'[Len(wire')] = printer
      BY <1>3, <1>4, <1>5, <3>1
    <3>3. ASSUME NEW i \in DOMAIN wire', i + 1 \in DOMAIN wire'
          PROVE  Steady(outcome, wire'[i], wire'[i + 1])
      BY <1>4, <1>5, <3>3
    <3> QED
      BY <1>2, <3>1, <3>2, <3>3 DEF Chain
  <2> QED
    BY <2>1, <2>2
<1>7. FlagsHeard' /\ OutcomeOpen' /\ OutcomeFaithful'
  BY <1>2, <1>3, <1>4 DEF OutcomeInv, FlagsHeard, Flags, OutcomeOpen, OutcomeFaithful
<1>8. HeardOut'
  <2>1. RunningRows' = RunningRows
    BY <1>2 DEF RunningRows
  <2>2. ASSUME NEW r \in RunningRows
        PROVE  /\ r = mon'.cur /\ rows[r].print = mon'.st.print /\ mon'.last \in Active
               /\ mon'.st.g \in Active \cup Resting
               /\ mon'.st.g \in Resting => outcome[mon'.st.print] = mon'.st.g
    <3>1. /\ r = mon.cur /\ rows[r].print = mon.st.print /\ mon.last \in Active
          /\ mon.st.g \in Active
      BY <1>1 DEF OutcomeInv, HeardOut
    <3> QED
      BY <1>3, <1>5, <3>1 DEF Steady, Active, Resting
  <2> QED
    BY <1>2, <1>3, <2>1, <2>2 DEF OutcomeInv, HeardOut
<1> QED
  BY <1>1, <1>2, <1>6, <1>7, <1>8 DEF OutcomeInv

(* A step that hears nothing new.                                          *)
LEMMA NothingHeard ==
    ASSUME OutcomeInv, UNCHANGED <<printer, outcome, flagged, online, wire>>, mon'.st = mon.st,
           HeardOut', OutcomeFaithful'
    PROVE  OutcomeInv'
BY DEF OutcomeInv, OutcomeOpen, Chain, FlagsHeard, Flags

(* The running row ends, as its print did.                                 *)
LEMMA RowEnds ==
    ASSUME TypeInv, OutcomeInv, NEW r \in RunningRows, NEW s \in Ended,
           DOMAIN rows' = DOMAIN rows, rows'[r].print = rows[r].print, rows'[r].status = s,
           \A q \in DOMAIN rows : q # r => rows'[q] = rows[q],
           UNCHANGED <<outcome, flagged>>,
           mon'.pc = "idle" => mon'.last = mon'.st.g,
           s = "completed" => outcome[rows[r].print] = "FINISH",
           s = "cancelled" => outcome[rows[r].print] = "IDLE",
           s = "failed" => outcome[rows[r].print] = "FAILED" \/ rows[r].print \in flagged
    PROVE  HeardOut' /\ OutcomeFaithful'
<1>1. r \in DOMAIN rows /\ \A q \in RunningRows : q = r
  BY DEF OutcomeInv, HeardOut, RunningRows
<1>2. RunningRows' = {}
  BY <1>1 DEF RunningRows, Ended
<1>3. HeardOut'
  BY <1>1, <1>2 DEF OutcomeInv, HeardOut
<1>4. OutcomeFaithful'
  BY <1>1 DEF OutcomeInv, OutcomeFaithful
<1> QED
  BY <1>3, <1>4

LEMMA FailKeeps ==
    ASSUME TypeInv, OutcomeInv, FailForStopCode
    PROVE  OutcomeInv'
<1>1. /\ UNCHANGED <<printer, outcome, flagged, online, wire, mon>>
      /\ mon.pc = "idle" /\ mon.st.hms
  BY DEF FailForStopCode, environment, connection
<1> DEFINE r == Latest(RunningRows)
<1>2. r \in RunningRows
  BY LatestRunning DEF FailForStopCode, TypeInv, RunningRows
<1>3. rows' = [rows EXCEPT ![r].status = "failed"]
  BY DEF FailForStopCode
<1> HIDE DEF r
<1>4. rows \in Seq(Row) /\ \A q \in DOMAIN rows : rows[q] \in Row
  BY DEF TypeInv, TypeOK
<1>5. /\ DOMAIN rows' = DOMAIN rows /\ rows'[r].status = "failed"
      /\ rows'[r].print = rows[r].print
      /\ \A q \in DOMAIN rows : q # r => rows'[q] = rows[q]
  BY <1>2, <1>3, <1>4 DEF Row, RunningRows
<1>6. rows[r].print \in flagged /\ (mon'.pc = "idle" => mon'.last = mon'.st.g)
  BY <1>1, <1>2 DEF OutcomeInv, HeardOut, FlagsHeard, Flags
<1>7. HeardOut' /\ OutcomeFaithful'
  <2>1. "failed" \in Ended
    BY DEF Ended
  <2> QED
    BY <1>1, <1>2, <1>5, <1>6, <2>1, RowEnds
<1> QED
  BY <1>1, <1>7, NothingHeard

LEMMA EndKeeps ==
    ASSUME TypeInv, OutcomeInv, RecordEnd
    PROVE  OutcomeInv'
<1> DEFINE s == Conclusion(mon.st.g)
           r == mon.cur
           e == IF mon.linked = NoJob
                THEN [rows[r] EXCEPT !.status = s, !.link = NoJob, !.made = TRUE]
                ELSE [rows[r] EXCEPT !.status = s]
<1>1. /\ UNCHANGED <<printer, outcome, flagged, online, wire>>
      /\ mon.st.g \in Resting /\ mon \in Monitor
  BY StreamTypes DEF RecordEnd, EndSeen, environment, connection
<1>2. rows \in Seq(Row) /\ \A q \in DOMAIN rows : rows[q] \in Row
  BY DEF TypeInv, TypeOK
<1>3. s \in Ended
  BY <1>1 DEF Resting, Conclusion, Ended
<1>4. r \in DOMAIN rows
  BY <1>2 DEF RecordEnd, TypeInv, Bounds
<1>5. r \in RunningRows
  BY <1>2, <1>4 DEF RecordEnd, AlreadyEnded, RunningRows, Row
<1>6. rows' = [rows EXCEPT ![r] = e]
  BY DEF RecordEnd
<1>7. outcome[rows[r].print] = mon.st.g
  BY <1>1, <1>5 DEF OutcomeInv, HeardOut
<1>8. /\ s = "completed" => mon.st.g = "FINISH"
      /\ s = "cancelled" => mon.st.g = "IDLE"
      /\ s = "failed" => mon.st.g = "FAILED"
  BY <1>1 DEF Resting, Conclusion
<1> HIDE DEF s, r
<1>9. e.status = s /\ e.print = rows[r].print
  BY <1>2, <1>4 DEF Row
<1> HIDE DEF e
<1>10. /\ DOMAIN rows' = DOMAIN rows /\ rows'[r].status = s
       /\ rows'[r].print = rows[r].print
       /\ \A q \in DOMAIN rows : q # r => rows'[q] = rows[q]
  BY <1>2, <1>4, <1>6, <1>9
<1>11. mon'.st = mon.st /\ mon'.last = mon'.st.g
  BY <1>1 DEF RecordEnd, Untracked, Handled, Monitor
<1>12. HeardOut' /\ OutcomeFaithful'
  BY <1>1, <1>3, <1>5, <1>7, <1>8, <1>10, <1>11, RowEnds
<1> QED
  BY <1>1, <1>11, <1>12, NothingHeard

LEMMA InsertKeeps ==
    ASSUME TypeInv, Stream, OutcomeInv, DbErrors = FALSE, InsertRow
    PROVE  OutcomeInv'
<1>1. /\ UNCHANGED <<printer, outcome, flagged, online, wire>>
      /\ RunningRows = {} /\ rows \in Seq(Row) /\ mon \in Monitor
  BY StreamTypes DEF InsertRow, Resumable, environment, connection, TypeInv, TypeOK
<1>2. mon.st.g \in Active /\ mon'.st = mon.st /\ mon'.cur = Len(rows) + 1 /\ mon'.last = mon.st.g
  <2>1. PICK k : mon' = [Handled EXCEPT !.cur = Len(rows) + 1, !.linked = k]
    BY DEF InsertRow
  <2> QED
    BY <1>1, <2>1 DEF Handled, Monitor, InsertRow, StartSeen
<1>3. PICK e \in Row : rows' = Append(rows, e) /\ e.print = mon.st.print /\ e.status = "running"
  BY InsertEntry
<1>4. mon.st.print \in 1..MaxPrints
  <2>1. /\ mon.st.print \in Nat /\ mon.st.print # 0 /\ mon.st.print <= printer.print
        /\ printer.print \in Nat
    BY <1>2, StreamTypes DEF Stream, Numbered, Follows
  <2>2. printer.print <= MaxPrints
    BY DEF TypeInv, Bounds
  <2> QED
    BY <2>1, <2>2, TrackingAssumption
<1> DEFINE n == Len(rows) + 1
<1>5. /\ DOMAIN rows' = DOMAIN rows \cup {n} /\ rows'[n] = e
      /\ \A r \in DOMAIN rows : rows'[r] = rows[r] /\ r # n
  BY <1>1, <1>3
<1> HIDE DEF n
<1>6. RunningRows' = {n}
  BY <1>1, <1>3, <1>5 DEF RunningRows
<1>7. mon'.cur = n
  BY <1>2 DEF n
<1>8. HeardOut'
  <2>1. ASSUME NEW r \in RunningRows'
        PROVE  /\ r = mon'.cur /\ rows'[r].print = mon'.st.print /\ mon'.last \in Active
               /\ mon'.st.g \in Active
    BY <1>2, <1>3, <1>5, <1>6, <1>7
  <2>2. mon'.st.g \notin Resting
    BY <1>2 DEF Active, Resting
  <2> QED
    BY <1>2, <1>3, <1>4, <1>5, <2>1, <2>2 DEF OutcomeInv, HeardOut
<1>9. OutcomeFaithful'
  BY <1>1, <1>3, <1>5 DEF OutcomeInv, OutcomeFaithful
<1> QED
  BY <1>1, <1>2, <1>8, <1>9, NothingHeard

(* A report that changes no row leaves a running one whose print goes on.  *)
LEMMA HandlingKeeps ==
    ASSUME TypeInv, OutcomeInv, DbErrors = FALSE, "end" \notin Refused,
           ResumeRow \/ StartNotRecorded \/ EndNotRecorded \/ NothingToRecord
    PROVE  OutcomeInv'
<1>1. /\ UNCHANGED <<printer, outcome, flagged, online, wire, rows>> /\ mon \in Monitor
      /\ RunningRows' = RunningRows
  BY StreamTypes DEF ResumeRow, StartNotRecorded, EndNotRecorded, NothingToRecord, environment,
     connection, tables, RunningRows
<1>2. mon'.st = mon.st /\ mon'.last = mon.st.g
  BY <1>1 DEF ResumeRow, StartNotRecorded, EndNotRecorded, NothingToRecord, Handled, Untracked,
     Monitor
<1>3. ASSUME NEW r \in RunningRows PROVE mon'.cur = r /\ mon.st.g \in Active
  <2>1. /\ r = mon.cur /\ r \in DOMAIN rows /\ rows[r].status = "running" /\ r # 0
        /\ mon.last \in Active /\ mon.st.g \in Active \cup Resting
    BY <1>3 DEF OutcomeInv, HeardOut, RunningRows, TypeInv, TypeOK
  <2>2. NothingToRecord
    BY <1>3, <2>1 DEF ResumeRow, StartNotRecorded, EndNotRecorded, StartSeen, Resumable,
       AlreadyEnded, Ended
  <2>3. mon.st.g \in Active
    BY <2>1, <2>2 DEF NothingToRecord, EndSeen, Changed, Active, Resting
  <2> QED
    BY <1>1, <2>1, <2>2, <2>3 DEF NothingToRecord, Handled, Monitor
<1>4. HeardOut'
  <2>1. ASSUME NEW r \in RunningRows PROVE mon.st.g \notin Resting
    BY <1>3, <2>1 DEF Active, Resting
  <2> QED
    BY <1>1, <1>2, <1>3, <2>1 DEF OutcomeInv, HeardOut
<1>5. OutcomeFaithful'
  BY <1>1 DEF OutcomeInv, OutcomeFaithful
<1> QED
  BY <1>1, <1>2, <1>4, <1>5, NothingHeard

LEMMA OutcomeKept ==
    ASSUME TypeInv, Stream, OutcomeInv, mon.rec = "done", MaxDrops = 0, MaxRestarts = 0,
           DbErrors = FALSE, "end" \notin Refused, [Next]_vars
    PROVE  OutcomeInv'
<1>1. CASE PrinterStep
  BY <1>1, PrinterMoves, PublishKeeps
<1>2. CASE ConnectionStep
  <2>1. drops = 0 /\ restarts = 0 /\ online
    BY DEF TypeInv, TypeOK, OutcomeInv
  <2> QED
    BY <1>2, <2>1 DEF ConnectionStep, LoseConnection, Reconnect, StopMonitor, Connect
<1>3. CASE CallbackStep
  BY <1>3, FailKeeps, MergeKeeps, InsertKeeps, EndKeeps, HandlingKeeps DEF CallbackStep
<1>4. CASE RecoveryStep
  BY <1>4 DEF RecoveryStep, RecoverSelect, RecoverRows, RecoveryNotCommitted
<1>5. CASE UNCHANGED <<printer, outcome, flagged, online, wire, mon, rows>>
  <2>1. HeardOut' /\ OutcomeFaithful'
    BY <1>5 DEF OutcomeInv, HeardOut, OutcomeFaithful, RunningRows
  <2> QED
    BY <1>5, <2>1, NothingHeard
<1>6. CASE RunScheduler \/ BeginRun \/ CommitRun
  BY <1>5, <1>6 DEF RunScheduler, BeginRun, CommitRun, environment, connection, tables
<1>7. ASSUME NEW d \in Dispatcher, DispatchStep(d) PROVE OutcomeInv'
  <2>1. CASE SendPrint(d)
    <3>1. UNCHANGED <<mon, rows>> /\ dispatch[d].job \in MaybeJob
      BY <2>1 DEF SendPrint, tables, TypeInv, TypeOK, Thread
    <3>2. CASE StartPrint(dispatch[d].job)
      BY <3>1, <3>2, StartMoves, PublishKeeps
    <3>3. CASE UNCHANGED <<environment, connection>>
      BY <1>5, <3>1, <3>3 DEF environment, connection
    <3> QED
      BY <2>1, <3>2, <3>3 DEF SendPrint
  <2>2. CASE ~SendPrint(d)
    BY <1>5, <1>7, <2>2 DEF DispatchStep, BeginDispatch, FailDispatch, MarkPrinting, environment,
       connection, tables
  <2> QED
    BY <2>1, <2>2
<1>8. CASE UNCHANGED vars
  BY <1>5, <1>8 DEF vars, environment, connection, tables
<1> QED
  BY <1>1, <1>2, <1>3, <1>4, <1>6, <1>7, <1>8 DEF Next

(* While no connection is lost, no monitor replaced and no statement       *)
(* fails, a row ends as its print did: no end is taken for another, no     *)
(* stop code fails the row of a print it was not raised in, and no row     *)
(* stays running into the next print.                                      *)
THEOREM OutcomesFaithful ==
    ASSUME MaxDrops = 0, MaxRestarts = 0, DbErrors = FALSE, "end" \notin Refused
    PROVE  Spec => []OutcomeFaithful
<1>1. TypeInv /\ NoRecovery => mon.rec = "done"
  BY DEF TypeInv, TypeOK, NoRecovery
<1>2. TypeInv /\ NoRecovery /\ Stream /\ OutcomeInv /\ [Next]_vars => OutcomeInv'
  BY <1>1, OutcomeKept
<1>3. OutcomeInv => OutcomeFaithful
  BY DEF OutcomeInv
<1> QED
  BY <1>2, <1>3, OutcomeStarts, TypeInvariant, RecoveryIdle, OrderInvariant, PTL DEF Spec
=============================================================================
