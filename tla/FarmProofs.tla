----------------------------- MODULE FarmProofs -----------------------------
(****************************************************************************)
(* Machine-checked: the safety of what watches a printer (the polling and  *)
(* vision monitors, the two readings of telemetry, the streams of its      *)
(* camera), and at the end the types of the whole farm, whichever of its   *)
(* components runs; for any number of rows, printers, reports and ticks.   *)
(****************************************************************************)
EXTENDS MCFarm, RoutesProofs, InventoryProofs, DeliveryProofs

(* The row tracked is the newest and still runs; a running row of a        *)
(* Moonraker printer is the newest, because one is inserted only when no   *)
(* row runs.  The other monitors leave older rows running.                 *)
PollInv ==
    /\ prints \in Seq(PrintStatus)
    /\ active \in 0 .. Len(prints)
    /\ active # 0 => active = Len(prints) /\ prints[active] = "running"
    /\ kind = "moonraker" => \A r \in DOMAIN prints : prints[r] = "running" => r = Len(prints)

(* Of one running row the newest is that row.                              *)
LEMMA NewestRunning ==
    ASSUME PollInv, kind = "moonraker", RunningPrints # {}
    PROVE  Newest(RunningPrints) = Len(prints) /\ Len(prints) \in RunningPrints
<1>1. DOMAIN prints = 1 .. Len(prints) /\ Len(prints) \in Nat
  BY DEF PollInv
<1>2. RunningPrints = {Len(prints)}
  BY <1>1 DEF PollInv, RunningPrints
<1> QED
  BY <1>1, <1>2 DEF Newest

(* A start: the row tracked afterwards is the newest and runs.             *)
LEMMA StartKeeps ==
    ASSUME PollInv, NEW s, PollStart(s)
    PROVE  PollInv' /\ \A r \in DOMAIN prints : prints'[r] = prints[r]
<1>1. DOMAIN prints = 1 .. Len(prints) /\ Len(prints) \in Nat /\ UNCHANGED kind
  BY DEF PollInv, PollStart
<1>2. CASE UNCHANGED <<active, prints>>
  BY <1>1, <1>2 DEF PollInv
<1>3. CASE ResumablePrints # {} /\ active' = Newest(ResumablePrints) /\ UNCHANGED prints
  <2>1. kind = "moonraker" /\ ResumablePrints = RunningPrints
    BY <1>3 DEF ResumablePrints
  <2>2. active' = Len(prints) /\ Len(prints) \in RunningPrints
    BY <1>3, <2>1, NewestRunning
  <2>3. active' \in 0 .. Len(prints) /\ prints[active'] = "running"
    BY <1>1, <2>2 DEF RunningPrints
  <2> QED
    BY <1>1, <1>3, <2>2, <2>3 DEF PollInv
<1>4. CASE /\ ResumablePrints = {}
           /\ prints' = Append(prints, "running") /\ active' = Len(prints) + 1
  <2>0. prints \in Seq(PrintStatus) /\ "running" \in PrintStatus
    BY DEF PollInv, PrintStatus
  <2>1. prints' \in Seq(PrintStatus) /\ Len(prints') = Len(prints) + 1
    BY <1>4, <2>0, AppendProperties
  <2>2. \A r \in 1 .. Len(prints) : prints'[r] = prints[r]
    BY <1>4, <2>0, AppendProperties
  <2>3. prints'[Len(prints) + 1] = "running"
    BY <1>4, <2>0, AppendProperties
  <2>4. kind = "moonraker" => \A r \in 1 .. Len(prints) : prints[r] # "running"
    BY <1>1, <1>4 DEF ResumablePrints, RunningPrints
  <2>5. DOMAIN prints' = 1 .. Len(prints) + 1 /\ Len(prints') = Len(prints) + 1
    BY <2>1, <1>1
  <2>6. PollInv'
    <3>1. active' \in 0 .. Len(prints') /\ active' = Len(prints') /\ prints'[active'] = "running"
      BY <1>1, <1>4, <2>3, <2>5
    <3>2. kind' = "moonraker" => \A r \in DOMAIN prints' : prints'[r] = "running" => r = Len(prints')
      BY <1>1, <2>2, <2>4, <2>5
    <3> QED
      BY <2>1, <3>1, <3>2 DEF PollInv
  <2> QED
    BY <1>1, <2>2, <2>6
<1> QED
  BY <1>2, <1>3, <1>4 DEF PollStart, Tracked

(* An end is written to the row tracked, which then is tracked no more.    *)
LEMMA EndKeeps ==
    ASSUME PollInv, NEW s, PollEnd(s)
    PROVE  /\ PollInv'
           /\ \A r \in DOMAIN prints : prints'[r] # prints[r] =>
                 prints[r] = "running" /\ r = Len(prints)
<1>1. DOMAIN prints = 1 .. Len(prints) /\ Len(prints) \in Nat /\ UNCHANGED kind
  BY DEF PollInv, PollEnd
<1>2. active' = 0
  BY DEF PollEnd, Forgotten
<1>3. CASE active = 0
  BY <1>1, <1>2, <1>3 DEF PollInv, PollEnd
<1>4. CASE active # 0
  <2>1. PICK e \in {"completed", "failed"} : prints' = [prints EXCEPT ![active] = e]
    BY <1>4 DEF PollEnd
  <2>2. active = Len(prints) /\ active \in DOMAIN prints /\ prints[active] = "running"
    BY <1>1, <1>4 DEF PollInv
  <2>3. prints' \in Seq(PrintStatus) /\ Len(prints') = Len(prints) /\ DOMAIN prints' = DOMAIN prints
    BY <1>1, <2>1, <2>2 DEF PollInv, PrintStatus
  <2>4. prints'[active] # "running" /\ \A r \in DOMAIN prints : r # active => prints'[r] = prints[r]
    BY <1>1, <2>1, <2>2
  <2> QED
    BY <1>1, <1>2, <2>2, <2>3, <2>4 DEF PollInv
<1> QED
  BY <1>3, <1>4

(* Every step keeps the invariant and ends at most the newest row.         *)
LEMMA PollStepKeeps ==
    ASSUME PollInv, [PollNext]_pollVars
    PROVE  /\ PollInv'
           /\ \A r \in DOMAIN prints : prints'[r] # prints[r] =>
                 prints[r] = "running" /\ r = Len(prints)
<1>1. CASE PrinterGoes \/ UNCHANGED pollVars
  <2>1. UNCHANGED <<kind, active, prints>>
    BY <1>1 DEF PrinterGoes, Goes, pollVars
  <2> QED
    BY <2>1 DEF PollInv
<1>2. ASSUME NEW s \in {Reported[phase], "OFFLINE"}, PollStart(s)
      PROVE  /\ PollInv'
             /\ \A r \in DOMAIN prints : prints'[r] = prints[r]
  BY <1>2, StartKeeps
<1>3. ASSUME NEW s \in {Reported[phase], "OFFLINE"}, PollEnd(s)
      PROVE  /\ PollInv'
             /\ \A r \in DOMAIN prints : prints'[r] # prints[r] =>
                   prints[r] = "running" /\ r = Len(prints)
  BY <1>3, EndKeeps
<1>4. ASSUME NEW s \in {Reported[phase], "OFFLINE"}, PollOther(s) \/ PollNotRecorded(s)
      PROVE  PollInv' /\ UNCHANGED prints
  <2>1. UNCHANGED <<kind, prints>> /\ active' \in {0, active}
    BY <1>4 DEF PollOther, PollNotRecorded
  <2>2. 0 \in 0 .. Len(prints)
    BY DEF PollInv
  <2> QED
    BY <2>1, <2>2 DEF PollInv
<1>5. CASE RecoverAfterReconnect
  <2>1. active' = Len(prints) /\ Len(prints) \in RunningPrints /\ UNCHANGED <<kind, prints>>
    BY <1>5, NewestRunning DEF RecoverAfterReconnect
  <2>2. active' \in 0 .. Len(prints) /\ prints[active'] = "running"
    BY <2>1 DEF RunningPrints, PollInv
  <2> QED
    BY <2>1, <2>2 DEF PollInv
<1>6. CASE RestartMonitor
  <2>1. 0 \in 0 .. Len(prints)
    BY DEF PollInv
  <2> QED
    BY <1>6, <2>1 DEF RestartMonitor, PollInv
<1> QED
  BY <1>1, <1>2, <1>3, <1>4, <1>5, <1>6 DEF PollNext, PollStep

LEMMA PollInvariant == PollSpec => []PollInv
<1>1. PollInit => PollInv
  BY DEF PollInit, PollInv, PrintStatus
<1>2. PollInv /\ [PollNext]_pollVars => PollInv'
  BY PollStepKeeps
<1> QED
  BY <1>1, <1>2, PTL DEF PollSpec

(* Outages, restarts and refused statements never give a Moonraker printer *)
(* a second running row (MoonrakerOneRunning).                             *)
THEOREM MoonrakerSoleRow == PollSpec => []MoonrakerOneRunning
<1>1. PollInv => MoonrakerOneRunning
  BY DEF PollInv, MoonrakerOneRunning, RunningPrints
<1> QED
  BY <1>1, PollInvariant, PTL

(* No monitor writes an end to a row that has ended, or to one it has      *)
(* inserted a newer row after (EndsNewestRow), although PrusaLink and      *)
(* Elegoo keep the row in memory only and insert a second while one runs.  *)
THEOREM EndsNewest == PollSpec => EndsNewestRow
<1>1. PollInv /\ [PollNext]_pollVars
      => [\A r \in DOMAIN prints : prints'[r] # prints[r] =>
             prints[r] = "running" /\ r = Len(prints)]_pollVars
  BY PollStepKeeps
<1> QED
  BY <1>1, PollInvariant, PTL DEF PollSpec, EndsNewestRow

-----------------------------------------------------------------------------
(* A thread that has not ended.                                            *)
LiveThread ==
    [step : {"asleep", "detected", "pausing"}, running : BOOLEAN, pause : BOOLEAN,
     history : Seq(BOOLEAN), cool : Nat]

(* Beside the property: the threads' records and the rows' statuses.       *)
VisionTypes ==
    /\ detector \in Detector /\ gcode \in Gcode
    /\ mapped \in Thread \cup {NoThread}
    /\ thread \in [Thread -> LiveThread \cup {Ended}]
    /\ found \in Seq([status : {"pending", "confirmed", "dismissed", "auto_paused"}])

VisionInv == VisionTypes /\ OneThreadGoesOn

(* A turn ends: the thread is the same or has ended.                       *)
LEMMA SettledIs ==
    ASSUME NEW th \in LiveThread
    PROVE  /\ Settled(th) \in LiveThread \cup {Ended}
           /\ Settled(th) # Ended => Settled(th) = th
           /\ th # Ended
BY DEF Settled, LiveThread, Ended

LEMMA StoppedIs ==
    ASSUME NEW th \in LiveThread \cup {Ended}
    PROVE  /\ Settled(Stopped(th)) \in LiveThread \cup {Ended}
           /\ Settled(Stopped(th)) # Ended => ~Settled(Stopped(th)).running
<1>1. CASE th = Ended
  <2>1. Stopped(th) = Ended
    BY <1>1 DEF Stopped, Ended
  <2> QED
    BY <2>1 DEF Settled, Ended
<1>2. CASE th \in LiveThread
  <2>1. Stopped(th) \in LiveThread /\ ~Stopped(th).running
    BY <1>2 DEF Stopped, LiveThread
  <2> QED
    BY <2>1, SettledIs
<1> QED
  BY <1>1, <1>2

(* A step of one thread that leaves it as much running as it was.          *)
LEMMA OneTurn ==
    ASSUME VisionInv, NEW t \in Thread, NEW th \in LiveThread \cup {Ended},
           thread' = [thread EXCEPT ![t] = th], UNCHANGED mapped,
           th # Ended => thread[t] # Ended /\ th.running = thread[t].running
    PROVE  thread' \in [Thread -> LiveThread \cup {Ended}] /\ OneThreadGoesOn'
BY DEF VisionInv, VisionTypes, OneThreadGoesOn

LEMMA LiveAt ==
    ASSUME VisionInv, NEW t \in Thread, thread[t].step # "ended"
    PROVE  thread[t] \in LiveThread /\ thread[t] # Ended
BY DEF VisionInv, VisionTypes, Ended

LEMMA CaptureKeeps ==
    ASSUME VisionInv, NEW t \in Thread, Capture(t)
    PROVE  VisionInv'
<1>1. thread[t] \in LiveThread /\ thread[t] # Ended
  BY LiveAt DEF Capture
<1>2. PICK above \in BOOLEAN :
        LET h == LastThree(Append(thread[t].history, above))
            trigger == thread[t].cool = 0 /\ Confirmed(h)
        IN  thread' = [thread EXCEPT ![t].history = h,
                                     ![t].cool = IF trigger THEN Cooldown ELSE @,
                                     ![t].step = IF trigger THEN "detected" ELSE @]
  BY DEF Capture
<1> DEFINE h == LastThree(Append(thread[t].history, above))
           trigger == thread[t].cool = 0 /\ Confirmed(h)
           th == [thread[t] EXCEPT !.history = h,
                                   !.cool = IF trigger THEN Cooldown ELSE @,
                                   !.step = IF trigger THEN "detected" ELSE @]
<1>3. h \in Seq(BOOLEAN)
  <2>1. Append(thread[t].history, above) \in Seq(BOOLEAN)
    BY <1>1, AppendProperties DEF LiveThread
  <2> DEFINE s == Append(thread[t].history, above)
  <2>2. s # <<>> => Tail(s) \in Seq(BOOLEAN)
    BY <2>1, HeadTailProperties
  <2>3. Len(s) > 3 => s # <<>>
    BY <2>1
  <2> QED
    BY <2>1, <2>2, <2>3 DEF LastThree
<1>4. thread' = [thread EXCEPT ![t] = th]
  BY <1>1, <1>2 DEF VisionInv, VisionTypes
<1>5. th \in LiveThread /\ th.running = thread[t].running
  <2> HIDE DEF h, trigger
  <2> QED
    BY <1>1, <1>3, VisionAssumption DEF LiveThread
<1> HIDE DEF th
<1>6. thread' \in [Thread -> LiveThread \cup {Ended}] /\ OneThreadGoesOn'
  BY <1>1, <1>4, <1>5, OneTurn DEF Capture
<1> QED
  BY <1>6 DEF VisionInv, VisionTypes, Capture

LEMMA RecordKeeps ==
    ASSUME VisionInv, NEW t \in Thread, RecordDetection(t)
    PROVE  VisionInv'
<1>1. thread[t] \in LiveThread /\ thread[t] # Ended
  BY LiveAt DEF RecordDetection
<1> DEFINE th == [thread[t] EXCEPT !.step = IF thread[t].pause THEN "pausing" ELSE "asleep",
                                   !.history = Cleared(@)]
<1>2. th \in LiveThread /\ th.running = thread[t].running
  BY <1>1, EmptySeq DEF LiveThread, Cleared
<1>3. thread' = [thread EXCEPT ![t] = Settled(th)]
  BY DEF RecordDetection, Cleared
<1> HIDE DEF th
<1>4. thread' \in [Thread -> LiveThread \cup {Ended}] /\ OneThreadGoesOn'
  BY <1>1, <1>2, <1>3, SettledIs, OneTurn DEF RecordDetection
<1>5. found' \in Seq([status : {"pending", "confirmed", "dismissed", "auto_paused"}])
  <2>1. [status |-> "pending"] \in [status : {"pending", "confirmed", "dismissed", "auto_paused"}]
    OBVIOUS
  <2>2. Append(found, [status |-> "pending"])
           \in Seq([status : {"pending", "confirmed", "dismissed", "auto_paused"}])
    BY <2>1, AppendProperties DEF VisionInv, VisionTypes
  <2>3. found' = found \/ found' = Append(found, [status |-> "pending"])
    BY DEF RecordDetection
  <2> QED
    BY <2>2, <2>3 DEF VisionInv, VisionTypes
<1> QED
  BY <1>4, <1>5 DEF VisionInv, VisionTypes, RecordDetection

(* A turn that ends asleep: a detection or a pause that failed, or a pause *)
(* that was made.                                                          *)
LEMMA BackToSleep ==
    ASSUME VisionInv, NEW t \in Thread, thread[t].step # "ended", UNCHANGED mapped,
           thread' = [thread EXCEPT ![t] = Settled([@ EXCEPT !.step = "asleep"])]
    PROVE  thread' \in [Thread -> LiveThread \cup {Ended}] /\ OneThreadGoesOn'
<1>1. thread[t] \in LiveThread /\ thread[t] # Ended
  BY LiveAt
<1> DEFINE th == [thread[t] EXCEPT !.step = "asleep"]
<1>2. th \in LiveThread /\ th.running = thread[t].running
  BY <1>1 DEF LiveThread
<1>3. thread' = [thread EXCEPT ![t] = Settled(th)]
  OBVIOUS
<1> HIDE DEF th
<1> QED
  BY <1>1, <1>2, <1>3, SettledIs, OneTurn

(* The row an auto-pause marks was pending.                                *)
LEMMA MarksPending ==
    ASSUME VisionInv, Markable # {}
    PROVE  Max(Markable) \in Markable
<1>1. Len(found) \in Nat /\ Markable \in SUBSET (0 .. Len(found))
  BY DEF VisionInv, VisionTypes, Markable
<1> QED
  BY <1>1, GreatestIn

LEMMA StatusWritten ==
    ASSUME VisionInv, NEW d \in DOMAIN found,
           NEW s \in {"pending", "confirmed", "dismissed", "auto_paused"},
           found' = [found EXCEPT ![d].status = s]
    PROVE  /\ found' \in Seq([status : {"pending", "confirmed", "dismissed", "auto_paused"}])
           /\ \A e \in DOMAIN found : found'[e].status = IF e = d THEN s ELSE found[e].status
<1> DEFINE Row == [status : {"pending", "confirmed", "dismissed", "auto_paused"}]
           w == [found[d] EXCEPT !.status = s]
<1>1. found \in Seq(Row) /\ found[d] \in Row
  <2>1. found \in Seq(Row)
    BY DEF VisionInv, VisionTypes
  <2> HIDE DEF Row
  <2> QED
    BY <2>1
<1>2. w \in Row /\ w.status = s
  BY <1>1
<1>3. found' = [found EXCEPT ![d] = w]
  OBVIOUS
<1> HIDE DEF w, Row
<1>4. found' \in Seq(Row) /\ DOMAIN found' = DOMAIN found
  BY <1>1, <1>2, <1>3, ExceptSeq
<1>5. \A e \in DOMAIN found : found'[e].status = IF e = d THEN s ELSE found[e].status
  BY <1>2, <1>3
<1> QED
  BY <1>4, <1>5 DEF Row

LEMMA AutoPauseKeeps ==
    ASSUME VisionInv, NEW t \in Thread, AutoPaused(t)
    PROVE  VisionInv'
<1>1. thread' \in [Thread -> LiveThread \cup {Ended}] /\ OneThreadGoesOn'
  BY BackToSleep DEF AutoPaused
<1>2. found' \in Seq([status : {"pending", "confirmed", "dismissed", "auto_paused"}])
  <2>1. CASE Markable = {}
    BY <2>1 DEF AutoPaused, VisionInv, VisionTypes
  <2>2. CASE Markable # {}
    <3>1. Max(Markable) \in DOMAIN found
      BY <2>2, MarksPending DEF Markable
    <3> QED
      BY <2>2, <3>1, StatusWritten DEF AutoPaused
  <2> QED
    BY <2>1, <2>2
<1> QED
  BY <1>1, <1>2 DEF VisionInv, VisionTypes, AutoPaused, Gcode

LEMMA FailedTurnKeeps ==
    ASSUME VisionInv, NEW t \in Thread, DetectionRaises(t) \/ AutoPauseFails(t)
    PROVE  VisionInv'
<1>1. thread' \in [Thread -> LiveThread \cup {Ended}] /\ OneThreadGoesOn'
  BY BackToSleep DEF DetectionRaises, AutoPauseFails
<1> QED
  BY <1>1 DEF VisionInv, VisionTypes, DetectionRaises, AutoPauseFails

LEMMA StartThreadKeeps ==
    ASSUME VisionInv, NEW t \in Thread, StartThread(t)
    PROVE  VisionInv'
<1>1. PICK pause \in BOOLEAN :
        thread' = [thread EXCEPT ![t] = [step |-> "asleep", running |-> TRUE, pause |-> pause,
                                         history |-> <<>>, cool |-> 0]]
  BY DEF StartThread
<1>2. [step |-> "asleep", running |-> TRUE, pause |-> pause, history |-> <<>>, cool |-> 0]
         \in LiveThread
  BY EmptySeq DEF LiveThread
<1>3. thread' \in [Thread -> LiveThread \cup {Ended}]
  BY <1>1, <1>2 DEF VisionInv, VisionTypes
<1>4. \A u \in Thread : ~(thread[u] # Ended /\ thread[u].running)
  BY VisionAssumption DEF StartThread, VisionInv, OneThreadGoesOn
<1>5. OneThreadGoesOn'
  BY <1>1, <1>4 DEF StartThread, OneThreadGoesOn, VisionInv, VisionTypes
<1> QED
  BY <1>3, <1>5 DEF VisionInv, VisionTypes, StartThread

LEMMA StopThreadKeeps ==
    ASSUME VisionInv, StopThread
    PROVE  VisionInv'
<1>1. mapped \in Thread /\ thread[mapped] \in LiveThread \cup {Ended}
  BY DEF VisionInv, VisionTypes, StopThread
<1>2. thread' = [thread EXCEPT ![mapped] = Settled(Stopped(thread[mapped]))]
  BY DEF StopThread
<1>3. thread' \in [Thread -> LiveThread \cup {Ended}]
  BY <1>1, <1>2, StoppedIs DEF VisionInv, VisionTypes
<1>4. \A t \in Thread : ~(thread'[t] # Ended /\ thread'[t].running)
  BY <1>1, <1>2, StoppedIs DEF VisionInv, VisionTypes, OneThreadGoesOn
<1> QED
  BY <1>3, <1>4 DEF VisionInv, VisionTypes, OneThreadGoesOn, StopThread

LEMMA CoolDownKeeps ==
    ASSUME VisionInv, CoolDown
    PROVE  VisionInv'
<1>1. ASSUME NEW t \in Thread
      PROVE  /\ thread'[t] \in LiveThread \cup {Ended}
             /\ thread'[t] # Ended => thread[t] # Ended /\ thread'[t].running = thread[t].running
  <2>1. CASE thread[t] # Ended /\ thread[t].cool > 0
    <3>1. thread[t] \in LiveThread
      BY <2>1 DEF VisionInv, VisionTypes
    <3>2. thread'[t] = [thread[t] EXCEPT !.cool = thread[t].cool - 1]
      BY <2>1 DEF CoolDown
    <3> QED
      BY <2>1, <3>1, <3>2 DEF LiveThread
  <2>2. CASE ~(thread[t] # Ended /\ thread[t].cool > 0)
    <3>1. thread'[t] = thread[t]
      BY <2>2 DEF CoolDown
    <3> QED
      BY <3>1 DEF VisionInv, VisionTypes
  <2> QED
    BY <2>1, <2>2
<1>2. thread' = [t \in Thread |-> thread'[t]]
  BY DEF CoolDown
<1>3. thread' \in [Thread -> LiveThread \cup {Ended}]
  BY <1>1, <1>2
<1>4. OneThreadGoesOn'
  BY <1>1 DEF OneThreadGoesOn, VisionInv, CoolDown
<1> QED
  BY <1>3, <1>4 DEF VisionInv, VisionTypes, CoolDown

LEMMA OperatorKeeps ==
    ASSUME VisionInv, OperatorStep
    PROVE  VisionInv'
<1>1. PICK d \in DOMAIN found, s \in {"confirmed", "dismissed"} :
         /\ found' = [found EXCEPT ![d].status = s]
         /\ UNCHANGED <<detector, mapped, thread, frames>>
         /\ gcode' \in {gcode, "RUNNING"}
  BY DEF OperatorStep, DismissAndResume, Review
<1>2. found' \in Seq([status : {"pending", "confirmed", "dismissed", "auto_paused"}])
  BY <1>1, StatusWritten
<1>3. gcode' \in Gcode
  BY <1>1 DEF VisionInv, VisionTypes, Gcode
<1> QED
  BY <1>1, <1>2, <1>3 DEF VisionInv, VisionTypes, OneThreadGoesOn

LEMMA VisionStep ==
    ASSUME VisionInv, [VisionNext]_visionVars
    PROVE  VisionInv'
<1>1. ASSUME NEW t \in Thread, StartThread(t) \/ ThreadStep(t) PROVE VisionInv'
  BY <1>1, StartThreadKeeps, CaptureKeeps, RecordKeeps, AutoPauseKeeps, FailedTurnKeeps DEF ThreadStep
<1>2. CASE ReportState
  BY <1>2 DEF ReportState, VisionInv, VisionTypes, OneThreadGoesOn
<1>3. CASE RestartVision
  BY <1>3 DEF RestartVision, VisionInv, VisionTypes, OneThreadGoesOn
<1>4. CASE UNCHANGED visionVars
  BY <1>4 DEF visionVars, VisionInv, VisionTypes, OneThreadGoesOn
<1> QED
  BY <1>1, <1>2, <1>3, <1>4, StopThreadKeeps, CoolDownKeeps, OperatorKeeps DEF VisionNext

(* Holds for any number of threads, and whenever they are stopped.         *)
LEMMA VisionAlways == VisionSpec => []VisionInv
<1>1. VisionInit => VisionInv
  BY EmptySeq DEF VisionInit, VisionInv, VisionTypes, OneThreadGoesOn, Ended, Gcode
<1> QED
  BY <1>1, VisionStep, PTL DEF VisionSpec

(* A printer's camera never has two threads that go on: the one that was   *)
(* stopped in the middle of a turn never starts another.                   *)
THEOREM OneThreadPerPrinter == VisionSpec => []OneThreadGoesOn
<1>1. VisionInv => OneThreadGoesOn
  BY DEF VisionInv
<1> QED
  BY <1>1, VisionAlways, PTL

-----------------------------------------------------------------------------
(* Beside the property: the older reading, once told a gcode_state, is     *)
(* never one that the table of known differences has no row for.           *)
TelemetryShape ==
    /\ status \in [state : PrinterState, ts : 0 .. MaxClock, errors : SUBSET ErrorKey]
    /\ network \in {"up", "dead"} /\ wall \in 1 .. MaxClock
    /\ legacy \in LegacyState /\ simulated \in LegacyState
    /\ named \in BOOLEAN

TelemetryInv ==
    /\ TelemetryShape
    /\ ParityKnown
    /\ named /\ network = "up" => simulated \in {"idle", "printing", "paused", "error"}

(* What one report makes of the two states.                                *)
LEMMA AppliedIs ==
    ASSUME TelemetryInv, NEW section \in Section
    PROVE  /\ Applied(section, wall) \in
                 [state : PrinterState, ts : 0 .. MaxClock, errors : SUBSET ErrorKey]
           /\ Parsed(section) \in LegacyState
           /\ Simulated(section) \in LegacyState
           /\ LET told == named \/ section.gcode # ""
                  state == Applied(section, wall).state
              IN  told /\ network = "up" =>
                     /\ Simulated(section) \in {"idle", "printing", "paused", "error"}
                     /\ state = Simulated(section) \/ <<state, Simulated(section)>> \in KnownDiff
<1>1. wall \in 0 .. MaxClock
  BY DEF TelemetryInv, TelemetryShape
<1>2. Merged(section) \in SUBSET ErrorKey
  BY DEF TelemetryInv, TelemetryShape, Merged, Section, ErrorKey
<1>3. section.printError => Merged(section) \cap Severe # {}
  BY DEF Merged, Severe
<1>4. /\ section.gcode \in ReportedState \cup {""} /\ section.printError \in BOOLEAN
  BY DEF Section
<1>5. CASE section.gcode = ""
  <2>1. StateBefore(section) = status.state /\ status.state \in PrinterState
    BY <1>5 DEF StateBefore, TelemetryInv, TelemetryShape
  <2>2. Parsed(section) \in {"error", "unknown"}
    BY <1>5 DEF Parsed
  <2>3. Simulated(section) = IF section.printError THEN "error" ELSE simulated
    BY <1>5 DEF Simulated
  <2> QED
    BY <1>1, <1>2, <1>3, <1>4, <1>5, <2>1, <2>2, <2>3
       DEF Applied, TelemetryInv, TelemetryShape, ParityKnown, KnownDiff, PrinterState, LegacyState
<1>6. CASE section.gcode \in ReportedState
  <2>1. StateBefore(section) = Canonical[section.gcode]
    BY <1>6 DEF StateBefore, ReportedState
  <2>2. /\ Canonical[section.gcode] \in PrinterState
        /\ LegacyMap[section.gcode] \in {"idle", "printing", "paused"}
        /\ \/ Canonical[section.gcode] = LegacyMap[section.gcode]
           \/ <<Canonical[section.gcode], LegacyMap[section.gcode]>> \in KnownDiff
    BY <1>6 DEF Canonical, LegacyMap, ReportedState, PrinterState, KnownDiff
  <2>3. /\ Parsed(section) = IF section.printError THEN "error" ELSE LegacyMap[section.gcode]
        /\ Simulated(section) = IF section.printError THEN "error" ELSE LegacyMap[section.gcode]
    BY <1>6 DEF Parsed, Simulated, ReportedState
  <2>4. /\ Applied(section, wall).state = IF Merged(section) \cap Severe # {} THEN "error"
                                          ELSE Canonical[section.gcode]
        /\ Applied(section, wall) \in
                 [state : PrinterState, ts : 0 .. MaxClock, errors : SUBSET ErrorKey]
    BY <1>1, <1>2, <2>1, <2>2 DEF Applied, PrinterState
  <2> QED
    BY <1>3, <1>4, <2>2, <2>3, <2>4 DEF KnownDiff, LegacyState
<1> QED
  BY <1>4, <1>5, <1>6

LEMMA ReceiveReportKeeps ==
    ASSUME TelemetryInv, ReceiveReport
    PROVE  TelemetryInv'
<1>1. PICK section \in Section :
        /\ Process(Applied(section, wall), section.stageKnown) \/ NotProcessed
        /\ legacy' = Parsed(section)
        /\ simulated' = Simulated(section)
        /\ named' = (named \/ (section.gcode # "" /\ network' = "up"))
  BY DEF ReceiveReport
<1>2. wall' = wall
  BY DEF ReceiveReport
<1>3. \/ network = "up" /\ network' = "up" /\ status' = Applied(section, wall)
      \/ network' = "dead" /\ status' = status
  BY <1>1 DEF Process, NotProcessed
<1>4. TelemetryShape'
  BY <1>1, <1>2, <1>3, AppliedIs DEF TelemetryInv, TelemetryShape
<1> QED
  BY <1>1, <1>3, <1>4, AppliedIs DEF TelemetryInv, ParityKnown

(* Every other report leaves the state, or leaves V2 without a gcode_state *)
(* to be compared.                                                         *)
LEMMA OtherKeeps ==
    ASSUME TelemetryInv,
           \/ ReceiveUnreadable \/ ReceiveInfo \/ Connected \/ ConnectionLost
           \/ ReplaceAdapter \/ SetClock
    PROVE  TelemetryInv'
<1>1. status \in [state : PrinterState, ts : 0 .. MaxClock, errors : SUBSET ErrorKey]
      /\ wall \in 0 .. MaxClock
  BY DEF TelemetryInv, TelemetryShape
<1>2. ASSUME NEW s \in PrinterState
      PROVE  /\ Moved(s, wall) \in [state : PrinterState, ts : 0 .. MaxClock, errors : SUBSET ErrorKey]
             /\ Moved(s, wall).state = s
  BY <1>1 DEF Moved
<1>3. CASE ReceiveUnreadable
  <2>1. TelemetryShape'
    BY <1>2, <1>3 DEF ReceiveUnreadable, Process, NotProcessed, PrinterState, LegacyState, TelemetryInv,
                      TelemetryShape
  <2> QED
    BY <1>3, <2>1 DEF ReceiveUnreadable, TelemetryInv, ParityKnown
<1>4. CASE ReceiveInfo
  <2>1. [status EXCEPT !.ts = wall] = Moved(status.state, wall)
    BY <1>1 DEF Moved
  <2>2. \/ network = "up" /\ status' = Moved(status.state, wall)
        \/ network' = "dead" /\ status' = status
    BY <1>4, <2>1 DEF ReceiveInfo, Process, NotProcessed
  <2>3. TelemetryShape'
    BY <1>1, <1>2, <1>4, <2>2 DEF ReceiveInfo, Process, NotProcessed, TelemetryInv, TelemetryShape
  <2> QED
    BY <1>1, <1>2, <1>4, <2>2, <2>3 DEF ReceiveInfo, TelemetryInv, ParityKnown
<1>5. CASE Connected
  <2>1. \/ /\ network = "up"
           /\ \/ status.state = "offline" /\ status' = Moved("idle", wall)
              \/ status.state # "offline" /\ status' = Moved(status.state, wall)
        \/ network' = "dead" /\ status' = status
    BY <1>5 DEF Connected, Process, NotProcessed
  <2>2. TelemetryShape'
    BY <1>1, <1>2, <1>5, <2>1
       DEF Connected, Process, NotProcessed, TelemetryInv, TelemetryShape, PrinterState
  <2> QED
    BY <1>1, <1>2, <1>5, <2>1, <2>2 DEF Connected, TelemetryInv, ParityKnown
<1>6. CASE ConnectionLost
  <2>1. TelemetryShape'
    BY <1>2, <1>6 DEF ConnectionLost, Process, NotProcessed, PrinterState, LegacyState, TelemetryInv,
                      TelemetryShape
  <2> QED
    BY <1>6, <2>1 DEF ConnectionLost, TelemetryInv, ParityKnown
<1>7. CASE ReplaceAdapter
  <2>1. InitialStatus \in [state : PrinterState, ts : 0 .. MaxClock, errors : SUBSET ErrorKey]
    BY TelemetryAssumption DEF InitialStatus, PrinterState
  <2> QED
    BY <1>7, <2>1 DEF ReplaceAdapter, TelemetryInv, TelemetryShape, ParityKnown
<1>8. CASE SetClock
  BY <1>8 DEF SetClock, TelemetryInv, TelemetryShape, ParityKnown
<1> QED
  BY <1>3, <1>4, <1>5, <1>6, <1>7, <1>8

LEMMA TelemetryStarts == TelemetryInit => TelemetryInv
<1>1. InitialStatus \in [state : PrinterState, ts : 0 .. MaxClock, errors : SUBSET ErrorKey]
  BY TelemetryAssumption DEF InitialStatus, PrinterState
<1>2. 1 \in 1 .. MaxClock
  BY TelemetryAssumption
<1> HIDE DEF InitialStatus
<1> QED
  BY <1>1, <1>2 DEF TelemetryInit, TelemetryInv, TelemetryShape, ParityKnown, LegacyState

LEMMA TelemetryKept == TelemetryInv /\ [TelemetryNext]_telemetryVars => TelemetryInv'
<1>1. CASE UNCHANGED telemetryVars
  BY <1>1 DEF telemetryVars, TelemetryInv, TelemetryShape, ParityKnown
<1> QED
  BY <1>1, ReceiveReportKeeps, OtherKeeps DEF TelemetryNext

LEMMA TelemetryAlways == TelemetrySpec => []TelemetryInv
BY TelemetryStarts, TelemetryKept, PTL DEF TelemetrySpec

LEMMA TelemetryTyped == TelemetryInv => TelemetryTypeOK
BY DEF TelemetryInv, TelemetryShape, TelemetryTypeOK

(* Types: the clock's readings and the errors stay within their tables.    *)
THEOREM TelemetryTypes == TelemetrySpec => []TelemetryTypeOK
BY TelemetryTyped, TelemetryAlways, PTL

(* The parity gate calls no difference a bug while V2 lives and has been   *)
(* told a gcode_state, for every order of reports and every clock.         *)
THEOREM ParityGateKnows == TelemetrySpec => []ParityKnown
<1>1. TelemetryInv => ParityKnown
  BY DEF TelemetryInv
<1> QED
  BY <1>1, TelemetryAlways, PTL

-----------------------------------------------------------------------------
(* Where a restart began less than the cooldown ago, the file is as old as *)
(* it or younger: whoever restarts go2rtc has just written the file.       *)
RestartInv ==
    /\ config.age \in 0 .. CoolTicks
    /\ config = [there |-> config.there, streams |-> config.streams, age |-> config.age]
    /\ restarted \in [Syncer -> 0 .. CoolTicks]
    /\ \A s \in Syncer : restarted[s] < CoolTicks => config.there /\ config.age <= restarted[s]

LEMMA OlderIs ==
    ASSUME NEW age \in 0 .. CoolTicks
    PROVE  Older(age) = IF age < CoolTicks THEN age + 1 ELSE CoolTicks
<1>1. CoolTicks \in Nat
  BY CameraAssumption
<1>2. \E m \in {age + 1, CoolTicks} : \A k \in {age + 1, CoolTicks} : m <= k
  BY <1>1
<1>3. Older(age) \in {age + 1, CoolTicks} /\ \A k \in {age + 1, CoolTicks} : Older(age) <= k
  BY <1>2 DEF Older, Min
<1> QED
  BY <1>1, <1>3

LEMMA PassTimeKeeps ==
    ASSUME RestartInv, PassTime
    PROVE  RestartInv'
<1>1. CoolTicks \in Nat
  BY CameraAssumption
<1>2. /\ config'.age = Older(config.age) /\ config'.there = config.there
      /\ config' = [there |-> config'.there, streams |-> config'.streams, age |-> config'.age]
  BY DEF RestartInv, PassTime
<1>3. \A s \in Syncer : restarted'[s] = Older(restarted[s]) /\ restarted[s] \in 0 .. CoolTicks
  BY DEF RestartInv, PassTime
<1>4. \A age \in 0 .. CoolTicks : Older(age) \in 0 .. CoolTicks
  BY <1>1, OlderIs
<1>5. restarted' \in [Syncer -> 0 .. CoolTicks] /\ config'.age \in 0 .. CoolTicks
  BY <1>2, <1>3, <1>4 DEF RestartInv, PassTime
<1>6. ASSUME NEW s \in Syncer, restarted'[s] < CoolTicks
      PROVE  config'.there /\ config'.age <= restarted'[s]
  <2>1. restarted[s] < CoolTicks /\ restarted'[s] = restarted[s] + 1
    BY <1>1, <1>3, <1>6, OlderIs
  <2>2. config.there /\ config.age <= restarted[s] /\ config.age \in 0 .. CoolTicks
    BY <2>1 DEF RestartInv
  <2>3. config'.age = config.age + 1
    BY <1>1, <1>2, <2>1, <2>2, <1>3, OlderIs
  <2> QED
    BY <1>2, <1>3, <2>1, <2>2, <2>3
<1> QED
  BY <1>2, <1>5, <1>6 DEF RestartInv

LEMMA WriteKeeps ==
    ASSUME RestartInv, NEW s \in Syncer, WriteOnly(s) \/ WriteAndRestart(s)
    PROVE  RestartInv'
<1>1. CoolTicks \in Nat /\ CoolTicks > 0
  BY CameraAssumption
<1>2. /\ Written(s).there = TRUE /\ Written(s).age = 0
      /\ Written(s) = [there |-> Written(s).there, streams |-> Written(s).streams,
                       age |-> Written(s).age]
  BY DEF Written
<1>3. \/ config' = config /\ restarted' = restarted
      \/ config' = Written(s) /\ restarted' = restarted
      \/ config' = Written(s) /\ restarted' = [restarted EXCEPT ![s] = 0]
  BY DEF WriteOnly, WriteAndRestart
<1> QED
  BY <1>1, <1>2, <1>3 DEF RestartInv

LEMMA CameraStep ==
    ASSUME RestartInv, [CameraNext]_cameraVars
    PROVE  RestartInv'
<1>1. CASE UNCHANGED <<config, restarted>>
  BY <1>1 DEF RestartInv
<1> QED
  BY <1>1, PassTimeKeeps, WriteKeeps
     DEF CameraNext, cameraVars, CreatePrinter, UpdatePrinter, DeletePrinter, SwitchPrinter,
         UpdateCamera, ListCameras, DiscoverCamera, ReadPrinters, RestartDone

(* No two restarts within the cooldown, whoever makes them: what one       *)
(* process writes to the file, all others see before they restart.         *)
THEOREM RestartsKeepApart == CameraSpec => RestartsApart
<1>1. CameraInit => RestartInv
  BY CameraAssumption DEF CameraInit, RestartInv
<1>2. ASSUME RestartInv, [CameraNext]_cameraVars
      PROVE  [\A s, t \in Syncer : WriteAndRestart(s) => restarted[t] >= CoolTicks]_cameraVars
  <2> SUFFICES ASSUME NEW s \in Syncer, NEW t \in Syncer, WriteAndRestart(s)
               PROVE  restarted[t] >= CoolTicks
    OBVIOUS
  <2>1. ~(config.there /\ config.age < CoolTicks)
    BY DEF WriteAndRestart, Cooling
  <2>2. restarted[t] \in 0 .. CoolTicks /\ CoolTicks \in Nat
    BY <1>2, CameraAssumption DEF RestartInv
  <2> QED
    BY <1>2, <2>1, <2>2 DEF RestartInv
<1> QED
  BY <1>1, <1>2, CameraStep, PTL DEF CameraSpec, RestartsApart

-----------------------------------------------------------------------------
(* Types of the setup.                                                     *)
LEMMA SetupStepTyped == SetupTypeOK /\ [SetupNext]_setupVars => SetupTypeOK'
<1> SUFFICES ASSUME SetupTypeOK, [SetupNext]_setupVars PROVE SetupTypeOK'
  OBVIOUS
<1> USE DEF SetupTypeOK
<1>1. ASSUME NEW v \in Visitor, AskSetup(v) PROVE SetupTypeOK'
  BY <1>1 DEF AskSetup
<1>2. ASSUME NEW v \in Visitor,
             \/ FoundAccount(v) \/ NothingKept(v) \/ AddWizardPrinter(v)
             \/ MarkComplete(v) \/ SaveNetwork(v)
      PROVE  SetupTypeOK'
  <2>1. visit' \in [Visitor -> Route \cup {NotVisiting}]
    BY <1>2 DEF FoundAccount, NothingKept, AddWizardPrinter, MarkComplete, SaveNetwork, EndVisit
  <2>2. wizardRows' \in 0..MaxWizard
    BY <1>2, SetupAssumption DEF FoundAccount, NothingKept, AddWizardPrinter, MarkComplete, SaveNetwork
  <2> QED
    BY <1>2, <2>1, <2>2 DEF FoundAccount, NothingKept, AddWizardPrinter, MarkComplete, SaveNetwork
<1>3. CASE OtherAccounts
  BY <1>3 DEF OtherAccounts
<1>4. CASE UNCHANGED setupVars
  BY <1>4 DEF setupVars
<1> QED
  BY <1>1, <1>2, <1>3, <1>4 DEF SetupNext

-----------------------------------------------------------------------------
(* Each thread is in the middle of something, and knows what it was asked  *)
(* for until the plug has been asked.                                      *)
PlugPlace == {"none", "config", "request", "state", "store", "forget"}

IsPlugCall(e) == e.at \in PlugPlace /\ (e.at \in {"config", "request"} => e.wish \in Wish)

PlugCalls == plugCall = [c \in PlugThread |-> plugCall[c]] /\ \A c \in PlugThread : IsPlugCall(plugCall[c])

PlugTypeInv == PlugTypeOK /\ PlugCalls

LEMMA PlugCallTyped ==
    ASSUME PlugCalls, NEW c \in PlugThread, NEW e, IsPlugCall(e), plugCall' = [plugCall EXCEPT ![c] = e]
    PROVE  PlugCalls'
BY DEF PlugCalls

LEMMA PlugStepTyped == PlugTypeInv /\ [PlugNext]_plugVars => PlugTypeInv'
<1> SUFFICES ASSUME PlugTypeInv, [PlugNext]_plugVars PROVE PlugTypeInv'
  OBVIOUS
<1> USE DEF PlugTypeInv
<1> DEFINE Rest == /\ wired' \in BOOLEAN /\ current' \in BOOLEAN /\ inPrint' \in BOOLEAN
                   /\ plugSet' \in [kind : PlugKind \cup {"none"}, autoOn : BOOLEAN, autoOff : BOOLEAN]
                   /\ plugStored' \in {"null", "on", "off"}
                   /\ coolers' \in [CoolTimer -> {"free", "waiting", "fired"}]
                   /\ coolEntry' \in CoolTimer \cup {NoTimer}
<1>1. ASSUME NEW c \in PlugThread, plugCall' = Then(c) PROVE PlugCalls'
  <2>1. IsPlugCall(IF c \in CoolTimer THEN [at |-> "forget"] ELSE NoPlugCall)
    BY DEF IsPlugCall, PlugPlace, NoPlugCall
  <2> QED
    BY <1>1, <2>1, PlugCallTyped DEF Then
<1>2. ASSUME NEW wish \in Wish PROVE IsPlugCall([at |-> "config", wish |-> wish])
  BY DEF IsPlugCall, PlugPlace
<1>3. CASE UpdatePlugConfig \/ RemovePlugConfig
  <2>1. PlugCalls'
    BY <1>3 DEF UpdatePlugConfig, RemovePlugConfig, PlugCalls
  <2>2. Rest
    <3>1. CASE UpdatePlugConfig
      BY <3>1 DEF UpdatePlugConfig, PlugTypeOK
    <3>2. CASE RemovePlugConfig
      <4>1. NoPlug \in [kind : PlugKind \cup {"none"}, autoOn : BOOLEAN, autoOff : BOOLEAN]
        BY DEF NoPlug
      <4> QED
        BY <3>2, <4>1 DEF RemovePlugConfig, PlugTypeOK
    <3> QED
      BY <1>3, <3>1, <3>2
  <2> QED
    BY <2>1, <2>2 DEF PlugTypeOK, PlugCalls, IsPlugCall, PlugPlace
<1>4. CASE PowerRoute
  <2>1. PlugCalls'
    BY <1>2, <1>4, PlugCallTyped DEF PowerRoute, PlugThread
  <2> QED
    BY <1>4, <2>1 DEF PowerRoute, PlugTypeOK, PlugCalls, IsPlugCall, PlugPlace
<1>5. CASE PlugOnPrintStart
  <2>1. PlugCalls'
    <3>1. CASE plugCall' = [plugCall EXCEPT !["monitor"] = [at |-> "config", wish |-> "on"]]
      BY <1>2, <3>1, PlugCallTyped DEF PlugThread, Wish
    <3>2. CASE UNCHANGED plugCall
      BY <3>2 DEF PlugCalls
    <3> QED
      BY <1>5, <3>1, <3>2 DEF PlugOnPrintStart
  <2>2. Rest
    BY <1>5 DEF PlugOnPrintStart, Cancelled, PlugTypeOK
  <2> QED
    BY <2>1, <2>2 DEF PlugTypeOK, PlugCalls, IsPlugCall, PlugPlace
<1>6. CASE PlugOnPrintComplete
  <2>1. PlugCalls'
    BY <1>6 DEF PlugOnPrintComplete, PlugCalls
  <2>2. coolers' \in [CoolTimer -> {"free", "waiting", "fired"}] /\ coolEntry' \in CoolTimer \cup {NoTimer}
    <3>1. CASE UNCHANGED <<coolers, coolEntry>>
      BY <3>1 DEF PlugTypeOK
    <3>2. ASSUME NEW t \in CoolTimer, coolEntry' = t,
                 coolers' = [u \in CoolTimer |->
                    IF u = t THEN "waiting" ELSE IF u = coolEntry THEN Cancelled(u) ELSE coolers[u]]
          PROVE  coolers' \in [CoolTimer -> {"free", "waiting", "fired"}] /\ coolEntry' \in CoolTimer
      BY <3>2 DEF Cancelled, PlugTypeOK
    <3> QED
      BY <1>6, <3>1, <3>2 DEF PlugOnPrintComplete
  <2>3. Rest
    BY <1>6, <2>2 DEF PlugOnPrintComplete, PlugTypeOK
  <2> QED
    BY <2>1, <2>3 DEF PlugTypeOK, PlugCalls, IsPlugCall, PlugPlace
<1>7. CASE PlugsRestart
  <2>1. PlugCalls'
    BY <1>7 DEF PlugsRestart, PlugCalls, IsPlugCall, PlugPlace, NoPlugCall
  <2>2. Rest
    BY <1>7 DEF PlugsRestart, PlugTypeOK
  <2> QED
    BY <2>1, <2>2 DEF PlugTypeOK, PlugCalls, IsPlugCall, PlugPlace
<1>8. ASSUME NEW t \in CoolTimer, CooldownOver(t) \/ ForgetTimer(t) PROVE PlugTypeInv'
  <2>1. PlugCalls'
    <3>1. CASE CooldownOver(t)
      BY <1>2, <3>1, PlugCallTyped DEF CooldownOver, PlugThread, Wish
    <3>2. CASE ForgetTimer(t)
      BY <3>2, PlugCallTyped DEF ForgetTimer, PlugThread, IsPlugCall, PlugPlace, NoPlugCall
    <3> QED
      BY <1>8, <3>1, <3>2
  <2>2. Rest
    BY <1>8 DEF CooldownOver, ForgetTimer, PlugTypeOK
  <2> QED
    BY <2>1, <2>2 DEF PlugTypeOK, PlugCalls, IsPlugCall, PlugPlace
<1>9. ASSUME NEW c \in PlugThread, NEW w \in Wish PROVE Becomes(w) \in BOOLEAN
  BY DEF Becomes, Wish, PlugTypeOK
<1>10. ASSUME NEW c \in PlugThread,
              \/ ReadPlugConfig(c) \/ PlugObeys(c) \/ AskState(c)
              \/ PlugSilent(c) \/ UpdatePowerState(c)
       PROVE  PlugTypeInv'
  <2>1. PlugCalls'
    <3>1. CASE plugCall' = Then(c)
      BY <1>1, <3>1
    <3>2. CASE ReadPlugConfig(c)
      <4> DEFINE e == [at |-> "request", wish |-> plugCall[c].wish, kind |-> plugSet.kind]
      <4>1. IsPlugCall(e)
        BY <3>2 DEF ReadPlugConfig, PlugCalls, IsPlugCall, PlugPlace
      <4>2. plugCall' = [plugCall EXCEPT ![c] = e] \/ plugCall' = Then(c)
        BY <3>2 DEF ReadPlugConfig
      <4> QED
        BY <3>1, <4>1, <4>2, PlugCallTyped
    <3>3. CASE PlugObeys(c)
      <4> DEFINE e == IF plugCall[c].kind = "tasmota" \/ plugCall[c].wish = "look"
                        THEN [at |-> "store", seen |-> current'] ELSE [at |-> "state"]
      <4>1. IsPlugCall(e)
        BY DEF IsPlugCall, PlugPlace
      <4>2. plugCall' = [plugCall EXCEPT ![c] = e]
        BY <3>3 DEF PlugObeys
      <4> QED
        BY <4>1, <4>2, PlugCallTyped
    <3>4. CASE AskState(c)
      <4> DEFINE e == [at |-> "store", seen |-> current]
      <4>1. IsPlugCall(e)
        BY DEF IsPlugCall, PlugPlace
      <4>2. plugCall' = [plugCall EXCEPT ![c] = e]
        BY <3>4 DEF AskState
      <4> QED
        BY <4>1, <4>2, PlugCallTyped
    <3> QED
      BY <1>10, <3>1, <3>2, <3>3, <3>4 DEF PlugSilent, UpdatePowerState
  <2>2. plugCall[c].at \in {"config", "request"} => plugCall[c].wish \in Wish
    BY DEF PlugCalls, IsPlugCall
  <2>3. current' \in BOOLEAN
    BY <1>9, <1>10, <2>2 DEF ReadPlugConfig, PlugObeys, AskState, PlugSilent, UpdatePowerState, PlugTypeOK
  <2>4. Rest
    BY <1>10, <2>3 DEF ReadPlugConfig, PlugObeys, AskState, PlugSilent, UpdatePowerState, PlugTypeOK
  <2> QED
    BY <2>1, <2>4 DEF PlugTypeOK, PlugCalls, IsPlugCall, PlugPlace
<1>11. CASE UNCHANGED plugVars
  BY <1>11 DEF plugVars, PlugTypeOK, PlugCalls
<1> QED
  BY <1>3, <1>4, <1>5, <1>6, <1>7, <1>8, <1>10, <1>11 DEF PlugNext
-----------------------------------------------------------------------------
(* A synchronisation that is under way holds a report and its route.       *)
IsSync(e) ==
    \/ e = NotSynchronising
    \/ e.report \in Content /\ e.route \in {"thread", "loop"}

AmsTypeInv ==
    /\ AmsTypeOK
    /\ syncing = [y \in SlotSync |-> syncing[y]]

LEMMA SyncTyped ==
    ASSUME AmsTypeInv, NEW y \in SlotSync, NEW e, IsSync(e), syncing' = [syncing EXCEPT ![y] = e]
    PROVE  /\ syncing' = [z \in SlotSync |-> syncing'[z]]
           /\ \A z \in SlotSync : IsSync(syncing'[z])
BY DEF AmsTypeInv, AmsTypeOK, IsSync

LEMMA AmsStepTyped == AmsTypeInv /\ [AmsNext]_amsVars => AmsTypeInv'
<1> SUFFICES ASSUME AmsTypeInv, [AmsNext]_amsVars PROVE AmsTypeInv'
  OBVIOUS
<1> DEFINE Syncs == /\ syncing' = [z \in SlotSync |-> syncing'[z]]
                    /\ \A z \in SlotSync : IsSync(syncing'[z])
           SlotRows == [shows : Content \cup {"none"}, spool : SpoolName, confirmed : BOOLEAN]
           Rest == /\ mmu' \in BOOLEAN /\ twoRows' \in BOOLEAN
                   /\ slotRow' \in SlotRows
                   /\ taggedSpool' \in {"unknown", "slot", "elsewhere"}
<1>1. Rest /\ Syncs => AmsTypeInv'
  BY DEF AmsTypeInv, AmsTypeOK, IsSync
<1>2. UNCHANGED syncing => Syncs
  BY DEF AmsTypeInv, AmsTypeOK, IsSync
<1>3. slotRow \in SlotRows /\ (UNCHANGED <<mmu, slotRow, twoRows, taggedSpool>> => Rest)
  BY DEF AmsTypeInv, AmsTypeOK
<1> HIDE DEF Syncs
<1>4. ASSUME NEW y \in SlotSync, EndSync(y) PROVE Syncs
  BY <1>4, SyncTyped DEF EndSync, IsSync, Syncs
<1>5. CASE AssignByHand \/ ConfirmSpool \/ EditSlot \/ TakeSpoolOut
  <2>1. slotRow' \in SlotRows
    <3>1. CASE AssignByHand
      BY <1>3, <3>1 DEF AssignByHand, SpoolName
    <3>2. CASE ConfirmSpool
      BY <1>3, <3>2 DEF ConfirmSpool
    <3>3. CASE EditSlot
      <4> PICK shows \in Content, holds \in {"none", slotRow.spool} :
            slotRow' = IF shows = "empty"
                       THEN [shows |-> "empty", spool |-> "none", confirmed |-> FALSE]
                       ELSE [slotRow EXCEPT !.shows = shows, !.spool = holds]
        BY <3>3 DEF EditSlot
      <4> QED
        BY <1>3 DEF Content, SpoolName
    <3> QED
      BY <1>3, <1>5, <3>1, <3>2, <3>3 DEF TakeSpoolOut
  <2> QED
    BY <1>1, <1>2, <1>5, <2>1
    DEF AssignByHand, ConfirmSpool, EditSlot, TakeSpoolOut, ByHand, AmsTypeInv, AmsTypeOK
<1>6. ASSUME NEW y \in SlotSync, TakeSlots(y) PROVE AmsTypeInv'
  <2>1. PICK way \in {"thread", "loop"}, reel \in Content :
          syncing' = [syncing EXCEPT ![y] = [step |-> "report", route |-> way, report |-> reel]]
    BY <1>6 DEF TakeSlots
  <2>2. Syncs
    BY <2>1, SyncTyped DEF IsSync, Syncs
  <2> QED
    BY <1>1, <1>3, <1>6, <2>2 DEF TakeSlots
<1>7. ASSUME NEW y \in SlotSync, LookForSlot(y) PROVE AmsTypeInv'
  <2> DEFINE e == IF syncing[y].route = "loop" /\ syncing[y].report = "empty" THEN NotSynchronising
                  ELSE [step |-> "write", route |-> syncing[y].route, report |-> syncing[y].report,
                        found |-> slotRow # NoSlotRow, known |-> taggedSpool # "unknown"]
  <2>1. IsSync(e)
    BY <1>7 DEF LookForSlot, IsSync, AmsTypeInv, AmsTypeOK
  <2>2. syncing' = [syncing EXCEPT ![y] = e]
    BY <1>7 DEF LookForSlot
  <2>3. Syncs
    BY <2>1, <2>2, SyncTyped DEF Syncs
  <2> QED
    BY <1>1, <1>3, <1>7, <2>3 DEF LookForSlot
<1>8. ASSUME NEW y \in SlotSync, StoreSlot(y) PROVE AmsTypeInv'
  <2>1. syncing[y].report \in Content
    BY <1>8 DEF StoreSlot, AmsTypeInv, AmsTypeOK
  <2>2. Synchronised(y, slotRow) \subseteq SlotRows
    <3> DEFINE seen == [slotRow EXCEPT !.shows = syncing[y].report]
    <3>1. seen \in SlotRows
      BY <1>3, <2>1
    <3>2. [seen EXCEPT !.confirmed = FALSE] \in SlotRows
      BY <3>1
    <3>3. [shows |-> "tagged", spool |-> "tagged", confirmed |-> TRUE] \in SlotRows
      BY DEF Content, SpoolName
    <3> HIDE DEF SlotRows
    <3> QED
      BY <3>1, <3>2, <3>3 DEF Synchronised
  <2> QED
    BY <1>1, <1>3, <1>4, <1>8, <2>2 DEF StoreSlot, AmsTypeInv, AmsTypeOK
<1>9. ASSUME NEW y \in SlotSync, SyncFails(y) PROVE AmsTypeInv'
  BY <1>1, <1>3, <1>4, <1>9 DEF SyncFails
<1>10. CASE UNCHANGED amsVars
  BY <1>1, <1>2, <1>3, <1>10 DEF amsVars
<1> QED
  BY <1>5, <1>6, <1>7, <1>8, <1>9, <1>10 DEF AmsNext

-----------------------------------------------------------------------------
(* Types of the polling monitors: the words each kind reports are words of *)
(* the state.                                                              *)
LEMMA ReportedWord ==
    ASSUME kind \in Kind, phase \in Phase
    PROVE  Reported[phase] \in StateWord
<1>1. CASE kind = "prusalink"
  BY <1>1 DEF Phase, Reported, StateWord
<1>2. CASE kind = "elegoo"
  BY <1>2 DEF Phase, Reported, StateWord
<1>3. CASE kind = "moonraker"
  BY <1>3 DEF Phase, Reported, StateWord
<1> QED
  BY <1>1, <1>2, <1>3 DEF Kind

PollTypeInv == PollTypeOK /\ PollInv

LEMMA PollStepTyped == PollTypeInv /\ [PollNext]_pollVars => PollTypeInv'
<1> SUFFICES ASSUME PollTypeInv, [PollNext]_pollVars PROVE PollTypeInv'
  OBVIOUS
<1>1. PollInv'
  BY PollStepKeeps DEF PollTypeInv
<1>2. kind' \in Kind /\ phase' \in Phase /\ last' \in StateWord
  <2>1. kind \in Kind /\ phase \in Phase /\ last \in StateWord
    BY DEF PollTypeInv, PollTypeOK
  <2>2. CASE PrinterGoes
    BY <2>1, <2>2 DEF PrinterGoes, Goes, Phase, Ending
  <2>3. CASE PollStep
    <3>1. UNCHANGED <<kind, phase>> /\ last' \in {last, Reported[phase], "OFFLINE", "NONE"}
      BY <2>3 DEF PollStep, PollStart, PollEnd, PollOther, PollNotRecorded, RecoverAfterReconnect,
                  RestartMonitor
    <3> QED
      BY <2>1, <3>1, ReportedWord DEF StateWord
  <2> QED
    BY <2>1, <2>2, <2>3 DEF PollNext, pollVars
<1> QED
  BY <1>1, <1>2 DEF PollTypeInv, PollTypeOK, PollInv

-----------------------------------------------------------------------------
(* What has been built for go2rtc is a configuration.                      *)
CameraTypeInv ==
    /\ CameraTypeOK
    /\ sync = [s \in Syncer |-> sync[s]]
    /\ \A s \in Syncer : sync[s].step = "built" => sync[s].streams \in Streams

IsSyncer(e) ==
    /\ e.step \in {"idle", "reading", "built", "restarting"}
    /\ e.step = "built" => e.streams \in Streams

LEMMA SyncerTyped ==
    ASSUME CameraTypeInv, NEW s \in Syncer, NEW e, IsSyncer(e), sync' = [sync EXCEPT ![s] = e]
    PROVE  /\ sync' = [t \in Syncer |-> sync'[t]]
           /\ \A t \in Syncer : IsSyncer(sync'[t])
BY DEF CameraTypeInv, CameraTypeOK, IsSyncer

LEMMA BuiltTyped ==
    ASSUME machine \in [Machine -> CameraPrinter]
    PROVE  Built \in Streams
<1> DEFINE M == {n \in Registered : machine[n].active /\ machine[n].enabled /\ HasUrl(n)}
<1>1. M \in SUBSET Machine
  BY DEF Registered
<1>2. Built \in [M -> Url]
  BY DEF Built, UrlOf, Url
<1> HIDE DEF M
<1> QED
  BY <1>1, <1>2 DEF Streams

LEMMA SlotsTyped ==
    ASSUME machine \in [Machine -> CameraPrinter], NEW m \in Machine, NEW n \in 1..MaxSlots
    PROVE  UpdateSlots(m, n) \subseteq 1..MaxSlots
<1>1. MaxSlots \in Nat /\ machine[m].slots \in SUBSET (1..MaxSlots)
  BY CameraAssumption DEF CameraPrinter
<1>2. IsFiniteSet(machine[m].slots)
  <2>1. IsFiniteSet(1..MaxSlots)
    BY <1>1, FS_Interval
  <2> QED
    BY <1>1, <2>1, FS_Subset
<1>3. Cardinality(machine[m].slots) \in Nat
  BY <1>2, FS_CardinalityType
<1> QED
  BY <1>1, <1>3 DEF UpdateSlots

LEMMA MachinesTyped ==
    ASSUME CameraTypeInv, CreatePrinter \/ UpdatePrinter \/ DeletePrinter \/ SwitchPrinter
    PROVE  machine' \in [Machine -> CameraPrinter]
<1>0. machine \in [Machine -> CameraPrinter] /\ Registered \subseteq Machine
  BY DEF CameraTypeInv, CameraTypeOK, Registered
<1>1. ASSUME NEW m \in Machine, NEW e \in CameraPrinter, machine' = [machine EXCEPT ![m] = e]
      PROVE  machine' \in [Machine -> CameraPrinter]
  BY <1>0, <1>1
<1>2. NoMachine \in CameraPrinter
  BY DEF NoMachine, CameraPrinter
<1>3. CASE CreatePrinter
  <2>1. PICK m \in Machine, builtin \in BOOLEAN, n \in 1..MaxSlots :
          machine' = [machine EXCEPT ![m] = [NoMachine EXCEPT !.row = TRUE, !.builtin = builtin,
                                             !.active = TRUE, !.enabled = TRUE, !.slots = 1..n]]
    BY <1>3 DEF CreatePrinter
  <2>2. 1..n \in SUBSET (1..MaxSlots)
    BY CameraAssumption
  <2>3. [NoMachine EXCEPT !.row = TRUE, !.builtin = builtin,
                          !.active = TRUE, !.enabled = TRUE, !.slots = 1..n] \in CameraPrinter
    BY <2>2 DEF NoMachine, CameraPrinter
  <2> QED
    BY <1>1, <2>1, <2>3
<1>4. CASE UpdatePrinter
  <2>1. PICK m \in Registered, n \in 1..MaxSlots : machine' = [machine EXCEPT ![m].slots = UpdateSlots(m, n)]
    BY <1>4 DEF UpdatePrinter
  <2>2. UpdateSlots(m, n) \in SUBSET (1..MaxSlots)
    BY <1>0, SlotsTyped
  <2>3. [machine[m] EXCEPT !.slots = UpdateSlots(m, n)] \in CameraPrinter
    BY <1>0, <2>2 DEF CameraPrinter
  <2> QED
    BY <1>0, <1>1, <2>1, <2>3
<1>5. CASE DeletePrinter
  BY <1>0, <1>1, <1>2, <1>5 DEF DeletePrinter
<1>6. CASE SwitchPrinter
  <2>1. PICK m \in Registered : \/ machine' = [machine EXCEPT ![m].active = ~@]
                                \/ machine' = [machine EXCEPT ![m].enabled = ~@]
    BY <1>6 DEF SwitchPrinter
  <2>2. /\ [machine[m] EXCEPT !.active = ~@] \in CameraPrinter
        /\ [machine[m] EXCEPT !.enabled = ~@] \in CameraPrinter
    BY <1>0 DEF CameraPrinter
  <2> QED
    BY <1>0, <1>1, <2>1, <2>2
<1> QED
  BY <1>3, <1>4, <1>5, <1>6

LEMMA CameraStepTyped == CameraTypeInv /\ [CameraNext]_cameraVars => CameraTypeInv'
<1> SUFFICES ASSUME CameraTypeInv, [CameraNext]_cameraVars PROVE CameraTypeInv'
  OBVIOUS
<1> DEFINE File == [there : BOOLEAN, streams : Streams, age : 0..CoolTicks]
           Syncs == sync' = [t \in Syncer |-> sync'[t]] /\ \A t \in Syncer : IsSyncer(sync'[t])
           Ages == config' \in File /\ restarted' \in [Syncer -> 0..CoolTicks]
           Machines == machine' \in [Machine -> CameraPrinter]
<1>1. Machines /\ Syncs /\ Ages => CameraTypeInv'
  BY DEF CameraTypeInv, CameraTypeOK, IsSyncer
<1>2. /\ UNCHANGED sync => Syncs
      /\ UNCHANGED <<config, restarted>> => Ages
      /\ UNCHANGED machine => Machines
  BY DEF CameraTypeInv, CameraTypeOK, IsSyncer
<1>3. CoolTicks \in Nat /\ machine \in [Machine -> CameraPrinter] /\ config \in File
  BY CameraAssumption DEF CameraTypeInv, CameraTypeOK
<1>4. ASSUME NEW s \in Syncer, NEW e, IsSyncer(e), sync' = [sync EXCEPT ![s] = e] PROVE Syncs
  BY <1>4, SyncerTyped
<1>5. /\ IsSyncer(NotSyncing) /\ IsSyncer([step |-> "reading"]) /\ IsSyncer([step |-> "restarting"])
      /\ IsSyncer([step |-> "built", streams |-> Built])
  BY <1>3, BuiltTyped DEF IsSyncer, NotSyncing
<1> HIDE DEF Syncs, Ages
<1>6. CASE CreatePrinter \/ UpdatePrinter \/ DeletePrinter \/ SwitchPrinter
  <2>1. UNCHANGED <<config, sync, restarted>>
    BY <1>6 DEF CreatePrinter, UpdatePrinter, DeletePrinter, SwitchPrinter
  <2> QED
    BY <1>1, <1>2, <1>6, <2>1, MachinesTyped
<1>7. CASE PassTime
  <2>1. \A age \in 0..CoolTicks : Older(age) \in 0..CoolTicks
    BY <1>3, OlderIs
  <2>2. Ages
    BY <1>3, <1>7, <2>1 DEF PassTime, Ages, CameraTypeInv, CameraTypeOK
  <2> QED
    BY <1>1, <1>2, <1>7, <2>2 DEF PassTime
<1>8. ASSUME NEW s \in Syncer, UpdateCamera(s) PROVE CameraTypeInv'
  <2>1. PICK m \in Registered, given \in BOOLEAN :
          machine' = [machine EXCEPT ![m].camera_url = given, ![m].enabled = given]
    BY <1>8 DEF UpdateCamera
  <2>2. Machines
    BY <1>3, <2>1 DEF Registered, CameraPrinter
  <2> QED
    BY <1>1, <1>2, <1>4, <1>5, <1>8, <2>2 DEF UpdateCamera
<1>9. ASSUME NEW s \in Syncer, ListCameras(s) \/ DiscoverCamera(s) \/ ReadPrinters(s) \/ RestartDone(s)
      PROVE  CameraTypeInv'
  BY <1>1, <1>2, <1>4, <1>5, <1>9 DEF ListCameras, DiscoverCamera, ReadPrinters, RestartDone, BeginSync
<1>10. ASSUME NEW s \in Syncer, WriteOnly(s) \/ WriteAndRestart(s) PROVE CameraTypeInv'
  <2>1. Written(s) \in File
    BY <1>3, <1>10 DEF Written, WriteOnly, WriteAndRestart, CameraTypeInv
  <2>2. Ages
    BY <1>3, <1>10, <2>1 DEF WriteOnly, WriteAndRestart, Ages, CameraTypeInv, CameraTypeOK
  <2> QED
    BY <1>1, <1>2, <1>4, <1>5, <1>10, <2>2 DEF WriteOnly, WriteAndRestart
<1>11. CASE UNCHANGED cameraVars
  BY <1>1, <1>2, <1>11 DEF cameraVars
<1> QED
  BY <1>6, <1>7, <1>8, <1>9, <1>10, <1>11 DEF CameraNext

-----------------------------------------------------------------------------
(* Types of the timelapses.                                                *)
ClipRow == [status : {"none", "capturing", "encoding", "ready", "failed"}, job : TimelapseJob \cup {0}]
ServicePlace ==
    [step : {"rest", "ended", "stale"}, ended : SUBSET TimelapseJob,
     stale : SUBSET ClipId, clip : 0..MaxClips, tick : 0..(StaleEvery - 1)]

LEMMA RestTyped ==
    ASSUME NEW beat \in 0..(StaleEvery - 1)
    PROVE  AtRest(beat) \in ServicePlace
BY TimelapseAssumption DEF AtRest, ServicePlace

LEMMA TickTyped ==
    ASSUME TimelapseTypeOK
    PROVE  NextTick \in 0..(StaleEvery - 1)
BY TimelapseAssumption DEF NextTick, TimelapseTypeOK

(* What an encoding does to the row and to the loop.                       *)
LEMMA EncodeTyped ==
    ASSUME TimelapseTypeOK, NEW t, NEW next \in ServicePlace, Encode(t, next)
    PROVE  service' \in ServicePlace /\ clip' \in [ClipId -> ClipRow]
<1>1. clip \in [ClipId -> ClipRow]
  BY DEF TimelapseTypeOK, ClipRow
<1>3. ASSUME t \in Rows, NEW s \in {"failed", "encoding"}, clip' = [clip EXCEPT ![t].status = s]
      PROVE  clip' \in [ClipId -> ClipRow]
  <2> DEFINE e == [clip[t] EXCEPT !.status = s]
  <2>1. t \in ClipId /\ e \in ClipRow
    BY <1>1, <1>3 DEF Rows, ClipRow
  <2>2. clip' = [clip EXCEPT ![t] = e]
    BY <1>3
  <2> HIDE DEF e
  <2> QED
    BY <1>1, <2>1, <2>2
<1>4. t \in Rows => [next EXCEPT !.clip = t] \in ServicePlace
  <2> SUFFICES ASSUME t \in Rows PROVE [next EXCEPT !.clip = t] \in ServicePlace
    OBVIOUS
  <2>1. t \in 1..MaxClips /\ MaxClips \in Nat
    BY TimelapseAssumption DEF Rows, ClipId
  <2>2. t \in 0..MaxClips
    BY <2>1
  <2> QED
    BY <2>2 DEF ServicePlace
<1>5. t \in Rows => service' = next \/ service' = [next EXCEPT !.clip = t]
  BY DEF Encode
<1>6. \/ UNCHANGED clip
      \/ t \in Rows /\ \E s \in {"failed", "encoding"} : clip' = [clip EXCEPT ![t].status = s]
  BY DEF Encode
<1>7. t \notin Rows => service' = next
  BY DEF Encode
<1> QED
  BY <1>1, <1>3, <1>4, <1>5, <1>6, <1>7

LEMMA TimelapseStepTyped == TimelapseTypeOK /\ [TimelapseNext]_timelapseVars => TimelapseTypeOK'
<1> SUFFICES ASSUME TimelapseTypeOK, [TimelapseNext]_timelapseVars PROVE TimelapseTypeOK'
  OBVIOUS
<1> DEFINE Film == filming' \in BOOLEAN /\ printing' \in SUBSET TimelapseJob
                    /\ newest' \in TimelapseJob \cup {0} /\ stops' \in 0..MaxStops
           Follow == following' \in [TimelapseJob -> 0..MaxClips]
           Clips == clip' \in [ClipId -> ClipRow]
           Frames == enough' \in [ClipId -> BOOLEAN]
           Loop == service' \in ServicePlace
<1>1. Film /\ Follow /\ Clips /\ Frames /\ Loop => TimelapseTypeOK'
  BY DEF TimelapseTypeOK, ClipRow, ServicePlace
<1>2. /\ UNCHANGED <<filming, printing, newest, stops>> => Film
      /\ UNCHANGED following => Follow
      /\ UNCHANGED clip => Clips
      /\ UNCHANGED enough => Frames
      /\ UNCHANGED service => Loop
  BY DEF TimelapseTypeOK, ClipRow, ServicePlace
<1>3. /\ clip \in [ClipId -> ClipRow] /\ service \in ServicePlace /\ enough \in [ClipId -> BOOLEAN]
      /\ following \in [TimelapseJob -> 0..MaxClips] /\ printing \in SUBSET TimelapseJob
      /\ newest \in TimelapseJob \cup {0} /\ filming \in BOOLEAN /\ stops \in 0..MaxStops
  BY DEF TimelapseTypeOK, ClipRow, ServicePlace
<1>4. ClipId = 1..MaxClips /\ MaxClips \in Nat /\ MaxStops \in Nat /\ 0 \notin TimelapseJob
      /\ 0 \in 0..(StaleEvery - 1)
  BY TimelapseAssumption DEF ClipId
<1>5. CASE PrinterChanges
  <2>1. Film
    <3>1. UNCHANGED stops
      BY <1>5 DEF PrinterChanges
    <3>2. CASE FilmingSwitched
      BY <1>3, <3>1, <3>2 DEF FilmingSwitched
    <3>3. CASE JobStarts
      BY <1>3, <3>1, <3>3 DEF JobStarts
    <3>4. CASE JobStops
      BY <1>3, <3>1, <3>4 DEF JobStops
    <3> QED
      BY <1>5, <3>2, <3>3, <3>4 DEF PrinterChanges
  <2> QED
    BY <1>1, <1>2, <1>5, <2>1 DEF PrinterChanges
<1>6. CASE RestartService
  <2>1. Follow /\ Film /\ Loop
    BY <1>3, <1>4, <1>6, RestTyped DEF RestartService
  <2> QED
    BY <1>1, <1>2, <1>6, <2>1 DEF RestartService
<1>7. CASE DeleteTimelapse
  <2>1. NoClip \in ClipRow
    BY DEF NoClip, ClipRow
  <2>2. PICK t \in Rows : clip' = [clip EXCEPT ![t] = NoClip] /\ enough' = [enough EXCEPT ![t] = FALSE]
    BY <1>7 DEF DeleteTimelapse
  <2>3. Clips
    BY <1>3, <2>1, <2>2 DEF Rows
  <2>4. Frames
    BY <1>3, <2>2 DEF Rows
  <2> QED
    BY <1>1, <1>2, <1>7, <2>3, <2>4 DEF DeleteTimelapse
<1>8. CASE SpeedTimelapse
  <2>1. Clips
    BY <1>3, <1>8 DEF SpeedTimelapse, Rows
  <2> QED
    BY <1>1, <1>2, <1>8, <2>1 DEF SpeedTimelapse
<1>9. CASE ServiceTick
  <2> DEFINE j == IF filming THEN newest ELSE 0
  <2>1. NoLonger(j) \subseteq TimelapseJob
    BY DEF NoLonger
  <2>2. Loop
    BY <1>3, <1>9, <2>1 DEF ServiceTick, ServicePlace
  <2>3. CASE ClipFor(j) = {}
    BY <1>1, <1>2, <1>9, <2>2, <2>3 DEF ServiceTick
  <2>4. CASE ClipFor(j) # {}
    <3>1. j \in TimelapseJob
      BY <1>3, <2>4 DEF ClipFor
    <3>2. ClipFor(j) \subseteq ClipId
      BY <1>3, <1>4, <3>1 DEF ClipFor, Capturing, Rows
    <3>3. TakeFrame(j)
      BY <1>9, <2>4 DEF ServiceTick
    <3>4. PICK t \in ClipFor(j) :
            /\ clip' = [clip EXCEPT ![t] = [status |-> "capturing", job |-> j]] \/ clip' = clip
            /\ following' = [following EXCEPT ![j] = t]
            /\ \E more \in BOOLEAN : enough' = [enough EXCEPT ![t] = @ \/ more]
      BY <3>3 DEF TakeFrame
    <3>5. PICK more \in BOOLEAN : enough' = [enough EXCEPT ![t] = enough[t] \/ more]
      BY <3>4
    <3>6. t \in ClipId
      BY <3>2, <3>4
    <3>7. (enough[t] \/ more) \in BOOLEAN
      BY <3>5
    <3>8. Frames
      BY <1>3, <3>5, <3>6, <3>7
    <3>9. Clips
      <4>1. [status |-> "capturing", job |-> j] \in ClipRow
        BY <3>1 DEF ClipRow
      <4> QED
        BY <1>3, <3>4, <3>6, <4>1
    <3>10. Follow
      BY <1>3, <1>4, <3>1, <3>4, <3>6
    <3> QED
      BY <1>1, <1>2, <1>9, <2>2, <3>8, <3>9, <3>10 DEF ServiceTick
  <2> QED
    BY <2>3, <2>4
<1>10. CASE EncodeEnded
  <2>1. PICK k \in service.ended :
          /\ following' = [following EXCEPT ![k] = 0]
          /\ Encode(following[k], [service EXCEPT !.ended = @ \ {k}])
    BY <1>10 DEF EncodeEnded
  <2>2. [service EXCEPT !.ended = @ \ {k}] \in ServicePlace
    BY <1>3 DEF ServicePlace
  <2>3. Loop /\ Clips
    BY <2>1, <2>2, EncodeTyped
  <2>4. Follow
    <3>1. 0 \in 0..MaxClips
      BY <1>4
    <3> QED
      BY <1>3, <2>1, <3>1
  <2> QED
    BY <1>1, <1>2, <1>10, <2>3, <2>4 DEF EncodeEnded
<1>11. CASE EncodeDone
  <2>1. Loop
    <3>1. 0 \in 0..MaxClips
      BY <1>4
    <3>2. service' = [service EXCEPT !.clip = 0]
      BY <1>11 DEF EncodeDone
    <3> QED
      BY <1>3, <3>1, <3>2 DEF ServicePlace
  <2> DEFINE t == service.clip
  <2>2. PICK works \in BOOLEAN :
          /\ clip' = IF t \in Rows
                     THEN [clip EXCEPT ![t].status = IF works THEN "ready" ELSE "failed"]
                     ELSE clip
          /\ enough' = IF works THEN [enough EXCEPT ![t] = FALSE] ELSE enough
    BY <1>11 DEF EncodeDone
  <2> HIDE DEF t
  <2>3. Frames
    <3>1. enough' = enough \/ enough' = [enough EXCEPT ![t] = FALSE]
      BY <2>2
    <3> QED
      BY <1>3, <3>1
  <2>4. Clips
    <3>1. t \in Rows => /\ t \in ClipId
                        /\ [clip[t] EXCEPT !.status = IF works THEN "ready" ELSE "failed"] \in ClipRow
      BY <1>3 DEF Rows, ClipRow
    <3> QED
      BY <1>3, <2>2, <3>1
  <2> QED
    BY <1>1, <1>2, <1>11, <2>1, <2>3, <2>4 DEF EncodeDone
<1>12. CASE EndedDone
  <2>1. {t \in Rows : clip[t].status = "capturing"} \in SUBSET ClipId
    BY DEF Rows
  <2>2. NextTick \in 0..(StaleEvery - 1) /\ AtRest(NextTick) \in ServicePlace
    BY TickTyped, RestTyped
  <2>3. Loop
    BY <1>3, <1>12, <2>1, <2>2 DEF EndedDone, ServicePlace
  <2> QED
    BY <1>1, <1>2, <1>12, <2>3 DEF EndedDone
<1>13. CASE EncodeStale
  <2>1. PICK t \in service.stale :
          LET next == [service EXCEPT !.stale = @ \ {t}]
          IN  IF Orphaned(t) THEN Encode(t, next) ELSE service' = next /\ UNCHANGED clip
    BY <1>13 DEF EncodeStale
  <2> DEFINE next == [service EXCEPT !.stale = @ \ {t}]
  <2>2. next \in ServicePlace
    BY <1>3 DEF ServicePlace
  <2>3. Encode(t, next) \/ (service' = next /\ UNCHANGED clip)
    BY <2>1
  <2> HIDE DEF next
  <2>4. Loop /\ Clips
    BY <1>2, <2>2, <2>3, EncodeTyped
  <2> QED
    BY <1>1, <1>2, <1>13, <2>4 DEF EncodeStale
<1>15. CASE StaleDone
  BY <1>1, <1>2, <1>15, TickTyped, RestTyped DEF StaleDone
<1>16. CASE TickRaises
  <2>1. Film
    BY <1>3, <1>4, <1>16 DEF TickRaises
  <2>2. Loop
    <3>1. AtRest(service.tick) \in ServicePlace
      <4>1. service.tick \in 0..(StaleEvery - 1)
        BY <1>3 DEF ServicePlace
      <4> QED
        BY <4>1, RestTyped
    <3>2. [service EXCEPT !.stale = {}, !.clip = 0] \in ServicePlace
      <4>1. 0 \in 0..MaxClips /\ {} \in SUBSET ClipId
        BY <1>4
      <4> QED
        BY <1>3, <4>1 DEF ServicePlace
    <3> QED
      BY <1>16, <3>1, <3>2 DEF TickRaises
  <2>3. Follow
    <3>1. 0 \in 0..MaxClips
      BY <1>4
    <3>2. \/ following' = following
          \/ \E j \in service.ended : following' = [following EXCEPT ![j] = 0]
      BY <1>16 DEF TickRaises
    <3> QED
      BY <1>3, <3>1, <3>2
  <2> QED
    BY <1>1, <1>2, <1>16, <2>1, <2>2, <2>3 DEF TickRaises
<1>14. CASE UNCHANGED timelapseVars
  BY <1>1, <1>2, <1>14 DEF timelapseVars
<1> QED
  BY <1>5, <1>6, <1>7, <1>8, <1>9, <1>10, <1>11, <1>12, <1>13, <1>14, <1>15, <1>16
     DEF TimelapseNext, ServiceStep

-----------------------------------------------------------------------------
(* Types of the archive: what a tag route holds between its read and its   *)
(* write.                                                                  *)
ArchiveRow == [state : {"filed"}, printer : ArchivePrinter, tags : SUBSET Tag,
               project : {NoProject} \cup ProjectIds]
ShelfRow == {NotFiled, [state |-> "deleted"]} \cup ArchiveRow
ProjectRow == [state : {"active", "archived"}, org : OrgId \cup {"free"}]

(* What a tag route has read are rows of the archive and sets of tags.     *)
IsTagging(t) ==
    t = NoTagging \/ (DOMAIN t.tags \subseteq Ids /\ \A i \in DOMAIN t.tags : t.tags[i] \in SUBSET Tag)

ArchiveTypeInv ==
    /\ ArchiveTypeOK
    /\ tagging = [c \in Curator |-> tagging[c]] /\ \A c \in Curator : IsTagging(tagging[c])

LEMMA ArchiveTypeStarts == ArchiveInit => ArchiveTypeInv
BY DEF ArchiveInit, ArchiveTypeInv, ArchiveTypeOK, IsTagging, NoTagging

LEMMA ArchiveStepTyped == ArchiveTypeInv /\ [ArchiveNext]_archiveVars => ArchiveTypeInv'
<1> SUFFICES ASSUME ArchiveTypeInv, [ArchiveNext]_archiveVars PROVE ArchiveTypeInv'
  OBVIOUS
<1> DEFINE Shelves == shelf' \in [Ids -> ShelfRow]
           Projs == projects' \in [ProjectIds -> {NotFiled} \cup ProjectRow]
           Orgs == printerOrg' \in [ArchivePrinter -> OrgId \cup {"free"}]
           Tags == tagging' = [c \in Curator |-> tagging'[c]] /\ \A c \in Curator : IsTagging(tagging'[c])
<1>1. Shelves /\ Projs /\ Orgs /\ Tags => ArchiveTypeInv'
  BY DEF ArchiveTypeInv, ArchiveTypeOK, IsTagging, ShelfRow, ArchiveRow, ProjectRow
<1>2. /\ UNCHANGED shelf => Shelves
      /\ UNCHANGED projects => Projs
      /\ UNCHANGED printerOrg => Orgs
      /\ UNCHANGED tagging => Tags
  BY DEF ArchiveTypeInv, ArchiveTypeOK, ShelfRow, ArchiveRow, ProjectRow
<1>3. /\ shelf \in [Ids -> ShelfRow]
      /\ projects \in [ProjectIds -> {NotFiled} \cup ProjectRow]
      /\ \A i \in Filed : i \in Ids /\ shelf[i] \in ArchiveRow
      /\ \A i \in Projects : i \in ProjectIds /\ projects[i] \in ProjectRow
  BY DEF ArchiveTypeInv, ArchiveTypeOK, ShelfRow, ArchiveRow, ProjectRow, Filed, Projects, NotFiled
<1>4. ASSUME NEW i \in Ids, NEW row \in ShelfRow, shelf' = [shelf EXCEPT ![i] = row] PROVE Shelves
  BY <1>3, <1>4
<1>5. ASSUME NEW i \in ProjectIds, NEW row \in ProjectRow, projects' = [projects EXCEPT ![i] = row]
      PROVE  Projs
  BY <1>3, <1>5
<1>6. ASSUME NEW c \in Curator, NEW e, IsTagging(e), tagging' = [tagging EXCEPT ![c] = e] PROVE Tags
  BY <1>6 DEF ArchiveTypeInv
<1>7. IsTagging(NoTagging)
  BY DEF IsTagging
<1> HIDE DEF Shelves, Projs, Orgs, Tags
<1>8. CASE FilePrint
  <2>1. \A p \in ArchivePrinter :
          [state |-> "filed", printer |-> p, tags |-> {}, project |-> NoProject] \in ShelfRow
    BY DEF ShelfRow, ArchiveRow
  <2> QED
    BY <1>1, <1>2, <1>4, <1>8, <2>1 DEF FilePrint
<1>9. CASE PrinterMoves
  <2>1. Orgs
    BY <1>9 DEF PrinterMoves, Orgs, ArchiveTypeInv, ArchiveTypeOK
  <2> QED
    BY <1>1, <1>2, <1>9, <2>1 DEF PrinterMoves
<1>10. CASE SetTags
  <2>1. PICK i \in Filed, tags \in SUBSET Tag : shelf' = [shelf EXCEPT ![i].tags = tags]
    BY <1>10 DEF SetTags
  <2>2. [shelf[i] EXCEPT !.tags = tags] \in ShelfRow
    BY <1>3, <2>1 DEF ShelfRow, ArchiveRow
  <2>3. Shelves
    BY <1>3, <1>4, <2>1, <2>2
  <2> QED
    BY <1>1, <1>2, <1>10, <2>3 DEF SetTags
<1>11. CASE DeleteArchive
  <2>1. PICK i \in Filed : shelf' = [shelf EXCEPT ![i] = [state |-> "deleted"]]
    BY <1>11 DEF DeleteArchive
  <2>2. Shelves
    BY <1>3, <1>4, <2>1 DEF ShelfRow
  <2> QED
    BY <1>1, <1>2, <1>11, <2>2 DEF DeleteArchive
<1>12. CASE CreateProject
  <2>1. PICK i \in ProjectIds, org \in OrgId \cup {"free"} :
          projects' = [projects EXCEPT ![i] = [state |-> "active", org |-> org]]
    BY <1>12 DEF CreateProject
  <2>2. [state |-> "active", org |-> org] \in ProjectRow
    BY DEF ProjectRow
  <2> QED
    BY <1>1, <1>2, <1>5, <1>12, <2>1, <2>2 DEF CreateProject
<1>13. CASE SetProjectStatus
  <2>1. PICK i \in Projects, state \in {"active", "archived"} : projects' = [projects EXCEPT ![i].state = state]
    BY <1>13 DEF SetProjectStatus
  <2>2. [projects[i] EXCEPT !.state = state] \in ProjectRow
    BY <1>3 DEF ProjectRow
  <2>3. Projs
    BY <1>3, <1>5, <2>1, <2>2
  <2> QED
    BY <1>1, <1>2, <1>13, <2>3 DEF SetProjectStatus
<1>14. CASE AssignArchives
  <2>1. PICK i \in Projects, chosen \in SUBSET Filed :
          shelf' = [k \in Ids |-> IF k \in chosen THEN [shelf[k] EXCEPT !.project = i] ELSE shelf[k]]
    BY <1>14 DEF AssignArchives
  <2>2. \A k \in chosen : [shelf[k] EXCEPT !.project = i] \in ShelfRow
    BY <1>3 DEF ShelfRow, ArchiveRow
  <2>3. Shelves
    BY <1>3, <2>1, <2>2 DEF Shelves
  <2> QED
    BY <1>1, <1>2, <1>14, <2>3 DEF AssignArchives
<1>15. ASSUME NEW c \in Curator, ReadTags(c) PROVE ArchiveTypeInv'
  <2>1. PICK scope \in Scope, old \in Tag, new \in {{}} \cup {{t} : t \in Tag} :
          LET carrying == {i \in Filed : SeesArchive(scope, i) /\ old \in shelf[i].tags}
          IN  tagging' = [tagging EXCEPT ![c] =
                 [step |-> "read",
                  tags |-> [i \in carrying |-> (shelf[i].tags \ {old}) \cup new]]]
    BY <1>15 DEF ReadTags
  <2> DEFINE carrying == {i \in Filed : SeesArchive(scope, i) /\ old \in shelf[i].tags}
             e == [step |-> "read", tags |-> [i \in carrying |-> (shelf[i].tags \ {old}) \cup new]]
  <2>2. tagging' = [tagging EXCEPT ![c] = e]
    BY <2>1
  <2>3. \A i \in carrying : i \in Ids /\ (shelf[i].tags \ {old}) \cup new \in SUBSET Tag
    BY <1>3 DEF ArchiveRow
  <2>4. IsTagging(e)
    BY <2>3 DEF IsTagging
  <2> HIDE DEF e
  <2> QED
    BY <1>1, <1>2, <1>6, <1>15, <2>2, <2>4 DEF ReadTags
<1>16. ASSUME NEW c \in Curator, WriteTags(c) PROVE ArchiveTypeInv'
  <2>1. \A i \in DOMAIN tagging[c].tags : tagging[c].tags[i] \in SUBSET Tag
    BY <1>16 DEF WriteTags, ArchiveTypeInv, IsTagging
  <2>2. \A i \in Filed : i \in DOMAIN tagging[c].tags =>
           [shelf[i] EXCEPT !.tags = tagging[c].tags[i]] \in ShelfRow
    BY <1>3, <2>1 DEF ShelfRow, ArchiveRow
  <2>3. Shelves
    BY <1>3, <1>16, <2>2 DEF WriteTags, Shelves
  <2> QED
    BY <1>1, <1>2, <1>6, <1>7, <1>16, <2>3 DEF WriteTags
<1>17. ASSUME NEW c \in Curator, TagRouteFails(c) PROVE ArchiveTypeInv'
  BY <1>1, <1>2, <1>6, <1>7, <1>17 DEF TagRouteFails
<1>18. CASE UNCHANGED archiveVars
  BY <1>1, <1>2, <1>18 DEF archiveVars
<1> QED
  BY <1>8, <1>9, <1>10, <1>11, <1>12, <1>13, <1>14, <1>15, <1>16, <1>17, <1>18 DEF ArchiveNext

-----------------------------------------------------------------------------
(* Types of the maintenance.                                               *)
NozzleRow == [fitted : BOOLEAN, hours : 0..MaxHours]
LogRow == [task : UpkeepTask \cup {Untasked}, reading : 0..MaxHours]

(* What makes NozzlesBehind inductive: an hour that is still to be counted *)
(* on a nozzle was counted on the printer before.                          *)
HoursOpen == IF toNozzle THEN 1 ELSE 0
HoursAhead ==
    /\ HoursOpen <= odometer
    /\ \A i \in DOMAIN nozzles : nozzles[i].hours + HoursOpen <= odometer

UpkeepTypeInv ==
    /\ UpkeepTypeOK
    /\ serviceLog \in Seq(LogRow) /\ nozzles \in Seq(NozzleRow)
    /\ HoursAhead

LEMMA UpkeepTypeStarts == UpkeepInit => UpkeepTypeInv
<1> SUFFICES ASSUME UpkeepInit PROVE UpkeepTypeInv
  OBVIOUS
<1>1. serviceLog = <<>> /\ nozzles = <<>> /\ MaxHours \in Nat /\ MaxLogs \in Nat /\ MaxNozzles \in Nat
  BY UpkeepAssumption DEF UpkeepInit
<1>2. Len(serviceLog) = 0 /\ Len(nozzles) = 0 /\ DOMAIN serviceLog = {} /\ DOMAIN nozzles = {}
      /\ serviceLog \in Seq(LogRow) /\ nozzles \in Seq(NozzleRow)
  BY <1>1
<1>3. NotFitting \in 0..NotFitting
  BY <1>1 DEF NotFitting
<1>4. UpkeepTypeOK
  <2>1. fitting \in [Fitter -> 0..NotFitting]
    BY <1>3 DEF UpkeepInit
  <2>2. odometer \in 0..MaxHours /\ jobHours \in 0..MaxHours
    BY <1>1 DEF UpkeepInit
  <2>3. Len(serviceLog) <= MaxLogs /\ Len(nozzles) <= MaxNozzles
    BY <1>1, <1>2
  <2> QED
    BY <1>2, <2>1, <2>2, <2>3 DEF UpkeepInit, UpkeepTypeOK
<1>5. HoursAhead
  BY <1>2 DEF UpkeepInit, HoursAhead, HoursOpen
<1> QED
  BY <1>2, <1>4, <1>5 DEF UpkeepTypeInv

LEMMA UpkeepStepTyped == UpkeepTypeInv /\ [UpkeepNext]_upkeepVars => UpkeepTypeInv'
<1> SUFFICES ASSUME UpkeepTypeInv, [UpkeepNext]_upkeepVars PROVE UpkeepTypeInv'
  OBVIOUS
<1> DEFINE Hours == odometer' \in 0..MaxHours /\ jobHours' \in 0..MaxHours /\ toNozzle' \in BOOLEAN
           Tasks == /\ taskRows' \in [UpkeepTask -> {"none", "active", "inactive"}]
                    /\ seeding' \in BOOLEAN
           Logs == serviceLog' \in Seq(LogRow) /\ Len(serviceLog') <= MaxLogs
           Nozzles == nozzles' \in Seq(NozzleRow) /\ Len(nozzles') <= MaxNozzles
           Fittings == fitting' \in [Fitter -> 0..NotFitting]
           Statuses == shown' \in {"nothing", "ok", "overdue"}
<1>1. Hours /\ Tasks /\ Logs /\ Nozzles /\ Fittings /\ Statuses /\ HoursAhead' => UpkeepTypeInv'
  <2> SUFFICES ASSUME Hours, Tasks, Logs, Nozzles, Fittings, Statuses, HoursAhead'
               PROVE  UpkeepTypeInv'
    OBVIOUS
  <2>1. /\ \A i \in DOMAIN serviceLog' : serviceLog'[i] \in LogRow
        /\ \A i \in DOMAIN nozzles' : nozzles'[i] \in NozzleRow
    OBVIOUS
  <2> QED
    BY <2>1 DEF UpkeepTypeInv, UpkeepTypeOK, LogRow, NozzleRow
<1>2. /\ UNCHANGED <<odometer, jobHours, toNozzle>> => Hours
      /\ UNCHANGED <<taskRows, seeding>> => Tasks
      /\ UNCHANGED serviceLog => Logs
      /\ UNCHANGED nozzles => Nozzles
      /\ UNCHANGED fitting => Fittings
      /\ UNCHANGED shown => Statuses
      /\ UNCHANGED <<odometer, toNozzle, nozzles>> => HoursAhead'
  BY DEF UpkeepTypeInv, UpkeepTypeOK, HoursAhead, HoursOpen
<1>3. /\ MaxHours \in Nat /\ MaxLogs \in Nat /\ MaxNozzles \in Nat
      /\ odometer \in 0..MaxHours /\ jobHours \in 0..MaxHours /\ toNozzle \in BOOLEAN
      /\ serviceLog \in Seq(LogRow) /\ Len(serviceLog) <= MaxLogs
      /\ nozzles \in Seq(NozzleRow) /\ Len(nozzles) <= MaxNozzles
      /\ DOMAIN nozzles = 1..Len(nozzles) /\ \A i \in DOMAIN nozzles : nozzles[i] \in NozzleRow
      /\ DOMAIN serviceLog = 1..Len(serviceLog) /\ \A i \in DOMAIN serviceLog : serviceLog[i] \in LogRow
  BY UpkeepAssumption DEF UpkeepTypeInv, UpkeepTypeOK
<1>4. ASSUME NEW row, row \in [1..Len(nozzles) -> NozzleRow], nozzles' = row PROVE Nozzles
  BY <1>3, <1>4
<1> HIDE DEF Hours, Tasks, Logs, Nozzles, Fittings, Statuses
<1>5. CASE PrintCounted
  <2>1. Hours
    BY <1>3, <1>5 DEF PrintCounted, Hours
  <2>2. HoursAhead'
    <3>1. \A i \in DOMAIN nozzles : nozzles[i].hours \in Nat
      BY <1>3 DEF NozzleRow
    <3> QED
      BY <1>3, <1>5, <3>1 DEF PrintCounted, HoursAhead, HoursOpen, UpkeepTypeInv
  <2> QED
    BY <1>1, <1>2, <1>5, <2>1, <2>2 DEF PrintCounted
<1>6. CASE NozzleCounted
  <2>1. Hours
    BY <1>2, <1>3, <1>6 DEF NozzleCounted, Hours
  <2>2. \A i \in DOMAIN nozzles : nozzles[i].hours \in Nat /\ nozzles[i].hours + 1 <= odometer
    BY <1>3, <1>6 DEF NozzleRow, NozzleCounted, UpkeepTypeInv, HoursAhead, HoursOpen
  <2>3. CASE UNCHANGED nozzles
    <3>1. HoursAhead'
      BY <1>3, <1>6, <2>2, <2>3 DEF NozzleCounted, HoursAhead, HoursOpen
    <3> QED
      BY <1>1, <1>2, <1>6, <2>1, <2>3, <3>1 DEF NozzleCounted
  <2>4. CASE nozzles' = [i \in DOMAIN nozzles |->
                [nozzles[i] EXCEPT !.hours = IF nozzles[i].fitted THEN @ + 1 ELSE @]]
    <3> DEFINE counted(i) == [nozzles[i] EXCEPT !.hours = IF nozzles[i].fitted THEN @ + 1 ELSE @]
    <3>1. ASSUME NEW i \in DOMAIN nozzles PROVE counted(i) \in NozzleRow /\ counted(i).hours <= odometer
      <4>1. /\ nozzles[i] \in [fitted : BOOLEAN, hours : 0..MaxHours]
            /\ nozzles[i].hours + 1 <= odometer /\ odometer <= MaxHours /\ odometer \in Nat
        BY <1>3, <2>2 DEF NozzleRow
      <4>2. CASE nozzles[i].fitted
        <5>1. counted(i) = [nozzles[i] EXCEPT !.hours = nozzles[i].hours + 1]
          BY <4>2
        <5>2. nozzles[i].hours + 1 \in 0..MaxHours
          BY <1>3, <4>1
        <5> QED
          BY <4>1, <5>1, <5>2 DEF NozzleRow
      <4>3. CASE ~nozzles[i].fitted
        <5>1. counted(i) = nozzles[i]
          BY <4>1, <4>3
        <5> QED
          BY <4>1, <5>1 DEF NozzleRow
      <4> QED
        BY <4>2, <4>3
    <3>2. nozzles' = [i \in 1..Len(nozzles) |-> counted(i)]
      BY <1>3, <2>4
    <3> HIDE DEF counted
    <3>3. nozzles' \in [1..Len(nozzles) -> NozzleRow]
      BY <1>3, <3>1, <3>2
    <3>4. HoursAhead'
      <4>1. \A i \in DOMAIN nozzles' : nozzles'[i].hours \in Nat /\ nozzles'[i].hours <= odometer
        BY <1>3, <3>1, <3>2 DEF NozzleRow
      <4> QED
        BY <1>3, <1>6, <4>1 DEF NozzleCounted, HoursAhead, HoursOpen
    <3> QED
      BY <1>1, <1>2, <1>4, <1>6, <2>1, <3>3, <3>4 DEF NozzleCounted
  <2> QED
    BY <1>6, <2>3, <2>4 DEF NozzleCounted
<1>7. CASE JobHoursChange
  <2>1. Hours
    BY <1>3, <1>7 DEF JobHoursChange, Hours
  <2> QED
    BY <1>1, <1>2, <1>7, <2>1 DEF JobHoursChange
<1>8. CASE RetireNozzle
  <2>1. PICK i \in Fitted : nozzles' = [nozzles EXCEPT ![i].fitted = FALSE]
    BY <1>8 DEF RetireNozzle
  <2> DEFINE e == [nozzles[i] EXCEPT !.fitted = FALSE]
  <2>2. e \in NozzleRow /\ e.hours = nozzles[i].hours /\ i \in 1..Len(nozzles)
    BY <1>3 DEF Fitted, NozzleRow
  <2>3. nozzles' = [nozzles EXCEPT ![i] = e]
    BY <2>1
  <2> HIDE DEF e
  <2>4. nozzles' \in [1..Len(nozzles) -> NozzleRow]
    BY <1>3, <2>2, <2>3
  <2>5. HoursAhead'
    BY <1>3, <1>8, <2>2, <2>3 DEF RetireNozzle, HoursAhead, HoursOpen, UpkeepTypeInv
  <2> QED
    BY <1>1, <1>2, <1>4, <1>8, <2>4, <2>5 DEF RetireNozzle
<1>9. ASSUME NEW f \in Fitter, FindNozzle(f) PROVE UpkeepTypeInv'
  <2>1. Fitted # {} => (CHOOSE i \in Fitted : \A j \in Fitted : i <= j) \in 1..Len(nozzles)
    <3>1. Fitted \in SUBSET Nat /\ Fitted \subseteq 1..Len(nozzles)
      BY <1>3 DEF Fitted
    <3> QED
      BY <3>1, LeastIn
  <2>2. Fittings
    BY <1>3, <1>9, <2>1 DEF FindNozzle, Fittings, UpkeepTypeInv, UpkeepTypeOK, NotFitting
  <2> QED
    BY <1>1, <1>2, <1>9, <2>2 DEF FindNozzle
<1>10. ASSUME NEW f \in Fitter, InstallNozzle(f) PROVE UpkeepTypeInv'
  <2> DEFINE left(i) == [nozzles[i] EXCEPT !.fitted = @ /\ i # fitting[f]]
             new == [fitted |-> TRUE, hours |-> 0]
             row(i) == IF i > Len(nozzles) THEN new ELSE left(i)
  <2>1. nozzles' = [i \in 1..Len(nozzles) + 1 |-> row(i)]
    BY <1>10 DEF InstallNozzle
  <2>2. \A i \in 1..Len(nozzles) : left(i) \in NozzleRow /\ left(i).hours = nozzles[i].hours
    <3>1. \A i \in 1..Len(nozzles) : nozzles[i].fitted \in BOOLEAN /\ nozzles[i] \in NozzleRow
      BY <1>3 DEF NozzleRow
    <3>2. \A i \in 1..Len(nozzles) : (nozzles[i].fitted /\ i # fitting[f]) \in BOOLEAN
      OBVIOUS
    <3> QED
      BY <3>1, <3>2 DEF NozzleRow
  <2>3. new \in NozzleRow /\ new.hours = 0
    BY <1>3 DEF NozzleRow
  <2> HIDE DEF left, new
  <2>4. /\ nozzles' \in Seq(NozzleRow) /\ Len(nozzles') = Len(nozzles) + 1
        /\ DOMAIN nozzles' = 1..Len(nozzles) + 1
        /\ \A i \in 1..Len(nozzles) : nozzles'[i].hours = nozzles[i].hours
        /\ nozzles'[Len(nozzles) + 1].hours = 0
    <3>1. nozzles' \in [1..Len(nozzles) + 1 -> NozzleRow]
      BY <1>3, <2>1, <2>2, <2>3
    <3>2. Len(nozzles) + 1 \in Nat /\ DOMAIN nozzles' = 1..Len(nozzles) + 1
      BY <1>3, <2>1
    <3>3. nozzles' \in Seq(NozzleRow) /\ Len(nozzles') = Len(nozzles) + 1
      BY <3>1, <3>2
    <3>4. /\ \A i \in 1..Len(nozzles) : nozzles'[i].hours = nozzles[i].hours
          /\ nozzles'[Len(nozzles) + 1].hours = 0
      BY <1>3, <2>1, <2>2, <2>3
    <3> QED
      BY <3>2, <3>3, <3>4
  <2>5. Nozzles
    BY <1>3, <1>10, <2>4 DEF InstallNozzle, Nozzles
  <2>6. HoursAhead'
    <3>1. UNCHANGED <<odometer, toNozzle>>
      BY <1>10 DEF InstallNozzle
    <3>2. HoursOpen \in Nat /\ HoursOpen' = HoursOpen
      BY <3>1 DEF HoursOpen
    <3>3. ASSUME NEW i \in 1..Len(nozzles) + 1 PROVE nozzles'[i].hours + HoursOpen <= odometer
      <4>1. CASE i = Len(nozzles) + 1
        BY <2>4, <3>2, <4>1 DEF HoursAhead, UpkeepTypeInv
      <4>2. CASE i \in 1..Len(nozzles)
        BY <1>3, <2>4, <4>2 DEF HoursAhead, UpkeepTypeInv
      <4> QED
        BY <1>3, <4>1, <4>2
    <3> QED
      BY <2>4, <3>1, <3>2, <3>3 DEF HoursAhead, UpkeepTypeInv
  <2>7. Fittings
    BY <1>3, <1>10 DEF InstallNozzle, Fittings, UpkeepTypeInv, UpkeepTypeOK, NotFitting
  <2> QED
    BY <1>1, <1>2, <1>10, <2>5, <2>6, <2>7 DEF InstallNozzle
<1>11. CASE CreateTask \/ UpdateTask \/ LookForDefaults \/ SeedDefaults
  <2>1. Tasks
    BY <1>11 DEF CreateTask, UpdateTask, LookForDefaults, SeedDefaults, Tasks, UpkeepTypeInv, UpkeepTypeOK
  <2> QED
    BY <1>1, <1>2, <1>11, <2>1 DEF CreateTask, UpdateTask, LookForDefaults, SeedDefaults
<1>12. CASE DeleteTask
  <2>1. PICK t \in UpkeepTask :
          /\ taskRows' = [taskRows EXCEPT ![t] = "none"]
          /\ serviceLog' = [i \in DOMAIN serviceLog |->
                IF serviceLog[i].task = t THEN [serviceLog[i] EXCEPT !.task = Untasked] ELSE serviceLog[i]]
    BY <1>12 DEF DeleteTask
  <2>2. Tasks
    BY <1>12, <2>1 DEF DeleteTask, Tasks, UpkeepTypeInv, UpkeepTypeOK
  <2>3. \A i \in DOMAIN serviceLog : [serviceLog[i] EXCEPT !.task = Untasked] \in LogRow
    BY <1>3 DEF LogRow
  <2>4. serviceLog' \in [1..Len(serviceLog) -> LogRow]
    BY <1>3, <2>1, <2>3
  <2>5. Logs
    BY <1>3, <2>4 DEF Logs
  <2> QED
    BY <1>1, <1>2, <1>12, <2>2, <2>5 DEF DeleteTask
<1>13. CASE LogMaintenance
  <2>1. PICK t \in UpkeepTask \cup {Untasked} :
          serviceLog' = Append(serviceLog, [task |-> t, reading |-> jobHours])
    BY <1>13 DEF LogMaintenance
  <2>2. [task |-> t, reading |-> jobHours] \in LogRow
    BY <1>3 DEF LogRow
  <2>3. Logs
    BY <1>3, <1>13, <2>1, <2>2 DEF Logs, LogMaintenance
  <2> QED
    BY <1>1, <1>2, <1>13, <2>3 DEF LogMaintenance
<1>14. CASE DeleteLog
  <2>1. PICK i \in 1..Len(serviceLog) : serviceLog' = RemoveAt(serviceLog, i)
    BY <1>3, <1>14 DEF DeleteLog
  <2>2. serviceLog' = SubSeq(serviceLog, 1, i - 1) \o SubSeq(serviceLog, i + 1, Len(serviceLog))
    BY <2>1 DEF RemoveAt
  <2>3. /\ SubSeq(serviceLog, 1, i - 1) \in Seq(LogRow) /\ Len(SubSeq(serviceLog, 1, i - 1)) = i - 1
        /\ SubSeq(serviceLog, i + 1, Len(serviceLog)) \in Seq(LogRow)
        /\ Len(SubSeq(serviceLog, i + 1, Len(serviceLog))) = Len(serviceLog) - i
    <3>1. /\ serviceLog \in Seq(LogRow) /\ 1 \in 1 .. Len(serviceLog) + 1 /\ i - 1 \in 0 .. Len(serviceLog)
          /\ i + 1 \in 1 .. Len(serviceLog) + 1 /\ Len(serviceLog) \in 0 .. Len(serviceLog)
      BY <1>3
    <3>2. SubSeq(serviceLog, 1, i - 1) \in Seq(LogRow) /\ Len(SubSeq(serviceLog, 1, i - 1)) = i - 1
      BY <3>1, SubSeqProperties
    <3>3. /\ SubSeq(serviceLog, i + 1, Len(serviceLog)) \in Seq(LogRow)
          /\ Len(SubSeq(serviceLog, i + 1, Len(serviceLog))) = Len(serviceLog) - i
      BY <3>1, SubSeqProperties
    <3> QED
      BY <3>2, <3>3
  <2>4. Logs
    <3>1. /\ serviceLog' \in Seq(LogRow)
          /\ Len(serviceLog') = (i - 1) + (Len(serviceLog) - i)
      <4> DEFINE before == SubSeq(serviceLog, 1, i - 1)
                 after == SubSeq(serviceLog, i + 1, Len(serviceLog))
      <4>1. before \in Seq(LogRow) /\ after \in Seq(LogRow)
        BY <2>3
      <4>2. serviceLog' = before \o after
        BY <2>2
      <4>3. Len(before) = i - 1 /\ Len(after) = Len(serviceLog) - i
        BY <2>3
      <4> HIDE DEF before, after
      <4>4. before \o after \in Seq(LogRow) /\ Len(before \o after) = Len(before) + Len(after)
        BY <4>1, ConcatProperties, Zenon
      <4> QED
        BY <4>2, <4>3, <4>4
    <3> QED
      BY <1>3, <3>1 DEF Logs
  <2> QED
    BY <1>1, <1>2, <1>14, <2>4 DEF DeleteLog
<1>15. CASE ShowStatus
  <2>1. Statuses
    BY <1>15 DEF ShowStatus, TaskStatus, Statuses
  <2> QED
    BY <1>1, <1>2, <1>15, <2>1 DEF ShowStatus
<1>16. CASE UNCHANGED upkeepVars
  BY <1>1, <1>2, <1>16 DEF upkeepVars
<1> QED
  BY <1>5, <1>6, <1>7, <1>8, <1>9, <1>10, <1>11, <1>12, <1>13, <1>14, <1>15, <1>16 DEF UpkeepNext

(* NozzlesBehind, for any number of nozzles, requests and hours.           *)
THEOREM NozzlesStayBehind == UpkeepSpec => []NozzlesBehind
<1>1. UpkeepTypeInv => NozzlesBehind
  <2> SUFFICES ASSUME UpkeepTypeInv, NEW i \in DOMAIN nozzles PROVE nozzles[i].hours <= odometer
    BY DEF NozzlesBehind
  <2>1. nozzles[i].hours \in Nat /\ odometer \in Nat /\ HoursOpen \in Nat
    BY UpkeepAssumption DEF UpkeepTypeInv, UpkeepTypeOK, HoursOpen
  <2>2. nozzles[i].hours + HoursOpen <= odometer
    BY DEF UpkeepTypeInv, HoursAhead
  <2> QED
    BY <2>1, <2>2
<1> QED
  BY <1>1, UpkeepTypeStarts, UpkeepStepTyped, PTL DEF UpkeepSpec

-----------------------------------------------------------------------------
(* Types of the commands and of the requests that give them.               *)
Unit == [state : DeviceState, run : 0..MaxRuns, light : BOOLEAN]
Command == [step : {"open", "sent"}, action : OnTheLoop \cup OnThreads,
            run : 0..MaxRuns, on : BOOLEAN, shared : BOOLEAN]
CommandedRow == [gcode : GcodeWord, light : BOOLEAN, toggled : BOOLEAN]

CommandsTypeInv == CommandsTypeOK /\ command = [c \in Controller |-> command[c]]

(* Every word a monitor writes is one of those that stand in the row.      *)
LEMMA WordIs == ASSUME NEW a \in Adapter, NEW s \in DeviceState PROVE Word(a, s) \in GcodeWord
BY DEF GcodeWord

LEMMA CommandsTypeStarts == CommandsInit => CommandsTypeInv
<1> SUFFICES ASSUME CommandsInit PROVE CommandsTypeInv
  OBVIOUS
<1>1. "IDLE" \in GcodeWord
  <2>1. Word("bambu", "idle") = "IDLE"
    BY DEF Word, BambuWord
  <2> QED
    BY <2>1, WordIs DEF Adapter, DeviceState
<1>2. unit \in Unit /\ printerRow \in CommandedRow
  BY <1>1, PrinterCommandsAssumption DEF CommandsInit, Unit, CommandedRow, DeviceState
<1> QED
  BY <1>2 DEF CommandsInit, CommandsTypeInv, CommandsTypeOK, Unit, CommandedRow

LEMMA CommandsStepTyped == CommandsTypeInv /\ [CommandsNext]_commandVars => CommandsTypeInv'
<1> SUFFICES ASSUME CommandsTypeInv, [CommandsNext]_commandVars PROVE CommandsTypeInv'
  OBVIOUS
<1> DEFINE IsCommand(e) == e = NoCommandYet \/ e \in Command
           Same == UNCHANGED <<adapter, secondV>>
           Units == unit' \in Unit
           OwnRow == printerRow' \in CommandedRow
           Commands == /\ command' = [c \in Controller |-> command'[c]]
                       /\ \A c \in Controller : IsCommand(command'[c])
           Holds == holder' \in Controller \cup {NoController}
<1>1. Same /\ Units /\ OwnRow /\ Commands /\ Holds => CommandsTypeInv'
  BY DEF CommandsTypeInv, CommandsTypeOK, Unit, CommandedRow, Command
<1>2. /\ UNCHANGED unit => Units
      /\ UNCHANGED printerRow => OwnRow
      /\ UNCHANGED command => Commands
      /\ UNCHANGED holder => Holds
  BY DEF CommandsTypeInv, CommandsTypeOK, Unit, CommandedRow, Command
<1>3. /\ adapter \in Adapter /\ unit \in Unit /\ printerRow \in CommandedRow
      /\ holder \in Controller \cup {NoController}
      /\ \A c \in Controller : IsCommand(command[c])
  BY DEF CommandsTypeInv, CommandsTypeOK, Unit, CommandedRow, Command
<1>4. ASSUME NEW c \in Controller, NEW e, IsCommand(e), command' = [command EXCEPT ![c] = e]
      PROVE  Commands
  BY <1>4, <1>3 DEF CommandsTypeInv
<1>5. ASSUME NEW c \in Controller, command[c].step # "none" PROVE command[c] \in Command
  BY <1>3, <1>5 DEF NoCommandYet
<1>6. ASSUME NEW c \in Controller, Leave(c) PROVE Commands /\ Holds
  BY <1>3, <1>4, <1>6 DEF Leave
<1>7. ASSUME NEW c \in Controller, command[c] \in Command, Delivered(c) PROVE Units
  <2>1. command[c].on \in BOOLEAN
    BY <1>7 DEF Command
  <2>2. \A action : After(action, command[c].on) \in Unit
    BY <1>3, <2>1 DEF After, Unit, DeviceState
  <2> QED
    BY <1>7, <2>2 DEF Delivered
<1> HIDE DEF Units, OwnRow, Commands, Holds
<1>8. CASE DeviceGoes
  <2>1. DeviceSteps[unit.state] \subseteq DeviceState
    <3>1. unit.state \in DeviceState
      BY <1>3 DEF Unit
    <3>2. \A s \in DeviceState : DeviceSteps[s] \subseteq DeviceState
      BY DEF DeviceState, DeviceSteps
    <3> QED
      BY <3>1, <3>2
  <2>2. Units
    <3> DEFINE begins == IF Numbered /\ unit.state = "idle" THEN 1 ELSE 0
    <3>1. PICK to \in DeviceSteps[unit.state] :
            unit.run + begins <= MaxRuns /\ unit' = [unit EXCEPT !.state = to, !.run = @ + begins]
      BY <1>8 DEF DeviceGoes
    <3>2. unit.run \in 0..MaxRuns /\ begins \in {0, 1} /\ to \in DeviceState /\ MaxRuns \in Nat
      BY <1>3, <2>1, <3>1, PrinterCommandsAssumption DEF Unit
    <3> HIDE DEF begins
    <3>3. unit.run + begins \in 0..MaxRuns
      BY <3>1, <3>2
    <3> QED
      BY <1>3, <3>1, <3>2, <3>3 DEF Unit, Units
  <2> QED
    BY <1>1, <1>2, <1>8, <2>2 DEF DeviceGoes
<1>9. CASE WriteReport
  <2>1. Word(adapter, unit.state) \in GcodeWord /\ unit.light \in BOOLEAN
    BY <1>3, WordIs DEF Unit
  <2>2. OwnRow
    BY <1>3, <1>9, <2>1 DEF WriteReport, CommandedRow, OwnRow
  <2> QED
    BY <1>1, <1>2, <1>9, <2>2 DEF WriteReport
<1>10. CASE LightSettles
  <2>1. OwnRow
    BY <1>3, <1>10 DEF LightSettles, CommandedRow, OwnRow
  <2> QED
    BY <1>1, <1>2, <1>10, <2>1 DEF LightSettles
<1>11. ASSUME NEW c \in Controller, BeginControl(c) PROVE CommandsTypeInv'
  <2>1. PICK action \in OnTheLoop \cup OnThreads :
          LET shared == ~secondV /\ action \in OnThreads
          IN  /\ command' = [command EXCEPT ![c] =
                    [step |-> "open", action |-> action, run |-> unit.run,
                     on |-> action = "light" /\ ~printerRow.light, shared |-> shared]]
              /\ holder' = IF shared THEN c ELSE holder
    BY <1>11 DEF BeginControl
  <2> DEFINE e == [step |-> "open", action |-> action, run |-> unit.run,
                   on |-> action = "light" /\ ~printerRow.light,
                   shared |-> ~secondV /\ action \in OnThreads]
  <2>2. e \in Command
    BY <1>3 DEF Command, Unit
  <2>3. command' = [command EXCEPT ![c] = e]
    BY <2>1
  <2>4. Holds
    BY <1>3, <2>1 DEF Holds
  <2> HIDE DEF e
  <2>5. Commands
    BY <1>4, <2>2, <2>3
  <2> QED
    BY <1>1, <1>2, <1>11, <2>4, <2>5 DEF BeginControl
<1>12. ASSUME NEW c \in Controller, ComesBack(c) PROVE CommandsTypeInv'
  <2>1. Holds
    BY <1>12 DEF ComesBack, Holds
  <2> QED
    BY <1>1, <1>2, <1>12, <2>1 DEF ComesBack
<1>13. ASSUME NEW c \in Controller, SendControl(c) PROVE CommandsTypeInv'
  <2>1. command[c] \in Command
    BY <1>5, <1>13 DEF SendControl
  <2>2. command' = [command EXCEPT ![c].step = "sent"] => Commands
    <3> DEFINE e == [command[c] EXCEPT !.step = "sent"]
    <3>1. e \in Command
      BY <2>1 DEF Command
    <3>2. command' = [command EXCEPT ![c].step = "sent"] => command' = [command EXCEPT ![c] = e]
      OBVIOUS
    <3> HIDE DEF e
    <3> QED
      BY <1>4, <3>1, <3>2
  <2>3. CASE Publish(c) \/ Post(c)
    <3>1. Units
      BY <1>2, <1>7, <2>1, <2>3 DEF Publish, Post
    <3> QED
      BY <1>1, <1>2, <1>13, <2>2, <2>3, <3>1 DEF SendControl, Publish, Post
  <2>4. CASE AnswerLost(c) \/ SendFails(c)
    <3>1. Units
      BY <1>2, <1>7, <2>1, <2>4 DEF AnswerLost, SendFails
    <3> QED
      BY <1>1, <1>2, <1>6, <1>13, <2>4, <3>1 DEF SendControl, AnswerLost, SendFails
  <2> QED
    BY <1>13, <2>3, <2>4 DEF SendControl
<1>14. ASSUME NEW c \in Controller, LookAround(c) PROVE CommandsTypeInv'
  BY <1>1, <1>2, <1>6, <1>14 DEF LookAround
<1>15. ASSUME NEW c \in Controller, AnswerControl(c) PROVE CommandsTypeInv'
  <2>1. command[c].on \in BOOLEAN
    BY <1>5, <1>15 DEF AnswerControl, Command
  <2>2. \A a \in DOMAIN RowAfter : RowAfter[a] \in GcodeWord
    BY DEF GcodeWord
  <2>3. OwnRow
    <3>1. CASE command[c].action \in DOMAIN RowAfter
      <4> DEFINE action == command[c].action
      <4>1. /\ action \in DOMAIN RowAfter
            /\ printerRow' = CASE action \in DOMAIN RowAfter -> [printerRow EXCEPT !.gcode = RowAfter[action]]
                               [] action = "light" -> [printerRow EXCEPT !.light = command[c].on, !.toggled = TRUE]
                               [] OTHER -> printerRow
        BY <1>15, <3>1 DEF AnswerControl
      <4>2. action # "light"
        BY <4>1 DEF RowAfter
      <4> HIDE DEF action
      <4>3. printerRow' = [printerRow EXCEPT !.gcode = RowAfter[action]]
        BY <4>1, <4>2
      <4> QED
        BY <1>3, <2>2, <4>1, <4>3 DEF CommandedRow, OwnRow
    <3>2. CASE command[c].action = "light"
      <4>1. printerRow' = [printerRow EXCEPT !.light = command[c].on, !.toggled = TRUE]
        BY <1>15, <3>2 DEF AnswerControl, RowAfter
      <4> QED
        BY <1>3, <2>1, <4>1 DEF CommandedRow, OwnRow
    <3>3. CASE command[c].action \notin DOMAIN RowAfter /\ command[c].action # "light"
      BY <1>2, <1>15, <3>3 DEF AnswerControl
    <3> QED
      BY <3>1, <3>2, <3>3
  <2> QED
    BY <1>1, <1>2, <1>6, <1>15, <2>3 DEF AnswerControl
<1>16. CASE UNCHANGED commandVars
  BY <1>1, <1>2, <1>16 DEF commandVars
<1> QED
  BY <1>8, <1>9, <1>10, <1>11, <1>12, <1>13, <1>14, <1>15, <1>16 DEF CommandsNext

-----------------------------------------------------------------------------
(* Each small component starts in its types.                               *)
LEMMA SetupTypeStarts == SetupInit => SetupTypeOK
<1> SUFFICES ASSUME SetupInit PROVE SetupTypeOK
  OBVIOUS
<1>1. wizardRows \in 0..MaxWizard
  BY SetupAssumption DEF SetupInit
<1>2. visit \in [Visitor -> Route \cup {NotVisiting}]
  BY DEF SetupInit
<1> QED
  BY <1>1, <1>2 DEF SetupInit, SetupTypeOK

LEMMA PlugTypeStarts == PlugInit => PlugTypeInv
<1> SUFFICES ASSUME PlugInit PROVE PlugTypeInv
  OBVIOUS
<1>1. PlugCalls
  BY DEF PlugInit, PlugCalls, IsPlugCall, PlugPlace, NoPlugCall
<1>2. \A c \in PlugThread : plugCall[c].at \in {"none", "config", "request", "state", "store", "forget"}
  BY DEF PlugInit, NoPlugCall
<1>3. plugSet \in [kind : PlugKind \cup {"none"}, autoOn : BOOLEAN, autoOff : BOOLEAN]
  BY DEF PlugInit, NoPlug
<1>4. coolers \in [CoolTimer -> {"free", "waiting", "fired"}] /\ coolEntry \in CoolTimer \cup {NoTimer}
  BY DEF PlugInit
<1> QED
  BY <1>1, <1>2, <1>3, <1>4 DEF PlugInit, PlugTypeInv, PlugTypeOK

LEMMA AmsTypeStarts == AmsInit => AmsTypeInv
<1> SUFFICES ASSUME AmsInit PROVE AmsTypeInv
  OBVIOUS
<1>1. slotRow \in [shows : Content \cup {"none"}, spool : SpoolName, confirmed : BOOLEAN]
  BY DEF AmsInit, NoSlotRow, SpoolName
<1>2. \A y \in SlotSync : syncing[y] = NotSynchronising
  BY DEF AmsInit
<1>3. syncing = [y \in SlotSync |-> syncing[y]]
  BY DEF AmsInit
<1> QED
  BY <1>1, <1>2, <1>3 DEF AmsInit, AmsTypeInv, AmsTypeOK

LEMMA PollTypeStarts == PollInit => PollTypeInv
BY PollAssumption DEF PollInit, PollTypeInv, PollTypeOK, PollInv, Phase, StateWord, Kind

LEMMA CameraTypeStarts == CameraInit => CameraTypeInv
<1> SUFFICES ASSUME CameraInit PROVE CameraTypeInv
  OBVIOUS
<1>1. CoolTicks \in Nat /\ CoolTicks \in 0..CoolTicks
  BY CameraAssumption
<1>2. machine \in [Machine -> CameraPrinter]
  <2>1. NoMachine \in CameraPrinter
    BY DEF NoMachine, CameraPrinter
  <2> QED
    BY <2>1 DEF CameraInit
<1>3. <<>> \in Streams
  <2>1. <<>> \in [{} -> Url] /\ {} \in SUBSET Machine
    OBVIOUS
  <2> QED
    BY <2>1 DEF Streams
<1>4. config \in [there : BOOLEAN, streams : Streams, age : 0..CoolTicks]
  BY <1>1, <1>3 DEF CameraInit
<1>5. \A s \in Syncer : sync[s].step = "idle"
  BY DEF CameraInit, NotSyncing
<1>6. restarted \in [Syncer -> 0..CoolTicks] /\ sync = [s \in Syncer |-> sync[s]]
  BY <1>1 DEF CameraInit
<1> QED
  BY <1>2, <1>4, <1>5, <1>6 DEF CameraTypeInv, CameraTypeOK

LEMMA TimelapseTypeStarts == TimelapseInit => TimelapseTypeOK
<1> SUFFICES ASSUME TimelapseInit PROVE TimelapseTypeOK
  OBVIOUS
<1>1. clip \in [ClipId -> ClipRow]
  BY DEF TimelapseInit, NoClip, ClipRow
<1>2. service \in ServicePlace
  <2>1. 0 \in 0..(StaleEvery - 1)
    BY TimelapseAssumption
  <2> QED
    BY <2>1, RestTyped DEF TimelapseInit
<1>3. enough \in [ClipId -> BOOLEAN] /\ following \in [TimelapseJob -> 0..MaxClips] /\ stops \in 0..MaxStops
      /\ newest \in TimelapseJob \cup {0} /\ printing \in SUBSET TimelapseJob
  BY TimelapseAssumption DEF TimelapseInit
<1> QED
  BY <1>1, <1>2, <1>3 DEF TimelapseInit, TimelapseTypeOK, ClipRow, ServicePlace

-----------------------------------------------------------------------------
(* The inductive invariant of the component that runs.                     *)
FarmTypeInv ==
    /\ part = "jobs" => JobsTypeInv
    /\ part = "spools" => SpoolTypeInv
    /\ part = "poll" => PollTypeInv
    /\ part = "digest" => DigestTypeOK
    /\ part = "telemetry" => TelemetryInv
    /\ part = "sessions" => SessionsTypeOK
    /\ part = "orders" => OrderTypeInv
    /\ part = "cameras" => CameraTypeInv
    /\ part = "library" => LibraryInv
    /\ part = "timelapses" => TimelapseTypeOK
    /\ part = "alerts" => AlertsTypeInv
    /\ part = "outbound" => OutboundInv
    /\ part = "commands" => CommandsTypeInv
    /\ part = "orgs" => OrganizationsTypeOK
    /\ part = "archives" => ArchiveTypeInv
    /\ part = "ams" => AmsTypeInv
    /\ part = "smart_plugs" => PlugTypeInv
    /\ part = "upkeep" => UpkeepTypeInv
    /\ part = "onboarding" => SetupTypeOK

LEMMA FarmTypeStarts == FarmInit => FarmTypeInv
<1> SUFFICES ASSUME FarmInit PROVE FarmTypeInv
  OBVIOUS
<1>1. /\ JobsInit /\ SpoolInit /\ PollInit /\ DigestInit /\ TelemetryInit /\ SessionsInit
      /\ OrderInit /\ CameraInit /\ LibraryInit /\ TimelapseInit /\ AlertsInit /\ OutboundInit
      /\ CommandsInit /\ OrganizationsInit /\ ArchiveInit /\ AmsInit /\ PlugInit /\ UpkeepInit
      /\ SetupInit
  BY DEF FarmInit
<1>2. /\ JobsTypeInv /\ SpoolTypeInv /\ PollTypeInv /\ DigestTypeOK /\ TelemetryInv
      /\ SessionsTypeOK /\ OrderTypeInv /\ CameraTypeInv /\ LibraryInv /\ TimelapseTypeOK
  BY <1>1, JobsTypeStarts, SpoolTypeStarts, PollTypeStarts, DigestTypeStarts, TelemetryStarts,
     SessionsTypeStarts, OrderTypeStarts, CameraTypeStarts, LibraryStarts, TimelapseTypeStarts
<1>3. /\ AlertsTypeInv /\ OutboundInv /\ CommandsTypeInv /\ OrganizationsTypeOK /\ ArchiveTypeInv
      /\ AmsTypeInv /\ PlugTypeInv /\ UpkeepTypeInv /\ SetupTypeOK
  BY <1>1, AlertsTypeStarts, OutboundStarts, CommandsTypeStarts, OrganizationsTypeStarts,
     ArchiveTypeStarts, AmsTypeStarts, PlugTypeStarts, UpkeepTypeStarts, SetupTypeStarts
<1> QED
  BY <1>2, <1>3 DEF FarmTypeInv

(* A component that runs keeps its invariant; the choice of it stays.      *)
LEMMA FarmStepTyped == FarmTypeInv /\ [FarmNext]_farmVars => FarmTypeInv'
<1> SUFFICES ASSUME FarmTypeInv, [FarmNext]_farmVars PROVE FarmTypeInv'
  OBVIOUS
<1>1. CASE part = "jobs" /\ JobsNext /\ UNCHANGED BesideJobs
  BY <1>1, JobsStepTyped DEF FarmTypeInv, BesideJobs
<1>2. CASE part = "spools" /\ SpoolNext /\ UNCHANGED BesideSpool
  BY <1>2, SpoolStepTyped DEF FarmTypeInv, BesideSpool
<1>3. CASE part = "quota" /\ QuotaNext /\ UNCHANGED BesideQuota
  BY <1>3 DEF FarmTypeInv, BesideQuota
<1>4. CASE part = "poll" /\ PollNext /\ UNCHANGED BesidePoll
  BY <1>4, PollStepTyped DEF FarmTypeInv, BesidePoll
<1>5. CASE part = "hub" /\ HubNext /\ UNCHANGED BesideHub
  BY <1>5 DEF FarmTypeInv, BesideHub
<1>6. CASE part = "vision" /\ VisionNext /\ UNCHANGED BesideVision
  BY <1>6 DEF FarmTypeInv, BesideVision
<1>7. CASE part = "digest" /\ DigestNext /\ UNCHANGED BesideDigest
  BY <1>7, DigestStepTyped DEF FarmTypeInv, BesideDigest
<1>8. CASE part = "telemetry" /\ TelemetryNext /\ UNCHANGED BesideTelemetry
  BY <1>8, TelemetryKept DEF FarmTypeInv, BesideTelemetry
<1>9. CASE part = "sessions" /\ SessionsNext /\ UNCHANGED BesideSessions
  BY <1>9, SessionsStepTyped DEF FarmTypeInv, BesideSessions
<1>10. CASE part = "orders" /\ OrderNext /\ UNCHANGED BesideOrder
  BY <1>10, OrderStepTyped DEF FarmTypeInv, BesideOrder
<1>11. CASE part = "cameras" /\ CameraNext /\ UNCHANGED BesideCamera
  BY <1>11, CameraStepTyped DEF FarmTypeInv, BesideCamera
<1>12. CASE part = "library" /\ LibraryNext /\ UNCHANGED BesideLibrary
  BY <1>12, LibraryStep DEF FarmTypeInv, BesideLibrary
<1>13. CASE part = "timelapses" /\ TimelapseNext /\ UNCHANGED BesideTimelapse
  BY <1>13, TimelapseStepTyped DEF FarmTypeInv, BesideTimelapse
<1>14. CASE part = "alerts" /\ AlertsNext /\ UNCHANGED BesideAlerts
  BY <1>14, AlertsStepTyped DEF FarmTypeInv, BesideAlerts
<1>15. CASE part = "outbound" /\ OutboundNext /\ UNCHANGED BesideOutbound
  BY <1>15, OutboundStep DEF FarmTypeInv, BesideOutbound
<1>16. CASE part = "commands" /\ CommandsNext /\ UNCHANGED BesideCommands
  BY <1>16, CommandsStepTyped DEF FarmTypeInv, BesideCommands
<1>17. CASE part = "orgs" /\ OrganizationsNext /\ UNCHANGED BesideOrganizations
  BY <1>17, OrganizationsStepTyped DEF FarmTypeInv, BesideOrganizations
<1>18. CASE part = "archives" /\ ArchiveNext /\ UNCHANGED BesideArchive
  BY <1>18, ArchiveStepTyped DEF FarmTypeInv, BesideArchive
<1>19. CASE part = "ams" /\ AmsNext /\ UNCHANGED BesideAms
  BY <1>19, AmsStepTyped DEF FarmTypeInv, BesideAms
<1>20. CASE part = "smart_plugs" /\ PlugNext /\ UNCHANGED BesidePlug
  BY <1>20, PlugStepTyped DEF FarmTypeInv, BesidePlug
<1>21. CASE part = "upkeep" /\ UpkeepNext /\ UNCHANGED BesideUpkeep
  BY <1>21, UpkeepStepTyped DEF FarmTypeInv, BesideUpkeep
<1>22. CASE part = "onboarding" /\ SetupNext /\ UNCHANGED BesideSetup
  BY <1>22, SetupStepTyped DEF FarmTypeInv, BesideSetup
<1>23. CASE UNCHANGED farmVars
  <2>1. /\ part' = part
        /\ UNCHANGED <<jobVars, spoolVars, pollVars, digestVars, telemetryVars, sessionVars,
                       orderVars, cameraVars, libraryVars, timelapseVars>>
        /\ UNCHANGED <<alertVars, outboundVars, commandVars, orgVars, archiveVars, amsVars,
                       plugVars, upkeepVars, setupVars>>
    BY <1>23 DEF farmVars
  <2>2. /\ JobsTypeInv => JobsTypeInv'
        /\ SpoolTypeInv => SpoolTypeInv'
        /\ PollTypeInv => PollTypeInv'
        /\ DigestTypeOK => DigestTypeOK'
        /\ TelemetryInv => TelemetryInv'
        /\ SessionsTypeOK => SessionsTypeOK'
        /\ OrderTypeInv => OrderTypeInv'
        /\ CameraTypeInv => CameraTypeInv'
        /\ LibraryInv => LibraryInv'
        /\ TimelapseTypeOK => TimelapseTypeOK'
    BY <2>1, JobsStepTyped, SpoolStepTyped, PollStepTyped, DigestStepTyped, TelemetryKept,
       SessionsStepTyped, OrderStepTyped, CameraStepTyped, LibraryStep, TimelapseStepTyped
  <2>3. /\ AlertsTypeInv => AlertsTypeInv'
        /\ OutboundInv => OutboundInv'
        /\ CommandsTypeInv => CommandsTypeInv'
        /\ OrganizationsTypeOK => OrganizationsTypeOK'
        /\ ArchiveTypeInv => ArchiveTypeInv'
        /\ AmsTypeInv => AmsTypeInv'
        /\ PlugTypeInv => PlugTypeInv'
        /\ UpkeepTypeInv => UpkeepTypeInv'
        /\ SetupTypeOK => SetupTypeOK'
    BY <2>1, AlertsStepTyped, OutboundStep, CommandsStepTyped, OrganizationsStepTyped,
       ArchiveStepTyped, AmsStepTyped, PlugStepTyped, UpkeepStepTyped, SetupStepTyped
  <2> QED
    BY <2>1, <2>2, <2>3 DEF FarmTypeInv
<1> QED
  BY <1>1, <1>2, <1>3, <1>4, <1>5, <1>6, <1>7, <1>8, <1>9, <1>10, <1>11, <1>12, <1>13, <1>14,
     <1>15, <1>16, <1>17, <1>18, <1>19, <1>20, <1>21, <1>22, <1>23 DEF FarmNext

(* Types of the whole farm, for any number of rows, requests, threads and  *)
(* bounds: whichever component runs, its tables keep the values their      *)
(* columns allow and its requests, timers and caches stay at the stages    *)
(* its handlers know.                                                      *)
THEOREM FarmTypes == FarmSpec => []FarmTypeOK
<1>1. FarmTypeInv => FarmTypeOK
  <2>1. OrderTypeInv => OrderTypeOK
    BY DEF OrderTypeInv
  <2>2. PollTypeInv => PollTypeOK
    BY DEF PollTypeInv
  <2>3. CameraTypeInv => CameraTypeOK
    BY DEF CameraTypeInv
  <2>4. SpoolTypeInv => SpoolTypeOK
    BY DEF SpoolTypeInv
  <2>5. AlertsTypeInv => AlertsTypeOK
    BY DEF AlertsTypeInv
  <2>6. CommandsTypeInv => CommandsTypeOK
    BY DEF CommandsTypeInv
  <2>7. ArchiveTypeInv => ArchiveTypeOK
    BY DEF ArchiveTypeInv
  <2>8. (AmsTypeInv => AmsTypeOK) /\ (PlugTypeInv => PlugTypeOK) /\ (UpkeepTypeInv => UpkeepTypeOK)
    BY DEF AmsTypeInv, PlugTypeInv, UpkeepTypeInv
  <2> QED
    BY <2>1, <2>2, <2>3, <2>4, <2>5, <2>6, <2>7, <2>8, JobsTyped, TelemetryTyped, LibraryTyped,
       OutboundTyped DEF FarmTypeInv, FarmTypeOK
<1> QED
  BY <1>1, FarmTypeStarts, FarmStepTyped, PTL DEF FarmSpec
=============================================================================
