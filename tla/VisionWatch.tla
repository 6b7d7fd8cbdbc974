---------------------------- MODULE VisionWatch -----------------------------
(***************************************************************************)
(* The vision monitor of one printer with a camera (modules/vision): the   *)
(* daemon's scan starts and stops a thread as the printer's gcode_state    *)
(* in the database says; a thread captures frames, confirms a detection    *)
(* over the last three, writes it down and may pause the printer, which    *)
(* takes long; meanwhile an operator reviews.                              *)
(*                                                                         *)
(* The four kinds of detection are judged apart from each other, each with *)
(* its own history: one of them is followed.  Whether its model sees       *)
(* something is open at each frame, and so is whether the layer or the     *)
(* state last told to the thread call for it: then no frame counts.        *)
(* Settings are changed at any time: each scan reads some.                 *)
(***************************************************************************)
EXTENDS Naturals, Sequences, SequencesExt, FiniteSets, FiniteSetsExt

CONSTANTS
    Thread,     \* threads there may be at one time
    NoThread,
    Cooldown,   \* ALERT_COOLDOWN, in ticks
    MaxFrames,  \* bound on the frames captured
    MaxFound    \* bound on the detections

ASSUME VisionAssumption ==
    /\ NoThread \notin Thread
    /\ Cooldown \in Nat /\ MaxFrames \in Nat /\ MaxFound \in Nat

VARIABLES
    detector,   \* the kind of detection followed
    gcode,      \* printers.gcode_state
    mapped,     \* the daemon's thread of the printer
    thread,     \* each thread, or Ended
    frames,     \* frames captured
    found       \* vision_detections: the status of each row

visionVars == <<detector, gcode, mapped, thread, frames, found>>

Detector == {"spaghetti", "first_layer"}    \* detachment, build_plate_empty: as spaghetti
Gcode == {"RUNNING", "PAUSED", "IDLE"}    \* PAUSED stands for the states not watched

Ended == [step |-> "ended"]

VisionInit ==
    /\ detector \in Detector
    /\ gcode = "IDLE"
    /\ mapped = NoThread
    /\ thread = [t \in Thread |-> Ended]
    /\ frames = 0
    /\ found = <<>>

-----------------------------------------------------------------------------
(* _scan_printers                                                          *)

(* RUNNING, or IDLE when the settings of this scan watch for a plate.      *)
Watchable == gcode \in {"RUNNING", "IDLE"}

(* The thread keeps the settings of its start.                             *)
StartThread(t) ==
    /\ mapped = NoThread /\ thread[t] = Ended
    /\ Watchable
    /\ \E pause \in BOOLEAN :
        thread' = [thread EXCEPT ![t] = [step |-> "asleep", running |-> TRUE, pause |-> pause,
                                         history |-> <<>>, cool |-> 0]]
    /\ mapped' = t
    /\ UNCHANGED <<detector, gcode, frames, found>>

(* A thread that is not running ends when its turn is over, at once if it  *)
(* sleeps: it does nothing more.                                           *)
Settled(th) == IF th.step = "asleep" /\ ~th.running THEN Ended ELSE th

(* stop (fault: the thread is only dropped from the map)                   *)
StoppedFault(th) == th
Stopped(th) == [th EXCEPT !.running = FALSE]

StopThread ==
    /\ mapped # NoThread /\ gcode # "RUNNING"
    /\ thread' = [thread EXCEPT ![mapped] = Settled(Stopped(@))]
    /\ mapped' = NoThread
    /\ UNCHANGED <<detector, gcode, frames, found>>

-----------------------------------------------------------------------------
(* PrinterVisionThread                                                     *)

(* _update_history and _should_trigger                                     *)
LastThree(h) == IF Len(h) > 3 THEN Tail(h) ELSE h

Confirmed(h) ==
    IF detector = "first_layer" THEN h # <<>> /\ Last(h)
    ELSE Len(h) = 3 /\ Cardinality({i \in 1 .. 3 : h[i]}) >= 2

Capture(t) ==
    /\ thread[t].step = "asleep" /\ thread[t].running
    /\ frames < MaxFrames
    /\ frames' = frames + 1
    /\ \E above \in BOOLEAN :
        LET h == LastThree(Append(thread[t].history, above))
            trigger == thread[t].cool = 0 /\ Confirmed(h)
        IN  thread' = [thread EXCEPT ![t].history = h,
                                     ![t].cool = IF trigger THEN Cooldown ELSE @,
                                     ![t].step = IF trigger THEN "detected" ELSE @]
    /\ UNCHANGED <<detector, gcode, mapped, found>>

(* The history after a trigger.                                            *)
Cleared(h) == <<>>

(* _on_detection: the frame is saved and the row inserted; the insert may  *)
(* fail, which is logged.                                                  *)
RecordDetection(t) ==
    /\ thread[t].step = "detected"
    /\ \/ /\ Len(found) < MaxFound
          /\ found' = Append(found, [status |-> "pending"])
       \/ UNCHANGED found
    /\ thread' = [thread EXCEPT ![t] =
                     Settled([@ EXCEPT !.step = IF thread[t].pause THEN "pausing" ELSE "asleep",
                                       !.history = Cleared(@)])]
    /\ UNCHANGED <<detector, gcode, mapped, frames>>

(* Saving the frame raises: the iteration ends there.                      *)
DetectionRaises(t) ==
    /\ thread[t].step = "detected"
    /\ thread' = [thread EXCEPT ![t] = Settled([@ EXCEPT !.step = "asleep"])]
    /\ UNCHANGED <<detector, gcode, mapped, frames, found>>

(* The rows an auto-pause may mark, as its UPDATE finds them.              *)
Markable == {d \in DOMAIN found : found[d].status = "pending"}

(* _auto_pause: the printer has answered; the newest such row is marked.   *)
AutoPaused(t) ==
    /\ thread[t].step = "pausing"
    /\ gcode' = "PAUSED"
    /\ found' = IF Markable = {} THEN found
                ELSE [found EXCEPT ![Max(Markable)].status = "auto_paused"]
    /\ thread' = [thread EXCEPT ![t] = Settled([@ EXCEPT !.step = "asleep"])]
    /\ UNCHANGED <<detector, mapped, frames>>

AutoPauseFails(t) ==
    /\ thread[t].step = "pausing"
    /\ thread' = [thread EXCEPT ![t] = Settled([@ EXCEPT !.step = "asleep"])]
    /\ UNCHANGED <<detector, gcode, mapped, frames, found>>

CoolDown ==
    /\ \E t \in Thread : thread[t] # Ended /\ thread[t].cool > 0
    /\ thread' = [t \in Thread |-> IF thread[t] # Ended /\ thread[t].cool > 0
                                   THEN [thread[t] EXCEPT !.cool = @ - 1] ELSE thread[t]]
    /\ UNCHANGED <<detector, gcode, mapped, frames, found>>

-----------------------------------------------------------------------------
(* review_vision_detection                                                 *)
Review(d, verdict) ==
    /\ found' = [found EXCEPT ![d].status = verdict]
    /\ UNCHANGED <<detector, gcode, mapped, thread, frames>>

(* dismiss_and_resume: dismissed, and the printer resumed unless it runs;  *)
(* the resume may fail                                                     *)
DismissAndResume(d) ==
    /\ found' = [found EXCEPT ![d].status = "dismissed"]
    /\ gcode' \in {gcode, "RUNNING"}
    /\ UNCHANGED <<detector, mapped, thread, frames>>

(* The printer's monitor writes what it reports.                           *)
ReportState ==
    /\ gcode' \in Gcode
    /\ UNCHANGED <<detector, mapped, thread, frames, found>>

(* The daemon is restarted: its threads end with it.                       *)
RestartVision ==
    /\ mapped' = NoThread
    /\ thread' = [t \in Thread |-> Ended]
    /\ UNCHANGED <<detector, gcode, frames, found>>

ThreadStep(t) ==
    \/ Capture(t) \/ RecordDetection(t) \/ DetectionRaises(t)
    \/ AutoPaused(t) \/ AutoPauseFails(t)

OperatorStep ==
    \E d \in DOMAIN found :
        DismissAndResume(d) \/ \E verdict \in {"confirmed", "dismissed"} : Review(d, verdict)

VisionNext ==
    \/ \E t \in Thread : StartThread(t) \/ ThreadStep(t)
    \/ StopThread \/ CoolDown \/ OperatorStep \/ ReportState \/ RestartVision

VisionSpec == VisionInit /\ [][VisionNext]_visionVars

-----------------------------------------------------------------------------
(* A thread that was stopped while it captured or paused the printer runs  *)
(* to the end of its turn beside the one started since, but only the one   *)
(* in the map goes on.                                                     *)
OneThreadGoesOn ==
    \A t \in Thread : thread[t] # Ended /\ thread[t].running => t = mapped
=============================================================================
