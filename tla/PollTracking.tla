---------------------------- MODULE PollTracking ----------------------------
(***************************************************************************)
(* The monitors that poll or listen to a printer and log its prints:       *)
(* PrusaLink and Elegoo through notifications/job_events.py, which keeps   *)
(* the row of the print in memory only, and Moonraker on its own, which    *)
(* looks for a running row in the database first.                          *)
(*                                                                         *)
(* A monitor acts on the change of the state it was told last; what the    *)
(* printer does between two polls is not seen.  No row of these monitors   *)
(* is ever linked to a job: PrusaLink and Elegoo pass none, and the        *)
(* queries of Moonraker's auto-link name columns that jobs does not have.  *)
(***************************************************************************)
EXTENDS Naturals, Sequences

CONSTANTS
    MaxRows     \* bound on the rows inserted

ASSUME PollAssumption == MaxRows \in Nat

VARIABLES
    kind,       \* which monitor it is
    phase,      \* what the printer does
    last,       \* the monitor's _last_state (_prev_state)
    active,     \* the row tracked, 0 for none: _active_print_jobs, _current_job_db_id
    prints      \* status of the printer's rows in print_jobs, by id

pollVars == <<kind, phase, last, active, prints>>

Kind == {"prusalink", "elegoo", "moonraker"}
Phase == {"idle", "homing", "warming", "printing", "paused", "finished", "stopped", "error"}
PrintStatus == {"running", "completed", "failed"}

(* internal_state of the adapter's status, by what the printer does.       *)
(* Elegoo's HOMING is also LEVELING, PrusaLink's PAUSED also ATTENTION; a  *)
(* print cancelled on Klipper is IDLE like a finished one.                 *)
Reported ==
    CASE kind = "prusalink" ->
            [idle |-> "IDLE", homing |-> "BUSY", warming |-> "BUSY",
             printing |-> "PRINTING", paused |-> "PAUSED",
             finished |-> "FINISHED", stopped |-> "STOPPED", error |-> "ERROR"]
      [] kind = "elegoo" ->
            [idle |-> "IDLE", homing |-> "HOMING", warming |-> "HEATING",
             printing |-> "PRINTING", paused |-> "PAUSED",
             finished |-> "FINISHED", stopped |-> "STOPPING", error |-> "IDLE"]
      [] kind = "moonraker" ->
            [idle |-> "IDLE", homing |-> "RUNNING", warming |-> "RUNNING",
             printing |-> "RUNNING", paused |-> "PAUSE",
             finished |-> "IDLE", stopped |-> "IDLE", error |-> "FAILED"]

RunningPrints == {r \in DOMAIN prints : prints[r] = "running"}

Newest(R) == CHOOSE r \in R : \A q \in R : q <= r

PollInit ==
    /\ kind \in Kind
    /\ phase = "idle" /\ last = "NONE"
    /\ active = 0
    /\ prints = <<>>

-----------------------------------------------------------------------------
(* The printer.                                                            *)
Goes(from, to) ==
    /\ phase \in from /\ phase' \in to
    /\ UNCHANGED <<kind, last, active, prints>>

Ending == {"finished", "stopped", "error"}

PrinterGoes ==
    \/ Goes({"idle"} \cup Ending, {"homing", "warming"})
    \/ Goes({"homing", "warming"}, {"homing", "warming", "printing"})
    \/ Goes({"paused"}, {"printing"})
    \/ Goes({"printing"}, {"paused", "finished"})
    \/ Goes({"homing", "warming", "printing", "paused"}, {"stopped", "error"})
    \/ Goes(Ending, {"idle"})

-----------------------------------------------------------------------------
(* The branches of _process_status on the change from last to s.  A report *)
(* that could not be fetched is OFFLINE, which no branch is about.         *)

Heated == {"PRINTING", "HEATING"}
Printing == Heated \cup {"HOMING"}

Starts(s) ==
    CASE kind = "prusalink" -> s = "PRINTING"
      [] kind = "elegoo" -> s \in Printing /\ last \notin Printing
      [] kind = "moonraker" -> s = "RUNNING" /\ last # "PAUSE"

Completes(s) ==
    CASE kind = "prusalink" -> s \in {"FINISHED", "STOPPED"}
      [] kind = "elegoo" -> s \in {"FINISHED", "STOPPING"} /\ last \in Heated
      [] kind = "moonraker" -> s = "IDLE" /\ last \in {"RUNNING", "PAUSE"}

Fails(s) ==
    CASE kind = "prusalink" -> s = "ERROR"
      [] kind = "elegoo" -> s = "IDLE" /\ last \in Printing
      [] kind = "moonraker" -> s = "FAILED" /\ last \in {"RUNNING", "PAUSE"}

Polled(s) == s # last /\ (s = Reported[phase] \/ (s = "OFFLINE" /\ kind # "elegoo"))

(* on_print_start inserts whatever is tracked and remembers the new row;   *)
(* _job_started does nothing while one is tracked, and tracks a running    *)
(* row rather than insert a second.                                        *)
Tracked(new) == new

ResumableFault == {}                \* no look at the database first
ResumablePrints == IF kind = "moonraker" THEN RunningPrints ELSE {}

PollStart(s) ==
    /\ Polled(s) /\ Starts(s)
    /\ last' = s
    /\ IF kind = "moonraker" /\ active # 0 THEN UNCHANGED <<active, prints>>
       ELSE IF ResumablePrints # {} THEN active' = Newest(ResumablePrints) /\ UNCHANGED prints
       ELSE /\ Len(prints) < MaxRows
            /\ prints' = Append(prints, "running")
            /\ active' = Tracked(Len(prints) + 1)
    /\ UNCHANGED <<kind, phase>>

(* What is tracked after an end; the maps of job_events pop it at once     *)
(* (fault: they only get it).                                              *)
ForgottenFault == active
Forgotten == 0

PollEnd(s) ==
    /\ Polled(s) /\ (Completes(s) \/ Fails(s))
    /\ last' = s
    /\ active' = Forgotten
    /\ prints' = IF active = 0 THEN prints
                 ELSE [prints EXCEPT ![active] = IF Completes(s) THEN "completed" ELSE "failed"]
    /\ UNCHANGED <<kind, phase>>

PollOther(s) ==
    /\ Polled(s) /\ ~Starts(s) /\ ~Completes(s) /\ ~Fails(s)
    /\ last' = s
    /\ UNCHANGED <<kind, phase, active, prints>>

(* The database refuses the statement, which is logged.  At an end the map *)
(* has lost the row, Moonraker keeps it; its UPDATE names two columns that *)
(* print_jobs gets from no migration, so with such a table this is always  *)
(* the case.                                                               *)
PollNotRecorded(s) ==
    /\ Polled(s) /\ (Starts(s) \/ Completes(s) \/ Fails(s))
    /\ last' = s
    /\ active' = IF kind = "moonraker" \/ Starts(s) THEN active ELSE 0
    /\ UNCHANGED <<kind, phase, prints>>

(* Moonraker, after an exception that left the poll.                       *)
RecoverAfterReconnect ==
    /\ kind = "moonraker" /\ RunningPrints # {}
    /\ active' = Newest(RunningPrints)
    /\ UNCHANGED <<kind, phase, last, prints>>

(* The daemon is restarted: nothing in memory is left.                     *)
RestartMonitor ==
    /\ last' = "NONE" /\ active' = 0
    /\ UNCHANGED <<kind, phase, prints>>

PollStep ==
    \/ \E s \in {Reported[phase], "OFFLINE"} :
        PollStart(s) \/ PollEnd(s) \/ PollOther(s) \/ PollNotRecorded(s)
    \/ RecoverAfterReconnect \/ RestartMonitor

PollNext == PrinterGoes \/ PollStep

PollSpec == PollInit /\ [][PollNext]_pollVars

-----------------------------------------------------------------------------
StateWord == {"NONE", "OFFLINE", "IDLE", "BUSY", "HOMING", "HEATING", "PRINTING", "RUNNING",
              "PAUSED", "PAUSE", "FINISHED", "STOPPED", "STOPPING", "ERROR", "FAILED"}

PollTypeOK ==
    /\ kind \in Kind /\ phase \in Phase
    /\ last \in StateWord
    /\ prints \in Seq(PrintStatus)
    /\ active \in 0 .. Len(prints)

(* Outages, restarts and lost statements never give a Moonraker printer a  *)
(* second running row (CHANGELOG.md:763, "Duplicate print_jobs rows on     *)
(* reconnect").                                                            *)
MoonrakerOneRunning ==
    kind = "moonraker" => \A q, r \in RunningPrints : q = r

(* Once a monitor has inserted a newer row, it writes no end to an older   *)
(* one, and an end that was written is not revised, although what is       *)
(* tracked outlives outages, refused statements and starts.  Whose print   *)
(* the newest row is, this does not say: after an end that was missed      *)
(* Moonraker goes on with the row of the print before, and after a start   *)
(* that was refused PrusaLink and Elegoo do.                               *)
EndsNewestRow ==
    [][\A r \in DOMAIN prints : prints'[r] # prints[r] =>
           prints[r] = "running" /\ r = Len(prints)]_pollVars
=============================================================================
