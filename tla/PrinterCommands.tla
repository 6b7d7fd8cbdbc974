--------------------------- MODULE PrinterCommands ---------------------------
(***************************************************************************)
(* What people send to one printer while it prints: printers/              *)
(* routes_controls.py and routes_status.py through route_utils.py to the   *)
(* four adapters (adapters/*.py; telemetry/bambu/commands.py when the      *)
(* second telemetry is switched on), and what stands in its row of         *)
(* printers afterwards.  The monitor of the printer is another process     *)
(* and writes the same columns.                                            *)
(*                                                                         *)
(* The routes are coroutines that call the blocking adapters, so that one  *)
(* of them runs at a time and nothing else of the event loop with it; the  *)
(* light, the live status and the spool sync run on threads.  A Bambu      *)
(* connection made for a command has a client id of its own; those for the *)
(* light, the live status and the spool sync share one, and the broker     *)
(* drops the older of two connections with the same id, which then comes   *)
(* back and drops the other.                                               *)
(*                                                                         *)
(* The printer itself is external.                                         *)
(***************************************************************************)
EXTENDS Naturals, FiniteSets

CONSTANTS Controller,    \* requests at a time
          NoController,
          MaxRuns        \* prints the printer makes

ASSUME PrinterCommandsAssumption == NoController \notin Controller /\ MaxRuns \in Nat

VARIABLES adapter,     \* api_type
          secondV,     \* ODIN_TELEMETRY_V2
          unit,        \* what the printer does: state, number of the print, light
          printerRow,  \* gcode_state, lights_on, and lights_toggled_at < 20 s ago
          command,     \* [Controller -> where its request is]
          holder       \* the connection that has the shared client id

commandVars == <<adapter, secondV, unit, printerRow, command, holder>>

Adapter == {"bambu", "moonraker", "prusalink", "elegoo"}
DeviceState == {"idle", "printing", "paused", "ended"}
Active == {"printing", "paused"}
NoCommandYet == [step |-> "none"]
OnTheLoop == {"stop_print", "pause_print", "resume_print", "tune"}
OnThreads == {"light", "look"}

(* gcode_state as the monitors write it: a Bambu's own word, the state of  *)
(* Klipper's print_stats translated, PrusaLink's and SDCP's own words.     *)
BambuWord == [idle |-> "IDLE", printing |-> "RUNNING", paused |-> "PAUSE", ended |-> "FINISH"]
MoonrakerWord == [idle |-> "IDLE", printing |-> "RUNNING", paused |-> "PAUSE", ended |-> "IDLE"]
PrusaLinkWord == [idle |-> "IDLE", printing |-> "PRINTING", paused |-> "PAUSED", ended |-> "FINISHED"]
ElegooWord == PrusaLinkWord
Word(kind, state) ==
    [bambu |-> BambuWord, moonraker |-> MoonrakerWord,
     prusalink |-> PrusaLinkWord, elegoo |-> ElegooWord][kind][state]

(* What the routes write when the command went out.                        *)
RowAfter == [stop_print |-> "IDLE", pause_print |-> "PAUSED", resume_print |-> "RUNNING"]
GcodeWord == {Word(k, s) : k \in Adapter, s \in DeviceState} \cup {RowAfter[a] : a \in DOMAIN RowAfter}

CommandsTypeOK ==
    /\ adapter \in Adapter /\ secondV \in BOOLEAN
    /\ unit \in [state : DeviceState, run : 0..MaxRuns, light : BOOLEAN]
    /\ printerRow \in [gcode : GcodeWord, light : BOOLEAN, toggled : BOOLEAN]
    /\ \A c \in Controller :
          \/ command[c] = NoCommandYet
          \/ command[c] \in [step : {"open", "sent"}, action : OnTheLoop \cup OnThreads,
                             run : 0..MaxRuns, on : BOOLEAN, shared : BOOLEAN]
    /\ holder \in Controller \cup {NoController}

CommandsInit ==
    /\ adapter \in Adapter /\ secondV \in BOOLEAN
    /\ unit = [state |-> "idle", run |-> 0, light |-> FALSE]
    /\ printerRow = [gcode |-> "IDLE", light |-> FALSE, toggled |-> FALSE]
    /\ command = [c \in Controller |-> NoCommandYet]
    /\ holder = NoController

-----------------------------------------------------------------------------
(* Only PrusaLink tells its prints apart: status.job_id.                   *)
Numbered == adapter = "prusalink"

(* The printer.                                                            *)
DeviceSteps == [idle |-> {"printing"}, printing |-> {"paused", "ended"},
                paused |-> {"printing"}, ended |-> {"idle"}]

DeviceGoes ==
    /\ \E to \in DeviceSteps[unit.state] :
          LET begins == IF Numbered /\ unit.state = "idle" THEN 1 ELSE 0
          IN  /\ unit.run + begins <= MaxRuns
              /\ unit' = [unit EXCEPT !.state = to, !.run = @ + begins]
    /\ UNCHANGED <<adapter, secondV, printerRow, command, holder>>

Obeyable(action) ==
    CASE action = "stop_print" -> unit.state \in Active
      [] action = "pause_print" -> unit.state = "printing"
      [] action = "resume_print" -> unit.state = "paused"
      [] OTHER -> TRUE

After(action, on) ==
    CASE action = "stop_print" -> [unit EXCEPT !.state = "idle"]
      [] action = "pause_print" -> [unit EXCEPT !.state = "paused"]
      [] action = "resume_print" -> [unit EXCEPT !.state = "printing"]
      [] action = "light" -> [unit EXCEPT !.light = on]
      [] OTHER -> unit

-----------------------------------------------------------------------------
(* A request reads the row, and its adapter connects.  A PrusaLink command *)
(* is addressed to a print, whose number is asked first; without one the   *)
(* route answers 503.  The light turns to what the row says it is not.     *)
BeginControl(c) ==
    /\ command[c] = NoCommandYet
    /\ \E action \in OnTheLoop \cup OnThreads :
          /\ action \in {"tune", "light", "look"} => adapter = "bambu"
          /\ action \in OnTheLoop =>
                \A other \in Controller \ {c} :
                    command[other] # NoCommandYet => command[other].action \in OnThreads
          /\ Numbered => unit.state \in Active
          /\ LET shared == ~secondV /\ action \in OnThreads
             IN  /\ command' = [command EXCEPT ![c] =
                       [step |-> "open", action |-> action, run |-> unit.run,
                        on |-> action = "light" /\ ~printerRow.light, shared |-> shared]]
                 /\ holder' = IF shared THEN c ELSE holder
    /\ UNCHANGED <<adapter, secondV, unit, printerRow>>

\* The network loop of the connection that was dropped connects again.
ComesBack(c) ==
    /\ command[c].step = "open" /\ command[c].shared /\ holder # c
    /\ holder' = c
    /\ UNCHANGED <<adapter, secondV, unit, printerRow, command>>

Leave(c) ==
    /\ command' = [command EXCEPT ![c] = NoCommandYet]
    /\ holder' = IF holder = c THEN NoController ELSE holder

(* Whom the command is meant for: only PrusaLink's names the print.        *)
MeantFor(c) == Numbered => command[c].run = unit.run

(* MQTT with no delivery guarantee and a web socket: the command is sent   *)
(* once it is written to the socket, whether it arrives or not.  The HTTP  *)
(* adapters wait for the printer's answer, which may be lost.              *)
Delivered(c) ==
    /\ Obeyable(command[c].action) /\ MeantFor(c)
    /\ unit' = After(command[c].action, command[c].on)

Publish(c) ==
    /\ adapter \in {"bambu", "elegoo"}
    /\ command[c].shared => holder = c
    /\ Delivered(c) \/ UNCHANGED unit
    /\ command' = [command EXCEPT ![c].step = "sent"]
    /\ UNCHANGED holder

Post(c) ==
    /\ adapter \in {"moonraker", "prusalink"}
    /\ Delivered(c)
    /\ command' = [command EXCEPT ![c].step = "sent"]
    /\ UNCHANGED holder

AnswerLost(c) ==
    /\ adapter \in {"moonraker", "prusalink"}
    /\ Delivered(c)
    /\ Leave(c)

\* Not connected, refused by the printer, or an exception: 503.
SendFails(c) == Leave(c) /\ UNCHANGED unit

SendControl(c) ==
    /\ command[c].step = "open" /\ command[c].action \notin {"look", "tune"}
    /\ Publish(c) \/ Post(c) \/ AnswerLost(c) \/ SendFails(c)
    /\ UNCHANGED <<adapter, secondV, printerRow>>

(* The live status and the spool sync wait for a report; fans, speed,      *)
(* skipped objects and cleared errors leave no trace in this row.          *)
LookAround(c) ==
    /\ command[c].step = "open" /\ command[c].action \in {"look", "tune"}
    /\ Leave(c)
    /\ UNCHANGED <<adapter, secondV, unit, printerRow>>

(* Success: the row says at once what the printer should come to do.       *)
AnswerControl(c) ==
    /\ command[c].step = "sent"
    /\ printerRow' =
          CASE command[c].action \in DOMAIN RowAfter ->
                  [printerRow EXCEPT !.gcode = RowAfter[command[c].action]]
            [] command[c].action = "light" ->
                  [printerRow EXCEPT !.light = command[c].on, !.toggled = TRUE]
            [] OTHER -> printerRow
    /\ Leave(c)
    /\ UNCHANGED <<adapter, secondV, unit>>

-----------------------------------------------------------------------------
(* The monitor writes what a report says, the light only when nobody       *)
(* toggled it lately.  It looks at lights_toggled_at one statement before  *)
(* it writes; the two are one step here.                                   *)
WriteReport ==
    /\ printerRow' = [printerRow EXCEPT !.gcode = Word(adapter, unit.state),
          !.light = IF adapter = "bambu" /\ ~printerRow.toggled THEN unit.light ELSE @]
    /\ UNCHANGED <<adapter, secondV, unit, command, holder>>

LightSettles ==
    /\ printerRow.toggled
    /\ printerRow' = [printerRow EXCEPT !.toggled = FALSE]
    /\ UNCHANGED <<adapter, secondV, unit, command, holder>>

CommandsNext ==
    \/ DeviceGoes \/ WriteReport \/ LightSettles
    \/ \E c \in Controller :
          \/ BeginControl(c) \/ ComesBack(c) \/ SendControl(c)
          \/ LookAround(c) \/ AnswerControl(c)

CommandsSpec == CommandsInit /\ [][CommandsNext]_commandVars

=============================================================================
