--------------------------- MODULE TelemetryPaths ---------------------------
(***************************************************************************)
(* Two readings of one Bambu printer's MQTT reports: the V2 pipeline       *)
(* (telemetry/transition.py driven by telemetry/bambu/adapter.py) and the  *)
(* adapter it replaces (adapters/bambu.py), with the simulation of the     *)
(* latter that decides whether the flag may be flipped (parity.py).        *)
(*                                                                         *)
(* Of a report only what a state is derived from is kept: gcode_state, or  *)
(* "" when the report is partial; whether stg_cur is a known stage;        *)
(* print_error; and the HMS entries, each known by its catalogue severity. *)
(***************************************************************************)
EXTENDS Naturals, FiniteSets

CONSTANTS
    MaxClock    \* bound on the wall clock

ASSUME TelemetryAssumption == MaxClock \in Nat \ {0}

VARIABLES
    status,     \* the V2 adapter's PrinterStatus: state, last_event_ts, active_errors
    network,    \* the V2 adapter's paho thread: "up", or "dead" by an exception
    wall,       \* time.time, which may be set back
    legacy,     \* PrinterStatus.state of adapters/bambu.py
    simulated,  \* LegacyStatus.state of parity.py
    named       \* has V2's state come from a gcode_state since the connection

telemetryVars == <<status, network, wall, legacy, simulated, named>>

PrinterState == {"idle", "preparing", "printing", "paused", "finished", "failed",
                 "error", "offline", "degraded"}
LegacyState == {"unknown", "idle", "printing", "paused", "error", "offline"}

(* Active errors are told apart by source and severity.                    *)
Hms == {"hms_error", "hms_warning"}
ErrorKey == Hms \cup {"print_error"}
Severe == {"hms_error", "print_error"}

ReportedState == {"IDLE", "PREPARE", "RUNNING", "PAUSE", "FAILED", "FINISH"}

Section == [gcode : ReportedState \cup {""}, stageKnown : BOOLEAN, printError : BOOLEAN,
            hms : SUBSET Hms]

InitialStatus == [state |-> "offline", ts |-> 0, errors |-> {}]

TelemetryInit ==
    /\ status = InitialStatus
    /\ network = "up" /\ wall = 1
    /\ legacy = "unknown" /\ simulated = "offline"
    /\ named = FALSE

-----------------------------------------------------------------------------
(* transition                                                              *)

(* _BAMBU_STATE_MAP                                                        *)
Canonical ==
    [IDLE |-> "idle", PREPARE |-> "preparing", RUNNING |-> "printing", PAUSE |-> "paused",
     FAILED |-> "failed", FINISH |-> "finished"]

InOrder(ts) == ts >= status.ts

(* _merge_hms_errors: nothing is ever taken out.                           *)
Merged(section) ==
    status.errors \cup section.hms \cup {e \in {"print_error"} : section.printError}

(* _apply_bambu_report (fault: a partial report forgets the state).        *)
StateBeforeFault(section) == IF section.gcode = "" THEN "idle" ELSE Canonical[section.gcode]
StateBefore(section) == IF section.gcode = "" THEN status.state ELSE Canonical[section.gcode]

Applied(section, ts) ==
    [state |-> IF Merged(section) \cap Severe # {} THEN "error" ELSE StateBefore(section),
     ts |-> ts, errors |-> Merged(section)]

(* _apply_connection, _apply_heartbeat_missed and _apply_degraded          *)
Moved(state, ts) == [status EXCEPT !.state = state, !.ts = ts]

(* _process_event: what transition raises leaves the callback, and paho's  *)
(* thread with it; nothing is emitted, nothing changes any more.           *)
Process(new, valid) ==
    /\ network = "up"
    /\ IF valid /\ InOrder(wall)
       THEN status' = new /\ UNCHANGED network
       ELSE network' = "dead" /\ UNCHANGED status

NotProcessed == network = "dead" /\ UNCHANGED <<status, network>>

-----------------------------------------------------------------------------
(* adapters/bambu.py: _parse_status; every report is read as a full one.   *)
LegacyMap ==
    [IDLE |-> "idle", PREPARE |-> "printing", RUNNING |-> "printing", PAUSE |-> "paused",
     FAILED |-> "idle", FINISH |-> "idle"]

Parsed(section) ==
    IF section.printError THEN "error"
    ELSE IF section.gcode = "" THEN "unknown" ELSE LegacyMap[section.gcode]

(* simulate_legacy_parse                                                   *)
Simulated(section) ==
    IF section.printError THEN "error"
    ELSE IF section.gcode = "" THEN simulated ELSE LegacyMap[section.gcode]

-----------------------------------------------------------------------------
(* A print section reaches both adapters.                                  *)
ReceiveReport ==
    /\ \E section \in Section :
        /\ Process(Applied(section, wall), section.stageKnown) \/ NotProcessed
        /\ legacy' = Parsed(section)
        /\ simulated' = Simulated(section)
        /\ named' = (named \/ (section.gcode # "" /\ network' = "up"))
    /\ UNCHANGED wall

(* No JSON, no section, or a field that fails to validate, as a            *)
(* gcode_state no enum member has: V2 says so; the older adapter reads     *)
(* what it can of it or passes over it.                                    *)
ReceiveUnreadable ==
    /\ Process(Moved("degraded", wall), TRUE) \/ NotProcessed
    /\ legacy' \in {legacy} \cup (LegacyState \ {"offline"})
    /\ named' = FALSE
    /\ UNCHANGED <<wall, simulated>>

(* An info section: firmware versions only.                                *)
ReceiveInfo ==
    /\ Process([status EXCEPT !.ts = wall], TRUE) \/ NotProcessed
    /\ UNCHANGED <<wall, legacy, simulated, named>>

Connected ==
    /\ Process(IF status.state = "offline" THEN Moved("idle", wall) ELSE Moved(status.state, wall),
               TRUE) \/ NotProcessed
    /\ named' = (named /\ status.state # "offline")
    /\ UNCHANGED <<wall, legacy, simulated>>

(* A connection refused or lost; a missed heartbeat would be the same, but *)
(* nothing reports one.                                                    *)
ConnectionLost ==
    /\ Process(Moved("offline", wall), TRUE) \/ NotProcessed
    /\ legacy' = "offline" /\ named' = FALSE
    /\ UNCHANGED <<wall, simulated>>

(* The monitor's health check: no report in two minutes, a new adapter.    *)
ReplaceAdapter ==
    /\ status' = InitialStatus /\ network' = "up" /\ named' = FALSE
    /\ UNCHANGED <<wall, legacy, simulated>>

SetClock ==
    /\ wall' \in 1 .. MaxClock
    /\ UNCHANGED <<status, network, legacy, simulated, named>>

TelemetryNext ==
    \/ ReceiveReport \/ ReceiveUnreadable \/ ReceiveInfo
    \/ Connected \/ ConnectionLost \/ ReplaceAdapter \/ SetClock

TelemetrySpec == TelemetryInit /\ [][TelemetryNext]_telemetryVars

-----------------------------------------------------------------------------
(* _KNOWN_STATE_DIFFS                                                      *)
KnownDiff ==
    {<<"failed", "idle">>, <<"finished", "idle">>, <<"preparing", "printing">>,
     <<"degraded", "unknown">>, <<"error", "idle">>, <<"error", "printing">>, <<"error", "paused">>}

TelemetryTypeOK ==
    /\ status.state \in PrinterState /\ status.ts \in 0 .. MaxClock
    /\ status.errors \subseteq ErrorKey
    /\ network \in {"up", "dead"} /\ wall \in 1 .. MaxClock
    /\ legacy \in LegacyState /\ simulated \in LegacyState
    /\ named \in BOOLEAN

(* The gate for the cutover (classify_state_diff) finds no difference it   *)
(* calls a bug, whatever reports, partial or full, came in whatever order  *)
(* since V2 was last told a gcode_state, and as long as its thread lives.  *)
ParityKnown ==
    named /\ network = "up" =>
        status.state = simulated \/ <<status.state, simulated>> \in KnownDiff
=============================================================================
