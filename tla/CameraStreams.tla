---------------------------- MODULE CameraStreams ----------------------------
(***************************************************************************)
(* The registry of printers and the streams of go2rtc, the camera server   *)
(* beside it: printers/routes_crud.py, camera_routes.py, route_utils.py,   *)
(* notifications/printer_health.py, system/routes_setup.py.  A sync builds *)
(* the configuration from the table, then takes the lock file, compares    *)
(* with the file of go2rtc, writes it and restarts the camera server.      *)
(* Handlers run in threads of the server, monitors in processes of their   *)
(* own: Syncer.                                                            *)
(*                                                                         *)
(* Requests that are refused change nothing and are left out; so are the   *)
(* names, keys and tags of a printer.  A stream is the url it is built     *)
(* from: the camera_url, or the one made from the key of a Bambu printer.  *)
(***************************************************************************)
EXTENDS Naturals, FiniteSets, FiniteSetsExt

CONSTANTS Machine,      \* ids of printers
          Syncer,       \* threads and processes that run a sync
          MaxPrinters,  \* what the licence allows
          MaxSlots,     \* bound on slot_count
          CoolTicks     \* _GO2RTC_MIN_RESTART_INTERVAL

ASSUME CameraAssumption ==
    /\ MaxPrinters \in Nat /\ MaxSlots \in Nat /\ CoolTicks \in Nat \ {0}

VARIABLES machine,      \* the printers; row: there is one
          config,       \* the streams of go2rtc.yaml, and its age
          sync,         \* [Syncer -> step and the configuration it built]
          restarted     \* [Syncer -> how long ago it began its last restart] (no state of the code)

cameraVars == <<machine, config, sync, restarted>>

Url == {"builtin", "camera_url"}
CameraPrinter == [row : BOOLEAN, camera_url : BOOLEAN, builtin : BOOLEAN, active : BOOLEAN,
                  enabled : BOOLEAN, slots : SUBSET (1..MaxSlots)]
NoMachine == [row |-> FALSE, camera_url |-> FALSE, builtin |-> FALSE, active |-> FALSE,
              enabled |-> FALSE, slots |-> {}]
Streams == UNION {[M -> Url] : M \in SUBSET Machine}
NotSyncing == [step |-> "idle"]

CameraTypeOK ==
    /\ machine \in [Machine -> CameraPrinter]
    /\ config \in [there : BOOLEAN, streams : Streams, age : 0..CoolTicks]
    /\ \A s \in Syncer : sync[s].step \in {"idle", "reading", "built", "restarting"}
    /\ restarted \in [Syncer -> 0..CoolTicks]

CameraInit ==
    /\ machine = [m \in Machine |-> NoMachine]
    /\ config = [there |-> FALSE, streams |-> <<>>, age |-> CoolTicks]
    /\ sync = [s \in Syncer |-> NotSyncing]
    /\ restarted = [s \in Syncer |-> CoolTicks]

Registered == {m \in Machine : machine[m].row}

-----------------------------------------------------------------------------
(* get_camera_url; the key serves only the models that stream RTSP.        *)
HasUrl(m) == machine[m].camera_url \/ machine[m].builtin
UrlOf(m) == IF machine[m].camera_url THEN "camera_url" ELSE "builtin"

(* _build_go2rtc_config, and its copy in sync_go2rtc_config_raw.           *)
Built ==
    [m \in {n \in Registered : machine[n].active /\ machine[n].enabled /\ HasUrl(n)} |-> UrlOf(m)]

BeginSync(s) ==
    /\ sync[s].step = "idle"
    /\ sync' = [sync EXCEPT ![s] = [step |-> "built", streams |-> Built]]

(* create_printer counts the rows against the licence first.  It checks a  *)
(* camera_url and does not hand it to the row.                             *)
CreatePrinter ==
    /\ Cardinality(Registered) < MaxPrinters
    /\ \E m \in Machine \ Registered, builtin \in BOOLEAN, n \in 1..MaxSlots :
          machine' = [machine EXCEPT ![m] = [NoMachine EXCEPT !.row = TRUE, !.builtin = builtin,
                                             !.active = TRUE, !.enabled = TRUE, !.slots = 1..n]]
    /\ UNCHANGED <<config, sync, restarted>>

(* update_printer: slots are counted, and made or removed up to the new    *)
(* number; a camera_url also switches the camera, and then a sync begins.  *)
UpdateSlots(m, n) ==
    LET slots == machine[m].slots
    IN  IF n > Cardinality(slots) THEN slots \cup ((Cardinality(slots) + 1) .. n)
        ELSE {k \in slots : k <= n}

UpdatePrinter ==
    /\ \E m \in Registered, n \in 1..MaxSlots :
          /\ n # Cardinality(machine[m].slots)
          /\ machine' = [machine EXCEPT ![m].slots = UpdateSlots(m, n)]
    /\ UNCHANGED <<config, sync, restarted>>

UpdateCamera(s) ==
    /\ sync[s].step = "idle"
    /\ \E m \in Registered, given \in BOOLEAN :
          machine' = [machine EXCEPT ![m].camera_url = given, ![m].enabled = given]
    /\ sync' = [sync EXCEPT ![s] = [step |-> "reading"]]
    /\ UNCHANGED <<config, restarted>>

DeletePrinter ==
    /\ \E m \in Registered : machine' = [machine EXCEPT ![m] = NoMachine]
    /\ UNCHANGED <<config, sync, restarted>>

(* bulk_update_printers, toggle_camera: no sync.                           *)
SwitchPrinter ==
    /\ \E m \in Registered :
          \/ machine' = [machine EXCEPT ![m].active = ~@]
          \/ machine' = [machine EXCEPT ![m].enabled = ~@]
    /\ UNCHANGED <<config, sync, restarted>>

-----------------------------------------------------------------------------
(* list_cameras, when there is one to list; camera_webrtc, when go2rtc has *)
(* no stream of that printer or does not answer; discover_camera of a      *)
(* monitor, setup_save_network and the start of the server, which ask for  *)
(* nothing.                                                                *)
ListCameras(s) ==
    /\ \E m \in Registered : HasUrl(m)
    /\ BeginSync(s)
    /\ UNCHANGED <<machine, config, restarted>>

DiscoverCamera(s) ==
    /\ BeginSync(s)
    /\ UNCHANGED <<machine, config, restarted>>

ReadPrinters(s) ==
    /\ sync[s].step = "reading"
    /\ sync' = [sync EXCEPT ![s] = [step |-> "built", streams |-> Built]]
    /\ UNCHANGED <<machine, config, restarted>>

LockFree == \A s \in Syncer : sync[s].step # "restarting"
SameAsFile(s) == config.there /\ sync[s].streams = config.streams

(* The age of the file, which every write renews (fault: the age of the    *)
(* last restart this process made).                                        *)
CoolingFault(s) == restarted[s] < CoolTicks
Cooling(s) == config.there /\ config.age < CoolTicks

Written(s) == [there |-> TRUE, streams |-> sync[s].streams, age |-> 0]

(* _go2rtc_restart_with_lock: nothing changed, or the cooldown is on: the  *)
(* file is written and go2rtc goes on with what it has.                    *)
WriteOnly(s) ==
    /\ sync[s].step = "built" /\ LockFree
    /\ SameAsFile(s) \/ Cooling(s)
    /\ config' = IF SameAsFile(s) THEN config ELSE Written(s)
    /\ sync' = [sync EXCEPT ![s] = NotSyncing]
    /\ UNCHANGED <<machine, restarted>>

WriteAndRestart(s) ==
    /\ sync[s].step = "built" /\ LockFree
    /\ ~SameAsFile(s) /\ ~Cooling(s)
    /\ config' = Written(s)
    /\ sync' = [sync EXCEPT ![s] = [step |-> "restarting"]]
    /\ restarted' = [restarted EXCEPT ![s] = 0]
    /\ UNCHANGED machine

(* supervisorctl comes back, or its timeout does; the lock is given up.    *)
RestartDone(s) ==
    /\ sync[s].step = "restarting"
    /\ sync' = [sync EXCEPT ![s] = NotSyncing]
    /\ UNCHANGED <<machine, config, restarted>>

(* Ages are told apart up to the cooldown.                                 *)
Older(age) == Min({age + 1, CoolTicks})

PassTime ==
    /\ config' = [config EXCEPT !.age = Older(@)]
    /\ restarted' = [s \in Syncer |-> Older(restarted[s])]
    /\ UNCHANGED <<machine, sync>>

CameraNext ==
    \/ CreatePrinter \/ UpdatePrinter \/ DeletePrinter \/ SwitchPrinter \/ PassTime
    \/ \E s \in Syncer :
          UpdateCamera(s) \/ ListCameras(s) \/ DiscoverCamera(s) \/ ReadPrinters(s)
          \/ WriteOnly(s) \/ WriteAndRestart(s) \/ RestartDone(s)

CameraSpec == CameraInit /\ [][CameraNext]_cameraVars

-----------------------------------------------------------------------------
(* However many threads and processes sync at once, go2rtc is not          *)
(* restarted again within the cooldown (route_utils.py:28, "prevents       *)
(* restart storms ... works across processes").                            *)
RestartsApart ==
    [][\A s, t \in Syncer : WriteAndRestart(s) => restarted[t] >= CoolTicks]_cameraVars
=============================================================================
