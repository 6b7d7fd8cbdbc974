----------------------------- MODULE Maintenance ------------------------------
(***************************************************************************)
(* The upkeep of one printer: hour counters and nozzles                    *)
(* (notifications/printer_health.py, printers/routes_nozzle.py), and the   *)
(* tasks that fall due by them (system/routes_maintenance.py).             *)
(*                                                                         *)
(* Two counters are called print hours.  The monitors add to               *)
(* printers.total_print_hours when a print succeeds, and the status of a   *)
(* task compares with that one; the log of a service keeps the sum of      *)
(* duration_hours over completed jobs.  The difference of the two is what  *)
(* a task is judged by.  reset_maintenance_counters has no caller.         *)
(*                                                                         *)
(* A task that is due soon counts as one that is ok, and tasks by the day  *)
(* are left out: they compare two dates.                                   *)
(***************************************************************************)
EXTENDS Naturals, Sequences, SequencesExt

CONSTANTS UpkeepTask,   \* ids of maintenance_tasks
          Fitter,       \* requests that install a nozzle at a time
          Interval,     \* interval_print_hours of every task
          MaxHours,     \* bound: hours of either counter
          MaxLogs,      \* bound: rows of maintenance_logs
          MaxNozzles    \* bound: rows of nozzle_lifecycle

ASSUME UpkeepAssumption == MaxHours \in Nat /\ MaxLogs \in Nat /\ MaxNozzles \in Nat

VARIABLES odometer,     \* printers.total_print_hours
          jobHours,     \* SUM(duration_hours) of the completed jobs
          toNozzle,     \* hours committed to the printer and not yet to its nozzle
          taskRows,     \* [UpkeepTask -> "none", "active", "inactive"]
          seeding,      \* a seed_default_maintenance_tasks that found no task
          serviceLog,   \* maintenance_logs, in the order of performed_at
          nozzles,      \* nozzle_lifecycle, in the order of the rows
          fitting,      \* [Fitter -> the nozzle it found, none, or not running]
          shown         \* the status of a task last answered to somebody

upkeepVars == <<odometer, jobHours, toNozzle, taskRows, seeding, serviceLog, nozzles, fitting, shown>>

NotFitting == MaxNozzles + 1
Untasked == "none"

UpkeepTypeOK ==
    /\ odometer \in 0..MaxHours /\ jobHours \in 0..MaxHours
    /\ toNozzle \in BOOLEAN /\ seeding \in BOOLEAN
    /\ taskRows \in [UpkeepTask -> {"none", "active", "inactive"}]
    /\ Len(serviceLog) <= MaxLogs
    /\ \A i \in DOMAIN serviceLog :
          serviceLog[i] \in [task : UpkeepTask \cup {Untasked}, reading : 0..MaxHours]
    /\ Len(nozzles) <= MaxNozzles
    /\ \A i \in DOMAIN nozzles : nozzles[i] \in [fitted : BOOLEAN, hours : 0..MaxHours]
    /\ fitting \in [Fitter -> 0..NotFitting]
    /\ shown \in {"nothing", "ok", "overdue"}

UpkeepInit ==
    /\ odometer = 0 /\ jobHours = 0 /\ toNozzle = FALSE
    /\ taskRows = [t \in UpkeepTask |-> "none"]
    /\ seeding = FALSE
    /\ serviceLog = <<>> /\ nozzles = <<>>
    /\ fitting = [f \in Fitter |-> NotFitting]
    /\ shown = "nothing"

-----------------------------------------------------------------------------
PrintCountedFault ==        \* goes on to the nozzle though the printer's UPDATE failed
    /\ ~toNozzle /\ odometer < MaxHours
    /\ odometer' \in {odometer, odometer + 1}
    /\ toNozzle' = TRUE
    /\ UNCHANGED <<jobHours, taskRows, seeding, serviceLog, nozzles, fitting, shown>>

(* increment_care_counters commits the hours of the printer, then          *)
(* increment_nozzle_lifecycle those of every nozzle not removed, in a      *)
(* transaction of its own whose failure is a line in the debug log.        *)
PrintCounted ==
    /\ ~toNozzle /\ odometer < MaxHours
    /\ odometer' = odometer + 1
    /\ toNozzle' = TRUE
    /\ UNCHANGED <<jobHours, taskRows, seeding, serviceLog, nozzles, fitting, shown>>

NozzleCounted ==
    /\ toNozzle
    /\ toNozzle' = FALSE
    /\ nozzles' \in {nozzles, [i \in DOMAIN nozzles |->
          [nozzles[i] EXCEPT !.hours = IF nozzles[i].fitted THEN @ + 1 ELSE @]]}
    /\ UNCHANGED <<odometer, jobHours, taskRows, seeding, serviceLog, fitting, shown>>

(* Jobs that are completed, by whatever way, and completed ones deleted.   *)
JobHoursChange ==
    /\ jobHours' \in {jobHours + 1, jobHours - 1} \cap 0..MaxHours
    /\ UNCHANGED <<odometer, toNozzle, taskRows, seeding, serviceLog, nozzles, fitting, shown>>

-----------------------------------------------------------------------------
(* install_nozzle finds the first nozzle not removed, and in the           *)
(* transaction of its INSERT retires that one.  Nothing keeps a second     *)
(* install from having found the same.                                     *)
Fitted == {i \in DOMAIN nozzles : nozzles[i].fitted}

FindNozzle(f) ==
    /\ fitting[f] = NotFitting
    /\ fitting' = [fitting EXCEPT ![f] =
          IF Fitted = {} THEN 0 ELSE CHOOSE i \in Fitted : \A j \in Fitted : i <= j]
    /\ UNCHANGED <<odometer, jobHours, toNozzle, taskRows, seeding, serviceLog, nozzles, shown>>

InstallNozzle(f) ==
    /\ fitting[f] # NotFitting /\ Len(nozzles) < MaxNozzles
    /\ nozzles' = [i \in 1..Len(nozzles) + 1 |->
          IF i > Len(nozzles) THEN [fitted |-> TRUE, hours |-> 0]
          ELSE [nozzles[i] EXCEPT !.fitted = @ /\ i # fitting[f]]]
    /\ fitting' = [fitting EXCEPT ![f] = NotFitting]
    /\ UNCHANGED <<odometer, jobHours, toNozzle, taskRows, seeding, serviceLog, shown>>

RetireNozzle ==
    /\ \E i \in Fitted : nozzles' = [nozzles EXCEPT ![i].fitted = FALSE]
    /\ UNCHANGED <<odometer, jobHours, toNozzle, taskRows, seeding, serviceLog, fitting, shown>>

-----------------------------------------------------------------------------
CreateTask ==
    /\ \E t \in UpkeepTask : taskRows[t] = "none" /\ taskRows' = [taskRows EXCEPT ![t] = "active"]
    /\ UNCHANGED <<odometer, jobHours, toNozzle, seeding, serviceLog, nozzles, fitting, shown>>

UpdateTask ==
    /\ \E t \in UpkeepTask, to \in {"active", "inactive"} :
          taskRows[t] # "none" /\ taskRows' = [taskRows EXCEPT ![t] = to]
    /\ UNCHANGED <<odometer, jobHours, toNozzle, seeding, serviceLog, nozzles, fitting, shown>>

(* The logs of a deleted task stay, without a task: the relationship sets  *)
(* their foreign key to NULL.                                              *)
DeleteTask ==
    /\ \E t \in UpkeepTask :
          /\ taskRows[t] # "none"
          /\ taskRows' = [taskRows EXCEPT ![t] = "none"]
          /\ serviceLog' = [i \in DOMAIN serviceLog |->
                IF serviceLog[i].task = t THEN [serviceLog[i] EXCEPT !.task = Untasked] ELSE serviceLog[i]]
    /\ UNCHANGED <<odometer, jobHours, toNozzle, seeding, nozzles, fitting, shown>>

(* The defaults are looked for by name and inserted at one commit; another *)
(* request may insert the same in between.                                 *)
LookForDefaults ==
    /\ ~seeding /\ \A t \in UpkeepTask : taskRows[t] = "none"
    /\ seeding' = TRUE
    /\ UNCHANGED <<odometer, jobHours, toNozzle, taskRows, serviceLog, nozzles, fitting, shown>>

SeedDefaults ==
    /\ seeding
    /\ seeding' = FALSE
    /\ \E t \in UpkeepTask : taskRows[t] = "none" /\ taskRows' = [taskRows EXCEPT ![t] = "active"]
    /\ UNCHANGED <<odometer, jobHours, toNozzle, serviceLog, nozzles, fitting, shown>>

-----------------------------------------------------------------------------
(* create_maintenance_log, for a task of the table or for none.            *)
LogMaintenance ==
    /\ Len(serviceLog) < MaxLogs
    /\ \E t \in {u \in UpkeepTask : taskRows[u] # "none"} \cup {Untasked} :
          serviceLog' = Append(serviceLog, [task |-> t, reading |-> jobHours])
    /\ UNCHANGED <<odometer, jobHours, toNozzle, taskRows, seeding, nozzles, fitting, shown>>

DeleteLog ==
    /\ \E i \in DOMAIN serviceLog : serviceLog' = RemoveAt(serviceLog, i)
    /\ UNCHANGED <<odometer, jobHours, toNozzle, taskRows, seeding, nozzles, fitting, shown>>

(* get_maintenance_status: hours since the newest log of the task.  They   *)
(* are negative when the jobs count more hours than the monitors did.      *)
LastReading(t) ==
    LET of == {i \in DOMAIN serviceLog : serviceLog[i].task = t}
    IN IF of = {} THEN 0 ELSE serviceLog[CHOOSE i \in of : \A j \in of : j <= i].reading

TaskStatus(t) ==
    IF odometer >= LastReading(t) + Interval THEN "overdue" ELSE "ok"

ShowStatus ==
    /\ \E t \in UpkeepTask : taskRows[t] = "active" /\ shown' = TaskStatus(t)
    /\ UNCHANGED <<odometer, jobHours, toNozzle, taskRows, seeding, serviceLog, nozzles, fitting>>

UpkeepNext ==
    \/ PrintCounted \/ NozzleCounted \/ JobHoursChange \/ RetireNozzle
    \/ \E f \in Fitter : FindNozzle(f) \/ InstallNozzle(f)
    \/ CreateTask \/ UpdateTask \/ DeleteTask \/ LookForDefaults \/ SeedDefaults
    \/ LogMaintenance \/ DeleteLog \/ ShowStatus

UpkeepSpec == UpkeepInit /\ [][UpkeepNext]_upkeepVars

-----------------------------------------------------------------------------
(* No nozzle, fitted or removed, has worn longer than the printer printed: *)
(* whatever fails between the two transactions that count an hour, and     *)
(* whichever nozzles are installed and retired between them, even two at   *)
(* once fitted, the nozzles fall behind the printer and never run ahead.   *)
NozzlesBehind == \A i \in DOMAIN nozzles : nozzles[i].hours <= odometer
=============================================================================
