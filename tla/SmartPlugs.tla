----------------------------- MODULE SmartPlugs -------------------------------
(***************************************************************************)
(* The smart plug of one printer (printers/smart_plug.py and its routes):  *)
(* power on before a print, off when a cooldown has passed after it, and   *)
(* by hand.  A command reads the configuration, sends its request, and     *)
(* stores the answer, on whatever thread it runs: the event loop for the   *)
(* routes, the publisher of a job event, the timer of the cooldown.        *)
(*                                                                         *)
(* The two hooks are subscribers of the event bus of the process that runs *)
(* create_app.  The monitors publish in processes of their own, where      *)
(* nobody subscribes: Wired is FALSE there, and as shipped.  A generic     *)
(* MQTT plug never answers, because the module mqtt_power imports does not *)
(* exist under that name.  Energy accounting is left out: nobody calls it. *)
(***************************************************************************)
EXTENDS Naturals

CONSTANTS CoolTimer,   \* timers at a time
          PlugKind    \* kinds of plug that are configured

VARIABLES wired,      \* the hooks are subscribed where the events are published
          plugSet,    \* the plug columns of the printer: kind, auto_on, auto_off
          plugStored, \* plug_power_state
          current,    \* the plug lets current through (external)
          inPrint,    \* a print is running (external)
          coolers,    \* the timers: free, waiting, or past their wait
          coolEntry,  \* _cooldown_timers[printer_id]
          plugCall    \* what each thread is in the middle of

plugVars == <<wired, plugSet, plugStored, current, inPrint, coolers, coolEntry, plugCall>>

NoTimer == "none"
PlugThread == {"loop", "monitor"} \cup CoolTimer
NoPlugCall == [at |-> "none"]
NoPlug == [kind |-> "none", autoOn |-> TRUE, autoOff |-> TRUE]
Wish == {"on", "off", "toggle", "look"}

PlugTypeOK ==
    /\ wired \in BOOLEAN /\ current \in BOOLEAN /\ inPrint \in BOOLEAN
    /\ plugSet \in [kind : PlugKind \cup {"none"}, autoOn : BOOLEAN, autoOff : BOOLEAN]
    /\ plugStored \in {"null", "on", "off"}
    /\ coolers \in [CoolTimer -> {"free", "waiting", "fired"}]
    /\ coolEntry \in CoolTimer \cup {NoTimer}
    /\ \A c \in PlugThread : plugCall[c].at \in {"none", "config", "request", "state", "store", "forget"}

PlugInit ==
    /\ wired \in BOOLEAN
    /\ plugSet = NoPlug
    /\ plugStored = "null"
    /\ current = FALSE
    /\ inPrint = FALSE
    /\ coolers = [t \in CoolTimer |-> "free"]
    /\ coolEntry = NoTimer
    /\ plugCall = [c \in PlugThread |-> NoPlugCall]

-----------------------------------------------------------------------------
(* The configuration is one statement of a route on the loop; removing it  *)
(* leaves the timers running.                                              *)
UpdatePlugConfig ==
    /\ plugCall["loop"] = NoPlugCall
    /\ plugSet' \in [kind : PlugKind \cup {"none"}, autoOn : BOOLEAN, autoOff : BOOLEAN]
    /\ UNCHANGED <<wired, plugStored, current, inPrint, coolers, coolEntry, plugCall>>

RemovePlugConfig ==
    /\ plugCall["loop"] = NoPlugCall
    /\ plugSet' = NoPlug
    /\ plugStored' = "null"
    /\ UNCHANGED <<wired, current, inPrint, coolers, coolEntry, plugCall>>

(* power_on, power_off, power_toggle, get_power_state, asked by a person:  *)
(* the route keeps the event loop until it answers.                        *)
PowerRoute ==
    /\ plugCall["loop"] = NoPlugCall
    /\ \E wish \in Wish : plugCall' = [plugCall EXCEPT !["loop"] = [at |-> "config", wish |-> wish]]
    /\ UNCHANGED <<wired, plugSet, plugStored, current, inPrint, coolers, coolEntry>>

(* cancel() stops a timer that waits, never one that has fired.            *)
Cancelled(t) == IF coolers[t] = "waiting" THEN "free" ELSE coolers[t]

(* on_print_start: without auto_on it returns before it reaches the timer  *)
(* of the print before.                                                    *)
PlugOnPrintStart ==
    /\ ~inPrint /\ plugCall["monitor"] = NoPlugCall
    /\ inPrint' = TRUE
    /\ IF wired /\ plugSet.kind # "none" /\ plugSet.autoOn
         THEN /\ coolers' = [t \in CoolTimer |-> IF t = coolEntry THEN Cancelled(t) ELSE coolers[t]]
              /\ coolEntry' = NoTimer
              /\ plugCall' = [plugCall EXCEPT !["monitor"] = [at |-> "config", wish |-> "on"]]
         ELSE UNCHANGED <<coolers, coolEntry, plugCall>>
    /\ UNCHANGED <<wired, plugSet, plugStored, current>>

(* on_print_complete; a print that failed starts no cooldown.              *)
PlugOnPrintComplete ==
    /\ inPrint /\ plugCall["monitor"] = NoPlugCall
    /\ inPrint' = FALSE
    /\ \/ UNCHANGED <<coolers, coolEntry>>
       \/ /\ wired /\ plugSet.kind # "none" /\ plugSet.autoOff
          /\ \E t \in CoolTimer :
                /\ coolers[t] = "free" \/ (t = coolEntry /\ coolers[t] = "waiting")
                /\ coolers' = [u \in CoolTimer |->
                      IF u = t THEN "waiting" ELSE IF u = coolEntry THEN Cancelled(u) ELSE coolers[u]]
                /\ coolEntry' = t
    /\ UNCHANGED <<wired, plugSet, plugStored, current, plugCall>>

CooldownOver(t) ==
    /\ coolers[t] = "waiting"
    /\ coolers' = [coolers EXCEPT ![t] = "fired"]
    /\ plugCall' = [plugCall EXCEPT ![t] = [at |-> "config", wish |-> "off"]]
    /\ UNCHANGED <<wired, plugSet, plugStored, current, inPrint, coolEntry>>

-----------------------------------------------------------------------------
(* What a thread has left to do when its command is over.                  *)
Then(c) == [plugCall EXCEPT ![c] = IF c \in CoolTimer THEN [at |-> "forget"] ELSE NoPlugCall]

(* get_plug_config, on a connection of its own, as the columns are now.    *)
ReadPlugConfig(c) ==
    /\ plugCall[c].at = "config"
    /\ plugCall' = IF plugSet.kind \in {"none", "mqtt"} THEN Then(c)
                   ELSE [plugCall EXCEPT ![c] = [at |-> "request", wish |-> plugCall[c].wish,
                                                 kind |-> plugSet.kind]]
    /\ UNCHANGED <<wired, plugSet, plugStored, current, inPrint, coolers, coolEntry>>

Becomes(wish) == CASE wish = "on" -> TRUE [] wish = "off" -> FALSE
                   [] wish = "toggle" -> ~current [] wish = "look" -> current

(* The request reaches the plug.  A Tasmota plug answers with its state;   *)
(* Home Assistant is asked for it afterwards, in a request of its own.     *)
PlugObeys(c) ==
    /\ plugCall[c].at = "request"
    /\ current' = Becomes(plugCall[c].wish)
    /\ plugCall' = [plugCall EXCEPT ![c] =
          IF plugCall[c].kind = "tasmota" \/ plugCall[c].wish = "look"
            THEN [at |-> "store", seen |-> current'] ELSE [at |-> "state"]]
    /\ UNCHANGED <<wired, plugSet, plugStored, inPrint, coolers, coolEntry>>

AskState(c) ==
    /\ plugCall[c].at = "state"
    /\ plugCall' = [plugCall EXCEPT ![c] = [at |-> "store", seen |-> current]]
    /\ UNCHANGED <<wired, plugSet, plugStored, current, inPrint, coolers, coolEntry>>

(* A timeout, an error or an answer nobody can parse: None, no write; the  *)
(* plug may have obeyed.                                                   *)
PlugSilent(c) ==
    /\ plugCall[c].at \in {"request", "state"}
    /\ current' \in {current, IF plugCall[c].at = "request" THEN Becomes(plugCall[c].wish) ELSE current}
    /\ plugCall' = Then(c)
    /\ UNCHANGED <<wired, plugSet, plugStored, inPrint, coolers, coolEntry>>

(* _update_power_state writes what was seen, even for a plug that is no    *)
(* longer configured; an error of the database is logged.                  *)
UpdatePowerState(c) ==
    /\ plugCall[c].at = "store"
    /\ plugStored' \in {plugStored, IF plugCall[c].seen THEN "on" ELSE "off"}
    /\ plugCall' = Then(c)
    /\ UNCHANGED <<wired, plugSet, current, inPrint, coolers, coolEntry>>

(* delayed_off ends by deleting the entry of the printer, which may be     *)
(* that of a timer started since: nobody can cancel that one any more.     *)
ForgetTimer(t) ==
    /\ plugCall[t].at = "forget"
    /\ coolers' = [coolers EXCEPT ![t] = "free"]
    /\ coolEntry' = NoTimer
    /\ plugCall' = [plugCall EXCEPT ![t] = NoPlugCall]
    /\ UNCHANGED <<wired, plugSet, plugStored, current, inPrint>>

(* The process ends: daemon threads and timers end with it.                *)
PlugsRestart ==
    /\ coolers' = [t \in CoolTimer |-> "free"]
    /\ coolEntry' = NoTimer
    /\ plugCall' = [c \in PlugThread |-> NoPlugCall]
    /\ UNCHANGED <<wired, plugSet, plugStored, current, inPrint>>

PlugNext ==
    \/ UpdatePlugConfig \/ RemovePlugConfig \/ PowerRoute
    \/ PlugOnPrintStart \/ PlugOnPrintComplete \/ PlugsRestart
    \/ \E t \in CoolTimer : CooldownOver(t) \/ ForgetTimer(t)
    \/ \E c \in PlugThread : ReadPlugConfig(c) \/ PlugObeys(c) \/ AskState(c)
                            \/ PlugSilent(c) \/ UpdatePowerState(c)

PlugSpec == PlugInit /\ [][PlugNext]_plugVars
=============================================================================
