-------------------------------- MODULE Alerts --------------------------------
(***************************************************************************)
(* Alerts and who is told of them.  The routes raise alerts about requests *)
(* through an ORM session (notifications/alert_dispatcher.py), monitors    *)
(* and printer events through a transaction of their own                   *)
(* (alert_dispatch.py).  Both store an alert for each reader who wants it  *)
(* in the application, then, outside quiet hours, tell webhooks and mail.  *)
(* Quiet hours are read through a cache (quiet_hours.py).                  *)
(*                                                                         *)
(* Each way raises one kind of alert here, about one printer with one      *)
(* title.  Nothing in the repository adds a browser subscription, so that  *)
(* browser push tells nobody.  Texts, severities and thresholds are left   *)
(* out, and so are requests that are refused.                              *)
(***************************************************************************)
EXTENDS Naturals, Sequences, FiniteSets, SequencesExt

CONSTANTS Reader,        \* users
          Dispatcher,    \* threads that raise alerts
          CacheTicks,    \* the time the quiet hours stay cached (CONFIG_TTL)
          MaxAlerts,     \* bounds: stored alerts, steps of readers and administrators
          MaxEdits

ASSUME AlertsAssumption ==
    /\ IsFiniteSet(Reader)
    /\ CacheTicks \in Nat \ {0} /\ MaxAlerts \in Nat \ {0} /\ MaxEdits \in Nat

VARIABLES preference,   \* [Reader -> [AlertKind -> its row of alert_preferences, if any]]
          alert,        \* the alerts table
          refusing,     \* the database refuses statements that begin with a comment sign
          webhook,      \* a row of webhooks
          mailing,      \* smtp_config is enabled and has a host
          device,       \* [Reader -> the row of push_devices]
          quietSet,     \* quiet hours are switched on in system_config
          quietNow,     \* the time of day lies in them
          cached,       \* _config_cache and how long ago it was read
          dispatch,     \* [Dispatcher -> what is left of its alert]
          edits

readerVars == <<preference, webhook, mailing, device>>
quietVars == <<quietSet, quietNow, cached>>
alertVars == <<preference, alert, refusing, webhook, mailing, device, quietSet, quietNow, cached,
               dispatch, edits>>

AlertKind == {"request", "printer"}
AlertChannel == {"in_app", "email"}
NoWebhook == [row |-> FALSE, enabled |-> FALSE, kinds |-> {}]
NoDispatch == [step |-> "none"]
UnreadAlert(u, k) == [to |-> u, kind |-> k, recent |-> TRUE, read |-> FALSE, dismissed |-> FALSE]

NoRowYet == {}
OneRow(on) == {on}

AlertsTypeOK ==
    /\ preference \in [Reader -> [AlertKind -> {NoRowYet} \cup {OneRow(on) : on \in SUBSET AlertChannel}]]
    /\ Len(alert) <= MaxAlerts
    /\ alert \in Seq([to : Reader, kind : AlertKind, recent : BOOLEAN, read : BOOLEAN,
                      dismissed : BOOLEAN])
    /\ webhook \in [row : BOOLEAN, enabled : BOOLEAN, kinds : SUBSET AlertKind]
    /\ {refusing, mailing, quietSet, quietNow} \subseteq BOOLEAN
    /\ device \in [Reader -> {"none", "registered", "following"}]
    /\ cached \in [says : {"nothing", "on", "off"}, age : 0..CacheTicks]
    /\ \A d \in Dispatcher : dispatch[d].step \in {"none", "look", "seed", "raise", "decide", "sent"}
    /\ edits \in 0..MaxEdits

AlertsInit ==
    /\ preference = [u \in Reader |-> [k \in AlertKind |-> NoRowYet]]
    /\ alert = <<>>
    /\ refusing \in BOOLEAN
    /\ webhook \in {NoWebhook, [row |-> TRUE, enabled |-> TRUE, kinds |-> {}]}
    /\ mailing = FALSE
    /\ device = [u \in Reader |-> "none"]
    /\ quietSet \in BOOLEAN /\ quietNow \in BOOLEAN
    /\ cached = [says |-> "nothing", age |-> 0]
    /\ dispatch = [d \in Dispatcher |-> NoDispatch]
    /\ edits = 0

-----------------------------------------------------------------------------
(* Quiet hours.                                                            *)

StillCached == cached.says # "nothing" /\ cached.age < CacheTicks

(* _get_config: what it may return; an error counts as switched off.       *)
Configs ==
    IF StillCached THEN {cached}
    ELSE {[says |-> IF quietSet THEN "on" ELSE "off", age |-> 0], [says |-> "off", age |-> 0]}

Suppressed(config) == config.says = "on" /\ quietNow

SwitchQuietHours ==
    /\ edits < MaxEdits /\ edits' = edits + 1
    /\ quietSet' = ~quietSet
    /\ UNCHANGED <<preference, alert, refusing, webhook, mailing, device, quietNow, cached, dispatch>>

(* Time passes: by a tick, into or out of the quiet hours, or beyond the   *)
(* five minutes in which an alert is not repeated.                         *)
AlertTime ==
    /\ \/ /\ cached' = [cached EXCEPT !.age = IF @ < CacheTicks THEN @ + 1 ELSE @]
          /\ UNCHANGED <<quietNow, alert>>
       \/ quietNow' = ~quietNow /\ UNCHANGED <<cached, alert>>
       \/ /\ alert' = [i \in DOMAIN alert |-> [alert[i] EXCEPT !.recent = FALSE]]
          /\ UNCHANGED <<cached, quietNow>>
    /\ UNCHANGED <<preference, refusing, webhook, mailing, device, quietSet, dispatch, edits>>

-----------------------------------------------------------------------------
(* seed_alert_preferences: a row for each kind that has none.              *)
Seeded(rows) == [k \in AlertKind |-> IF rows[k] = NoRowYet THEN OneRow({"in_app"}) ELSE rows[k]]

AllRows(k) == UNION {preference[u][k] : u \in Reader}

(* A setting of a reader or an administrator.                              *)
Edited == edits < MaxEdits /\ edits' = edits + 1 /\ UNCHANGED <<alert, refusing, quietVars, dispatch>>

GetPreferences(u) ==
    /\ \A k \in AlertKind : preference[u][k] = NoRowYet
    /\ preference' = [preference EXCEPT ![u] = Seeded(@)]
    /\ Edited /\ UNCHANGED <<webhook, mailing, device>>

(* The row of a kind is changed, or made (bound: both channels or none).   *)
UpdatePreferences(u) ==
    /\ \E k \in AlertKind, on \in {{}, AlertChannel} :
          preference' = [preference EXCEPT ![u][k] = OneRow(on)]
    /\ Edited /\ UNCHANGED <<webhook, mailing, device>>

ChangeWebhook ==
    /\ \/ \E kinds \in {{}, {"printer"}} :
             webhook' = [row |-> TRUE, enabled |-> TRUE, kinds |-> kinds]
       \/ webhook.row /\ webhook' \in {NoWebhook, [webhook EXCEPT !.enabled = ~@]}
    /\ Edited /\ UNCHANGED <<preference, mailing, device>>

ChangeMail == mailing' = ~mailing /\ Edited /\ UNCHANGED <<preference, webhook, device>>

(* Registering again keeps the live activity.                              *)
ChangeDevice(u) ==
    /\ \/ device[u] = "none" /\ device' = [device EXCEPT ![u] = "registered"]
       \/ device[u] # "none" /\ \E s \in {"none", "registered", "following"} \ {device[u]} :
             device' = [device EXCEPT ![u] = s]
    /\ Edited /\ UNCHANGED <<preference, webhook, mailing>>

(* mark_alert_read, mark_all_read, dismiss_alert: of the reader's own.     *)
ChangeAlert(u) ==
    /\ \/ \E i \in DOMAIN alert :
             /\ alert[i].to = u
             /\ alert' \in {[alert EXCEPT ![i].read = TRUE],
                            [alert EXCEPT ![i].read = TRUE, ![i].dismissed = TRUE]}
       \/ alert' = [i \in DOMAIN alert |->
                       [alert[i] EXCEPT !.read = @ \/ alert[i].to = u]]
    /\ edits < MaxEdits /\ edits' = edits + 1
    /\ UNCHANGED <<readerVars, refusing, quietVars, dispatch>>

-----------------------------------------------------------------------------
\* Those whose row wants the channel.
Wanting(rows, channel) == {u \in Reader : \E on \in rows[u] : channel \in on}

(* dispatch_alert of alert_dispatcher.py.  An organisation that set quiet  *)
(* hours of its own has them read instead, without the cache.              *)
BeginRequest(d, targets) ==
    /\ dispatch[d] = NoDispatch
    /\ \/ /\ \E config \in Configs :
                /\ cached' = config
                /\ dispatch' = [dispatch EXCEPT ![d] =
                      [step |-> "look", kind |-> "request", targets |-> targets, left |-> {},
                       aloud |-> ~Suppressed(config)]]
       \/ /\ \E aloud \in BOOLEAN :
                dispatch' = [dispatch EXCEPT ![d] =
                    [step |-> "look", kind |-> "request", targets |-> targets, left |-> {},
                     aloud |-> aloud]]
          /\ UNCHANGED cached
    /\ UNCHANGED <<readerVars, alert, refusing, quietSet, quietNow, edits>>

\* The rows, read at once; nobody has one: everybody is given theirs, and the rows are read again.
LookForReaders(d) ==
    /\ dispatch[d].step = "look"
    /\ dispatch' = [dispatch EXCEPT ![d] =
          IF AllRows("request") = {}
          THEN [@ EXCEPT !.step = "seed", !.left = Reader]
          ELSE [step |-> "raise", kind |-> @.kind, aloud |-> @.aloud,
                rows |-> [u \in Reader |-> IF u \in @.targets THEN preference[u]["request"] ELSE NoRowYet]]]
    /\ UNCHANGED <<readerVars, alert, refusing, quietVars, edits>>

(* One reader's kinds are looked for and inserted; the two statements of a *)
(* kind are one step here, so that nobody comes to have two rows of one.   *)
SeedReader(d) ==
    /\ dispatch[d].step = "seed"
    /\ \E u \in dispatch[d].left :
          /\ preference' = [preference EXCEPT ![u] = Seeded(@)]
          /\ dispatch' = [dispatch EXCEPT ![d].left = @ \ {u},
                              ![d].step = IF dispatch[d].left = {u} THEN "look" ELSE @]
    /\ UNCHANGED <<webhook, mailing, device, alert, refusing, quietVars, edits>>

(* dispatch_alert of alert_dispatch.py: whom to tell, unless the alert is  *)
(* repeated; a refused statement ends it.                                  *)
BeginPrinter(d) ==
    /\ dispatch[d] = NoDispatch /\ ~refusing
    /\ \A i \in DOMAIN alert : alert[i].kind = "printer" => ~alert[i].recent
    /\ dispatch' = [dispatch EXCEPT ![d] =
          [step |-> "raise", kind |-> "printer", aloud |-> FALSE,
           rows |-> IF AllRows("printer") \subseteq {{}}
                    THEN [u \in Reader |-> OneRow({"in_app"})]
                    ELSE [u \in Reader |-> preference[u]["printer"]]]]
    /\ UNCHANGED <<readerVars, alert, refusing, quietVars, edits>>

NewAlerts(c) == SetToSeq({UnreadAlert(u, c.kind) : u \in Wanting(c.rows, "in_app")})

RaiseAlerts(d) ==
    /\ dispatch[d].step = "raise"
    /\ Len(alert \o NewAlerts(dispatch[d])) <= MaxAlerts
    /\ alert' = alert \o NewAlerts(dispatch[d])
    /\ dispatch' = [dispatch EXCEPT ![d].step = "decide"]
    /\ UNCHANGED <<readerVars, refusing, quietVars, edits>>

(* Who is told outside: mail before the webhooks in the first way, after   *)
(* them in the other.  What was decided is sent whatever happens to the    *)
(* quiet hours meanwhile.                                                  *)
Told(c) ==
    LET hook == webhook.row /\ webhook.enabled /\ (webhook.kinds = {} \/ c.kind \in webhook.kinds)
        mail == mailing /\ Wanting(c.rows, "email") # {}
    IN  {w \in {"webhook", "mail"} : c.aloud /\ (w = "webhook" => hook) /\ (w = "mail" => mail)}

DecideAloud(d) ==
    /\ dispatch[d].step = "decide"
    /\ \/ /\ dispatch[d].kind = "request"
          /\ dispatch' = [dispatch EXCEPT ![d] =
                [step |-> "sent", out |-> Told(@)]]
          /\ UNCHANGED cached
       \/ /\ dispatch[d].kind = "printer"
          /\ \E config \in Configs :
                /\ cached' = config
                /\ dispatch' = [dispatch EXCEPT ![d] =
                      [step |-> "sent", out |-> Told([@ EXCEPT !.aloud = ~Suppressed(config)])]]
    /\ UNCHANGED <<readerVars, alert, refusing, quietSet, quietNow, edits>>

\* The dispatch ends, or its thread stops at any point before.
EndDispatch(d) ==
    /\ dispatch[d] # NoDispatch
    /\ dispatch' = [dispatch EXCEPT ![d] = NoDispatch]
    /\ UNCHANGED <<readerVars, alert, refusing, quietVars, edits>>

AlertsNext ==
    \/ SwitchQuietHours \/ AlertTime \/ ChangeWebhook \/ ChangeMail
    \/ \E u \in Reader :
          GetPreferences(u) \/ UpdatePreferences(u) \/ ChangeDevice(u) \/ ChangeAlert(u)
    \/ \E d \in Dispatcher :
          \/ \E targets \in SUBSET Reader : BeginRequest(d, targets)
          \/ LookForReaders(d) \/ SeedReader(d) \/ BeginPrinter(d) \/ RaiseAlerts(d)
          \/ DecideAloud(d) \/ EndDispatch(d)

AlertsSpec == AlertsInit /\ [][AlertsNext]_alertVars
=============================================================================
