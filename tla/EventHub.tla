------------------------------ MODULE EventHub ------------------------------
(***************************************************************************)
(* The way of an event from a monitor's process to the browsers: a row of  *)
(* ws_events (core/ws_hub.py), read by the server's broadcaster and sent   *)
(* to the connected clients (core/app.py).  The client list is iterated    *)
(* with an await at each client, so connections come and go in between.    *)
(*                                                                         *)
(* Time goes in ticks.  push_event swallows an error: an event of this     *)
(* model is one whose row was committed.  A read that fails changes        *)
(* nothing.                                                                *)
(***************************************************************************)
EXTENDS Naturals, Sequences, SequencesExt, FiniteSets, FiniteSetsExt

CONSTANTS
    Client,         \* browsers
    CleanupEvery,   \* _CLEANUP_INTERVAL
    EventTtl,       \* _EVENT_TTL
    BusyWait,       \* how long an insert waits for the lock: busy_timeout
    MaxEvents, MaxTick, MaxLives    \* bounds

ASSUME EventHubAssumption ==
    /\ CleanupEvery \in Nat /\ EventTtl \in Nat /\ BusyWait \in Nat
    /\ BusyWait < EventTtl
    /\ MaxEvents \in Nat /\ MaxTick \in Nat /\ MaxLives \in Nat

VARIABLES
    events,     \* the table: rows [id, at, event]
    serial,     \* the largest id ever given, sqlite_sequence
    pushed,     \* events are numbered as they are committed
    tick,
    hub,        \* the broadcaster: step, last id, time of the last cleanup
    outgoing,   \* events read and not yet broadcast
    sockets,    \* ws_manager.active, with the position of the loop over it
    received,   \* what each client got since it connected
    taken,      \* events some broadcaster has read
    lives

hubVars == <<events, serial, pushed, tick, hub, outgoing, sockets, received, taken, lives>>

NewHub == [step |-> "asleep", last |-> 0, cleaned |-> 0]
NoSockets == [open |-> <<>>, at |-> 1, dead |-> {}]

HubInit ==
    /\ events = {} /\ serial = 0 /\ pushed = 0
    /\ tick = 0
    /\ hub = NewHub
    /\ outgoing = <<>>
    /\ sockets = NoSockets
    /\ received = [c \in Client |-> <<>>]
    /\ taken = {}
    /\ lives = 1

(* AUTOINCREMENT (fault: a plain key, which SQLite gives again when the    *)
(* rows with the largest ids are deleted).                                 *)
FreshIdFault == IF events = {} THEN 1 ELSE Max({r.id : r \in events}) + 1
FreshId == serial + 1

(* push_event: the time is taken before the insert gets the lock.          *)
PushEvent ==
    /\ pushed < MaxEvents
    /\ \E wait \in 0 .. BusyWait :
        /\ wait <= tick
        /\ events' = events \cup {[id |-> FreshId, at |-> tick - wait, event |-> pushed + 1]}
    /\ serial' = IF FreshId > serial THEN FreshId ELSE serial
    /\ pushed' = pushed + 1
    /\ UNCHANGED <<tick, hub, outgoing, sockets, received, taken, lives>>

Unread == {r \in events : r.id > hub.last}

(* newest_id (fault: last_id is given back)                                *)
NewestIdFault(R) == hub.last
NewestId(R) == IF R = {} THEN hub.last ELSE Max({r.id : r \in R})

(* ORDER BY id                                                             *)
RowsInOrder(R) ==
    CHOOSE rows \in [1 .. Cardinality(R) -> R] :
        \A i, j \in DOMAIN rows : i < j => rows[i].id < rows[j].id

EventsInOrder(R) == [i \in 1 .. Cardinality(R) |-> RowsInOrder(R)[i].event]

(* read_events_since, the SELECT                                           *)
ReadEvents ==
    /\ hub.step = "asleep" /\ sockets.open # <<>>
    /\ hub' = [hub EXCEPT !.step = "read", !.last = NewestId(Unread)]
    /\ outgoing' = EventsInOrder(Unread)
    /\ taken' = taken \cup {r.event : r \in Unread}
    /\ UNCHANGED <<events, serial, pushed, tick, sockets, received, lives>>

(* _cleanup, in the same call, for which the time is taken right after     *)
(* the SELECT; then the loop over the events                               *)
CleanEvents ==
    /\ hub.step = "read"
    /\ IF tick - hub.cleaned > CleanupEvery
       THEN /\ events' = {r \in events : r.at + EventTtl >= tick}
            /\ hub' = [hub EXCEPT !.step = "sending", !.cleaned = tick]
       ELSE /\ UNCHANGED events
            /\ hub' = [hub EXCEPT !.step = "sending"]
    /\ UNCHANGED <<serial, pushed, tick, outgoing, sockets, received, taken, lives>>

(* disconnect of some clients: the list keeps the others, in their order.  *)
Without(s, gone) ==
    LET kept[i \in 0 .. Len(s)] ==
            IF i = 0 THEN <<>>
            ELSE IF s[i] \in gone THEN kept[i - 1] ELSE Append(kept[i - 1], s[i])
    IN  kept[Len(s)]

(* broadcast: the next client of the list; a failed send is noted.         *)
SendToClient ==
    /\ hub.step = "sending" /\ outgoing # <<>> /\ sockets.at <= Len(sockets.open)
    /\ LET c == sockets.open[sockets.at]
       IN  \/ /\ received' = [received EXCEPT ![c] = Append(@, Head(outgoing))]
              /\ sockets' = [sockets EXCEPT !.at = @ + 1]
           \/ /\ sockets' = [sockets EXCEPT !.at = @ + 1, !.dead = @ \cup {c}]
              /\ UNCHANGED received
    /\ UNCHANGED <<events, serial, pushed, tick, hub, outgoing, taken, lives>>

EndBroadcast ==
    /\ hub.step = "sending"
    /\ outgoing = <<>> \/ sockets.at > Len(sockets.open)
    /\ sockets' = [open |-> Without(sockets.open, sockets.dead), at |-> 1, dead |-> {}]
    /\ outgoing' = IF outgoing = <<>> THEN <<>> ELSE Tail(outgoing)
    /\ hub' = IF outgoing' = <<>> THEN [hub EXCEPT !.step = "asleep"] ELSE hub
    /\ UNCHANGED <<events, serial, pushed, tick, received, taken, lives>>

Connect(c) ==
    /\ ~Contains(sockets.open, c)
    /\ sockets' = [sockets EXCEPT !.open = Append(@, c), !.dead = @ \ {c}]
    /\ received' = [received EXCEPT ![c] = <<>>]
    /\ UNCHANGED <<events, serial, pushed, tick, hub, outgoing, taken, lives>>

(* The position of a running loop stays: the client after c is skipped.    *)
Disconnect(c) ==
    /\ Contains(sockets.open, c)
    /\ sockets' = [sockets EXCEPT !.open = Without(@, {c}), !.dead = @ \ {c}]
    /\ UNCHANGED <<events, serial, pushed, tick, hub, outgoing, received, taken, lives>>

RestartServer ==
    /\ lives < MaxLives
    /\ lives' = lives + 1
    /\ hub' = NewHub /\ outgoing' = <<>> /\ sockets' = NoSockets
    /\ UNCHANGED <<events, serial, pushed, tick, received, taken>>

PassTick ==
    /\ tick < MaxTick /\ hub.step # "read"
    /\ tick' = tick + 1
    /\ UNCHANGED <<events, serial, pushed, hub, outgoing, sockets, received, taken, lives>>

HubNext ==
    \/ PushEvent \/ ReadEvents \/ CleanEvents \/ SendToClient \/ EndBroadcast
    \/ \E c \in Client : Connect(c) \/ Disconnect(c)
    \/ RestartServer \/ PassTick

HubSpec == HubInit /\ [][HubNext]_hubVars

-----------------------------------------------------------------------------
(* The table "never silently drops events" (ws_hub.py:9): a committed      *)
(* event was read by a broadcaster or lies ahead of the one there is,      *)
(* however old it is when a client at last connects.                       *)
EventsKept ==
    \A e \in 1 .. pushed : e \in taken \/ \E r \in events : r.event = e /\ r.id > hub.last

(* A client gets events in the order of their commits and none twice,      *)
(* whoever connects and disconnects during a broadcast.                    *)
ClientsInOrder ==
    \A c \in Client : \A i, j \in DOMAIN received[c] : i < j => received[c][i] < received[c][j]
=============================================================================
