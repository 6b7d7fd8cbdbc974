------------------------------- MODULE Outbound -------------------------------
(***************************************************************************)
(* Requests that leave the server: the audit of the configured addresses   *)
(* when it starts, and the guards a request passes between the moment a    *)
(* name is checked and the moment it is connected to (core/itar.py,        *)
(* core/webhook_utils.py), with the MQTT client that republishes events    *)
(* (notifications/mqtt_republish.py) as one of the callers.  What a name   *)
(* resolves to may change at any time.  An address is on the local network *)
(* or not; a literal address is a name that never changes.                 *)
(***************************************************************************)
EXTENDS Naturals, FiniteSets

CONSTANTS Host,       \* names of servers
          NoHost,
          Outgoing    \* requests at a time

ASSUME OutboundAssumption == NoHost \notin Host

VARIABLES up,           \* the server runs
          itar,         \* ODIN_ITAR_MODE, the environment of the process
          address,      \* [Host -> the addresses the name resolves to now]
          configured,   \* the names in settings, webhooks, mail, broker, OIDC and groups
          outbound,      \* [Outgoing -> where the request is]
          brokerSet,    \* the broker in system_config, NoHost if republishing is off
          brokerCache,  \* _config_cache: the broker, or "unread"
          publisher,    \* the host a thread of the republisher is about to connect to
          client        \* the broker _client is connected to

requestVars == <<up, itar, address, configured, outbound>>
brokerVars == <<brokerSet, brokerCache, publisher, client>>
outboundVars == <<up, itar, address, configured, outbound, brokerSet, brokerCache, publisher, client>>

Net == {"lan", "wan"}
Guard == {"pinned", "async", "posted", "trusted", "host"}
NoRequest == [step |-> "none"]

OutboundTypeOK ==
    /\ {up, itar} \subseteq BOOLEAN
    /\ address \in [Host -> SUBSET Net]
    /\ configured \subseteq Host
    /\ \A r \in Outgoing :
          \/ outbound[r] = NoRequest
          \/ outbound[r] \in [step : {"checked", "ready"}, guard : Guard, host : Host,
                             seen : SUBSET Net, pins : SUBSET Net]
          \/ outbound[r] \in [step : {"open"}, guard : Guard, seen : SUBSET Net, to : Net]
    /\ {brokerSet, publisher, client} \subseteq Host \cup {NoHost}
    /\ brokerCache \in Host \cup {NoHost, "unread"}

OutboundInit ==
    /\ up = FALSE /\ itar = FALSE
    /\ address = [h \in Host |-> {"lan"}]
    /\ configured = {}
    /\ outbound = [r \in Outgoing |-> NoRequest]
    /\ brokerSet = NoHost /\ brokerCache = "unread" /\ publisher = NoHost /\ client = NoHost

-----------------------------------------------------------------------------
NameMoves ==
    /\ \E h \in Host, to \in SUBSET Net : to # address[h] /\ address' = [address EXCEPT ![h] = to]
    /\ UNCHANGED <<up, itar, configured, outbound, brokerVars>>

(* is_private_destination: it resolves, and to nothing public.             *)
Private(h) == address[h] = {"lan"}

(* enforce_boot_config, of the static settings and of the database: the    *)
(* server does not start with a public address in its settings.            *)
Boot ==
    /\ ~up
    /\ itar' \in BOOLEAN
    /\ up' = (itar' => \A h \in configured : Private(h))
    /\ UNCHANGED <<address, configured, outbound, brokerVars>>

StopServer ==
    /\ up /\ up' = FALSE
    /\ outbound' = [r \in Outgoing |-> NoRequest]
    /\ brokerCache' = "unread" /\ publisher' = NoHost /\ client' = NoHost
    /\ UNCHANGED <<itar, address, configured, brokerSet>>

\* Settings are not checked when they are stored, only when they are used or at the next start.
Configure ==
    /\ up
    /\ \E h \in Host : configured' = IF h \in configured THEN configured \ {h} ELSE configured \cup {h}
    /\ UNCHANGED <<up, itar, address, outbound, brokerVars>>

-----------------------------------------------------------------------------
(* The five ways out.  pin_for_request resolves once and pins what it      *)
(* found, in ITAR mode only; its callers connect in their own thread, but  *)
(* for OIDC, whose asynchronous client looks names up in another.          *)
(* safe_post is first checked by enforce_request_destination and then      *)
(* resolved again and pinned, never to a local address; trusted_post and   *)
(* the hosts of mail, brokers and printers are checked and then resolved   *)
(* by the library that connects.  seen is what the check found (no state   *)
(* of the code), pins what the context holds.                              *)
Enforced(h) == itar => Private(h)
PinForRequest == {"pinned", "async"}

BeginRequestOut(r) ==
    /\ up /\ outbound[r] = NoRequest
    /\ \E h \in Host, guard \in Guard :
          /\ Enforced(h)
          /\ outbound' = [outbound EXCEPT ![r] =
                [step |-> IF guard = "posted" THEN "checked" ELSE "ready",
                 guard |-> guard, host |-> h, seen |-> address[h],
                 pins |-> IF itar /\ guard \in PinForRequest THEN address[h] ELSE {}]]
    /\ UNCHANGED <<up, itar, address, configured, brokerVars>>

(* _resolve_and_pin: every address is public, whatever the mode, so that   *)
(* in ITAR mode only a name that has moved since its check gets through.   *)
ResolveAndPin(r) ==
    /\ outbound[r].step = "checked"
    /\ LET found == address[outbound[r].host]
       IN  outbound' = [outbound EXCEPT ![r] =
              IF found = {"wan"} THEN [@ EXCEPT !.step = "ready", !.pins = found] ELSE NoRequest]
    /\ UNCHANGED <<up, itar, address, configured, brokerVars>>

(* _pinned_getaddrinfo: what the connection may go to.  The pin is a       *)
(* context variable, which asyncio's lookup in an executor does not see    *)
(* (fault: no lookup sees it).                                             *)
ReachableFault(q) == address[q.host]
Reachable(q) == IF q.pins # {} /\ q.guard # "async" THEN q.pins ELSE address[q.host]

ConnectOut(r) ==
    /\ outbound[r].step = "ready"
    /\ \/ outbound' = [outbound EXCEPT ![r] = NoRequest]
       \/ \E to \in Reachable(outbound[r]) :
             outbound' = [outbound EXCEPT ![r] =
                [step |-> "open", guard |-> outbound[r].guard, seen |-> outbound[r].seen, to |-> to]]
    /\ UNCHANGED <<up, itar, address, configured, brokerVars>>

CloseRequest(r) ==
    /\ outbound[r].step = "open"
    /\ outbound' = [outbound EXCEPT ![r] = NoRequest]
    /\ UNCHANGED <<up, itar, address, configured, brokerVars>>

-----------------------------------------------------------------------------
(* The republisher.  Storing its settings also drops the cache and the     *)
(* client; publishing reads the settings, then connects under the lock     *)
(* unless a client is there: a thread that read them before connects to    *)
(* the broker they named.                                                  *)
SetBroker ==
    /\ up
    /\ brokerSet' \in (Host \cup {NoHost}) \ {brokerSet}
    /\ brokerCache' = "unread" /\ client' = NoHost
    /\ UNCHANGED <<requestVars, publisher>>

\* A broker that is switched off is not cached: it is read again each time.
PublishEvent ==
    /\ up /\ publisher = NoHost
    /\ brokerCache' = IF brokerCache \in Host THEN brokerCache ELSE brokerSet
    /\ publisher' = brokerCache'
    /\ UNCHANGED <<requestVars, brokerSet, client>>

\* The client that is connected is used, whatever broker the settings name; an error leaves none.
ConnectBroker ==
    /\ publisher # NoHost
    /\ publisher' = NoHost
    /\ client' \in (IF client # NoHost THEN {client}
                   ELSE {NoHost} \cup {h \in {publisher} : Enforced(h)})
    /\ UNCHANGED <<requestVars, brokerSet, brokerCache>>

\* The cache is 30 s old, or the connection is lost.
BrokerAges ==
    /\ \/ brokerCache # "unread" /\ brokerCache' = "unread" /\ UNCHANGED client
       \/ client # NoHost /\ client' = NoHost /\ UNCHANGED brokerCache
    /\ UNCHANGED <<requestVars, brokerSet, publisher>>

OutboundNext ==
    \/ NameMoves \/ Boot \/ StopServer \/ Configure
    \/ \E r \in Outgoing :
          BeginRequestOut(r) \/ ResolveAndPin(r) \/ ConnectOut(r) \/ CloseRequest(r)
    \/ SetBroker \/ PublishEvent \/ ConnectBroker \/ BrokerAges

OutboundSpec == OutboundInit /\ [][OutboundNext]_outboundVars

-----------------------------------------------------------------------------
(* What a pin is worth although the name may resolve to something else by  *)
(* then.  A caller of pin_for_request that looks names up in its thread    *)
(* connects locally in ITAR mode.  safe_post never connects to a local     *)
(* address, in either mode; in ITAR mode it connects to none its first     *)
(* check found, so that it reaches a public one, which itar.py:10-12       *)
(* excludes, only when the name moved between its two lookups.  Nothing is *)
(* said of the others: what they connect to is looked up after the check.  *)
PinsHold ==
    \A r \in Outgoing :
        outbound[r].step = "open" =>
            /\ outbound[r].guard = "pinned" /\ itar => outbound[r].to = "lan"
            /\ outbound[r].guard = "posted" =>
                   outbound[r].to # "lan" /\ (itar => outbound[r].to \notin outbound[r].seen)
=============================================================================
