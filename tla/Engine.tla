------------------------------ MODULE Engine ------------------------------
(***************************************************************************)
(* One engine (lib3h/src/engine) with its multiplexer: the spaces its      *)
(* client joins and leaves, the direct messages it carries both ways, and  *)
(* one call after the other of GhostEngine::process_concrete.              *)
(*                                                                         *)
(* A call runs the callbacks of the client's answers, then the commands of *)
(* the client.  Only if there was none it polls the multiplexer and serves *)
(* what came from the network, and only if nothing came it polls the       *)
(* gateways of the spaces and serves what they ask.  An error in any of    *)
(* these ends the call and drops what was drained but not yet served.      *)
(*                                                                         *)
(* The client, the network gateway and the gateways of the spaces are      *)
(* environment here: what they may answer is chosen freely.                *)
(***************************************************************************)
EXTENDS Integers, FiniteSets, FiniteSetsExt

CONSTANTS
    Spaces, Agents,
    Authors,          \* the agents that authored entries
    Requests,         \* what the client asks: a direct message, a query, a bootstrap
    Incoming,         \* direct messages of remote agents
    RemoteJoins,      \* the spaces that agents of other engines join
    Locations,        \* the locations of other engines
    OwnName,          \* the peer name of this engine
    PeerListTimeout,  \* DEFAULT_TIMEOUT of the ghost tracker, in ticks
    MaxCommands,      \* bound on the commands the client sends between two calls
    MaxEvents,        \* bound on the events of the network between two calls
    MaxLists,         \* bound on the lists, and the entries in them, asked at a time
    MaxEntries        \* bound on the entries DHTs ask for and the aspects to store at a time

ASSUME EngineAssumption ==
    /\ RemoteJoins \subseteq Spaces
    /\ OwnName \notin Locations
    /\ Requests \cap Incoming = {}
    /\ PeerListTimeout \in Nat
    /\ MaxCommands \in Nat /\ MaxEvents \in Nat
    /\ MaxLists \in Nat /\ MaxEntries \in Nat

VARIABLES
    kind,      \* per request: what it asks for
    chain,     \* per message: its space and the agent that sends or receives it here
    gateways,  \* the keys of space_gateway_map
    taken,     \* what process_space_gateways drained from it and did not put back
    routes,    \* the keys of route_endpoints of the multiplexer
    member,    \* HISTORY. the spaces the client was told it joined and has not left
    commands,  \* from the client, not yet handled
    asks,      \* per chain: callbacks that wait, for the client or a gateway
    late,      \* the client may still answer a request that timed out
    stage,     \* per message: where it is, or how it ended
    reply,     \* per request: where the latest answer of the remote agent is
    events,    \* from the network gateway, not yet handled
    listing,   \* per location: age of the RequestPeerList for its connection, or -1
    deferred,  \* multiplexer_defered_sends: who is to be told our spaces
    pc,        \* the phase of process_concrete, or "idle"
    didWork,   \* did_work, in the phases that look at it
    polled,    \* process() was called in this tick
    result,    \* how the latest call ended
    dead       \* why the engine panicked, or "no"

given == <<kind, chain>>
spaceVars == <<gateways, taken, routes, member>>
messageVars == <<stage, reply>>
clientVars == <<commands, asks, late>>
networkVars == <<events, listing, deferred>>
loopVars == <<pc, didWork, polled, result, dead>>
vars == <<given, spaceVars, messageVars, clientVars, networkVars, loopVars>>

Chains == Spaces \X Agents
Messages == Requests \cup Incoming

Kinds == {"send", "query", "bootstrap"}

(* list and fetch wait for the client and need the space when it answers;   *)
(* entry waits for the client on behalf of a DHT; store waits for it too,   *)
(* and its answer is ignored; aspects waits for a DHT.                      *)
AskKinds == {"list", "fetch", "entry", "store", "aspects"}

Commands == ({"join", "leave", "publish"} \X Chains) \cup ({"ask"} \X Requests)
Events ==
    ({"direct"} \X Incoming) \cup ({"result"} \X Requests)
        \cup ({"join"} \X RemoteJoins) \cup ({"connection"} \X Locations)

(* A message is queued in commands or events; sending, acked and routed are *)
(* inside the gateway of its chain, drained is in the requests a gateway    *)
(* made; asked waits for an answer, pending is in                           *)
(* pending_client_direct_messages.  What is lost is never answered.         *)
InGateway == {"sending", "acked", "routed"}
Ended == {"answered", "refused", "done", "lost"}
Stages == {"none", "queued", "drained", "asked", "pending"} \cup InGateway \cup Ended
Replies == {"none", "sent", "queued", "routed", "drained", "done", "lost"}

Phases == {"endpoint", "client", "network", "events", "spaces", "requests"}

TypeOK ==
    /\ kind \in [Requests -> Kinds]
    /\ chain \in [Messages -> Chains]
    /\ gateways \subseteq Chains
    /\ taken \subseteq Chains
    /\ routes \subseteq Chains
    /\ member \subseteq Chains
    /\ commands \subseteq Commands
    /\ asks \in [Chains \X AskKinds -> Nat]
    /\ late \in BOOLEAN
    /\ stage \in [Messages -> Stages]
    /\ reply \in [Requests -> Replies]
    /\ events \subseteq Events
    /\ listing \in [Locations -> -1..PeerListTimeout]
    /\ deferred \subseteq Locations
    /\ pc \in {"idle"} \cup Phases
    /\ didWork \in BOOLEAN
    /\ polled \in BOOLEAN
    /\ result \in {"Ok", "Err"}
    /\ dead \in {"no", "route", "event", "left", "unhandled", "entry", "timeout"}

Init ==
    /\ kind \in [Requests -> Kinds]
    /\ chain \in [Messages -> Chains]
    /\ gateways = {}
    /\ taken = {}
    /\ routes = {}
    /\ member = {}
    /\ commands = {}
    /\ asks = [a \in Chains \X AskKinds |-> 0]
    /\ late = FALSE
    /\ stage = [m \in Messages |-> "none"]
    /\ reply = [m \in Requests |-> "none"]
    /\ events = {}
    /\ listing = [l \in Locations |-> -1]
    /\ deferred = {}
    /\ pc = "idle"
    /\ didWork = FALSE
    /\ polled = FALSE
    /\ result = "Ok"
    /\ dead = "no"

-----------------------------------------------------------------------------
(* What the steps of process_concrete share.                               *)

At(p) == dead = "no" /\ pc = p

GoTo(p) == pc' = p /\ UNCHANGED <<didWork, polled, result, dead>>
Return(r) == pc' = "idle" /\ result' = r /\ didWork' = FALSE /\ UNCHANGED <<polled, dead>>
Panic(why) == dead' = why /\ UNCHANGED <<pc, didWork, polled, result>>
Continue == UNCHANGED loopVars
Worked == didWork' = TRUE /\ UNCHANGED <<pc, polled, result, dead>>

Move(m, s) == stage' = [stage EXCEPT ![m] = s]

(* A queue of drained messages is dropped with all that is in it.           *)
QueueLost(m, queue) == IF stage[m] = "queued" /\ m \in queue THEN "lost" ELSE stage[m]

(* The gateways of these chains are dropped with all that is in them.       *)
StageWithout(cs) ==
    [m \in Messages |-> IF chain[m] \in cs /\ stage[m] \in InGateway THEN "lost" ELSE stage[m]]
ReplyWithout(cs) ==
    [m \in Requests |-> IF chain[m] \in cs /\ reply[m] = "routed" THEN "lost" ELSE reply[m]]
AsksWithout(cs) ==
    [a \in Chains \X AskKinds |-> IF a[1] \in cs /\ a[2] = "aspects" THEN 0 ELSE asks[a]]

Waiting(c, k) == asks[<<c, k>>] > 0
Total(kinds) == MapThenSumSet(LAMBDA a : asks[a], Chains \X kinds)
Asked(c, k) == [asks EXCEPT ![<<c, k>>] = @ + 1]
Done(c, k) == [asks EXCEPT ![<<c, k>>] = @ - 1]

-----------------------------------------------------------------------------
(* Between two calls of process().                                         *)

Joins(q) == {d \in q : d[1] = "join"}

ClientCommand(d) ==
    /\ At("idle")
    /\ d \notin commands
    /\ Cardinality(commands) < MaxCommands
    /\ d[1] = "ask" => stage[d[2]] = "none"
    /\ d[1] = "join" => Total({"list", "aspects", "fetch"}) + 2 * Cardinality(Joins(commands)) + 2
                            <= MaxLists
    /\ commands' = commands \cup {d}
    /\ stage' = IF d[1] = "ask" THEN [stage EXCEPT ![d[2]] = "queued"] ELSE stage
    /\ UNCHANGED <<given, spaceVars, reply, asks, late, networkVars, loopVars>>

(* A remote agent answers only a message that was sent.  Another connection *)
(* of a location follows only when the list for the first was given.        *)
NetworkEvent(e) ==
    /\ At("idle")
    /\ e \notin events
    /\ Cardinality(events) < MaxEvents
    /\ e[1] = "direct" => stage[e[2]] = "none"
    /\ e[1] = "result" => reply[e[2]] = "sent"
    /\ e[1] = "connection" => listing[e[2]] = -1
    /\ events' = events \cup {e}
    /\ stage' = IF e[1] = "direct" THEN [stage EXCEPT ![e[2]] = "queued"] ELSE stage
    /\ reply' = IF e[1] = "result" THEN [reply EXCEPT ![e[2]] = "queued"] ELSE reply
    /\ UNCHANGED <<given, spaceVars, clientVars, listing, deferred, loopVars>>

(* The owner polls the engine in every tick.                                *)
Tick ==
    /\ At("idle")
    /\ polled
    /\ \E l \in Locations : listing[l] >= 0
    /\ listing' = [l \in Locations |->
                     IF listing[l] \in 0..(PeerListTimeout - 1) THEN listing[l] + 1 ELSE listing[l]]
    /\ polled' = FALSE
    /\ UNCHANGED <<given, spaceVars, messageVars, clientVars,
                   events, deferred, pc, didWork, result, dead>>

Begin ==
    /\ At("idle")
    /\ pc' = "endpoint"
    /\ polled' = TRUE
    /\ UNCHANGED <<given, spaceVars, messageVars, clientVars, networkVars, didWork, result, dead>>

-----------------------------------------------------------------------------
(* lib3h_endpoint.process: callbacks with the client's answers, which may   *)
(* be an error, or with a timeout, after which the answer may still come.   *)

Outcomes == {"ok", "err", "timeout"}
TimedOut(o) == late' = (late \/ o = "timeout")

(* handle_HandleGetGossipingEntryListResult and ..AuthoringEntryListResult, *)
(* which asks the DHT which aspects of an authored entry it has.            *)
ListCallback(c, o) ==
    /\ At("endpoint")
    /\ Waiting(c, "list")
    /\ TimedOut(o)
    /\ IF o = "ok" /\ c \in gateways
         THEN /\ \/ asks' = Done(c, "list")
                 \/ /\ c[2] \in Authors
                    /\ asks' = [Done(c, "list") EXCEPT ![<<c, "aspects">>] = @ + 1]
              /\ Continue
         ELSE asks' = Done(c, "list") /\ Return("Err")
    /\ UNCHANGED <<given, spaceVars, messageVars, commands, networkVars>>

(* The entry of an authoring list is broadcast by the DHT of its space.     *)
FetchCallback(c, o) ==
    /\ At("endpoint")
    /\ Waiting(c, "fetch")
    /\ TimedOut(o)
    /\ asks' = Done(c, "fetch")
    /\ IF o = "ok" /\ c \in gateways THEN Continue ELSE Return("Err")
    /\ UNCHANGED <<given, spaceVars, messageVars, commands, networkVars>>

(* The entry a DHT asked for.                                               *)
EntryCallback(c, o) ==
    /\ At("endpoint")
    /\ Waiting(c, "entry")
    /\ TimedOut(o)
    /\ asks' = Done(c, "entry")
    /\ IF o = "ok" \/ c \notin gateways THEN Continue ELSE Panic("entry")
    /\ UNCHANGED <<given, spaceVars, messageVars, commands, networkVars>>

(* What the client says of an aspect it was asked to store is not looked at. *)
StoreCallback(c, o) ==
    /\ At("endpoint")
    /\ Waiting(c, "store")
    /\ TimedOut(o)
    /\ asks' = Done(c, "store")
    /\ Continue
    /\ UNCHANGED <<given, spaceVars, messageVars, commands, networkVars>>

(* The client has handled a direct message.                                 *)
DirectCallback(m, o) ==
    /\ At("endpoint")
    /\ stage[m] = "asked"
    /\ IF o = "ok" /\ chain[m] \in gateways
         THEN Move(m, "done") /\ Continue
         ELSE /\ Panic(IF o = "ok" THEN "left" ELSE "unhandled")
              /\ UNCHANGED stage
    /\ UNCHANGED <<given, spaceVars, reply, clientVars, networkVars>>

(* An error of the client is logged, and its query is not answered.         *)
QueryCallback(m, o) ==
    /\ At("endpoint")
    /\ kind[m] = "query"
    /\ stage[m] = "asked"
    /\ TimedOut(o)
    /\ Move(m, IF o = "ok" THEN "answered" ELSE "lost")
    /\ Continue
    /\ UNCHANGED <<given, spaceVars, reply, commands, asks, networkVars>>

LateAnswer ==
    /\ At("endpoint")
    /\ late
    /\ late' \in BOOLEAN
    /\ Return("Err")
    /\ UNCHANGED <<given, spaceVars, messageVars, commands, asks, networkVars>>

EndEndpoint ==
    /\ At("endpoint")
    /\ pc' = "client"
    /\ didWork' = FALSE
    /\ UNCHANGED <<given, spaceVars, messageVars, clientVars, networkVars, polled, result, dead>>

-----------------------------------------------------------------------------
(* handle_msg_from_client *)

Take(d) == At("client") /\ d \in commands /\ commands' = commands \ {d}

(* A new gateway with an empty DHT, over a route of its own.                *)
AddGateway(c) ==
    /\ gateways' = gateways \cup {c}
    /\ routes' = routes \cup {c}
    /\ UNCHANGED taken

(* handle_join: refused if already joined; create_agent_space_route panics  *)
(* over an old route.  The client is asked for two lists of entries.        *)
HandleJoin(c) ==
    /\ Take(<<"join", c>>)
    /\ \/ /\ c \in gateways
          /\ Worked
          /\ UNCHANGED <<spaceVars, asks>>
       \/ /\ c \notin gateways
          /\ c \in routes
          /\ Panic("route")
          /\ UNCHANGED <<spaceVars, asks>>
       \/ /\ c \notin gateways
          /\ c \notin routes
          /\ AddGateway(c)
          /\ member' = member \cup {c}
          /\ asks' = [asks EXCEPT ![<<c, "list">>] = @ + 2]
          /\ Worked
    /\ UNCHANGED <<given, messageVars, late, networkVars>>

(* handle_leave_space, remove_agent_space_route *)
HandleLeave(c) ==
    /\ Take(<<"leave", c>>)
    /\ IF c \in gateways
         THEN /\ gateways' = gateways \ {c}
              /\ routes' = routes \ {c}
              /\ member' = member \ {c}
              /\ stage' = StageWithout({c})
              /\ reply' = ReplyWithout({c})
              /\ asks' = AsksWithout({c})
         ELSE UNCHANGED <<gateways, routes, member, messageVars, asks>>
    /\ Worked
    /\ UNCHANGED <<given, taken, late, networkVars>>

(* handle_publish_entry: the client is asked to store each aspect of the    *)
(* entry, and only then is it known whether the space was joined.           *)
HandlePublish(c) ==
    /\ At("client")
    /\ <<"publish", c>> \in commands
    /\ \E aspects \in 0..MaxEntries :
         /\ aspects + Total({"entry", "store"}) <= MaxEntries
         /\ asks' = [asks EXCEPT ![<<c, "store">>] = @ + aspects]
    /\ \/ /\ c \in gateways
          /\ commands' = commands \ {<<"publish", c>>}
          /\ Worked
          /\ UNCHANGED stage
       \/ /\ c \notin gateways
          /\ commands' = {}
          /\ stage' = [m \in Messages |-> QueueLost(m, Requests)]
          /\ Return("Err")
    /\ UNCHANGED <<given, spaceVars, reply, late, networkVars>>

(* handle_direct_message is refused in a space that was not joined;         *)
(* handle_query_entry asks the client itself; handle_bootstrap the network. *)
HandleAsk(m) ==
    /\ Take(<<"ask", m>>)
    /\ Move(m, CASE kind[m] # "send" -> "asked"
                 [] kind[m] = "send" /\ chain[m] \in gateways -> "sending"
                 [] OTHER -> "refused")
    /\ Worked
    /\ UNCHANGED <<given, spaceVars, reply, asks, late, networkVars>>

(* The rest of process_concrete is skipped if there were commands.          *)
EndClient ==
    /\ At("client")
    /\ commands = {}
    /\ IF didWork THEN Return("Ok") ELSE GoTo("network")
    /\ UNCHANGED <<given, spaceVars, messageVars, clientVars, networkVars>>

-----------------------------------------------------------------------------
(* process_multiplexer polls the multiplexer, which polls the network       *)
(* gateway and the routes, ...                                              *)

(* The remote agent has the message and will answer it, once more if its    *)
(* earlier answer has already come.                                         *)
Delivered(m) ==
    reply' = [reply EXCEPT ![m] = IF @ \in {"none", "done", "lost"} THEN "sent" ELSE @]

(* A frame goes out although its write was reported as failed; the message  *)
(* is kept to be sent again.                                                *)
SendFrame(m) ==
    /\ At("network")
    /\ stage[m] = "sending"
    /\ reply[m] \in {"none", "done", "lost"}
    /\ Delivered(m)
    /\ Continue
    /\ UNCHANGED <<given, spaceVars, stage, clientVars, networkVars>>

(* The answer to a send goes back through the route into the gateway.       *)
AckSend(m) ==
    /\ At("network")
    /\ stage[m] = "sending"
    /\ Move(m, "acked")
    /\ Delivered(m)
    /\ Continue
    /\ UNCHANGED <<given, spaceVars, clientVars, networkVars>>

BootstrapCallback(m) ==
    /\ At("network")
    /\ kind[m] = "bootstrap"
    /\ stage[m] = "asked"
    /\ \E r \in {"answered", "refused"} : Move(m, r)
    /\ Continue
    /\ UNCHANGED <<given, spaceVars, reply, clientVars, networkVars>>

(* What the network gateway reports as the location of a new connection is  *)
(* the name of its own node, so no peer is found there.                     *)
Reported(l) == OwnName

(* The network DHT answers as soon as it is polled, but the timeouts of the *)
(* endpoint are run before its answers.                                     *)
PeerListCallback(l) ==
    /\ At("network")
    /\ listing[l] >= 0
    /\ IF listing[l] = PeerListTimeout
         THEN Panic("timeout") /\ UNCHANGED <<listing, deferred>>
         ELSE /\ listing' = [listing EXCEPT ![l] = -1]
              /\ \E peers \in SUBSET Locations :
                   deferred' = IF Reported(l) \in peers THEN deferred \cup {l} ELSE deferred
              /\ Continue
    /\ UNCHANGED <<given, spaceVars, messageVars, clientVars, events>>

(* MUTANT of EndPoll: disconnected routes are kept.                         *)
EndPoll_KeepRoutes ==
    /\ At("network")
    /\ \A l \in Locations : listing[l] = -1
    /\ GoTo("events")
    /\ UNCHANGED <<given, spaceVars, messageVars, clientVars, networkVars>>

(* Routes whose gateway is gone are found disconnected and removed.         *)
EndPoll ==
    /\ At("network")
    /\ \A l \in Locations : listing[l] = -1
    /\ routes' = routes \cap gateways
    /\ GoTo("events")
    /\ UNCHANGED <<given, gateways, taken, member, messageVars, clientVars, networkVars>>

MultiplexerFails ==
    /\ At("network")
    /\ Return("Err")
    /\ UNCHANGED <<given, spaceVars, messageVars, clientVars, networkVars>>

(* ... and then serves what the network gateway has for the engine.         *)

(* MUTANT of HandleDirect: a missing route ends the loop without an error.  *)
HandleDirect_Break(m) ==
    /\ At("events")
    /\ <<"direct", m>> \in events
    /\ chain[m] \notin routes
    /\ events' = {}
    /\ stage' = [n \in Messages |-> QueueLost(n, Incoming)]
    /\ reply' = [n \in Requests |-> IF reply[n] = "queued" THEN "lost" ELSE reply[n]]
    /\ Return("Ok")
    /\ UNCHANGED <<given, spaceVars, clientVars, listing, deferred>>

(* received_data_for_agent_space_route: the error of a message without a    *)
(* route takes the other events with it.                                    *)
HandleDirect(m) ==
    /\ At("events")
    /\ <<"direct", m>> \in events
    /\ \/ /\ chain[m] \in routes
          /\ events' = events \ {<<"direct", m>>}
          /\ Move(m, "routed")
          /\ Worked
          /\ UNCHANGED reply
       \/ /\ chain[m] \notin routes
          /\ events' = {}
          /\ stage' = [n \in Messages |-> QueueLost(n, Incoming)]
          /\ reply' = [n \in Requests |-> IF reply[n] = "queued" THEN "lost" ELSE reply[n]]
          /\ Return("Err")
    /\ UNCHANGED <<given, spaceVars, clientVars, listing, deferred>>

(* MUTANT of HandleResult: the network layer serves the result itself.      *)
HandleResult_AtNetwork(m) ==
    /\ At("events")
    /\ <<"result", m>> \in events
    /\ events' = events \ {<<"result", m>>}
    /\ reply' = [reply EXCEPT ![m] = "done"]
    /\ Move(m, IF stage[m] = "pending" THEN "answered" ELSE stage[m])
    /\ Worked
    /\ UNCHANGED <<given, spaceVars, clientVars, listing, deferred>>

HandleResult(m) ==
    /\ At("events")
    /\ <<"result", m>> \in events
    /\ \/ /\ chain[m] \in routes
          /\ events' = events \ {<<"result", m>>}
          /\ reply' = [reply EXCEPT ![m] = "routed"]
          /\ Worked
          /\ UNCHANGED stage
       \/ /\ chain[m] \notin routes
          /\ events' = {}
          /\ stage' = [n \in Messages |-> QueueLost(n, Incoming)]
          /\ reply' = [n \in Requests |-> IF reply[n] = "queued" THEN "lost" ELSE reply[n]]
          /\ Return("Err")
    /\ UNCHANGED <<given, spaceVars, clientVars, listing, deferred>>

(* BroadcastJoinSpace: every gateway is told to hold the peer, whichever    *)
(* space it joined.  What the DHTs make of it is MirrorDht's matter.        *)
HandleBroadcastJoin(s) ==
    /\ At("events")
    /\ <<"join", s>> \in events
    /\ events' = events \ {<<"join", s>>}
    /\ Worked
    /\ UNCHANGED <<given, spaceVars, messageVars, clientVars, listing, deferred>>

(* handle_incoming_connection *)
HandleConnection(l) ==
    /\ At("events")
    /\ <<"connection", l>> \in events
    /\ events' = events \ {<<"connection", l>>}
    /\ listing' = [listing EXCEPT ![l] = 0]
    /\ Worked
    /\ UNCHANGED <<given, spaceVars, messageVars, clientVars, deferred>>

(* MUTANT of EndEvents: the multiplexer is polled again while there was     *)
(* work, and the flag is not reset.                                         *)
EndEvents_Again ==
    /\ At("events")
    /\ events = {}
    /\ deferred' = {}
    /\ IF didWork
         THEN GoTo("network") /\ UNCHANGED <<gateways, taken>>
         ELSE GoTo("spaces") /\ gateways' = {} /\ taken' = gateways
    /\ UNCHANGED <<given, routes, member, messageVars, clientVars, events, listing>>

(* MUTANT of EndEvents: a multiplexer that was polled always says that it   *)
(* did work.                                                                *)
EndEvents_AlwaysWorked ==
    /\ At("events")
    /\ events = {}
    /\ deferred' = {}
    /\ Return("Ok")
    /\ UNCHANGED <<given, spaceVars, messageVars, clientVars, events, listing>>

(* The deferred sends.  The spaces are skipped if there were events,        *)
(* otherwise process_space_gateways begins by draining the map.             *)
EndEvents ==
    /\ At("events")
    /\ events = {}
    /\ deferred' = {}
    /\ IF didWork
         THEN Return("Ok") /\ UNCHANGED <<gateways, taken>>
         ELSE GoTo("spaces") /\ gateways' = {} /\ taken' = gateways
    /\ UNCHANGED <<given, routes, member, messageVars, clientVars, events, listing>>

-----------------------------------------------------------------------------
(* process_space_gateways polls each gateway, which runs the callbacks of   *)
(* the engine, and then drains what the gateway asks for.                   *)

Sending(c) == {m \in Requests : chain[m] = c /\ stage[m] \in {"sending", "acked"}}
Acked(c) == {m \in Requests : chain[m] = c /\ stage[m] = "acked"}

(* The callback of handle_direct_message keeps the client's message until   *)
(* the remote agent answers, or answers it with the error or timeout.       *)
Called(m, stored, refused) ==
    CASE m \in stored -> "pending"
      [] m \in refused -> "refused"
      [] OTHER -> stage[m]

(* MUTANT of ProcessGateway: the gateway is not put back into the map.       *)
ProcessGateway_NotPutBack(c) ==
    /\ At("spaces")
    /\ c \in taken
    /\ taken' = taken \ {c}
    /\ stage' = [m \in Messages |->
                   IF m \in Incoming /\ chain[m] = c /\ stage[m] = "routed" THEN "drained" ELSE stage[m]]
    /\ Continue
    /\ UNCHANGED <<given, gateways, routes, member, reply, clientVars, networkVars>>

ProcessGateway(c) ==
    /\ At("spaces")
    /\ c \in taken
    /\ taken' = taken \ {c}
    /\ gateways' = gateways \cup {c}
    /\ \E refused \in SUBSET Sending(c) :
         stage' = [m \in Messages |->
                     IF m \in Incoming /\ chain[m] = c /\ stage[m] = "routed"
                       THEN "drained"
                       ELSE Called(m, Acked(c) \ refused, refused)]
    /\ reply' = [m \in Requests |->
                   IF chain[m] = c /\ reply[m] = "routed" THEN "drained" ELSE reply[m]]
    /\ \E n \in 0..asks[<<c, "aspects">>] :
         asks' = [asks EXCEPT ![<<c, "aspects">>] = 0, ![<<c, "fetch">>] = @ + n]
    /\ Continue
    /\ UNCHANGED <<given, routes, member, commands, late, networkVars>>

(* MUTANT of FailGateway: the error is only logged.                         *)
FailGateway_Logged(c) ==
    /\ At("spaces")
    /\ c \in taken
    /\ taken' = taken \ {c}
    /\ stage' = StageWithout({c})
    /\ reply' = ReplyWithout({c})
    /\ asks' = AsksWithout({c})
    /\ Continue
    /\ UNCHANGED <<given, gateways, routes, member, commands, late, networkVars>>

(* An error of a gateway, or of a callback, drops this gateway, those that  *)
(* were not yet polled, and what the others asked for.                      *)
FailGateway(c) ==
    /\ At("spaces")
    /\ c \in taken
    /\ taken' = {}
    /\ \E stored \in SUBSET Acked(c), refused \in SUBSET Sending(c) :
         stage' = [m \in Messages |->
                     IF m \in stored \cup refused THEN Called(m, stored, refused)
                     ELSE IF stage[m] = "drained" THEN "lost"
                     ELSE StageWithout(taken)[m]]
    /\ reply' = [m \in Requests |->
                   IF reply[m] = "drained" THEN "lost" ELSE ReplyWithout(taken)[m]]
    /\ asks' = AsksWithout(taken)
    /\ Return("Err")
    /\ UNCHANGED <<given, gateways, routes, member, commands, late, networkVars>>

EndSpaces ==
    /\ At("spaces")
    /\ taken = {}
    /\ GoTo("requests")
    /\ UNCHANGED <<given, spaceVars, messageVars, clientVars, networkVars>>

-----------------------------------------------------------------------------
(* handle_space_request *)

(* The client is asked to handle the direct message.                        *)
ServeDirect(m) ==
    /\ At("requests")
    /\ stage[m] = "drained"
    /\ IF chain[m] \in gateways
         THEN Move(m, "asked") /\ Continue
         ELSE Panic("event") /\ UNCHANGED stage
    /\ UNCHANGED <<given, spaceVars, reply, clientVars, networkVars>>

(* A result is for the message that is pending under its id, if there is one. *)
ServeResult(m) ==
    /\ At("requests")
    /\ reply[m] = "drained"
    /\ IF chain[m] \in gateways
         THEN /\ reply' = [reply EXCEPT ![m] = "done"]
              /\ Move(m, IF stage[m] = "pending" THEN "answered" ELSE stage[m])
              /\ Continue
         ELSE Panic("event") /\ UNCHANGED messageVars
    /\ UNCHANGED <<given, spaceVars, clientVars, networkVars>>

ServeRequestEntry(c) ==
    /\ At("requests")
    /\ c \in gateways
    /\ Total({"entry", "store"}) < MaxEntries
    /\ asks' = Asked(c, "entry")
    /\ Continue
    /\ UNCHANGED <<given, spaceVars, messageVars, commands, late, networkVars>>

EndRequests ==
    /\ At("requests")
    /\ \A m \in Incoming : stage[m] # "drained"
    /\ \A m \in Requests : reply[m] # "drained"
    /\ Return("Ok")
    /\ UNCHANGED <<given, spaceVars, messageVars, clientVars, networkVars>>

-----------------------------------------------------------------------------
Environment ==
    \/ \E d \in Commands : ClientCommand(d)
    \/ \E e \in Events : NetworkEvent(e)
    \/ Tick

Callback ==
    \/ \E o \in Outcomes :
         \/ \E c \in Chains : ListCallback(c, o) \/ FetchCallback(c, o)
                                  \/ EntryCallback(c, o) \/ StoreCallback(c, o)
         \/ \E m \in Incoming : DirectCallback(m, o)
         \/ \E m \in Requests : QueryCallback(m, o)
    \/ LateAnswer

HandleClient ==
    \/ \E c \in Chains : HandleJoin(c) \/ HandleLeave(c) \/ HandlePublish(c)
    \/ \E m \in Requests : HandleAsk(m)

PollNetwork ==
    \/ \E m \in Requests : SendFrame(m) \/ AckSend(m) \/ BootstrapCallback(m)
    \/ \E l \in Locations : PeerListCallback(l)
    \/ MultiplexerFails

HandleEvent ==
    \/ \E m \in Incoming : HandleDirect(m)
    \/ \E m \in Requests : HandleResult(m)
    \/ \E s \in RemoteJoins : HandleBroadcastJoin(s)
    \/ \E l \in Locations : HandleConnection(l)

PollSpaces == \E c \in Chains : ProcessGateway(c) \/ FailGateway(c)

Serve ==
    \/ \E m \in Incoming : ServeDirect(m)
    \/ \E m \in Requests : ServeResult(m)
    \/ \E c \in Chains : ServeRequestEntry(c)

Process ==
    \/ Begin
    \/ Callback \/ EndEndpoint
    \/ HandleClient \/ EndClient
    \/ PollNetwork \/ EndPoll
    \/ HandleEvent \/ EndEvents
    \/ PollSpaces \/ EndSpaces
    \/ Serve \/ EndRequests

Next == Environment \/ Process

Spec == Init /\ [][Next]_vars

(* The owner polls the engine again and again. *)
LiveSpec == Spec /\ WF_vars(Process)

-----------------------------------------------------------------------------
(* PROPERTIES *)

(* SAFETY. A space that is joined always has a route for its messages, and  *)
(* when the events of the network are served the multiplexer has no other   *)
(* routes: what was left behind by an error is gone (mplex.rs:384-399).  A   *)
(* route is left behind only for a space that the client has not left, so   *)
(* that only joining again after an error, never joining again after        *)
(* leaving, meets the panic of create_agent_space_route (mplex.rs:95).      *)
RoutesFollowGateways ==
    /\ routes \subseteq member
    /\ gateways \cup taken \subseteq routes
    /\ pc \in {"events", "spaces", "requests"} => routes = gateways \cup taken

(* SAFETY. A gateway whose requests are served is in the map, as            *)
(* handle_space_request expects (space_layer.rs:100).                       *)
EventHasGateway == dead # "event"

(* ACTION. A result is thrown away only if it comes for a message that has  *)
(* ended, or overtakes the success of its own send: once a send succeeded,  *)
(* the client is told the result, although pending_client_direct_messages is *)
(* filled by a callback (ghost_engine.rs:616) and a result that finds no    *)
(* entry there is only logged (space_layer.rs:329-333).                     *)
NoResultWasted ==
    [][\A m \in Requests :
         (reply'[m] = "done" /\ reply[m] # "done") =>
            stage[m] = "sending" \/ stage'[m] \in Ended]_vars

(* ACTION. A direct message is dropped only in a call that returns an       *)
(* error, or with the space it belongs to when the client leaves it.        *)
NoSilentLoss ==
    [][\A m \in Messages :
         (stage'[m] = "lost" /\ stage[m] # "lost") =>
            \/ pc' = "idle" /\ result' = "Err"
            \/ chain[m] \in member \ member'
            \/ m \in Requests /\ kind[m] = "query"]_vars

(* ACTION. A space is dropped only by leaving it or in a call that returns  *)
(* an error (process_space_gateways drains the map while it works).         *)
SpacesStay ==
    [][\A c \in (gateways \cup taken) \ (gateways' \cup taken') :
         c \notin member' \/ (pc' = "idle" /\ result' = "Err")]_vars

-----------------------------------------------------------------------------
(* The parts of the inductive invariant.                                   *)

(* The map is whole except while its gateways are polled.                   *)
MapInv ==
    /\ gateways \cap taken = {}
    /\ pc # "spaces" => taken = {}
    /\ gateways \cup taken \subseteq member

(* What is queued is in the stage that says so.                             *)
QueueInv ==
    /\ \A m \in Requests : <<"ask", m>> \in commands => stage[m] = "queued"
    /\ \A m \in Incoming : <<"direct", m>> \in events => stage[m] = "queued"
    /\ \A m \in Requests : <<"result", m>> \in events => reply[m] = "queued"

(* What was drained came from a gateway that is back in the map.            *)
DrainedInv ==
    /\ \A m \in Incoming :
         stage[m] = "drained" => pc \in {"spaces", "requests"} /\ chain[m] \in gateways
    /\ \A m \in Requests :
         reply[m] = "drained" => pc \in {"spaces", "requests"} /\ chain[m] \in gateways
    /\ \A m \in Requests : stage[m] # "drained" /\ stage[m] # "routed"

(* The answer of the remote agent follows a frame of the message, and is    *)
(* not drained before the success of the send that is known.                *)
ReplyInv ==
    \A m \in Requests :
      /\ reply[m] # "none" => stage[m] \in {"sending", "acked", "pending"} \cup Ended
      /\ reply[m] = "drained" => stage[m] # "acked"

(* SAFETY. The inductive invariant: the map of gateways is whole between    *)
(* its drainings, agrees with the routes and with what the client was told, *)
(* and every message is where its stage says.                               *)
EngineInv ==
    /\ TypeOK
    /\ MapInv
    /\ RoutesFollowGateways
    /\ QueueInv
    /\ DrainedInv
    /\ ReplyInv
    /\ EventHasGateway

-----------------------------------------------------------------------------
(* A call that begins with nothing from the client and from the network.    *)
QuietCall == pc = "endpoint" /\ commands = {} /\ events = {}

(* LIVENESS. The layers are polled with a short-circuiting || and work in   *)
(* one skips the next (engine_actor.rs:58), but only commands and events of *)
(* the same call may do that: if again and again a call begins without any, *)
(* and from some time on none fails, a direct message from the network is   *)
(* given to the client or dropped with its space.                           *)
IncomingReachesClient ==
    ([]<>QuietCall /\ <>[](result = "Ok")) =>
        \A m \in Incoming :
           stage[m] = "queued" ~> (stage[m] \in {"asked"} \cup Ended \/ dead # "no")

(* LIVENESS. Every call of process() returns, whatever the client and the   *)
(* network have answered, or the engine panics.                             *)
ProcessReturns == pc # "idle" ~> (pc = "idle" \/ dead # "no")

=============================================================================
