---------------------------- MODULE LegacyLib3h ----------------------------
(***************************************************************************)
(* LegacyLib3h (lib3h/src/engine/ghost_engine_wrapper.rs): the wrapper that *)
(* offers the post()/process() protocol to the client (Holochain core) on   *)
(* top of the ghost engine, with the request tracker of track.rs, the       *)
(* parent wrapper of ghost_actor.rs and the Detach cell the engine is kept  *)
(* in.                                                                      *)
(*                                                                          *)
(* post() turns a client message into a request to the engine, or into the  *)
(* answer to a message of the engine.  process() runs the engine, then the  *)
(* endpoint to it, then hands the client what arrived; it returns early     *)
(* when one of the first two fails, and the engine is detached from the     *)
(* wrapper while they run.  The engine is any actor that answers requests   *)
(* sooner, later or never, has requests and events of its own, and may fail *)
(* or panic.  A caller that catches the panic can go on calling: it finds   *)
(* what the unwinding left.                                                 *)
(***************************************************************************)
EXTENDS Naturals, FiniteSets, Sequences, Functions

CONSTANTS
    Posts,       \* the client's messages: [id, kind], posted once each
    Sends,       \* the engine's messages: [id, kind], sent once each
    NoId,        \* the empty request id
    MaxFails     \* bound: the failures of the engine's process_concrete

VARIABLES
    engine,      \* Detach<GhostEngineParentWrapper>: "attached", "detached" while it
                 \* runs, "lost" when a panic has unwound out of it
    phase,       \* "idle", or where process() is: "actor", "endpoint", "drain"
    toEngine,    \* the channel from the wrapper to the engine
    fromEngine,  \* the channel from the engine to the wrapper
    pending,     \* the wrapper's endpoint: the ids with a callback
    overdue,     \* those of them whose time is over
    outbox,      \* the endpoint's received and not yet drained messages
    responses,   \* client_request_responses
    tracker,     \* Tracker: the ids that hold a GhostMessage of the engine
    idMap,       \* request_id_map: tracker id -> the id of the engine's message
    posted,      \* the client's messages that post() took
    client,      \* what process() returned to the client so far
    answered,    \* the engine's messages the client has answered
    holds,       \* the engine: the requests it has not answered
    waits,       \* the engine's endpoint: its requests that wait for an answer
    sent,        \* the engine's messages that were sent
    got,         \* the answers the engine received: message -> id in the answer
    fails,       \* failures of process_concrete, for MaxFails
    panicked     \* why calls panicked: "unimplemented", "engine", "detached"

wrapperVars == <<engine, phase, responses, tracker, idMap>>
endpointVars == <<toEngine, fromEngine, pending, overdue, outbox>>
clientVars == <<posted, client, answered>>
engineVars == <<holds, waits, sent, got, fails>>
vars == <<wrapperVars, endpointVars, clientVars, engineVars, panicked>>

-----------------------------------------------------------------------------
(* The message kinds of lib3h_protocol and the conversions between them.   *)

\* TryFrom<Lib3hClientProtocol> for ClientToLib3h.
ToClientToLib3h ==
    [Connect |-> "Bootstrap", JoinSpace |-> "JoinSpace", LeaveSpace |-> "LeaveSpace",
     SendDirectMessage |-> "SendDirectMessage", FetchEntry |-> "FetchEntry",
     PublishEntry |-> "PublishEntry", QueryEntry |-> "QueryEntry"]

\* TryFrom<Lib3hClientProtocol> for Lib3hToClientResponse, as the message it
\* answers; HandleStoreEntryAspect and HandleDropEntry have no answer here.
AnswerOf ==
    [HandleSendDirectMessage |-> "HandleSendDirectMessageResult",
     HandleFetchEntry |-> "HandleFetchEntryResult",
     HandleQueryEntry |-> "HandleQueryEntryResult",
     HandleGetAuthoringEntryList |-> "HandleGetAuthoringEntryListResult",
     HandleGetGossipingEntryList |-> "HandleGetGossipingEntryListResult"]

Lib3hToClient ==
    {"Connected", "Unbound", "SendDirectMessageResult", "HandleStoreEntryAspect",
     "HandleDropEntry"} \cup DOMAIN AnswerOf

\* The kinds that inject_request_id gives the tracker's id; it has no arm for the
\* other two.
Injected == Lib3hToClient \ {"Unbound", "SendDirectMessageResult"}

\* From<Lib3hToClient> for Lib3hServerProtocol.
ToServerProtocol(kind) == IF kind = "Unbound" THEN "Disconnected" ELSE kind

\* TryFrom<Lib3hServerProtocol> for Lib3hToClient.
FromServerProtocol(kind) == IF kind = "Disconnected" THEN "Unbound" ELSE kind

\* From<ClientToLib3h> for Lib3hClientProtocol.
ToClientProtocol(kind) == IF kind = "Bootstrap" THEN "Connect" ELSE kind

\* From<ClientToLib3hResponse> for Lib3hServerProtocol, which panics on any other
\* kind; make_callback does not use it.
ResponseToServer ==
    [SendDirectMessageResult |-> "SendDirectMessageResult", FetchEntryResult |-> "FetchEntryResult",
     QueryEntryResult |-> "QueryEntryResult", BootstrapSuccess |-> "Connected"]

\* From<Lib3hServerProtocol> for ClientToLib3hResponse.
ResponseFromServer ==
    [SendDirectMessageResult |-> "SendDirectMessageResult", FetchEntryResult |-> "FetchEntryResult",
     QueryEntryResult |-> "QueryEntryResult", Connected |-> "BootstrapSuccess"]

\* No kind is lost between the two protocols: each conversion undoes the other.
ASSUME ConversionsInvert ==
    /\ \A kind \in DOMAIN ToClientToLib3h : ToClientProtocol(ToClientToLib3h[kind]) = kind
    /\ \A kind \in Lib3hToClient : FromServerProtocol(ToServerProtocol(kind)) = kind
    /\ \A kind \in DOMAIN ResponseToServer : ResponseFromServer[ResponseToServer[kind]] = kind

\* What the engine answers (ClientToLib3hResponse), and what make_callback turns
\* the answer into; an error or a timeout becomes a FailureResult.
Reply ==
    [Bootstrap |-> "BootstrapSuccess", JoinSpace |-> "JoinSpaceResult",
     LeaveSpace |-> "LeaveSpaceResult", SendDirectMessage |-> "SendDirectMessageResult",
     FetchEntry |-> "FetchEntryResult", QueryEntry |-> "QueryEntryResult"]

CallbackResult(reply) ==
    CASE reply = "BootstrapSuccess" -> "Connected"
      [] reply \in {"JoinSpaceResult", "LeaveSpaceResult"} -> "SuccessResult"
      [] reply \in {"error", "timeout"} -> "FailureResult"
      [] OTHER -> reply

\* The kinds that post() has no arm for.
Unimplemented == {"SuccessResult", "Shutdown"}

\* The engine publishes these and makes requests of the others.
Notifications == {"Connected", "Unbound"}

\* The id that Tracker::gen_id makes for a message of the engine.
TrackId(e) == <<"client_to_lib3_response", e.id>>

\* The client does not use an id twice, nor an engine that of a client's request.
ASSUME LegacyAssumption ==
    /\ \A p \in Posts : p.kind \in DOMAIN ToClientToLib3h \cup Unimplemented
    /\ \A p \in Posts : p.kind = "PublishEntry" => p.id = NoId
    /\ \A e \in Sends : e.kind \in Lib3hToClient
    /\ \A p, q \in Posts : p.id = q.id /\ p.id # NoId => p = q
    /\ \A e, f \in Sends : e.id = f.id => e = f
    /\ \A p \in Posts, e \in Sends : p.id # TrackId(e) /\ p.id # e.id
    /\ \A e, f \in Sends : e.id # TrackId(f) /\ NoId # TrackId(f)
    /\ MaxFails \in Nat

\* post() makes a request of a message with an id and publishes one without:
\* PublishEntry has none, and a client may leave any other empty.
Requests == {p \in Posts : p.kind \in DOMAIN ToClientToLib3h /\ p.id # NoId}

Message(type, of, data) == [type |-> type, of |-> of, data |-> data]

ServerMessage(id, kind) == [id |-> id, kind |-> kind]

Tracked(id) == CHOOSE e \in Sends : TrackId(e) = id

\* inject_request_id: the id the client sees.
HandedId(e) ==
    CASE e.kind \in Injected -> TrackId(e)
      [] e.kind = "SendDirectMessageResult" -> e.id
      [] e.kind = "Unbound" -> NoId

-----------------------------------------------------------------------------
Init ==
    /\ engine = "attached" /\ phase = "idle"
    /\ toEngine = << >> /\ fromEngine = << >>
    /\ pending = {} /\ overdue = {} /\ outbox = << >>
    /\ responses = << >> /\ tracker = {} /\ idMap = << >>
    /\ posted = {} /\ client = << >> /\ answered = {}
    /\ holds = {} /\ waits = {} /\ sent = {} /\ got = << >>
    /\ fails = 0 /\ panicked = {}

\* post() of a message of the client: a request, or an event if its id is empty.
PostToEngine(p) ==
    /\ p.kind \notin Unimplemented /\ engine = "attached"
    /\ posted' = posted \cup {p}
    /\ toEngine' = Append(toEngine, Message("Request", p, ToClientToLib3h[p.kind]))
    /\ pending' = pending \cup ({p} \cap Requests)
    /\ UNCHANGED panicked

\* post() has no arm for the kind, or derefs a Detach that is empty.
PostPanics(p) ==
    /\ panicked' = panicked \cup {IF p.kind \in Unimplemented THEN "unimplemented" ELSE "detached"}
    /\ p.kind \in Unimplemented \/ engine # "attached"
    /\ UNCHANGED <<posted, toEngine, pending>>

Post(p) ==
    /\ phase = "idle"
    /\ p \notin posted
    /\ PostToEngine(p) \/ PostPanics(p)
    /\ UNCHANGED <<wrapperVars, fromEngine, overdue, outbox, client, answered, engineVars>>

\* Mutant: the engine is given the id that the tracker made.
PostAnswer_KeepsTrackId(id) ==
    /\ phase = "idle"
    /\ \E i \in 1 .. Len(client) : client[i].id = id
    /\ Tracked(id).kind \in DOMAIN AnswerOf
    /\ answered' = answered \cup {Tracked(id)}
    /\ tracker' = tracker \ {id}
    /\ toEngine' = IF id \in tracker /\ engine # "lost"
                   THEN Append(toEngine, Message("Response", Tracked(id), id))
                   ELSE toEngine
    /\ UNCHANGED <<engine, phase, responses, idMap, fromEngine, pending, overdue, outbox,
                   posted, client, engineVars, panicked>>

\* post() of the answer to a message that process() handed out, once or again:
\* only the first one finds the message in the tracker, the others are refused.
\* The answer to a direct message gets the id of the original message back.  It
\* does not need the Detach: the message knows its way to the engine, and if the
\* engine is lost responding fails.
PostAnswer(id) ==
    /\ phase = "idle"
    /\ \E i \in 1 .. Len(client) : client[i].id = id
    /\ Tracked(id).kind \in DOMAIN AnswerOf
    /\ answered' = answered \cup {Tracked(id)}
    /\ tracker' = tracker \ {id}
    /\ toEngine' = IF id \in tracker /\ engine # "lost"
                   THEN Append(toEngine, Message("Response", Tracked(id),
                          IF id \in DOMAIN idMap THEN idMap[id] ELSE id))
                   ELSE toEngine
    /\ idMap' = IF id \in tracker THEN [k \in DOMAIN idMap \ {id} |-> idMap[k]] ELSE idMap
    /\ UNCHANGED <<engine, phase, responses, fromEngine, pending, overdue, outbox,
                   posted, client, engineVars, panicked>>

\* process() takes the engine out of its Detach and runs the parent wrapper; an
\* empty Detach is a panic.
StartProcess ==
    /\ phase = "idle"
    /\ \/ engine = "attached" /\ engine' = "detached" /\ phase' = "actor" /\ UNCHANGED panicked
       \/ /\ engine # "attached"
          /\ panicked' = panicked \cup {"detached"} /\ UNCHANGED <<engine, phase>>
    /\ UNCHANGED <<responses, tracker, idMap, endpointVars, clientVars, engineVars>>

\* Mutant: the early return leaves the engine out of its Detach.
ProcessFails_LeavesDetached == phase' = "idle" /\ UNCHANGED <<engine, responses, outbox>>

\* Mutant: the collected responses are taken out before the engine runs.
ProcessFails_DropsResponses ==
    phase' = "idle" /\ engine' = "attached" /\ responses' = << >> /\ UNCHANGED outbox

\* process() returns an error: detach_run! has put the engine back first, and
\* what was collected stays for the next call.
ProcessFails == phase' = "idle" /\ engine' = "attached" /\ UNCHANGED <<responses, outbox>>

-----------------------------------------------------------------------------
(* phase "actor": the engine's process(), seen from its channel.           *)

\* The engine's endpoint receives; a late answer fails its process().
EngineReceives ==
    /\ phase = "actor"
    /\ toEngine # << >>
    /\ toEngine' = Tail(toEngine)
    /\ LET m == Head(toEngine)
       IN  \/ /\ m.type = "Request"
              /\ holds' = holds \cup ({m.of} \cap Requests)
              /\ UNCHANGED <<phase, engine, responses, outbox, waits, got>>
           \/ /\ m.type = "Response" /\ m.of \in waits
              /\ waits' = waits \ {m.of}
              /\ got' = [e \in DOMAIN got \cup {m.of} |-> IF e = m.of THEN m.data ELSE got[e]]
              /\ UNCHANGED <<phase, engine, responses, outbox, holds>>
           \/ /\ m.type = "Response" /\ m.of \notin waits
              /\ ProcessFails
              /\ UNCHANGED <<holds, waits, got>>
    /\ UNCHANGED <<fromEngine, pending, overdue, tracker, idMap, clientVars, sent, fails, panicked>>

\* The engine answers one of the requests it holds, or fails it.
EngineAnswers(p) ==
    /\ phase = "actor"
    /\ p \in holds
    /\ holds' = holds \ {p}
    /\ \E reply \in {Reply[ToClientToLib3h[p.kind]], "error"} :
          fromEngine' = Append(fromEngine, Message("Response", p, reply))
    /\ UNCHANGED <<wrapperVars, toEngine, pending, overdue, outbox, clientVars,
                   waits, sent, got, fails, panicked>>

\* The engine sends a message of its own.
EngineSends(e) ==
    /\ phase = "actor"
    /\ e \notin sent
    /\ sent' = sent \cup {e}
    /\ fromEngine' = Append(fromEngine, Message("Request", e, e.kind))
    /\ waits' = IF e.kind \in Notifications THEN waits ELSE waits \cup {e}
    /\ UNCHANGED <<wrapperVars, toEngine, pending, overdue, outbox, clientVars,
                   holds, got, fails, panicked>>

\* One of the engine's own requests times out inside the engine.
EngineGivesUp(e) ==
    /\ phase = "actor"
    /\ e \in waits
    /\ waits' = waits \ {e}
    /\ UNCHANGED <<wrapperVars, endpointVars, clientVars, holds, sent, got, fails, panicked>>

\* process_concrete returns an error; requests it had drained are lost with it.
EngineFails ==
    /\ phase = "actor"
    /\ fails < MaxFails
    /\ fails' = fails + 1
    /\ \E kept \in SUBSET holds : holds' = kept
    /\ ProcessFails
    /\ UNCHANGED <<toEngine, fromEngine, pending, overdue, tracker, idMap, clientVars,
                   waits, sent, got, panicked>>

\* The engine panics, as on FetchEntry or on an error for an event: detach_run! does
\* not put it back, and the unwinding drops it with its endpoint and their channels.
EnginePanics ==
    /\ phase = "actor"
    /\ phase' = "idle" /\ engine' = "lost"
    /\ panicked' = panicked \cup {"engine"}
    /\ toEngine' = << >> /\ fromEngine' = << >> /\ outbox' = << >>
    /\ pending' = {} /\ overdue' = {} /\ holds' = {} /\ waits' = {}
    /\ UNCHANGED <<responses, tracker, idMap, clientVars, sent, got, fails>>

EngineDone ==
    /\ phase = "actor"
    /\ toEngine = << >>
    /\ phase' = "endpoint"
    /\ UNCHANGED <<engine, responses, tracker, idMap, endpointVars, clientVars, engineVars, panicked>>

-----------------------------------------------------------------------------
(* phase "endpoint": the callbacks, while the engine is still detached.    *)

\* Mutant: post() sends its requests without a timeout.
TimePasses_NoTimeout(p) == p \in pending /\ FALSE /\ UNCHANGED vars

\* The clock passes the expiry of a pending request.
TimePasses(p) ==
    /\ p \in pending \ overdue
    /\ overdue' = overdue \cup {p}
    /\ UNCHANGED <<wrapperVars, toEngine, fromEngine, pending, outbox, clientVars, engineVars, panicked>>

\* make_callback: the callback only pushes a message for the client.
Callback(p, reply) == responses' = Append(responses, ServerMessage(p.id, CallbackResult(reply)))

\* The tracker of the endpoint runs the callback of an expired request.
EndpointExpires(p) ==
    /\ phase = "endpoint"
    /\ p \in overdue
    /\ pending' = pending \ {p}
    /\ overdue' = overdue \ {p}
    /\ Callback(p, "timeout")
    /\ UNCHANGED <<engine, phase, tracker, idMap, toEngine, fromEngine, outbox,
                   clientVars, engineVars, panicked>>

\* Then the endpoint receives; an answer whose request has expired fails
\* process() and is gone.
EndpointReceives ==
    /\ phase = "endpoint"
    /\ overdue = {}
    /\ fromEngine # << >>
    /\ fromEngine' = Tail(fromEngine)
    /\ LET m == Head(fromEngine)
       IN  \/ /\ m.type = "Request"
              /\ outbox' = Append(outbox, m.of)
              /\ UNCHANGED <<phase, engine, responses, pending>>
           \/ /\ m.type = "Response" /\ m.of \in pending
              /\ pending' = pending \ {m.of}
              /\ Callback(m.of, m.data)
              /\ UNCHANGED <<phase, engine, outbox>>
           \/ /\ m.type = "Response" /\ m.of \notin pending
              /\ ProcessFails
              /\ UNCHANGED pending
    /\ UNCHANGED <<tracker, idMap, toEngine, overdue, clientVars, engineVars, panicked>>

\* detach_run! puts the engine back.
EndpointDone ==
    /\ phase = "endpoint"
    /\ overdue = {} /\ fromEngine = << >>
    /\ phase' = "drain"
    /\ engine' = "attached"
    /\ UNCHANGED <<responses, tracker, idMap, endpointVars, clientVars, engineVars, panicked>>

\* The rest of process(): the responses, then every message of the engine, each
\* kept under a fresh tracker id; a direct message's own id goes to the map.
Drain ==
    /\ phase = "drain"
    /\ phase' = "idle"
    /\ LET received == {outbox[i] : i \in 1 .. Len(outbox)}
           direct == {e \in received : e.kind = "HandleSendDirectMessage"}
       IN  /\ tracker' = tracker \cup {TrackId(e) : e \in received}
           /\ idMap' = [id \in DOMAIN idMap \cup {TrackId(e) : e \in direct} |->
                          IF id \in DOMAIN idMap THEN idMap[id] ELSE Tracked(id).id]
    /\ client' = client \o responses
                   \o [i \in 1 .. Len(outbox) |->
                          ServerMessage(HandedId(outbox[i]), ToServerProtocol(outbox[i].kind))]
    /\ responses' = << >> /\ outbox' = << >>
    /\ UNCHANGED <<engine, toEngine, fromEngine, pending, overdue,
                   posted, answered, engineVars, panicked>>

-----------------------------------------------------------------------------
TrackIds == {TrackId(e) : e \in Sends}

Next ==
    \/ \E p \in Posts : Post(p)
    \/ \E id \in TrackIds : PostAnswer(id)
    \/ StartProcess
    \/ EngineReceives
    \/ \E p \in Requests : EngineAnswers(p) \/ TimePasses(p) \/ EndpointExpires(p)
    \/ \E e \in Sends : EngineSends(e) \/ EngineGivesUp(e)
    \/ EngineFails \/ EnginePanics \/ EngineDone
    \/ EndpointReceives \/ EndpointDone \/ Drain

Spec == Init /\ [][Next]_vars

\* A step of process().
Process ==
    \/ StartProcess \/ EngineReceives \/ EngineDone
    \/ (\E p \in Requests : EndpointExpires(p))
    \/ EndpointReceives \/ EndpointDone \/ Drain

\* The client polls process(), its calls end, time passes, and the client
\* answers each message it is handed that has an answer.
FairSpec ==
    /\ Spec
    /\ WF_vars(Process)
    /\ \A p \in Requests : WF_vars(TimePasses(p))
    /\ \A id \in TrackIds : WF_vars(PostAnswer(id))

-----------------------------------------------------------------------------
(* Properties.                                                             *)

Responses(p) == {i \in 1 .. Len(client \o responses) : (client \o responses)[i].id = p.id}

TypeOK ==
    /\ engine \in {"attached", "detached", "lost"}
    /\ phase \in {"idle", "actor", "endpoint", "drain"}
    /\ pending \subseteq Requests /\ overdue \subseteq pending
    /\ Range(outbox) \subseteq sent
    /\ tracker \subseteq TrackIds
    /\ DOMAIN idMap \subseteq TrackIds
    /\ posted \subseteq Posts /\ answered \subseteq Sends
    /\ holds \subseteq Requests /\ waits \subseteq sent
    /\ fails \in 0 .. MaxFails /\ panicked \subseteq {"unimplemented", "engine", "detached"}

\* The kinds of server message that fit a client message.
Fitting ==
    [Connect |-> "Connected", JoinSpace |-> "SuccessResult", LeaveSpace |-> "SuccessResult",
     SendDirectMessage |-> "SendDirectMessageResult", FetchEntry |-> "FetchEntryResult",
     QueryEntry |-> "QueryEntryResult"]

\* A posted request has at most one result, which its kind calls for or is a
\* failure; and unless the engine is lost it has one as soon as it no longer
\* waits, whatever calls of process() failed and however late the engine
\* answered (ghost_engine_wrapper.rs:96-157, 277-302).
AnsweredExactlyOnce ==
    TypeOK /\ \A p \in Requests \cap posted :
        /\ Cardinality(Responses(p)) <= 1
        /\ engine # "lost" => (Responses(p) = {} <=> p \in pending)
        /\ \A i \in Responses(p) :
              (client \o responses)[i].kind \in {Fitting[p.kind], "FailureResult"}

\* post() and process() find the Detach empty only after a panic of the engine:
\* errors of the engine, of its callbacks and late answers put it back
\* (ghost_engine_wrapper.rs:228, :278, detach/src/lib.rs:126-140).
MissedOnlyAfterItsPanic == "detached" \in panicked => "engine" \in panicked

\* A message of the engine that the client can answer is found under the id the
\* client was given exactly until the first answer, and what the engine gets as
\* the answer to a direct message carries that message's own id
\* (ghost_engine_wrapper.rs:243-264, 284-299, 317-334).
AnswersReachTheirMessage ==
    /\ \A e \in Sends : e.kind \in Injected =>
          (TrackId(e) \in tracker
             <=> (\E i \in 1 .. Len(client) : client[i].id = TrackId(e)) /\ e \notin answered)
    /\ \A e \in DOMAIN got : e.kind = "HandleSendDirectMessage" => got[e] = e.id

\* A request is at last answered to the client, though answers may be lost with
\* failing calls: the timeout of its bookmark sees to it
\* (ghost_engine_wrapper.rs:145-152).
RequestsAreAnswered ==
    []<>(\/ engine = "lost"
         \/ \A p \in Requests \cap posted : \E i \in 1 .. Len(client) : client[i].id = p.id)

=============================================================================
