---------------------------- MODULE GhostChannel ----------------------------
(***************************************************************************)
(* The two-ended channel between a ghost actor and its parent              *)
(* (zombie_actor/src/ghost_channel.rs) with the tracker of pending         *)
(* callbacks each end keeps (ghost_tracker.rs).                            *)
(*                                                                         *)
(* Each end owns the receiver of one unbounded crossbeam queue and a       *)
(* sender into the other one.  `request` bookmarks a callback and sends;   *)
(* `publish` only sends; `process` first runs the callbacks of expired     *)
(* bookmarks, then receives until the queue is empty; `drain_messages`     *)
(* hands the received requests to the actor, which answers them with       *)
(* `respond` whenever it likes, from any place that holds the message.     *)
(*                                                                         *)
(* `process` is a loop over shared queues and is modelled one iteration    *)
(* per step, so that the other end, the clock and answers to held messages *)
(* interleave with it.                                                     *)
(***************************************************************************)
EXTENDS Naturals, Sequences

CONSTANTS
    Requests,   \* the request ids the id generator may hand out
    Events,     \* labels of published messages: these carry no request id
    Timeouts,   \* the timeouts callers ask for
    MaxTime     \* bound on the clock

ASSUME ChannelAssumption ==
    /\ Requests \cap Events = {}
    /\ Timeouts \subseteq Nat
    /\ MaxTime \in Nat

Ids == Requests \cup Events
Sides == {"parent", "child"}
Other(s) == IF s = "parent" THEN "child" ELSE "parent"

VARIABLES
    now,      \* the system clock
    alive,    \* per side: its endpoint has not been dropped
    chan,     \* per side: the crossbeam queue it receives from
    outbox,   \* per side: outbox_messages_to_self
    held,     \* per side: the drained GhostMessages its actor still owns
    pending,  \* per side: the ids in its tracker
    expires,  \* per request: the expiry in its tracker entry
    pc,       \* per side: where its endpoint is inside process()
    expired,  \* per side: the local Vec of tracker.process()
    result,   \* per side: how its latest process() call ended
    sender,   \* history: the side that sent an id, or "none"
    answer,   \* history: per request, the payload given to respond()
    outcome   \* history: per request, what its callback was invoked with

endpointVars == <<chan, outbox, held>>
trackerVars == <<pending, expires, outcome>>
processVars == <<pc, expired, result>>
vars == <<now, alive, chan, outbox, held, pending, expires, pc, expired,
          result, sender, answer, outcome>>

Messages == [type : {"Request", "Response"}, id : Ids, ok : BOOLEAN]
RequestMsg(id) == [type |-> "Request", id |-> id, ok |-> TRUE]
ResponseMsg(id, ok) == [type |-> "Response", id |-> id, ok |-> ok]
Answer(ok) == IF ok THEN "ok" ELSE "err"

Results == {"Ok", "CallbackFailed", "RequestIdNotFound", "EndpointDisconnected"}

TypeOK ==
    /\ now \in 0..MaxTime
    /\ alive \in [Sides -> BOOLEAN]
    /\ chan \in [Sides -> Seq(Messages)]
    /\ outbox \in [Sides -> Seq(Ids)]
    /\ held \in [Sides -> SUBSET Ids]
    /\ pending \in [Sides -> SUBSET Requests]
    /\ expires \in [Requests -> Nat]
    /\ pc \in [Sides -> {"idle", "expire", "receive"}]
    /\ expired \in [Sides -> SUBSET Requests]
    /\ result \in [Sides -> Results]
    /\ sender \in [Ids -> Sides \cup {"none"}]
    /\ answer \in [Requests -> {"none", "ok", "err"}]
    /\ outcome \in [Requests -> {"none", "ok", "err", "timeout"}]

-----------------------------------------------------------------------------
(* create_ghost_channel *)
Init ==
    /\ now = 0
    /\ alive = [s \in Sides |-> TRUE]
    /\ chan = [s \in Sides |-> <<>>]
    /\ outbox = [s \in Sides |-> <<>>]
    /\ held = [s \in Sides |-> {}]
    /\ pending = [s \in Sides |-> {}]
    /\ expires = [r \in Requests |-> 0]
    /\ pc = [s \in Sides |-> "idle"]
    /\ expired = [s \in Sides |-> {}]
    /\ result = [s \in Sides |-> "Ok"]
    /\ sender = [i \in Ids |-> "none"]
    /\ answer = [r \in Requests |-> "none"]
    /\ outcome = [r \in Requests |-> "none"]

(* The clock moves on its own.  MaxTime bounds it. *)
Tick ==
    /\ now < MaxTime
    /\ now' = now + 1
    /\ UNCHANGED <<alive, endpointVars, trackerVars, processVars, sender, answer>>

(* sender.send: fails, and the message is gone, once the receiver was dropped. *)
Send(to, m) ==
    chan' = IF alive[to] THEN [chan EXCEPT ![to] = Append(@, m)] ELSE chan

(* MUTANT of Request: a failed send drops the bookmark, callback and all. *)
Request_ForgetsOnFailedSend(s) ==
    /\ alive[s]
    /\ pc[s] = "idle"
    /\ \E r \in Requests, t \in Timeouts :
         /\ sender[r] = "none"
         /\ now + t < MaxTime
         /\ pending' = IF alive[Other(s)] THEN [pending EXCEPT ![s] = @ \cup {r}] ELSE pending
         /\ expires' = [expires EXCEPT ![r] = now + t]
         /\ sender' = [sender EXCEPT ![r] = s]
         /\ Send(Other(s), RequestMsg(r))
    /\ UNCHANGED <<now, alive, outbox, held, processVars, answer, outcome>>

(* request, request_options: the bookmark comes first, and stays when the   *)
(* send fails.  The guard on now + t keeps every expiry inside the bound.   *)
Request(s) ==
    /\ alive[s]
    /\ pc[s] = "idle"
    /\ \E r \in Requests, t \in Timeouts :
         /\ sender[r] = "none"
         /\ now + t < MaxTime
         /\ pending' = [pending EXCEPT ![s] = @ \cup {r}]
         /\ expires' = [expires EXCEPT ![r] = now + t]
         /\ sender' = [sender EXCEPT ![r] = s]
         /\ Send(Other(s), RequestMsg(r))
    /\ UNCHANGED <<now, alive, outbox, held, processVars, answer, outcome>>

(* publish *)
Publish(s) ==
    /\ alive[s]
    /\ pc[s] = "idle"
    /\ \E e \in Events :
         /\ sender[e] = "none"
         /\ sender' = [sender EXCEPT ![e] = s]
         /\ Send(Other(s), RequestMsg(e))
    /\ UNCHANGED <<now, alive, outbox, held, trackerVars, processVars, answer>>

(* drain_messages *)
DrainMessages(s) ==
    /\ alive[s]
    /\ pc[s] = "idle"
    /\ outbox[s] # <<>>
    /\ held' = [held EXCEPT ![s] = @ \cup {outbox[s][i] : i \in DOMAIN outbox[s]}]
    /\ outbox' = [outbox EXCEPT ![s] = <<>>]
    /\ UNCHANGED <<now, alive, chan, trackerVars, processVars, sender, answer>>

(* MUTANT of RespondRequest: respond borrows the message. *)
RespondRequest_Borrows(s) ==
    /\ \E r \in held[s] \cap Requests, ok \in BOOLEAN :
         /\ answer' = [answer EXCEPT ![r] = Answer(ok)]
         /\ Send(Other(s), ResponseMsg(r, ok))
    /\ UNCHANGED <<now, alive, outbox, held, trackerVars, processVars, sender>>

(* GhostMessage::respond consumes the message.  It works through the        *)
(* message's own sender, so the responder's endpoint need not be alive.     *)
RespondRequest(s) ==
    /\ \E r \in held[s] \cap Requests, ok \in BOOLEAN :
         /\ held' = [held EXCEPT ![s] = @ \ {r}]
         /\ answer' = [answer EXCEPT ![r] = Answer(ok)]
         /\ Send(Other(s), ResponseMsg(r, ok))
    /\ UNCHANGED <<now, alive, outbox, trackerVars, processVars, sender>>

(* A published message is consumed by an Ok answer, which goes nowhere, or  *)
(* by being dropped; a request may also be dropped without an answer.       *)
DiscardMessage(s) ==
    /\ \E i \in held[s] : held' = [held EXCEPT ![s] = @ \ {i}]
    /\ UNCHANGED <<now, alive, chan, outbox, trackerVars, processVars, sender, answer>>

-----------------------------------------------------------------------------
(* Dropping an endpoint drops its receiver with the messages queued there,  *)
(* its outbox and its tracker, whose callbacks are then never called.       *)
DropEndpoint(s, kept) ==
    /\ alive' = [alive EXCEPT ![s] = FALSE]
    /\ chan' = [chan EXCEPT ![s] = <<>>]
    /\ outbox' = [outbox EXCEPT ![s] = <<>>]
    /\ held' = [held EXCEPT ![s] = kept]
    /\ pending' = [pending EXCEPT ![s] = {}]
    /\ expired' = [expired EXCEPT ![s] = {}]
    /\ pc' = [pc EXCEPT ![s] = "idle"]
    /\ UNCHANGED <<now, expires, result, sender, answer, outcome>>

(* The owner lets its endpoint go; messages already drained live on. *)
Close(s) ==
    /\ alive[s]
    /\ pc[s] = "idle"
    /\ DropEndpoint(s, held[s])

(* respond(Err(..)) on a published message panics; unwinding drops the      *)
(* endpoint and every message its actor holds.                              *)
RespondPublishError(s) ==
    /\ held[s] \cap Events # {}
    /\ DropEndpoint(s, {})

-----------------------------------------------------------------------------
(* process(): tracker.process() looks at the clock once. *)
ProcessStart(s) ==
    /\ alive[s]
    /\ pc[s] = "idle"
    /\ expired' = [expired EXCEPT ![s] = {r \in pending[s] : now > expires[r]}]
    /\ pc' = [pc EXCEPT ![s] = "expire"]
    /\ UNCHANGED <<now, alive, endpointVars, trackerVars, result, sender, answer>>

(* MUTANT of ExpireOne: the expired entries leave the map before any of     *)
(* their callbacks runs.                                                    *)
ExpireOne_RemovesAllFirst(s) ==
    /\ pc[s] = "expire"
    /\ \E r \in expired[s], cbOk \in BOOLEAN :
         /\ outcome' = [outcome EXCEPT ![r] = "timeout"]
         /\ IF cbOk
            THEN /\ expired' = [expired EXCEPT ![s] = @ \ {r}]
                 /\ pending' = [pending EXCEPT ![s] = @ \ {r}]
                 /\ UNCHANGED <<pc, result>>
            ELSE /\ expired' = [expired EXCEPT ![s] = {}]
                 /\ pending' = [pending EXCEPT ![s] = @ \ expired[s]]
                 /\ pc' = [pc EXCEPT ![s] = "idle"]
                 /\ result' = [result EXCEPT ![s] = "CallbackFailed"]
    /\ UNCHANGED <<now, alive, endpointVars, expires, sender, answer>>

(* One callback of the expiry loop.  Its error ends process() at once and   *)
(* leaves the rest of the expired entries pending.                          *)
ExpireOne(s) ==
    /\ pc[s] = "expire"
    /\ \E r \in expired[s], cbOk \in BOOLEAN :
         /\ pending' = [pending EXCEPT ![s] = @ \ {r}]
         /\ outcome' = [outcome EXCEPT ![r] = "timeout"]
         /\ IF cbOk
            THEN /\ expired' = [expired EXCEPT ![s] = @ \ {r}]
                 /\ UNCHANGED <<pc, result>>
            ELSE /\ expired' = [expired EXCEPT ![s] = {}]
                 /\ pc' = [pc EXCEPT ![s] = "idle"]
                 /\ result' = [result EXCEPT ![s] = "CallbackFailed"]
    /\ UNCHANGED <<now, alive, endpointVars, expires, sender, answer>>

ExpireDone(s) ==
    /\ pc[s] = "expire"
    /\ expired[s] = {}
    /\ pc' = [pc EXCEPT ![s] = "receive"]
    /\ UNCHANGED <<now, alive, endpointVars, trackerVars, expired, result, sender, answer>>

Return(s, res) ==
    /\ pc' = [pc EXCEPT ![s] = "idle"]
    /\ result' = [result EXCEPT ![s] = res]

(* try_recv returned a request or an event *)
ReceiveRequest(s) ==
    /\ pc[s] = "receive"
    /\ chan[s] # <<>>
    /\ Head(chan[s]).type = "Request"
    /\ chan' = [chan EXCEPT ![s] = Tail(@)]
    /\ outbox' = [outbox EXCEPT ![s] = Append(@, Head(chan[s]).id)]
    /\ UNCHANGED <<now, alive, held, trackerVars, processVars, sender, answer>>

(* MUTANT of ReceiveResponse: handle looks the entry up without removing it. *)
ReceiveResponse_KeepsEntry(s) ==
    /\ pc[s] = "receive"
    /\ chan[s] # <<>>
    /\ Head(chan[s]).type = "Response"
    /\ chan' = [chan EXCEPT ![s] = Tail(@)]
    /\ LET m == Head(chan[s]) IN
         \/ /\ m.id \in pending[s]
            /\ outcome' = [outcome EXCEPT ![m.id] = Answer(m.ok)]
            /\ \/ UNCHANGED <<pc, result>>
               \/ Return(s, "CallbackFailed")
         \/ /\ m.id \notin pending[s]
            /\ Return(s, "RequestIdNotFound")
            /\ UNCHANGED outcome
    /\ UNCHANGED <<now, alive, outbox, held, pending, expires, expired, sender, answer>>

(* MUTANT of ReceiveResponse: process() takes the whole queue before it      *)
(* handles it, and an error loses what was not handled yet.                 *)
ReceiveResponse_LosesBatch(s) ==
    /\ pc[s] = "receive"
    /\ chan[s] # <<>>
    /\ Head(chan[s]).type = "Response"
    /\ LET m == Head(chan[s]) IN
         \/ /\ m.id \in pending[s]
            /\ pending' = [pending EXCEPT ![s] = @ \ {m.id}]
            /\ outcome' = [outcome EXCEPT ![m.id] = Answer(m.ok)]
            /\ \/ chan' = [chan EXCEPT ![s] = Tail(@)] /\ UNCHANGED <<pc, result>>
               \/ chan' = [chan EXCEPT ![s] = <<>>] /\ Return(s, "CallbackFailed")
         \/ /\ m.id \notin pending[s]
            /\ chan' = [chan EXCEPT ![s] = <<>>]
            /\ Return(s, "RequestIdNotFound")
            /\ UNCHANGED <<pending, outcome>>
    /\ UNCHANGED <<now, alive, outbox, held, expires, expired, sender, answer>>

(* try_recv returned a response: GhostTracker::handle *)
ReceiveResponse(s) ==
    /\ pc[s] = "receive"
    /\ chan[s] # <<>>
    /\ Head(chan[s]).type = "Response"
    /\ chan' = [chan EXCEPT ![s] = Tail(@)]
    /\ LET m == Head(chan[s]) IN
         \/ /\ m.id \in pending[s]
            /\ pending' = [pending EXCEPT ![s] = @ \ {m.id}]
            /\ outcome' = [outcome EXCEPT ![m.id] = Answer(m.ok)]
            /\ \/ UNCHANGED <<pc, result>>
               \/ Return(s, "CallbackFailed")
         \/ /\ m.id \notin pending[s]
            /\ Return(s, "RequestIdNotFound")
            /\ UNCHANGED <<pending, outcome>>
    /\ UNCHANGED <<now, alive, outbox, held, expires, expired, sender, answer>>

(* MUTANT of Disconnected: the senders inside held messages do not count. *)
Disconnected_EndpointOnly(s) == ~alive[Other(s)]

(* Every sender into the queue of s is gone: the other endpoint and all the *)
(* messages that carry a clone of its sender.                               *)
Disconnected(s) == ~alive[Other(s)] /\ held[Other(s)] = {}

ReceiveEmpty(s) ==
    /\ pc[s] = "receive"
    /\ chan[s] = <<>>
    /\ Return(s, IF Disconnected(s) THEN "EndpointDisconnected" ELSE "Ok")
    /\ UNCHANGED <<now, alive, endpointVars, trackerVars, expired, sender, answer>>

Process(s) ==
    \/ ProcessStart(s)
    \/ ExpireOne(s)
    \/ ExpireDone(s)
    \/ ReceiveRequest(s)
    \/ ReceiveResponse(s)
    \/ ReceiveEmpty(s)

Actor(s) ==
    \/ Request(s)
    \/ Publish(s)
    \/ DrainMessages(s)
    \/ RespondRequest(s)
    \/ DiscardMessage(s)
    \/ Close(s)
    \/ RespondPublishError(s)

Next == Tick \/ \E s \in Sides : Process(s) \/ Actor(s)

Spec == Init /\ [][Next]_vars

(* The owner of an endpoint polls it for as long as it keeps it, and time   *)
(* passes.  Nothing obliges an actor to answer, drain or close.             *)
FairSpec == Spec /\ WF_vars(Tick) /\ \A s \in Sides : WF_vars(Process(s))

-----------------------------------------------------------------------------
(* The copies of a request that can still lead to an answer.               *)
Queued(s, id) ==
    {i \in DOMAIN chan[s] : chan[s][i] = RequestMsg(id)}
Boxed(s, id) ==
    {i \in DOMAIN outbox[s] : outbox[s][i] = id}

(* SAFETY. A response that finds no callback (the RequestIdNotFound error   *)
(* of GhostTracker::handle) can only be the late answer to a request whose  *)
(* callback already ran with a timeout: respond() never reaches a tracker   *)
(* twice, nor the wrong tracker, nor one that forgot an open request.       *)
LateResponseOnlyAfterTimeout ==
    \A s \in Sides : \A i \in DOMAIN chan[s] :
        LET m == chan[s][i] IN
        (m.type = "Response" /\ m.id \notin pending[s])
            => /\ sender[m.id] = s
               /\ outcome[m.id] = "timeout"

(* SAFETY. While its endpoint lives, a request that was made is either      *)
(* pending or has had its callback: no error path of process() (a failing   *)
(* callback, a late response, a disconnect) and no failed send loses one.   *)
NoRequestForgotten ==
    \A r \in Requests :
        sender[r] \in Sides =>
            (alive[sender[r]] => (r \in pending[sender[r]] <=> outcome[r] = "none"))

(* SAFETY. EndpointDisconnected is final: after process() reports it        *)
(* nothing is queued, or can be queued, for that endpoint again, so no      *)
(* message is lost by an owner that stops polling then.                     *)
DisconnectIsFinal ==
    \A s \in Sides :
        (alive[s] /\ result[s] = "EndpointDisconnected")
            => /\ chan[s] = <<>>
               /\ Disconnected(s)

(* ACTION. A callback runs with a timeout only for an entry that has        *)
(* expired, and never for one whose answer process() had already taken off  *)
(* the queue: a request that left the pending map keeps its outcome.        *)
CallbackRunsOnce ==
    [][\A r \in Requests :
         outcome'[r] # outcome[r] =>
            /\ outcome[r] = "none"
            /\ outcome'[r] = "timeout" => now > expires[r]]_vars

(* LIVENESS. Every request gets its callback, whatever its peer does        *)
(* (answer, drop the message, close, panic, be gone before the request) and *)
(* although a failing callback or a late response cuts process() short,     *)
(* unless the requester's own endpoint goes away.  (Outcomes are final, so  *)
(* that all are complete again and again says that each one completes.)     *)
EveryRequestCompletes ==
    []<>(\A r \in Requests, s \in Sides : sender[r] = s /\ alive[s] => outcome[r] # "none")

(* LIVENESS. An event queued behind late responses and failing callbacks    *)
(* still reaches the outbox of a living endpoint.                           *)
EveryEventReceived ==
    \A s \in Sides : \A i \in Events :
        (Queued(s, i) # {}) ~> (Queued(s, i) = {} /\ (Boxed(s, i) # {} \/ ~alive[s] \/ i \in held[s]))

-----------------------------------------------------------------------------
(* The parts of the inductive invariant behind the safety properties.       *)

(* An id whose message has not been answered yet, on its way to side s.     *)
Unanswered(s, i) ==
    /\ sender[i] = Other(s)
    /\ i \in Requests => answer[i] = "none"

(* A request in the queue of s is unanswered; a response there answers a    *)
(* request of s, with the payload respond() was given, and is awaited or    *)
(* late.                                                                    *)
GoodMessage(s, m) ==
    \/ /\ m.type = "Request"
       /\ Unanswered(s, m.id)
    \/ /\ m.type = "Response"
       /\ m.id \in Requests
       /\ sender[m.id] = s
       /\ answer[m.id] = Answer(m.ok)
       /\ m.id \in pending[s] \/ outcome[m.id] = "timeout"

CopiesInv ==
    \A s \in Sides :
        /\ \A k \in DOMAIN chan[s] : GoodMessage(s, chan[s][k])
        /\ \A k \in DOMAIN outbox[s] : Unanswered(s, outbox[s][k])
        /\ \A i \in held[s] : Unanswered(s, i)

(* There is at most one copy of a message: a request is in one place of the *)
(* queue, the outbox or the actor's hands, and has one response at most.    *)
SameMessage(m, n) == m.type = n.type /\ m.id = n.id

UniqueInv ==
    \A s \in Sides :
        /\ \A j, k \in DOMAIN chan[s] : SameMessage(chan[s][j], chan[s][k]) => j = k
        /\ \A j, k \in DOMAIN outbox[s] : outbox[s][j] = outbox[s][k] => j = k
        /\ \A j \in DOMAIN chan[s] :
             chan[s][j].type = "Request" =>
                /\ chan[s][j].id \notin held[s]
                /\ \A k \in DOMAIN outbox[s] : outbox[s][k] # chan[s][j].id
        /\ \A k \in DOMAIN outbox[s] : outbox[s][k] \notin held[s]

(* The tracker of s holds open requests of s only, and those selected for   *)
(* expiry are among them and have expired.                                  *)
TrackerInv ==
    \A s \in Sides :
        /\ \A r \in pending[s] : sender[r] = s /\ outcome[r] = "none"
        /\ expired[s] \subseteq pending[s]
        /\ \A r \in expired[s] : now > expires[r]

(* The local list of expired ids exists only during the expiry loop. *)
ExpiryInv ==
    \A s \in Sides : pc[s] # "expire" => expired[s] = {}

(* An id that was never sent has left no trace. *)
FreshInv ==
    \A r \in Requests : sender[r] = "none" => answer[r] = "none" /\ outcome[r] = "none"

(* A callback that saw an answer saw the one that was given. *)
OutcomeInv ==
    \A r \in Requests : outcome[r] \in {"none", "timeout", answer[r]}

(* A dropped endpoint holds nothing. *)
DroppedInv ==
    \A s \in Sides :
        ~alive[s] => /\ chan[s] = <<>>
                     /\ outbox[s] = <<>>
                     /\ pending[s] = {}
                     /\ pc[s] = "idle"

(* SAFETY. The inductive invariant: one copy of every message, in the right *)
(* place, and a tracker that agrees with the history of the channel.        *)
ChannelInv ==
    /\ CopiesInv
    /\ UniqueInv
    /\ TrackerInv
    /\ ExpiryInv
    /\ FreshInv
    /\ OutcomeInv
    /\ DroppedInv
    /\ NoRequestForgotten
    /\ DisconnectIsFinal

-----------------------------------------------------------------------------
(* What the two actors see of the channel is a RequestResponse service.     *)
serviceStatus ==
    [r \in Requests |->
        IF sender[r] = "none" THEN "none"
        ELSE IF outcome[r] # "none" THEN outcome[r]
        ELSE IF alive[sender[r]] THEN "open" ELSE "abandoned"]

Service == INSTANCE RequestResponse WITH status <- serviceStatus

(* REFINEMENT. The queues, trackers and polling loops implement the         *)
(* RequestResponse service: one answer and one callback per request, and    *)
(* the callback sees the answer that respond() was given.                   *)
ImplementsRequestResponse == Service!Spec

=============================================================================
