------------------------------ MODULE Gateway ------------------------------
(***************************************************************************)
(* One call after the other of P2pGateway::process_concrete                *)
(* (lib3h/src/gateway), and the messages the gateway sends through them.   *)
(*                                                                         *)
(* A message for a peer is looked up in the DHT, encoded and handed to the *)
(* transport.  Each of these is a ghost request to a child actor: its      *)
(* callback runs when a later phase polls that child, with the answer or   *)
(* with a timeout.  What fails is put on the queue of pending sends and    *)
(* tried again until it expires.  A timeout or an error ends some other    *)
(* requests in a panic, and the late answer to a request that timed out is *)
(* an error that cuts the call of process() short.                         *)
(*                                                                         *)
(* Clocks are only ever compared with each other, so the model keeps the   *)
(* time that is left.  A call of process() takes no time against them.     *)
(***************************************************************************)
EXTENDS Integers, FiniteSets

CONSTANTS
    Sends,           \* the messages
    GhostTimeout,    \* DEFAULT_TIMEOUT of the ghost tracker
    RetryTimeout,    \* SEND_RETRY_TIMEOUT_MS
    RetryInterval,   \* SEND_RETRY_INTERVAL_MS
    MaxFetches       \* bound on the entries asked of the client at a time

ASSUME GatewayAssumption ==
    /\ GhostTimeout \in Nat
    /\ RetryTimeout \in Nat
    /\ RetryInterval \in Nat
    /\ RetryTimeout <= GhostTimeout
    /\ MaxFetches \in Nat

VARIABLES
    kind,       \* per send: what it is
    stage,      \* per send: the request it waits for, "pending", or how it ended
    resolved,   \* per send: it has its SendWithFullLowUri
    ttl,        \* per send: expires_at - now, or -1
    age,        \* per send: now - last_attempt, up to RetryInterval
    left,       \* per send: what is left of the timeout of its request, or -1
    owed,       \* requests to children whose answer has not been received
    thisPeer,   \* what is left of each RequestThisPeer of process()
    fetching,   \* what is left of each RequestEntry to the parent
    pc,         \* the phase of process(), or "idle"
    receiving,  \* the phase has run its timeouts
    result,     \* how the latest call of process() ended
    dead,       \* why the gateway panicked, or "no"
    copies      \* HISTORY. per send: the copies the transport took or may take

sendVars == <<stage, resolved, ttl, age, left>>
vars == <<kind, sendVars, owed, thisPeer, fetching, pc, receiving, result, dead, copies>>

(* The drain that begins a send, and the request it begins with.           *)
FromParent == {"message", "event", "bootstrap", "sendall"}
FromTransport == {"pong", "peername"}
FromDht == {"ping"}
Kinds == FromParent \cup FromTransport \cup FromDht

FirstStep(k) ==
    CASE k \in {"message", "event"} -> "lookup"      \* RequestPeer
      [] k \in {"bootstrap", "ping"} -> "encode"     \* EncodePayload
      [] k = "pong" -> "decode"                      \* Decode, of the ping
      [] k \in {"sendall", "peername"} -> "query"    \* RequestPeerList, RequestThisPeer

DhtSteps == {"lookup", "query"}
EncoderSteps == {"encode", "decode"}
Steps == DhtSteps \cup EncoderSteps \cup {"send"}
StepsOf(c) ==
    CASE c = "dht" -> DhtSteps
      [] c = "encoder" -> EncoderSteps
      [] c = "transport" -> {"send"}
      [] OTHER -> {}

Ended == {"ok", "err"}
Stages == {"none", "pending"} \cup Steps \cup Ended

Children == {"parent", "transport", "encoder", "dht"}
Phases == Children \cup {"pending"}

Requests == [send : Sends, step : Steps, answer : {"none", "ok", "err"}, late : BOOLEAN]
Ask(s, step) == [send |-> s, step |-> step, answer |-> "none", late |-> FALSE]

TypeOK ==
    /\ kind \in [Sends -> Kinds]
    /\ stage \in [Sends -> Stages]
    /\ resolved \in [Sends -> BOOLEAN]
    /\ ttl \in [Sends -> -1..RetryTimeout]
    /\ age \in [Sends -> 0..RetryInterval]
    /\ left \in [Sends -> -1..GhostTimeout]
    /\ owed \subseteq Requests
    /\ thisPeer \subseteq -1..GhostTimeout
    /\ fetching \subseteq -1..GhostTimeout
    /\ pc \in {"idle"} \cup Phases
    /\ receiving \in BOOLEAN
    /\ result \in {"Ok", "Err"}
    /\ dead \in {"no", "publish", "timeout", "entry"}
    /\ copies \in [Sends -> Nat]

-----------------------------------------------------------------------------
(* P2pGateway::new *)
Init ==
    /\ kind \in [Sends -> Kinds]
    /\ stage = [s \in Sends |-> "none"]
    /\ resolved = [s \in Sends |-> FALSE]
    /\ ttl = [s \in Sends |-> RetryTimeout]
    /\ age = [s \in Sends |-> 0]
    /\ left = [s \in Sends |-> GhostTimeout]
    /\ owed = {}
    /\ thisPeer = {}
    /\ fetching = {}
    /\ pc = "idle"
    /\ receiving = FALSE
    /\ result = "Ok"
    /\ dead = "no"
    /\ copies = [s \in Sends |-> 0]

Less(t) == IF t < 0 THEN t ELSE t - 1
More(t) == IF t < RetryInterval THEN t + 1 ELSE t

(* Time passes between two calls of process(). *)
Tick ==
    /\ dead = "no"
    /\ pc = "idle"
    /\ ttl' = [s \in Sends |-> IF stage[s] \in Steps \cup {"pending"} THEN Less(ttl[s]) ELSE ttl[s]]
    /\ age' = [s \in Sends |-> IF stage[s] \in Steps \cup {"pending"} THEN More(age[s]) ELSE age[s]]
    /\ left' = [s \in Sends |-> IF stage[s] \in Steps THEN Less(left[s]) ELSE left[s]]
    /\ thisPeer' = {Less(t) : t \in thisPeer}
    /\ fetching' = {Less(t) : t \in fetching}
    /\ UNCHANGED <<kind, stage, resolved, owed, pc, receiving, result, dead, copies>>

(* A child answers.  The gateway polls the DHT and the encoder itself, and  *)
(* they serve all that was asked before their answers and timeouts are      *)
(* looked at.  The DHT knows the peer or not; the transport accepts or      *)
(* refuses at any time, also when the gateway has stopped waiting for it.   *)
Polled == {"dht", "encoder"}

Answers(step) == IF step \in {"lookup", "send"} THEN {"ok", "err"} ELSE {"ok"}

Answer(c) ==
    /\ dead = "no"
    /\ c \in Polled => pc = c /\ ~receiving
    /\ \E o \in owed : \E a \in Answers(o.step) :
         /\ o.step \in StepsOf(c)
         /\ o.answer = "none"
         /\ owed' = (owed \ {o}) \cup {[o EXCEPT !.answer = a]}
         /\ copies' = IF o.step = "send" /\ a = "err"
                      THEN [copies EXCEPT ![o.send] = @ - 1] ELSE copies
    /\ UNCHANGED <<kind, sendVars, thisPeer, fetching, pc, receiving, result, dead>>

-----------------------------------------------------------------------------
Panic(why) ==
    /\ dead' = why
    /\ UNCHANGED <<kind, sendVars, owed, thisPeer, fetching, pc, receiving, result, copies>>

(* priv_send_queue_pending: what has expired is reported instead. *)
QueuePending(s) == IF ttl[s] < 0 THEN "err" ELSE "pending"

(* The callback of a published message answers it; an error panics. *)
Unhandled(s, st) == st = "err" /\ kind[s] = "event"

(* MUTANT of RequestTimeout: shorter than the expiry of a send, as the       *)
(* comment at DEFAULT_TIMEOUT asks for.                                     *)
RequestTimeout_Short == 0

(* What bookmark() gives a request. *)
RequestTimeout == GhostTimeout

(* An expiry is fixed when a send begins (send_with_...), which for a pong  *)
(* and after a query is at its callback.                                    *)
ExpiresIn(s, next) == IF stage[s] \in {"none", "query", "decode"} THEN RetryTimeout ELSE ttl[s]

(* last_attempt is set when a lookup or an encoding is asked for, and so    *)
(* that the next dispatch is due when the encoder is detached.              *)
LastAttempt(s, next) ==
    IF next \in {"lookup", "encode"} THEN 0
    ELSE IF stage[s] = "decode" THEN RetryInterval
    ELSE age[s]

(* The sends in the domain of to go on: to a request to a child, to the     *)
(* queue of pending sends, or to their end.                                 *)
Settle(to, requests) ==
    LET S == DOMAIN to IN
    /\ stage' = [s \in Sends |-> IF s \in S THEN to[s] ELSE stage[s]]
    /\ owed' = requests \cup {Ask(s, to[s]) : s \in {x \in S : to[x] \in Steps}}
    /\ left' = [s \in Sends |-> IF s \in S THEN RequestTimeout ELSE left[s]]
    /\ ttl' = [s \in Sends |-> IF s \in S THEN ExpiresIn(s, to[s]) ELSE ttl[s]]
    /\ age' = [s \in Sends |-> IF s \in S THEN LastAttempt(s, to[s]) ELSE age[s]]
    /\ resolved' = [s \in Sends |-> resolved[s] \/ (s \in S /\ to[s] = "encode")]
    /\ copies' = [s \in Sends |-> IF s \in S /\ to[s] = "send" THEN copies[s] + 1 ELSE copies[s]]

(* process() begins with the endpoint of the parent. *)
Start ==
    /\ dead = "no"
    /\ pc = "idle"
    /\ pc' = "parent"
    /\ UNCHANGED <<kind, sendVars, owed, thisPeer, fetching, receiving, result, dead, copies>>

(* The timeouts of one child: GhostTracker::process.                        *)
TimedOut(c) == {s \in Sends : stage[s] \in StepsOf(c) /\ left[s] < 0}

Forget(S) == {[o EXCEPT !.late = o.late \/ o.send \in S] : o \in owed}

Expire(c) ==
    /\ dead = "no"
    /\ pc = c
    /\ ~receiving
    /\ c \in Polled => \A o \in owed : o.step \in StepsOf(c) => o.answer # "none"
    /\ \/ /\ \/ \E s \in TimedOut(c) : stage[s] \in {"query", "decode"}
             \/ c = "dht" /\ -1 \in thisPeer
          /\ Panic("timeout")
       \/ c = "parent" /\ -1 \in fetching /\ Panic("entry")
       \/ (\E s \in TimedOut(c) : Unhandled(s, QueuePending(s))) /\ Panic("publish")
       \/ /\ \A s \in TimedOut(c) : /\ stage[s] \notin {"query", "decode"}
                                    /\ ~Unhandled(s, QueuePending(s))
          /\ c = "dht" => -1 \notin thisPeer
          /\ c = "parent" => -1 \notin fetching
          /\ Settle([s \in TimedOut(c) |-> QueuePending(s)], Forget(TimedOut(c)))
          /\ receiving' = TRUE
          /\ UNCHANGED <<kind, thisPeer, fetching, pc, result, dead>>

(* What the callback of an answer does with the send. *)
Callback(o) ==
    CASE o.step \in DhtSteps /\ o.answer = "ok" -> "encode"
      [] o.step = "encode" -> "send"
      [] o.step = "decode" -> "pending"
      [] o.step = "send" /\ o.answer = "ok" -> "ok"
      [] OTHER -> QueuePending(o.send)

(* MUTANT of Receive: a late answer stays queued and is in the way of every *)
(* later call.                                                              *)
Receive_KeepsLate(c) ==
    /\ dead = "no"
    /\ pc = c
    /\ receiving
    /\ \E o \in owed :
         /\ o.step \in StepsOf(c)
         /\ o.answer # "none"
         /\ \/ /\ o.late
               /\ UNCHANGED owed
               /\ pc' = "idle"
               /\ receiving' = FALSE
               /\ result' = "Err"
               /\ UNCHANGED <<kind, sendVars, thisPeer, fetching, dead, copies>>
            \/ /\ ~o.late
               /\ Unhandled(o.send, Callback(o))
               /\ Panic("publish")
            \/ /\ ~o.late
               /\ ~Unhandled(o.send, Callback(o))
               /\ Settle([s \in {o.send} |-> Callback(o)], owed \ {o})
               /\ UNCHANGED <<kind, thisPeer, fetching, pc, receiving, result, dead>>

(* One answer: GhostTracker::handle.  A late one is an error and ends the   *)
(* call of process(), with the other answers still queued.                  *)
Receive(c) ==
    /\ dead = "no"
    /\ pc = c
    /\ receiving
    /\ \E o \in owed :
         /\ o.step \in StepsOf(c)
         /\ o.answer # "none"
         /\ \/ /\ o.late
               /\ owed' = owed \ {o}
               /\ pc' = "idle"
               /\ receiving' = FALSE
               /\ result' = "Err"
               /\ UNCHANGED <<kind, sendVars, thisPeer, fetching, dead, copies>>
            \/ /\ ~o.late
               /\ Unhandled(o.send, Callback(o))
               /\ Panic("publish")
            \/ /\ ~o.late
               /\ ~Unhandled(o.send, Callback(o))
               /\ Settle([s \in {o.send} |-> Callback(o)], owed \ {o})
               /\ UNCHANGED <<kind, thisPeer, fetching, pc, receiving, result, dead>>

(* The DHT answers RequestThisPeer in the phase that polls it. *)
ReceiveThisPeer ==
    /\ dead = "no"
    /\ pc = "dht"
    /\ receiving
    /\ thisPeer # {}
    /\ thisPeer' = {}
    /\ UNCHANGED <<kind, sendVars, owed, fetching, pc, receiving, result, dead, copies>>

(* The parent answers a RequestEntry, whenever its client does: the entry   *)
(* is broadcast, and an error panics.                                       *)
ReceiveEntry ==
    /\ dead = "no"
    /\ pc = "parent"
    /\ receiving
    /\ \E t \in fetching :
         \/ /\ fetching' = fetching \ {t}
            /\ UNCHANGED <<kind, sendVars, owed, thisPeer, pc, receiving, result, dead, copies>>
         \/ Panic("entry")

(* Nothing is left to receive from c. *)
Received(c) ==
    /\ dead = "no"
    /\ pc = c
    /\ receiving
    /\ \A o \in owed : o.step \in StepsOf(c) => o.answer = "none"

Unbegun(kinds) == {s \in Sends : stage[s] = "none" /\ kind[s] \in kinds}

(* The messages that were drained begin their sends. *)
Begin(kinds) ==
    \E S \in SUBSET Unbegun(kinds) : Settle([s \in S |-> FirstStep(kind[s])], owed)

(* handle_RequestToChild, for every message of the parent *)
EndParent ==
    /\ Received("parent")
    /\ Begin(FromParent)
    /\ pc' = "transport"
    /\ receiving' = FALSE
    /\ UNCHANGED <<kind, thisPeer, fetching, result, dead>>

(* handle_transport_RequestToParent, for every message of the transport *)
EndTransport ==
    /\ Received("transport")
    /\ Begin(FromTransport)
    /\ pc' = "encoder"
    /\ receiving' = FALSE
    /\ UNCHANGED <<kind, thisPeer, fetching, result, dead>>

EndEncoder ==
    /\ Received("encoder")
    /\ pc' = "pending"
    /\ receiving' = FALSE
    /\ UNCHANGED <<kind, sendVars, owed, thisPeer, fetching, result, dead, copies>>

(* priv_send_check_dispatch: nothing looks at the expiry of a send that is  *)
(* due, it gets one more attempt.                                           *)
Due(s) == age[s] >= RetryInterval

Dispatch(s) ==
    IF ~Due(s) THEN QueuePending(s)
    ELSE IF resolved[s] \/ kind[s] \notin {"message", "event"} THEN "encode" ELSE "lookup"

(* process_transport_pending_sends, and then RequestThisPeer *)
PendingSends ==
    /\ dead = "no"
    /\ pc = "pending"
    /\ LET P == {s \in Sends : stage[s] = "pending"} IN
         \/ (\E s \in P : Unhandled(s, Dispatch(s))) /\ Panic("publish")
         \/ /\ \A s \in P : ~Unhandled(s, Dispatch(s))
            /\ Settle([s \in P |-> Dispatch(s)], owed)
            /\ thisPeer' = thisPeer \cup {GhostTimeout}
            /\ pc' = "dht"
            /\ UNCHANGED <<kind, fetching, receiving, result, dead>>

(* MUTANT of EndDht: the wrapper looks at the answers before it polls the   *)
(* DHT, so that one comes a call of process() later.                        *)
EndDht_AnswerNextTime ==
    /\ Received("dht")
    /\ Begin(FromDht)
    /\ \/ UNCHANGED fetching
       \/ /\ Cardinality(fetching) < MaxFetches
          /\ fetching' = fetching \cup {GhostTimeout}
    /\ pc' = "idle"
    /\ receiving' = FALSE
    /\ result' = "Ok"
    /\ UNCHANGED <<kind, thisPeer, dead>>

(* handle_dht_RequestToParent, for every message of the DHT *)
EndDht ==
    /\ Received("dht")
    /\ thisPeer = {}
    /\ Begin(FromDht)
    /\ \/ UNCHANGED fetching
       \/ /\ Cardinality(fetching) < MaxFetches
          /\ fetching' = fetching \cup {GhostTimeout}
    /\ pc' = "idle"
    /\ receiving' = FALSE
    /\ result' = "Ok"
    /\ UNCHANGED <<kind, thisPeer, dead>>

Process ==
    \/ Start
    \/ \E c \in Children : Expire(c) \/ Receive(c)
    \/ ReceiveThisPeer
    \/ ReceiveEntry
    \/ EndParent
    \/ EndTransport
    \/ EndEncoder
    \/ PendingSends
    \/ EndDht

Next == Tick \/ Process \/ \E c \in Children : Answer(c)

Spec == Init /\ [][Next]_vars

(* The gateway is polled, the DHT and the encoder with it, and time passes  *)
(* between the calls, however close they are.                               *)
(* The transport and the parent need not answer.                            *)
Fairness ==
    /\ SF_vars(Tick)
    /\ WF_vars(Process)
    /\ WF_vars(Answer("dht"))
    /\ WF_vars(Answer("encoder"))

FairSpec == Spec /\ Fairness

-----------------------------------------------------------------------------
(* A send is only given up, or asked for again, when the transport cannot   *)
(* deliver an earlier copy any more.                                        *)

(* A send waits for one request, the one of its stage; what is late belongs *)
(* to sends that have ended.                                                *)
OwedInv ==
    /\ \A o \in owed : o.late => stage[o.send] = "err"
    /\ \A o \in owed : ~o.late => stage[o.send] = o.step
    /\ \A o, q \in owed : o.send = q.send => o = q
    /\ \A o \in owed : o.answer = "err" => o.step \in {"lookup", "send"}

(* A ghost request outlives the send it serves: its timeout never comes     *)
(* while the send could still be tried again.                               *)
ExpiryInv ==
    \A s \in Sends : stage[s] \in {"lookup", "encode", "send"} => ttl[s] <= left[s]

(* The copy of a send that is with the transport, or was taken by it. *)
CopyInv ==
    \A s \in Sends :
        /\ copies[s] \in {0, 1}
        /\ copies[s] = 1 =>
             \/ stage[s] \in Ended
             \/ stage[s] = "send"
        /\ stage[s] = "ok" => copies[s] = 1
        /\ \A o \in owed : (o.send = s /\ o.step = "send") =>
             copies[s] = (IF o.answer = "err" THEN 0 ELSE 1)

(* A send that waits for a request will hear of it. *)
WaitInv == \A s \in Sends : stage[s] \in Steps => \E o \in owed : o.send = s /\ ~o.late

(* What a call of process() asks of the DHT and the encoder it also serves, *)
(* unless it is cut short: a query, a decoding or a RequestThisPeer is      *)
(* older than its call only after an error.                                 *)
ServedInv ==
    /\ pc = "pending" => ~receiving
    /\ pc \in Polled /\ receiving => \A o \in owed : o.step \in StepsOf(pc) => o.answer # "none"
    /\ pc \in {"pending", "dht"} => \A s \in Sends : stage[s] # "decode"
    /\ result = "Ok" =>
         /\ thisPeer \subseteq {GhostTimeout}
         /\ \A s \in Sends : stage[s] \in {"query", "decode"} => left[s] = GhostTimeout
         /\ pc = "idle" => /\ thisPeer = {}
                           /\ \A s \in Sends : stage[s] \notin {"query", "decode"}

(* SAFETY. The inductive invariant: each send waits for one request at      *)
(* most, which does not time out before the send expires, and has one copy  *)
(* with the transport at most; only an error leaves a request of process()  *)
(* unserved.                                                                *)
GatewayInv == OwedInv /\ WaitInv /\ ExpiryInv /\ CopyInv /\ ServedInv

(* SAFETY. The panics on the timeout of a RequestThisPeer, RequestPeerList  *)
(* or Decode (gateway_actor.rs, gateway_transport.rs) need more than a slow *)
(* owner: the phases are ordered so that a call of process() serves what it *)
(* asked for, and only an error that cuts one short leaves a request open.  *)
TimeoutPanicOnlyAfterError == dead = "timeout" => result = "Err"

status ==
    [s \in Sends |-> CASE stage[s] \in {"none", "query", "decode"} -> "none"
                       [] stage[s] \in Ended -> stage[s]
                       [] OTHER -> "open"]

Service == INSTANCE SendService

(* REFINEMENT. Lookups, encodings, retries, timeouts and late answers       *)
(* implement SendService: no retry puts a second copy of a message on its   *)
(* way while the transport may still deliver the first.                     *)
ImplementsSendService == Service!Spec

(* LIVENESS. Every send that begins ends with a success or an error,        *)
(* although the transport may never answer and late answers cut calls of    *)
(* process() short, unless the gateway panics.                              *)
EverySendEnds ==
    \A s \in Sends : (stage[s] # "none") ~> (stage[s] \in Ended \/ dead # "no")

-----------------------------------------------------------------------------
(* SAFETY, violated. respond() panics with "Unhandled publish error ... You *)
(* should convert this to a request": no published message is answered with *)
(* an error.  The engine publishes gossip, and one peer that cannot be      *)
(* reached until the send expires panics the gateway.                       *)
NoPublishError == dead # "publish"

=============================================================================
