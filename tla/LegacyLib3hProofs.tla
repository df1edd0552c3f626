-------------------------- MODULE LegacyLib3hProofs -------------------------
(***************************************************************************)
(* Proofs about LegacyLib3h for any set of client messages and of messages  *)
(* of the engine, and any number of failing calls of process().             *)
(*                                                                         *)
(* The three properties about answers need to know where every message is. *)
(* A request is in pending until its result is in responses or with the     *)
(* client, once and of the right kind (ResultsInv).  A message of the       *)
(* engine is in the channel, in the outbox or with the client, so that it   *)
(* gets one tracker id only; with the client it is tracked until it is      *)
(* answered, and its own id is in the map for as long if it needs it        *)
(* (TrackedInv).  That the engine is out of its Detach only inside          *)
(* process(), or for good after its own panic (AttachedInv), is what keeps  *)
(* other calls from missing it.                                             *)
(***************************************************************************)
EXTENDS LegacyLib3h, FiniteSetTheorems, TLAPS

Direct(e) == e.kind = "HandleSendDirectMessage"

\* What the engine may answer, and which id an answer of the client carries.
Replies(p) == {Reply[ToClientToLib3h[p.kind]], "error"}
AnswerId(e) == IF Direct(e) THEN e.id ELSE TrackId(e)

Implemented == {p \in Posts : p.kind \in DOMAIN ToClientToLib3h}

\* The messages in the channels and those for the client.
ToEngineMessages ==
    {Message("Request", p, ToClientToLib3h[p.kind]) : p \in Implemented}
      \cup {Message("Response", e, AnswerId(e)) : e \in Sends}
FromEngineMessages ==
    {Message("Request", e, e.kind) : e \in Sends}
      \cup UNION {{Message("Response", p, r) : r \in Replies(p)} : p \in Requests}

ServerKinds ==
    {Fitting[k] : k \in DOMAIN Fitting} \cup {"FailureResult"}
      \cup {ToServerProtocol(k) : k \in Lib3hToClient}
Results == [id : {p.id : p \in Requests}, kind : ServerKinds]
ServerMessages ==
    [id : {p.id : p \in Requests} \cup {HandedId(e) : e \in Sends}, kind : ServerKinds]

TypeInv ==
    /\ TypeOK
    /\ toEngine \in Seq(ToEngineMessages) /\ fromEngine \in Seq(FromEngineMessages)
    /\ outbox \in Seq(Sends) /\ responses \in Seq(Results) /\ client \in Seq(ServerMessages)
    /\ sent \subseteq Sends /\ DOMAIN got \subseteq Sends
    /\ pending \subseteq posted

\* The engine is out of its Detach while its process() and the callbacks run, and
\* when it has panicked.
AttachedInv ==
    /\ engine = "detached" <=> phase \in {"actor", "endpoint"}
    /\ engine = "lost" => "engine" \in panicked

PanicInv == MissedOnlyAfterItsPanic

\* The results that were made, those the client has and those to come.
Made == client \o responses

\* A posted request is pending or has one result, which fits; when the engine is
\* lost those that were pending have none.
ResultsInv ==
    \A p \in Requests :
        /\ \A i \in 1 .. Len(Made) : Made[i].id = p.id => p \in posted \ pending
        /\ p \in posted \ pending => engine = "lost" \/ \E i \in 1 .. Len(Made) : Made[i].id = p.id
        /\ \A i, j \in 1 .. Len(Made) : Made[i].id = p.id /\ Made[j].id = p.id => i = j
        /\ \A i \in 1 .. Len(Made) :
              Made[i].id = p.id => Made[i].kind \in {Fitting[p.kind], "FailureResult"}

\* Where a message of the engine is.
Handed(e) == \E i \in 1 .. Len(client) : client[i].id = TrackId(e)
Carries(k, e) == fromEngine[k].type = "Request" /\ fromEngine[k].of = e

DeliveredInv ==
    \A e \in Sends :
        /\ Handed(e) => e \in sent
        /\ e \in Range(outbox) => ~ Handed(e)
        /\ \A k \in 1 .. Len(fromEngine) : Carries(k, e) =>
              /\ e \in sent /\ ~ Handed(e) /\ e \notin Range(outbox)
              /\ \A l \in 1 .. Len(fromEngine) : Carries(l, e) => k = l

\* A message that the client has is tracked until it is answered.
TrackedInv ==
    \A e \in Sends :
        /\ e \in answered => Handed(e)
        /\ e.kind \in Injected => (TrackId(e) \in tracker <=> Handed(e) /\ e \notin answered)
        /\ TrackId(e) \in DOMAIN idMap => Direct(e) /\ idMap[TrackId(e)] = e.id
        /\ Direct(e) /\ TrackId(e) \in tracker => TrackId(e) \in DOMAIN idMap

GotInv == \A e \in DOMAIN got : Direct(e) => got[e] = e.id

IInv ==
    /\ TypeInv /\ AttachedInv /\ PanicInv /\ ResultsInv /\ DeliveredInv /\ TrackedInv /\ GotInv

-----------------------------------------------------------------------------
(* The operators.                                                          *)

LEMMA AppendFacts ==
    ASSUME NEW S, NEW q \in Seq(S), NEW x \in S
    PROVE  /\ Append(q, x) \in Seq(S)
           /\ Len(Append(q, x)) = Len(q) + 1 /\ Len(q) \in Nat
           /\ Append(q, x)[Len(q) + 1] = x
           /\ \A k \in 1 .. Len(q) : Append(q, x)[k] = q[k]
  OBVIOUS

LEMMA TailFacts ==
    ASSUME NEW S, NEW q \in Seq(S), q # << >>
    PROVE  /\ Head(q) \in S /\ Head(q) = q[1] /\ 1 \in 1 .. Len(q)
           /\ Tail(q) \in Seq(S)
           /\ \A k \in 1 .. Len(Tail(q)) :
                 k + 1 \in 1 .. Len(q) /\ k + 1 # 1 /\ Tail(q)[k] = q[k + 1]
  OBVIOUS

LEMMA ConcatFacts ==
    ASSUME NEW S, NEW q \in Seq(S), NEW r \in Seq(S)
    PROVE  /\ q \o r \in Seq(S)
           /\ Len(q \o r) = Len(q) + Len(r) /\ Len(q) \in Nat /\ Len(r) \in Nat
           /\ \A k \in 1 .. Len(q) : (q \o r)[k] = q[k]
           /\ \A k \in 1 .. Len(r) : (q \o r)[Len(q) + k] = r[k]
  OBVIOUS

LEMMA RangeFacts ==
    ASSUME NEW S, NEW q \in Seq(S)
    PROVE  /\ Range(q) = {q[k] : k \in 1 .. Len(q)}
           /\ Range(q) \subseteq S
  BY DEF Range

\* The fields of a message.
LEMMA MessageFields ==
    ASSUME NEW type, NEW of, NEW data
    PROVE  /\ Message(type, of, data).type = type
           /\ Message(type, of, data).of = of
           /\ Message(type, of, data).data = data
  BY DEF Message

\* A message of either channel is a request or an answer that fits its request.
LEMMA MessageForms ==
    /\ \A m \in FromEngineMessages :
          \/ m.type = "Request" /\ m.of \in Sends
          \/ m.type = "Response" /\ m.of \in Requests /\ m.data \in Replies(m.of)
    /\ \A m \in ToEngineMessages :
          \/ m.type = "Request" /\ m.of \in Implemented
          \/ m.type = "Response" /\ m.of \in Sends /\ m.data = AnswerId(m.of)
<1>1. ASSUME NEW m \in FromEngineMessages
      PROVE  \/ m.type = "Request" /\ m.of \in Sends
             \/ m.type = "Response" /\ m.of \in Requests /\ m.data \in Replies(m.of)
  <2>1. CASE \E e \in Sends : m = Message("Request", e, e.kind)
    BY <2>1, MessageFields
  <2>2. CASE \E p \in Requests : \E r \in Replies(p) : m = Message("Response", p, r)
    BY <2>2, MessageFields
  <2> QED
    BY <2>1, <2>2 DEF FromEngineMessages
<1>2. ASSUME NEW m \in ToEngineMessages
      PROVE  \/ m.type = "Request" /\ m.of \in Implemented
             \/ m.type = "Response" /\ m.of \in Sends /\ m.data = AnswerId(m.of)
  <2>1. CASE \E p \in Implemented : m = Message("Request", p, ToClientToLib3h[p.kind])
    BY <2>1, MessageFields
  <2>2. CASE \E e \in Sends : m = Message("Response", e, AnswerId(e))
    BY <2>2, MessageFields
  <2> QED
    BY <2>1, <2>2 DEF ToEngineMessages
<1> QED
  BY <1>1, <1>2

\* Tracker ids are different for different messages and no ids of the client.
LEMMA TrackFacts ==
    /\ \A e \in Sends : TrackId(e) \in TrackIds /\ Tracked(TrackId(e)) = e
    /\ \A id \in TrackIds : Tracked(id) \in Sends /\ TrackId(Tracked(id)) = id
    /\ \A e, f \in Sends : TrackId(e) = TrackId(f) => e = f
    /\ \A p \in Requests, e \in Sends : p.id # TrackId(e)
<1>1. \A e, f \in Sends : TrackId(e) = TrackId(f) => e = f
  BY LegacyAssumption DEF TrackId
<1>2. \A e \in Sends : TrackId(e) \in TrackIds /\ Tracked(TrackId(e)) = e
  BY <1>1 DEF TrackIds, Tracked
<1>3. \A id \in TrackIds : Tracked(id) \in Sends /\ TrackId(Tracked(id)) = id
  BY <1>2 DEF TrackIds
<1>4. \A p \in Requests, e \in Sends : p.id # TrackId(e)
  BY LegacyAssumption DEF Requests
<1> QED
  BY <1>1, <1>2, <1>3, <1>4

\* The id the client sees is the tracker's for the kinds that have an arm, and no
\* tracker id and no id of a request otherwise.
LEMMA HandedFacts ==
    ASSUME NEW e \in Sends
    PROVE  /\ \A f \in Sends : HandedId(e) = TrackId(f) <=> e = f /\ e.kind \in Injected
           /\ \A p \in Requests : HandedId(e) # p.id
<1>1. e.kind \in Lib3hToClient
  BY LegacyAssumption
<1>2. CASE e.kind \in Injected
  <2>1. HandedId(e) = TrackId(e)
    BY <1>2, SMT DEF HandedId, Injected
  <2> QED
    BY <1>2, <2>1, TrackFacts
<1>3. CASE e.kind \notin Injected
  <2>1. e.kind = "Unbound" \/ e.kind = "SendDirectMessageResult"
    BY <1>1, <1>3 DEF Injected
  <2>2. HandedId(e) = NoId \/ HandedId(e) = e.id
    BY <1>3, <2>1 DEF HandedId
  <2> QED
    BY <1>3, <2>2, LegacyAssumption DEF Requests
<1> QED
  BY <1>2, <1>3

\* The kinds of a request: what the engine answers becomes the result that fits.
LEMMA RequestKinds ==
    ASSUME NEW p \in Requests
    PROVE  /\ p \in Implemented
           /\ Fitting[p.kind] \in ServerKinds
           /\ \A r \in Replies(p) \cup {"timeout"} :
                 CallbackResult(r) \in {Fitting[p.kind], "FailureResult"}
<1>1. p \in Posts /\ p.kind \in {"Connect", "JoinSpace", "LeaveSpace", "SendDirectMessage",
                                 "FetchEntry", "QueryEntry"}
  <2>1. p.kind # "PublishEntry"
    BY LegacyAssumption DEF Requests
  <2> QED
    BY <2>1 DEF Requests, ToClientToLib3h
<1>2. p \in Implemented
  BY DEF Requests, Implemented
<1>3. Fitting[p.kind] \in ServerKinds
  BY <1>1 DEF ServerKinds, Fitting
<1>4. ASSUME NEW r \in Replies(p) \cup {"timeout"}
      PROVE  CallbackResult(r) \in {Fitting[p.kind], "FailureResult"}
  <2>1. CASE r \in {"error", "timeout"}
    BY <2>1 DEF CallbackResult
  <2>2. CASE r = Reply[ToClientToLib3h[p.kind]]
    <3>1. CASE p.kind = "Connect"
      BY <2>2, <3>1 DEF CallbackResult, Fitting, Reply, ToClientToLib3h
    <3>2. CASE p.kind \in {"JoinSpace", "LeaveSpace"}
      BY <2>2, <3>2 DEF CallbackResult, Fitting, Reply, ToClientToLib3h
    <3>3. CASE p.kind \in {"SendDirectMessage", "FetchEntry", "QueryEntry"}
      BY <2>2, <3>3 DEF CallbackResult, Fitting, Reply, ToClientToLib3h
    <3> QED
      BY <1>1, <3>1, <3>2, <3>3
  <2> QED
    BY <1>4, <2>1, <2>2 DEF Replies
<1> QED
  BY <1>2, <1>3, <1>4

-----------------------------------------------------------------------------
(* The results for the client.                                             *)

\* What ResultsInv says of one request.
OneResult(p) ==
    /\ \A i \in 1 .. Len(Made) : Made[i].id = p.id => p \in posted \ pending
    /\ p \in posted \ pending => engine = "lost" \/ \E i \in 1 .. Len(Made) : Made[i].id = p.id
    /\ \A i, j \in 1 .. Len(Made) : Made[i].id = p.id /\ Made[j].id = p.id => i = j
    /\ \A i \in 1 .. Len(Made) :
          Made[i].id = p.id => Made[i].kind \in {Fitting[p.kind], "FailureResult"}

LEMMA MadeFacts ==
    ASSUME TypeInv
    PROVE  /\ Results \subseteq ServerMessages
           /\ Made \in Seq(ServerMessages) /\ Len(Made) \in Nat
           /\ Len(Made) = Len(client) + Len(responses)
           /\ \A i \in 1 .. Len(client) : Made[i] = client[i]
           /\ \A i \in 1 .. Len(responses) : Made[Len(client) + i] = responses[i]
<1>1. Results \subseteq ServerMessages
  BY DEF Results, ServerMessages
<1>2. client \in Seq(ServerMessages) /\ responses \in Seq(ServerMessages)
  BY <1>1 DEF TypeInv
<1> QED
  BY <1>1, <1>2, ConcatFacts DEF Made

LEMMA ResultsUnchanged ==
    ASSUME ResultsInv, engine # "lost" \/ UNCHANGED engine,
           UNCHANGED <<posted, pending, client, responses>>
    PROVE  ResultsInv'
  BY DEF ResultsInv, Made

\* A callback adds the one result of a pending request.
LEMMA CallbackKeepsResults ==
    ASSUME TypeInv, ResultsInv, NEW p \in pending,
           NEW r \in Replies(p) \cup {"timeout"},
           Callback(p, r), pending' = pending \ {p}, UNCHANGED <<engine, posted, client>>
    PROVE  responses' \in Seq(Results) /\ ResultsInv'
<1>1. p \in Requests /\ p \in posted
  BY DEF TypeInv, TypeOK
<1> DEFINE m == ServerMessage(p.id, CallbackResult(r))
<1>2. m.id = p.id /\ m.kind \in {Fitting[p.kind], "FailureResult"}
  BY <1>1, RequestKinds DEF ServerMessage
<1>3. m \in Results
  <2>1. CallbackResult(r) \in ServerKinds
    BY <1>1, RequestKinds DEF ServerKinds
  <2> QED
    BY <1>1, <2>1 DEF Results, ServerMessage
<1>4. responses' = Append(responses, m)
  BY DEF Callback
<1> HIDE DEF m
<1>5. responses' \in Seq(Results)
  BY <1>3, <1>4, AppendFacts DEF TypeInv
<1>6. /\ Len(Made') = Len(Made) + 1 /\ Len(Made) \in Nat
      /\ Made'[Len(Made) + 1] = m
      /\ \A i \in 1 .. Len(Made) : Made'[i] = Made[i]
  <2>1. client \in Seq(ServerMessages) /\ responses \in Seq(ServerMessages)
        /\ m \in ServerMessages
    BY <1>3, MadeFacts DEF TypeInv
  <2>2. Made' = Append(Made, m)
    BY <1>4, <2>1 DEF Made
  <2> QED
    BY <2>1, <2>2, MadeFacts, AppendFacts
<1>7. \A i \in 1 .. Len(Made) : Made[i].id # p.id
  BY <1>1 DEF ResultsInv
<1>8. ASSUME NEW q \in Requests PROVE OneResult(q)'
  <2>1. CASE q = p
    <3>1. \A i \in 1 .. Len(Made') : Made'[i].id = p.id <=> i = Len(Made) + 1
      BY <1>2, <1>6, <1>7
    <3>2. Len(Made) + 1 \in 1 .. Len(Made')
      BY <1>6
    <3>3. q \in posted' \ pending'
      BY <1>1, <2>1
    <3> QED
      BY <1>1, <1>2, <1>6, <2>1, <3>1, <3>2, <3>3 DEF OneResult
  <2>2. CASE q # p
    <3>1. q.id # p.id
      BY <1>1, <2>2, LegacyAssumption DEF Requests
    <3>2. \A i \in 1 .. Len(Made') : Made'[i].id = q.id => i \in 1 .. Len(Made)
      BY <1>2, <1>6, <3>1
    <3>3. \A i \in 1 .. Len(Made) : i \in 1 .. Len(Made')
      BY <1>6
    <3>4. q \in posted' \ pending' <=> q \in posted \ pending
      BY <2>2
    <3>5. OneResult(q)
      BY DEF ResultsInv, OneResult
    <3> QED
      BY <1>6, <3>2, <3>3, <3>4, <3>5 DEF OneResult
  <2> QED
    BY <2>1, <2>2
<1> QED
  BY <1>5, <1>8 DEF ResultsInv, OneResult

\* What process() returns: the results move to the client, and what follows them
\* are messages under tracker ids.
LEMMA DrainKeepsResults ==
    ASSUME TypeInv, ResultsInv, Drain
    PROVE  /\ responses' \in Seq(Results) /\ client' \in Seq(ServerMessages)
           /\ ResultsInv'
           /\ Len(client') = Len(Made) + Len(outbox)
           /\ \A i \in 1 .. Len(Made) : client'[i] = Made[i]
           /\ \A i \in 1 .. Len(outbox) : client'[Len(Made) + i].id = HandedId(outbox[i])
<1> DEFINE handed == [i \in 1 .. Len(outbox) |->
                        ServerMessage(HandedId(outbox[i]), ToServerProtocol(outbox[i].kind))]
<1>1. /\ client' = client \o responses \o handed /\ responses' = << >> /\ outbox' = << >>
      /\ UNCHANGED <<pending, posted, engine>>
  BY DEF Drain
<1>2. outbox \in Seq(Sends) /\ Len(outbox) \in Nat
  BY DEF TypeInv
<1>3. \A i \in 1 .. Len(outbox) :
        handed[i] \in ServerMessages /\ handed[i].id = HandedId(outbox[i])
  <2>1. ASSUME NEW i \in 1 .. Len(outbox)
        PROVE  handed[i] \in ServerMessages /\ handed[i].id = HandedId(outbox[i])
    <3>1. outbox[i] \in Sends
      BY <1>2
    <3>2. outbox[i].kind \in Lib3hToClient
      BY <3>1, LegacyAssumption
    <3>3. HandedId(outbox[i]) \in {HandedId(e) : e \in Sends}
      BY <3>1
    <3>4. ToServerProtocol(outbox[i].kind) \in ServerKinds
      BY <3>2 DEF ServerKinds
    <3> QED
      BY <3>3, <3>4 DEF ServerMessage, ServerMessages
  <2> QED
    BY <2>1
<1>4. handed \in Seq(ServerMessages) /\ Len(handed) = Len(outbox)
  BY <1>2, <1>3
<1> HIDE DEF handed
<1>5. Made \in Seq(ServerMessages) /\ Len(Made) \in Nat
  BY MadeFacts
<1>6. client' = Made \o handed
  BY <1>1 DEF Made
<1>7. /\ client' \in Seq(ServerMessages)
      /\ Len(client') = Len(Made) + Len(outbox)
      /\ \A i \in 1 .. Len(Made) : client'[i] = Made[i]
      /\ \A i \in 1 .. Len(outbox) : client'[Len(Made) + i] = handed[i]
  BY <1>4, <1>5, <1>6, ConcatFacts
<1>8. Made' = client'
  BY <1>1, <1>7 DEF Made
<1>9. \A i \in 1 .. Len(outbox) : client'[Len(Made) + i].id = HandedId(outbox[i])
  BY <1>3, <1>7
<1>10. ASSUME NEW q \in Requests PROVE OneResult(q)'
  <2>1. \A i \in 1 .. Len(Made') : Made'[i].id = q.id => i \in 1 .. Len(Made)
    <3>1. ASSUME NEW i \in 1 .. Len(client'), i \notin 1 .. Len(Made)
          PROVE  client'[i].id # q.id
      <4>1. i - Len(Made) \in 1 .. Len(outbox) /\ Len(Made) + (i - Len(Made)) = i
        BY <1>2, <1>5, <1>7, <3>1
      <4>2. client'[i].id = HandedId(outbox[i - Len(Made)]) /\ outbox[i - Len(Made)] \in Sends
        BY <1>2, <1>9, <4>1
      <4> QED
        BY <4>2, HandedFacts
    <3> QED
      BY <1>8, <3>1
  <2>2. \A i \in 1 .. Len(Made) : i \in 1 .. Len(Made') /\ Made'[i] = Made[i]
    BY <1>2, <1>5, <1>7, <1>8
  <2>3. OneResult(q)
    BY DEF ResultsInv, OneResult
  <2> QED
    BY <1>1, <2>1, <2>2, <2>3 DEF OneResult
<1>11. responses' \in Seq(Results)
  BY <1>1
<1> QED
  BY <1>7, <1>9, <1>10, <1>11 DEF ResultsInv, OneResult

\* A request is pending when it is posted.
LEMMA PostKeepsResults ==
    ASSUME TypeInv, ResultsInv, NEW p \in Posts, Post(p)
    PROVE  ResultsInv'
<1>1. CASE PostPanics(p)
  <2>1. UNCHANGED <<engine, posted, pending, client, responses>>
    BY <1>1 DEF Post, PostPanics, wrapperVars
  <2> QED
    BY <2>1, ResultsUnchanged
<1>2. CASE PostToEngine(p)
  <2>1. /\ posted' = posted \cup {p} /\ p \notin posted
        /\ pending' = pending \cup ({p} \cap Requests)
        /\ UNCHANGED <<engine, client, responses>>
    BY <1>2 DEF Post, PostToEngine, wrapperVars
  <2>2. ASSUME NEW q \in Requests PROVE OneResult(q)'
    <3>1. q \in posted' \ pending' <=> q \in posted \ pending
      BY <2>1
    <3>2. OneResult(q)
      BY DEF ResultsInv, OneResult
    <3> QED
      BY <2>1, <3>1, <3>2 DEF OneResult, Made
  <2> QED
    BY <2>2 DEF ResultsInv, OneResult
<1> QED
  BY <1>1, <1>2 DEF Post

-----------------------------------------------------------------------------
(* The messages of the engine.                                             *)

LEMMA DeliveredUnchanged ==
    ASSUME DeliveredInv, UNCHANGED <<client, outbox, fromEngine, sent>>
    PROVE  DeliveredInv'
  BY DEF DeliveredInv, Handed, Carries

LEMMA TrackedUnchanged ==
    ASSUME TrackedInv, UNCHANGED <<client, answered, tracker, idMap>>
    PROVE  TrackedInv'
  BY DEF TrackedInv, Handed

\* A step of the engine that answers a request puts no message in the channel.
LEMMA AnswerKeepsDelivered ==
    ASSUME TypeInv, DeliveredInv, NEW m \in FromEngineMessages, m.type = "Response",
           fromEngine' = Append(fromEngine, m), UNCHANGED <<client, outbox, sent>>
    PROVE  DeliveredInv'
<1>1. /\ fromEngine \in Seq(FromEngineMessages)
      /\ Len(fromEngine') = Len(fromEngine) + 1 /\ Len(fromEngine) \in Nat
      /\ fromEngine'[Len(fromEngine) + 1] = m
      /\ \A k \in 1 .. Len(fromEngine) : fromEngine'[k] = fromEngine[k]
  BY AppendFacts DEF TypeInv
<1>2. \A e \in Sends : \A k \in 1 .. Len(fromEngine') :
         Carries(k, e)' => k \in 1 .. Len(fromEngine) /\ Carries(k, e)
  BY <1>1 DEF Carries
<1> QED
  BY <1>2 DEF DeliveredInv, Handed

\* Neither does taking the first message off the channel.
LEMMA TailKeepsDelivered ==
    ASSUME TypeInv, DeliveredInv, fromEngine # << >>, fromEngine' = Tail(fromEngine),
           UNCHANGED <<client, sent>>,
           \/ outbox' = outbox
           \/ Head(fromEngine).type = "Request" /\ outbox' = Append(outbox, Head(fromEngine).of)
    PROVE  DeliveredInv'
<1>1. /\ fromEngine \in Seq(FromEngineMessages) /\ outbox \in Seq(Sends)
      /\ Head(fromEngine) \in FromEngineMessages
      /\ Head(fromEngine) = fromEngine[1] /\ 1 \in 1 .. Len(fromEngine)
      /\ \A k \in 1 .. Len(fromEngine') :
            k + 1 \in 1 .. Len(fromEngine) /\ k + 1 # 1 /\ fromEngine'[k] = fromEngine[k + 1]
  BY TailFacts DEF TypeInv
<1>2. \A e \in Sends : \A k \in 1 .. Len(fromEngine') : Carries(k, e)' => Carries(k + 1, e)
  BY <1>1 DEF Carries
<1>3. \A e \in Sends : e \in Range(outbox') => e \in Range(outbox) \/ Carries(1, e)
  <2>1. CASE outbox' = outbox
    BY <2>1
  <2>2. CASE /\ Head(fromEngine).type = "Request"
             /\ outbox' = Append(outbox, Head(fromEngine).of)
    <3>1. Head(fromEngine).of \in Sends
      BY <1>1, <2>2, MessageForms
    <3>4. /\ outbox' \in Seq(Sends)
          /\ Len(outbox') = Len(outbox) + 1 /\ Len(outbox) \in Nat
          /\ outbox'[Len(outbox) + 1] = Head(fromEngine).of
          /\ \A k \in 1 .. Len(outbox) : outbox'[k] = outbox[k]
      BY <1>1, <2>2, <3>1, AppendFacts
    <3>2. ASSUME NEW k \in 1 .. Len(outbox')
          PROVE  outbox'[k] = Head(fromEngine).of \/ (k \in 1 .. Len(outbox) /\ outbox'[k] = outbox[k])
      <4>1. k \in 1 .. Len(outbox) \/ k = Len(outbox) + 1
        BY <3>4
      <4> QED
        BY <3>4, <4>1
    <3>3. Range(outbox') = {outbox'[k] : k \in 1 .. Len(outbox')}
          /\ Range(outbox) = {outbox[k] : k \in 1 .. Len(outbox)}
      BY <1>1, <3>4, RangeFacts
    <3> QED
      BY <1>1, <2>2, <3>2, <3>3 DEF Carries
  <2> QED
    BY <2>1, <2>2
<1>4. ASSUME NEW e \in Sends
      PROVE  /\ e \in Range(outbox') => ~ Handed(e)
             /\ \A k \in 1 .. Len(fromEngine') : Carries(k, e)' =>
                  /\ e \in sent /\ ~ Handed(e) /\ e \notin Range(outbox')
                  /\ \A l \in 1 .. Len(fromEngine') : Carries(l, e)' => k = l
  <2>1. e \in Range(outbox') => ~ Handed(e)
    BY <1>1, <1>3 DEF DeliveredInv
  <2>2. ASSUME NEW k \in 1 .. Len(fromEngine'), Carries(k, e)'
        PROVE  /\ e \in sent /\ ~ Handed(e) /\ e \notin Range(outbox')
               /\ \A l \in 1 .. Len(fromEngine') : Carries(l, e)' => k = l
    <3>1. k + 1 \in 1 .. Len(fromEngine) /\ k + 1 # 1 /\ Carries(k + 1, e)
      BY <1>1, <1>2, <2>2
    <3>2. /\ e \in sent /\ ~ Handed(e) /\ e \notin Range(outbox)
          /\ \A l \in 1 .. Len(fromEngine) : Carries(l, e) => k + 1 = l
      BY <3>1 DEF DeliveredInv
    <3>3. e \notin Range(outbox')
      BY <1>1, <1>3, <3>1, <3>2
    <3>4. ASSUME NEW l \in 1 .. Len(fromEngine'), Carries(l, e)' PROVE k = l
      <4>1. l + 1 \in 1 .. Len(fromEngine) /\ Carries(l + 1, e)
        BY <1>1, <1>2, <3>4
      <4>2. k + 1 = l + 1
        BY <3>2, <4>1
      <4> QED
        BY <4>2
    <3> QED
      BY <3>2, <3>3, <3>4
  <2> QED
    BY <2>1, <2>2
<1>5. \A e \in Sends : Handed(e)' <=> Handed(e)
  BY DEF Handed
<1> QED
  BY <1>4, <1>5 DEF DeliveredInv

\* The engine sends a message it has not sent before.
LEMMA SendKeepsDelivered ==
    ASSUME TypeInv, DeliveredInv, NEW e \in Sends, EngineSends(e)
    PROVE  DeliveredInv'
<1> DEFINE m == Message("Request", e, e.kind)
<1>1. /\ e \notin sent /\ sent' = sent \cup {e} /\ fromEngine' = Append(fromEngine, m)
      /\ UNCHANGED <<client, outbox>>
  BY DEF EngineSends, wrapperVars, clientVars
<1>2. m \in FromEngineMessages /\ m.type = "Request" /\ m.of = e
  BY MessageFields DEF FromEngineMessages
<1> HIDE DEF m
<1>3. /\ fromEngine \in Seq(FromEngineMessages)
      /\ Len(fromEngine') = Len(fromEngine) + 1 /\ Len(fromEngine) \in Nat
      /\ fromEngine'[Len(fromEngine) + 1] = m
      /\ \A k \in 1 .. Len(fromEngine) : fromEngine'[k] = fromEngine[k]
  BY <1>1, <1>2, AppendFacts DEF TypeInv
<1>4. ASSUME NEW f \in Sends, NEW k \in 1 .. Len(fromEngine'), Carries(k, f)'
      PROVE  \/ k \in 1 .. Len(fromEngine) /\ Carries(k, f) /\ f # e
             \/ k = Len(fromEngine) + 1 /\ f = e
  <2>1. CASE k \in 1 .. Len(fromEngine)
    BY <1>1, <1>3, <1>4, <2>1 DEF Carries, DeliveredInv
  <2>2. CASE k = Len(fromEngine) + 1
    BY <1>2, <1>3, <1>4, <2>2 DEF Carries
  <2> QED
    BY <1>3, <2>1, <2>2
<1>5. ~ Handed(e) /\ e \notin Range(outbox)
  BY <1>1 DEF DeliveredInv, TypeInv, TypeOK
<1>6. \A f \in Sends : Handed(f)' <=> Handed(f)
  BY <1>1 DEF Handed
<1>7. ASSUME NEW f \in Sends, NEW k \in 1 .. Len(fromEngine'), Carries(k, f)'
      PROVE  /\ f \in sent' /\ ~ Handed(f)' /\ f \notin Range(outbox')
             /\ \A l \in 1 .. Len(fromEngine') : Carries(l, f)' => k = l
  <2>1. CASE f = e
    BY <1>1, <1>4, <1>5, <1>6, <1>7, <2>1
  <2>2. CASE f # e
    <3>1. k \in 1 .. Len(fromEngine) /\ Carries(k, f)
      BY <1>4, <1>7, <2>2
    <3>2. \A l \in 1 .. Len(fromEngine') : Carries(l, f)' =>
             l \in 1 .. Len(fromEngine) /\ Carries(l, f)
      BY <1>4, <2>2
    <3> QED
      BY <1>1, <1>6, <3>1, <3>2 DEF DeliveredInv
  <2> QED
    BY <2>1, <2>2
<1> QED
  BY <1>1, <1>6, <1>7 DEF DeliveredInv

\* Whom process() hands a message: the client has it from then on.
LEMMA DrainHands ==
    ASSUME TypeInv, ResultsInv, Drain, NEW e \in Sends
    PROVE  Handed(e)' <=> Handed(e) \/ (e \in Range(outbox) /\ e.kind \in Injected)
<1>1. /\ Len(client') = Len(Made) + Len(outbox)
      /\ \A i \in 1 .. Len(Made) : client'[i] = Made[i]
      /\ \A i \in 1 .. Len(outbox) : client'[Len(Made) + i].id = HandedId(outbox[i])
  BY DrainKeepsResults
<1>2. /\ Len(Made) \in Nat /\ Len(client) \in Nat /\ Len(responses) \in Nat /\ Len(outbox) \in Nat
      /\ Len(Made) = Len(client) + Len(responses)
      /\ \A i \in 1 .. Len(client) : Made[i] = client[i]
      /\ \A i \in 1 .. Len(responses) : Made[Len(client) + i] = responses[i]
  BY MadeFacts DEF TypeInv
<1>3. Range(outbox) = {outbox[k] : k \in 1 .. Len(outbox)} /\ Range(outbox) \subseteq Sends
  BY RangeFacts DEF TypeInv
<1>4. ASSUME Handed(e) PROVE Handed(e)'
  <2>1. PICK i \in 1 .. Len(client) : client[i].id = TrackId(e)
    BY <1>4 DEF Handed
  <2>2. i \in 1 .. Len(Made) /\ i \in 1 .. Len(client') /\ client'[i] = client[i]
    BY <1>1, <1>2
  <2> QED
    BY <2>1, <2>2 DEF Handed
<1>5. ASSUME e \in Range(outbox), e.kind \in Injected PROVE Handed(e)'
  <2>1. PICK k \in 1 .. Len(outbox) : outbox[k] = e
    BY <1>3, <1>5
  <2>2. Len(Made) + k \in 1 .. Len(client') /\ client'[Len(Made) + k].id = TrackId(e)
    BY <1>1, <1>2, <1>5, <2>1, HandedFacts
  <2> QED
    BY <2>2 DEF Handed
<1>6. ASSUME Handed(e)', ~ Handed(e) PROVE e \in Range(outbox) /\ e.kind \in Injected
  <2>1. PICK i \in 1 .. Len(client') : client'[i].id = TrackId(e)
    BY <1>6 DEF Handed
  <2>2. i \notin 1 .. Len(Made)
    <3>1. ASSUME i \in 1 .. Len(client) PROVE FALSE
      BY <1>1, <1>2, <1>6, <2>1, <3>1 DEF Handed
    <3>2. ASSUME i \in 1 .. Len(Made), i \notin 1 .. Len(client) PROVE FALSE
      <4>1. i - Len(client) \in 1 .. Len(responses) /\ Len(client) + (i - Len(client)) = i
        BY <1>2, <3>2
      <4>2. client'[i] = responses[i - Len(client)]
        BY <1>1, <1>2, <3>2, <4>1
      <4>3. responses[i - Len(client)] \in Results
        BY <4>1 DEF TypeInv
      <4> QED
        BY <2>1, <4>2, <4>3, TrackFacts DEF Results
    <3> QED
      BY <3>1, <3>2
  <2>3. i - Len(Made) \in 1 .. Len(outbox) /\ Len(Made) + (i - Len(Made)) = i
    BY <1>1, <1>2, <2>2
  <2>4. HandedId(outbox[i - Len(Made)]) = TrackId(e) /\ outbox[i - Len(Made)] \in Sends
    BY <1>1, <2>1, <2>3 DEF TypeInv
  <2>5. outbox[i - Len(Made)] = e /\ e.kind \in Injected
    BY <2>4, HandedFacts
  <2> QED
    BY <1>3, <2>3, <2>5
<1> QED
  BY <1>4, <1>5, <1>6

LEMMA DrainKeepsTracked ==
    ASSUME TypeInv, ResultsInv, DeliveredInv, TrackedInv, Drain
    PROVE  DeliveredInv' /\ TrackedInv'
<1> DEFINE received == {outbox[i] : i \in 1 .. Len(outbox)}
           direct == {e \in received : e.kind = "HandleSendDirectMessage"}
<1>1. /\ tracker' = tracker \cup {TrackId(e) : e \in received}
      /\ idMap' = [id \in DOMAIN idMap \cup {TrackId(e) : e \in direct} |->
                     IF id \in DOMAIN idMap THEN idMap[id] ELSE Tracked(id).id]
      /\ outbox' = << >>
      /\ UNCHANGED <<fromEngine, answered, sent>>
  BY DEF Drain, engineVars
<1>2. received = Range(outbox) /\ received \subseteq Sends
  BY RangeFacts DEF TypeInv
<1>3. direct = {e \in received : Direct(e)}
  BY DEF Direct
<1> HIDE DEF received, direct
<1>4. \A e \in Sends : Handed(e)' <=> Handed(e) \/ (e \in received /\ e.kind \in Injected)
  BY <1>2, DrainHands
<1>5. \A e \in Sends : e \in received => ~ Handed(e) /\ e \in sent /\ e \notin answered
  BY <1>2 DEF DeliveredInv, TrackedInv, TypeInv, TypeOK
<1>6. \A e \in Sends : (\E f \in received : TrackId(e) = TrackId(f)) <=> e \in received
  BY <1>2, TrackFacts
<1>7. Range(outbox') = {}
  BY <1>1 DEF Range
<1>8. DeliveredInv'
  <2>1. \A e \in Sends : \A k \in 1 .. Len(fromEngine) : Carries(k, e) => e \notin received
    BY <1>2 DEF DeliveredInv
  <2>2. \A e \in Sends, k \in 1 .. Len(fromEngine) : Carries(k, e)' <=> Carries(k, e)
    BY <1>1 DEF Carries
  <2> QED
    BY <1>1, <1>4, <1>5, <1>7, <2>1, <2>2 DEF DeliveredInv
<1>9. ASSUME NEW e \in Sends
      PROVE  /\ e \in answered' => Handed(e)'
             /\ e.kind \in Injected => (TrackId(e) \in tracker' <=> Handed(e)' /\ e \notin answered')
             /\ TrackId(e) \in DOMAIN idMap' => Direct(e) /\ idMap'[TrackId(e)] = e.id
             /\ Direct(e) /\ TrackId(e) \in tracker' => TrackId(e) \in DOMAIN idMap'
  <2>1. e \in answered' => Handed(e)'
    BY <1>1, <1>4 DEF TrackedInv
  <2>2. TrackId(e) \in tracker' <=> TrackId(e) \in tracker \/ e \in received
    BY <1>1, <1>6
  <2>3. e.kind \in Injected => (TrackId(e) \in tracker' <=> Handed(e)' /\ e \notin answered')
    BY <1>1, <1>4, <1>5, <2>2 DEF TrackedInv
  <2>4. DOMAIN idMap' = DOMAIN idMap \cup {TrackId(f) : f \in direct}
    BY <1>1
  <2>5. TrackId(e) \in DOMAIN idMap' <=> TrackId(e) \in DOMAIN idMap \/ (e \in received /\ Direct(e))
    BY <1>2, <1>3, <2>4, TrackFacts
  <2>6. TrackId(e) \in DOMAIN idMap' =>
           idMap'[TrackId(e)] = IF TrackId(e) \in DOMAIN idMap THEN idMap[TrackId(e)] ELSE e.id
    BY <1>1, <2>4, TrackFacts
  <2>7. Direct(e) => e.kind \in Injected
    BY DEF Direct, Injected, Lib3hToClient, AnswerOf
  <2> QED
    BY <2>1, <2>2, <2>3, <2>5, <2>6, <2>7 DEF TrackedInv
<1> QED
  BY <1>8, <1>9 DEF TrackedInv

\* The client's answers: the first one takes the message out of the tracker.
LEMMA PostAnswerKeepsTracked ==
    ASSUME TypeInv, TrackedInv, NEW id \in TrackIds, PostAnswer(id)
    PROVE  /\ TrackedInv' /\ toEngine' \in Seq(ToEngineMessages)
           /\ answered' \subseteq Sends /\ tracker' \subseteq TrackIds
           /\ DOMAIN idMap' \subseteq TrackIds
<1>1. PICK a \in Sends : id = TrackId(a) /\ Tracked(id) = a
  BY TrackFacts
<1>2. /\ \E i \in 1 .. Len(client) : client[i].id = id
      /\ answered' = answered \cup {a}
      /\ tracker' = tracker \ {id}
      /\ idMap' = IF id \in tracker THEN [k \in DOMAIN idMap \ {id} |-> idMap[k]] ELSE idMap
      /\ UNCHANGED client
  BY <1>1 DEF PostAnswer
<1>3. Handed(a)
  BY <1>1, <1>2 DEF Handed
<1>4. toEngine' \in Seq(ToEngineMessages)
  <2>1. CASE id \notin tracker \/ engine = "lost"
    BY <2>1 DEF PostAnswer, TypeInv
  <2>2. CASE id \in tracker /\ engine # "lost"
    <3>1. (IF id \in DOMAIN idMap THEN idMap[id] ELSE id) = AnswerId(a)
      BY <1>1, <2>2 DEF TrackedInv, AnswerId
    <3>2. toEngine' = Append(toEngine, Message("Response", a, AnswerId(a)))
      BY <1>1, <2>2, <3>1 DEF PostAnswer
    <3>3. Message("Response", a, AnswerId(a)) \in ToEngineMessages
      BY DEF ToEngineMessages
    <3> QED
      BY <3>2, <3>3, AppendFacts DEF TypeInv
  <2> QED
    BY <2>1, <2>2
<1>5. /\ DOMAIN idMap' = IF id \in tracker THEN DOMAIN idMap \ {id} ELSE DOMAIN idMap
      /\ \A k \in DOMAIN idMap' : idMap'[k] = idMap[k]
  <2>1. CASE id \in tracker
    <3>1. idMap' = [k \in DOMAIN idMap \ {id} |-> idMap[k]]
      BY <1>2, <2>1
    <3> QED
      BY <2>1, <3>1
  <2>2. CASE id \notin tracker
    <3>1. idMap' = idMap
      BY <1>2, <2>2
    <3> QED
      BY <2>2, <3>1
  <2> QED
    BY <2>1, <2>2
<1>6. ASSUME NEW e \in Sends
      PROVE  /\ e \in answered' => Handed(e)
             /\ e.kind \in Injected => (TrackId(e) \in tracker' <=> Handed(e) /\ e \notin answered')
             /\ TrackId(e) \in DOMAIN idMap' => Direct(e) /\ idMap'[TrackId(e)] = e.id
             /\ Direct(e) /\ TrackId(e) \in tracker' => TrackId(e) \in DOMAIN idMap'
  <2>1. TrackId(e) = id <=> e = a
    BY <1>1, TrackFacts
  <2> QED
    BY <1>2, <1>3, <1>5, <2>1 DEF TrackedInv
<1>7. \A e \in Sends : Handed(e)' <=> Handed(e)
  BY <1>2 DEF Handed
<1> QED
  BY <1>2, <1>4, <1>5, <1>6, <1>7 DEF TrackedInv, TypeInv, TypeOK

-----------------------------------------------------------------------------
(* The steps.                                                              *)

LEMMA InitIInv == Init => IInv
<1> SUFFICES ASSUME Init PROVE IInv
  OBVIOUS
<1>1. Range(outbox) = {} /\ DOMAIN idMap = {} /\ DOMAIN got = {}
  BY DEF Init, Range
<1>2. /\ engine = "attached" /\ phase = "idle" /\ pending = {} /\ overdue = {} /\ tracker = {}
      /\ posted = {} /\ answered = {} /\ holds = {} /\ waits = {} /\ sent = {}
      /\ fails = 0 /\ panicked = {}
  BY DEF Init
<1>3. /\ toEngine \in Seq(ToEngineMessages) /\ fromEngine \in Seq(FromEngineMessages)
      /\ outbox \in Seq(Sends) /\ responses \in Seq(Results) /\ client \in Seq(ServerMessages)
      /\ Len(client) = 0 /\ Len(fromEngine) = 0 /\ Len(Made) = 0
  BY DEF Init, Made
<1>4. TypeInv
  <2>1. TypeOK
    <3>1. fails \in 0 .. MaxFails
      BY <1>2, LegacyAssumption
    <3>2. panicked \subseteq {"unimplemented", "engine", "detached"}
      BY <1>2
    <3>3. /\ Range(outbox) \subseteq sent /\ DOMAIN idMap \subseteq TrackIds
          /\ tracker \subseteq TrackIds /\ posted \subseteq Posts
      BY <1>1, <1>2
    <3> QED
      BY <1>2, <3>1, <3>2, <3>3 DEF TypeOK
  <2> QED
    BY <1>1, <1>2, <1>3, <2>1 DEF TypeInv
<1>5. ResultsInv
  BY <1>2, <1>3 DEF ResultsInv
<1>6. DeliveredInv /\ TrackedInv /\ GotInv
  BY <1>1, <1>2, <1>3 DEF DeliveredInv, TrackedInv, GotInv, Handed
<1> QED
  BY <1>2, <1>4, <1>5, <1>6 DEF IInv, AttachedInv, PanicInv, MissedOnlyAfterItsPanic

LEMMA PostStep ==
    ASSUME IInv, NEW p \in Posts, Post(p)
    PROVE  IInv'
<1>1. /\ phase = "idle"
      /\ UNCHANGED <<engine, phase, responses, tracker, idMap, fromEngine, overdue, outbox, client,
                     answered, holds, waits, sent, got, fails>>
  BY DEF Post, wrapperVars, engineVars
<1>2. ResultsInv'
  BY PostKeepsResults DEF IInv
<1>3. DeliveredInv' /\ TrackedInv' /\ GotInv'
  BY <1>1, DeliveredUnchanged, TrackedUnchanged DEF IInv, GotInv
<1>4. CASE PostPanics(p)
  <2>1. /\ UNCHANGED <<posted, toEngine, pending>>
        /\ \/ p.kind \in Unimplemented /\ panicked' = panicked \cup {"unimplemented"}
           \/ engine # "attached" /\ panicked' = panicked \cup {"detached"}
    BY <1>4 DEF PostPanics
  <2>2. engine # "attached" => "engine" \in panicked
    BY <1>1 DEF IInv, AttachedInv, TypeInv, TypeOK
  <2>3. PanicInv' /\ AttachedInv'
    BY <1>1, <2>1, <2>2 DEF IInv, PanicInv, MissedOnlyAfterItsPanic, AttachedInv
  <2>4. TypeInv'
    BY <1>1, <2>1 DEF IInv, TypeInv, TypeOK
  <2> QED
    BY <1>2, <1>3, <2>3, <2>4 DEF IInv
<1>5. CASE PostToEngine(p)
  <2>1. /\ p.kind \notin Unimplemented
        /\ posted' = posted \cup {p}
        /\ toEngine' = Append(toEngine, Message("Request", p, ToClientToLib3h[p.kind]))
        /\ pending' = pending \cup ({p} \cap Requests)
        /\ UNCHANGED panicked
    BY <1>5 DEF PostToEngine
  <2>2. toEngine' \in Seq(ToEngineMessages)
    <3>1. p \in Implemented
      BY <2>1, LegacyAssumption DEF Implemented
    <3>2. Message("Request", p, ToClientToLib3h[p.kind]) \in ToEngineMessages
      BY <3>1 DEF ToEngineMessages
    <3>3. toEngine \in Seq(ToEngineMessages)
      BY DEF IInv, TypeInv
    <3> QED
      BY <2>1, <3>2, <3>3, AppendFacts
  <2>3. pending' \subseteq Requests /\ pending \subseteq pending' /\ pending' \subseteq posted'
    BY <2>1 DEF IInv, TypeInv, TypeOK
  <2>4. TypeInv'
    BY <1>1, <2>1, <2>2, <2>3 DEF IInv, TypeInv, TypeOK
  <2> QED
    BY <1>1, <1>2, <1>3, <2>1, <2>4 DEF IInv, PanicInv, MissedOnlyAfterItsPanic, AttachedInv
<1> QED
  BY <1>4, <1>5 DEF Post

LEMMA PostAnswerStep ==
    ASSUME IInv, NEW id \in TrackIds, PostAnswer(id)
    PROVE  IInv'
<1>1. UNCHANGED <<engine, phase, responses, fromEngine, pending, overdue, outbox, posted, client,
                  holds, waits, sent, got, fails, panicked>>
  BY DEF PostAnswer, engineVars
<1>2. /\ TrackedInv' /\ toEngine' \in Seq(ToEngineMessages)
      /\ answered' \subseteq Sends /\ tracker' \subseteq TrackIds
      /\ DOMAIN idMap' \subseteq TrackIds
  BY PostAnswerKeepsTracked DEF IInv
<1>3. TypeInv'
  BY <1>1, <1>2 DEF IInv, TypeInv, TypeOK
<1> QED
  BY <1>1, <1>2, <1>3, ResultsUnchanged, DeliveredUnchanged
     DEF IInv, AttachedInv, GotInv, PanicInv, MissedOnlyAfterItsPanic

\* The steps that only change where process() is, or find the engine missing.
LEMMA PhaseStep ==
    ASSUME IInv, StartProcess \/ EngineDone \/ EndpointDone
    PROVE  IInv'
<1>1. UNCHANGED <<responses, tracker, idMap, toEngine, fromEngine, pending, overdue, outbox,
                  posted, client, answered, holds, waits, sent, got, fails>>
  BY DEF StartProcess, EngineDone, EndpointDone, endpointVars, clientVars, engineVars
<1>2. /\ engine' \in {"attached", "detached", "lost"}
      /\ phase' \in {"idle", "actor", "endpoint", "drain"}
      /\ panicked' \subseteq {"unimplemented", "engine", "detached"}
      /\ AttachedInv' /\ PanicInv'
      /\ engine # "lost" \/ UNCHANGED engine
  <2>1. CASE StartProcess
    BY <2>1 DEF StartProcess, IInv, AttachedInv, PanicInv, MissedOnlyAfterItsPanic, TypeInv, TypeOK
  <2>2. CASE EngineDone \/ EndpointDone
    BY <2>2 DEF EngineDone, EndpointDone, IInv, AttachedInv, PanicInv, MissedOnlyAfterItsPanic,
                TypeInv, TypeOK
  <2> QED
    BY <2>1, <2>2
<1>3. TypeInv'
  BY <1>1, <1>2 DEF IInv, TypeInv, TypeOK
<1> QED
  BY <1>1, <1>2, <1>3, ResultsUnchanged, DeliveredUnchanged, TrackedUnchanged
     DEF IInv, GotInv

\* The engine panics and is gone, with its endpoint and what was in the channels.
LEMMA EnginePanicsStep ==
    ASSUME IInv, EnginePanics
    PROVE  IInv'
<1>1. /\ phase' = "idle" /\ engine' = "lost" /\ panicked' = panicked \cup {"engine"}
      /\ toEngine' = << >> /\ fromEngine' = << >> /\ outbox' = << >>
      /\ pending' = {} /\ overdue' = {} /\ holds' = {} /\ waits' = {}
      /\ UNCHANGED <<responses, tracker, idMap, posted, client, answered, sent, got, fails>>
  BY DEF EnginePanics, clientVars
<1>2. Range(outbox') = {} /\ Len(fromEngine') = 0
  BY <1>1 DEF Range
<1>3. TypeInv'
  <2>1. /\ toEngine' \in Seq(ToEngineMessages) /\ fromEngine' \in Seq(FromEngineMessages)
        /\ outbox' \in Seq(Sends)
    BY <1>1
  <2> QED
    BY <1>1, <1>2, <2>1 DEF IInv, TypeInv, TypeOK
<1>4. ResultsInv'
  <2>1. ASSUME NEW p \in Requests PROVE OneResult(p)'
    <3>1. OneResult(p) /\ Made' = Made
      BY <1>1 DEF IInv, ResultsInv, OneResult, Made
    <3> QED
      BY <1>1, <3>1 DEF OneResult
  <2> QED
    BY <2>1 DEF ResultsInv, OneResult
<1>5. DeliveredInv'
  BY <1>1, <1>2 DEF IInv, DeliveredInv, Handed
<1> QED
  BY <1>1, <1>3, <1>4, <1>5, TrackedUnchanged
     DEF IInv, AttachedInv, GotInv, PanicInv, MissedOnlyAfterItsPanic

LEMMA EngineReceivesStep ==
    ASSUME IInv, EngineReceives
    PROVE  IInv'
<1>1. /\ toEngine # << >> /\ toEngine' = Tail(toEngine) /\ phase = "actor"
      /\ UNCHANGED <<fromEngine, pending, overdue, tracker, idMap, posted, client, answered,
                     sent, fails, panicked>>
  BY DEF EngineReceives, clientVars
<1>2. Head(toEngine) \in ToEngineMessages /\ toEngine' \in Seq(ToEngineMessages)
  BY <1>1, TailFacts DEF IInv, TypeInv
<1>3. PICK m \in ToEngineMessages : m = Head(toEngine)
  BY <1>2
<1>4. \/ /\ m.type = "Request" /\ holds' = holds \cup ({m.of} \cap Requests)
         /\ UNCHANGED <<phase, engine, responses, outbox, waits, got>>
      \/ /\ m.type = "Response" /\ waits' = waits \ {m.of}
         /\ got' = [e \in DOMAIN got \cup {m.of} |-> IF e = m.of THEN m.data ELSE got[e]]
         /\ UNCHANGED <<phase, engine, responses, outbox, holds>>
      \/ ProcessFails /\ UNCHANGED <<holds, waits, got>>
  BY <1>3 DEF EngineReceives
<1>5. UNCHANGED <<responses, outbox>>
  BY <1>4 DEF ProcessFails
<1>6. /\ engine' \in {"attached", "detached", "lost"} /\ phase' \in {"idle", "actor", "endpoint", "drain"}
      /\ AttachedInv' /\ engine # "lost"
  BY <1>1, <1>4 DEF ProcessFails, IInv, AttachedInv, TypeInv, TypeOK
<1>7. holds' \subseteq Requests /\ waits' \subseteq sent
  BY <1>4 DEF IInv, TypeInv, TypeOK
<1>8. DOMAIN got' \subseteq Sends /\ GotInv'
  <2>1. CASE UNCHANGED got
    BY <2>1 DEF IInv, TypeInv, GotInv
  <2>2. CASE /\ m.type = "Response"
             /\ got' = [e \in DOMAIN got \cup {m.of} |-> IF e = m.of THEN m.data ELSE got[e]]
    <3>1. m.of \in Sends /\ m.data = AnswerId(m.of)
      BY <2>2, MessageForms
    <3> QED
      BY <2>2, <3>1 DEF IInv, TypeInv, GotInv, AnswerId
  <2> QED
    BY <1>4, <2>1, <2>2
<1>9. TypeInv'
  BY <1>1, <1>2, <1>5, <1>6, <1>7, <1>8 DEF IInv, TypeInv, TypeOK
<1> QED
  BY <1>1, <1>5, <1>6, <1>8, <1>9, ResultsUnchanged, DeliveredUnchanged, TrackedUnchanged
     DEF IInv, PanicInv, MissedOnlyAfterItsPanic

LEMMA EngineAnswersStep ==
    ASSUME IInv, NEW p \in Requests, EngineAnswers(p)
    PROVE  IInv'
<1>1. /\ holds' = holds \ {p}
      /\ UNCHANGED <<engine, phase, responses, tracker, idMap, toEngine, pending, overdue, outbox,
                     posted, client, answered, waits, sent, got, fails, panicked>>
  BY DEF EngineAnswers, wrapperVars, clientVars
<1>2. PICK reply \in Replies(p) : fromEngine' = Append(fromEngine, Message("Response", p, reply))
  BY DEF EngineAnswers, Replies
<1>3. /\ Message("Response", p, reply) \in FromEngineMessages
      /\ Message("Response", p, reply).type = "Response"
  BY MessageFields DEF FromEngineMessages
<1>4. fromEngine' \in Seq(FromEngineMessages)
  BY <1>2, <1>3, AppendFacts DEF IInv, TypeInv
<1>5. DeliveredInv'
  BY <1>1, <1>2, <1>3, AnswerKeepsDelivered DEF IInv
<1>6. TypeInv'
  BY <1>1, <1>4 DEF IInv, TypeInv, TypeOK
<1> QED
  BY <1>1, <1>5, <1>6, ResultsUnchanged, TrackedUnchanged
     DEF IInv, AttachedInv, GotInv, PanicInv, MissedOnlyAfterItsPanic

LEMMA EngineSendsStep ==
    ASSUME IInv, NEW e \in Sends, EngineSends(e)
    PROVE  IInv'
<1>1. /\ sent' = sent \cup {e}
      /\ waits' = waits \/ waits' = waits \cup {e}
      /\ UNCHANGED <<engine, phase, responses, tracker, idMap, toEngine, pending, overdue, outbox,
                     posted, client, answered, holds, got, fails, panicked>>
  BY DEF EngineSends, wrapperVars, clientVars
<1>2. fromEngine' \in Seq(FromEngineMessages)
  <2>1. Message("Request", e, e.kind) \in FromEngineMessages
    BY DEF FromEngineMessages
  <2> QED
    BY <2>1, AppendFacts DEF EngineSends, IInv, TypeInv
<1>3. DeliveredInv'
  BY SendKeepsDelivered DEF IInv
<1>4. TypeInv'
  BY <1>1, <1>2 DEF IInv, TypeInv, TypeOK
<1> QED
  BY <1>1, <1>3, <1>4, ResultsUnchanged, TrackedUnchanged
     DEF IInv, AttachedInv, GotInv, PanicInv, MissedOnlyAfterItsPanic

LEMMA EngineFailsStep ==
    ASSUME IInv, EngineFails
    PROVE  IInv'
<1>1. /\ fails < MaxFails /\ fails' = fails + 1 /\ phase = "actor"
      /\ \E kept \in SUBSET holds : holds' = kept
      /\ phase' = "idle" /\ engine' = "attached"
      /\ UNCHANGED <<responses, outbox, toEngine, fromEngine, pending, overdue, tracker, idMap,
                     posted, client, answered, waits, sent, got, panicked>>
  BY DEF EngineFails, ProcessFails, clientVars
<1>2. holds' \subseteq Requests /\ fails' \in 0 .. MaxFails /\ engine # "lost"
  BY <1>1, LegacyAssumption DEF IInv, TypeInv, TypeOK, AttachedInv
<1>3. TypeInv'
  BY <1>1, <1>2 DEF IInv, TypeInv, TypeOK
<1> QED
  BY <1>1, <1>2, <1>3, ResultsUnchanged, DeliveredUnchanged, TrackedUnchanged
     DEF IInv, AttachedInv, GotInv, PanicInv, MissedOnlyAfterItsPanic

\* A request inside the engine is given up, or one of the client's is overdue.
LEMMA TimeStep ==
    ASSUME IInv,
           (\E e \in Sends : EngineGivesUp(e)) \/ (\E p \in Requests : TimePasses(p))
    PROVE  IInv'
<1>1. /\ waits' \subseteq waits /\ overdue' \subseteq pending
      /\ UNCHANGED <<engine, phase, responses, tracker, idMap, toEngine, fromEngine, pending,
                     outbox, posted, client, answered, holds, sent, got, fails, panicked>>
  BY DEF EngineGivesUp, TimePasses, wrapperVars, endpointVars, clientVars, engineVars, IInv,
         TypeInv, TypeOK
<1>2. TypeInv'
  BY <1>1 DEF IInv, TypeInv, TypeOK
<1> QED
  BY <1>1, <1>2, ResultsUnchanged, DeliveredUnchanged, TrackedUnchanged
     DEF IInv, AttachedInv, GotInv, PanicInv, MissedOnlyAfterItsPanic

LEMMA EndpointExpiresStep ==
    ASSUME IInv, NEW p \in Requests, EndpointExpires(p)
    PROVE  IInv'
<1>1. /\ p \in overdue /\ pending' = pending \ {p} /\ overdue' = overdue \ {p}
      /\ Callback(p, "timeout")
      /\ UNCHANGED <<engine, phase, tracker, idMap, toEngine, fromEngine, outbox,
                     posted, client, answered, holds, waits, sent, got, fails, panicked>>
  BY DEF EndpointExpires, clientVars, engineVars
<1>2. p \in pending
  BY <1>1 DEF IInv, TypeInv, TypeOK
<1>3. responses' \in Seq(Results) /\ ResultsInv'
  BY <1>1, <1>2, CallbackKeepsResults DEF IInv
<1>4. TypeInv'
  BY <1>1, <1>3 DEF IInv, TypeInv, TypeOK
<1> QED
  BY <1>1, <1>3, <1>4, DeliveredUnchanged, TrackedUnchanged
     DEF IInv, AttachedInv, GotInv, PanicInv, MissedOnlyAfterItsPanic

LEMMA EndpointReceivesStep ==
    ASSUME IInv, EndpointReceives
    PROVE  IInv'
<1>1. /\ fromEngine # << >> /\ fromEngine' = Tail(fromEngine) /\ overdue = {} /\ phase = "endpoint"
      /\ UNCHANGED <<tracker, idMap, toEngine, overdue, posted, client, answered,
                     holds, waits, sent, got, fails, panicked>>
  BY DEF EndpointReceives, clientVars, engineVars
<1>2. /\ Head(fromEngine) \in FromEngineMessages /\ fromEngine' \in Seq(FromEngineMessages)
      /\ Head(fromEngine) = fromEngine[1] /\ 1 \in 1 .. Len(fromEngine)
  BY <1>1, TailFacts DEF IInv, TypeInv
<1>3. PICK m \in FromEngineMessages : m = Head(fromEngine)
  BY <1>2
<1>4. \/ /\ m.type = "Request" /\ outbox' = Append(outbox, m.of)
         /\ UNCHANGED <<phase, engine, responses, pending>>
      \/ /\ m.type = "Response" /\ m.of \in pending /\ pending' = pending \ {m.of}
         /\ Callback(m.of, m.data)
         /\ UNCHANGED <<phase, engine, outbox>>
      \/ ProcessFails /\ UNCHANGED pending
  BY <1>3 DEF EndpointReceives
<1>5. outbox' = outbox \/ (m.type = "Request" /\ outbox' = Append(outbox, m.of))
  BY <1>4 DEF ProcessFails
<1>6. DeliveredInv'
  BY <1>1, <1>3, <1>5, TailKeepsDelivered DEF IInv
<1>7. responses' \in Seq(Results) /\ ResultsInv' /\ pending' \subseteq pending
  <2>3. engine # "lost"
    BY <1>1 DEF IInv, AttachedInv
  <2>1. CASE UNCHANGED <<responses, pending>>
    BY <1>1, <2>1, <2>3, ResultsUnchanged DEF IInv, TypeInv
  <2>2. CASE /\ m.type = "Response" /\ m.of \in pending /\ pending' = pending \ {m.of}
             /\ Callback(m.of, m.data) /\ UNCHANGED engine
    <3>1. m.data \in Replies(m.of)
      BY <2>2, MessageForms
    <3>2. responses' \in Seq(Results) /\ ResultsInv'
      BY <1>1, <2>2, <3>1, CallbackKeepsResults DEF IInv
    <3> QED
      BY <2>2, <3>2
  <2> QED
    BY <1>4, <2>1, <2>2 DEF ProcessFails
<1>8. outbox' \in Seq(Sends) /\ Range(outbox') \subseteq sent
  <2>1. CASE outbox' = outbox
    BY <2>1 DEF IInv, TypeInv, TypeOK
  <2>2. CASE m.type = "Request" /\ outbox' = Append(outbox, m.of)
    <3>1. m.of \in Sends
      BY <2>2, MessageForms
    <3>2. m.of \in sent
      BY <1>2, <1>3, <2>2, <3>1 DEF IInv, DeliveredInv, Carries
    <3>3. /\ outbox' \in Seq(Sends) /\ outbox \in Seq(Sends)
          /\ Len(outbox') = Len(outbox) + 1 /\ Len(outbox) \in Nat
          /\ outbox'[Len(outbox) + 1] = m.of
          /\ \A k \in 1 .. Len(outbox) : outbox'[k] = outbox[k]
      BY <2>2, <3>1, AppendFacts DEF IInv, TypeInv
    <3>4. \A k \in 1 .. Len(outbox) : outbox[k] \in sent
      BY <3>3, RangeFacts DEF IInv, TypeInv, TypeOK
    <3>5. \A k \in 1 .. Len(outbox') : outbox'[k] \in sent
      BY <3>2, <3>3, <3>4
    <3> QED
      BY <3>3, <3>5, RangeFacts
  <2> QED
    BY <1>5, <2>1, <2>2
<1>9. /\ engine' \in {"attached", "detached", "lost"} /\ phase' \in {"idle", "actor", "endpoint", "drain"}
      /\ AttachedInv'
  BY <1>1, <1>4 DEF ProcessFails, IInv, AttachedInv, TypeInv, TypeOK
<1>10. TypeInv'
  BY <1>1, <1>2, <1>7, <1>8, <1>9 DEF IInv, TypeInv, TypeOK
<1> QED
  BY <1>1, <1>6, <1>7, <1>9, <1>10, TrackedUnchanged
     DEF IInv, GotInv, PanicInv, MissedOnlyAfterItsPanic

LEMMA DrainStep ==
    ASSUME IInv, Drain
    PROVE  IInv'
<1>1. /\ phase = "drain" /\ phase' = "idle" /\ outbox' = << >>
      /\ UNCHANGED <<engine, toEngine, fromEngine, pending, overdue, posted, answered,
                     holds, waits, sent, got, fails, panicked>>
  BY DEF Drain, engineVars
<1>2. responses' \in Seq(Results) /\ client' \in Seq(ServerMessages) /\ ResultsInv'
  BY DrainKeepsResults DEF IInv
<1>3. DeliveredInv' /\ TrackedInv'
  BY DrainKeepsTracked DEF IInv
<1>4. tracker' \subseteq TrackIds /\ DOMAIN idMap' \subseteq TrackIds
  <2>1. \A i \in 1 .. Len(outbox) : TrackId(outbox[i]) \in TrackIds
    BY TrackFacts DEF IInv, TypeInv
  <2> QED
    BY <2>1 DEF Drain, IInv, TypeInv, TypeOK
<1>5. outbox' \in Seq(Sends) /\ Range(outbox') \subseteq sent
  BY <1>1 DEF Range
<1>6. TypeInv'
  BY <1>1, <1>2, <1>4, <1>5 DEF IInv, TypeInv, TypeOK
<1> QED
  BY <1>1, <1>2, <1>3, <1>6
     DEF IInv, AttachedInv, GotInv, PanicInv, MissedOnlyAfterItsPanic

LEMMA NextIInv == IInv /\ [Next]_vars => IInv'
<1> SUFFICES ASSUME IInv, [Next]_vars PROVE IInv'
  OBVIOUS
<1>1. ASSUME NEW p \in Posts, Post(p) PROVE IInv'
  BY <1>1, PostStep
<1>2. ASSUME NEW id \in TrackIds, PostAnswer(id) PROVE IInv'
  BY <1>2, PostAnswerStep
<1>3. CASE StartProcess \/ EngineDone \/ EndpointDone
  BY <1>3, PhaseStep
<1>4. CASE EngineReceives \/ EngineFails \/ EnginePanics \/ EndpointReceives \/ Drain
  BY <1>4, EngineReceivesStep, EngineFailsStep, EnginePanicsStep, EndpointReceivesStep, DrainStep
<1>5. ASSUME NEW p \in Requests, EngineAnswers(p) \/ EndpointExpires(p) PROVE IInv'
  BY <1>5, EngineAnswersStep, EndpointExpiresStep
<1>6. ASSUME NEW e \in Sends, EngineSends(e) PROVE IInv'
  BY <1>6, EngineSendsStep
<1>7. CASE (\E e \in Sends : EngineGivesUp(e)) \/ (\E p \in Requests : TimePasses(p))
  BY <1>7, TimeStep
<1>8. CASE UNCHANGED vars
  <2>1. UNCHANGED <<engine, phase, responses, tracker, idMap, toEngine, fromEngine, pending,
                    overdue, outbox, posted, client, answered, holds, waits, sent, got, fails,
                    panicked>>
    BY <1>8 DEF vars, wrapperVars, endpointVars, clientVars, engineVars
  <2>2. TypeInv'
    BY <2>1 DEF IInv, TypeInv, TypeOK
  <2> QED
    BY <2>1, <2>2, ResultsUnchanged, DeliveredUnchanged, TrackedUnchanged
       DEF IInv, AttachedInv, GotInv, PanicInv, MissedOnlyAfterItsPanic
<1> QED
  BY <1>1, <1>2, <1>3, <1>4, <1>5, <1>6, <1>7, <1>8 DEF Next

LEMMA InductiveInvariant == Spec => []IInv
  BY InitIInv, NextIInv, PTL DEF Spec

-----------------------------------------------------------------------------
(* The theorems.                                                           *)

\* The number of results of a request.
LEMMA ResultCount ==
    ASSUME IInv, NEW p \in Requests \cap posted
    PROVE  /\ Cardinality(Responses(p)) <= 1
           /\ engine # "lost" => (Responses(p) = {} <=> p \in pending)
           /\ \A i \in Responses(p) :
                 (client \o responses)[i].kind \in {Fitting[p.kind], "FailureResult"}
<1>1. OneResult(p)
  BY DEF IInv, ResultsInv, OneResult
<1>2. Responses(p) = {i \in 1 .. Len(Made) : Made[i].id = p.id}
  BY DEF Responses, Made
<1>3. CASE Responses(p) = {}
  <2>1. Cardinality(Responses(p)) = 0
    BY <1>3, FS_EmptySet
  <2> QED
    BY <1>1, <1>2, <1>3, <2>1 DEF OneResult
<1>4. CASE Responses(p) # {}
  <2>1. PICK i \in 1 .. Len(Made) : Made[i].id = p.id
    BY <1>2, <1>4
  <2>2. Responses(p) = {i}
    BY <1>1, <1>2, <2>1 DEF OneResult
  <2>3. Cardinality(Responses(p)) = 1
    BY <2>2, FS_Singleton
  <2>4. \A j \in Responses(p) : Made[j].kind \in {Fitting[p.kind], "FailureResult"}
    BY <1>1, <1>2 DEF OneResult
  <2>5. p \notin pending
    BY <1>1, <2>1 DEF OneResult
  <2>6. \A j \in Responses(p) : (client \o responses)[j].kind \in {Fitting[p.kind], "FailureResult"}
    BY <2>4 DEF Made
  <2>7. Cardinality(Responses(p)) <= 1
    BY <2>3
  <2> QED
    BY <1>4, <2>5, <2>6, <2>7
<1> QED
  BY <1>3, <1>4

\* THEOREM. A posted request has at most one result, which fits it or is a
\* failure, and unless the engine is lost it has one once it is not pending: no
\* failing call of process(), no timeout and no late answer loses or repeats it.
THEOREM EveryRequestOnce == Spec => []AnsweredExactlyOnce
<1>1. IInv => AnsweredExactlyOnce
  <2> SUFFICES ASSUME IInv PROVE AnsweredExactlyOnce
    OBVIOUS
  <2>1. TypeOK
    BY DEF IInv, TypeInv
  <2> QED
    BY <2>1, ResultCount DEF AnsweredExactlyOnce
<1> QED
  BY <1>1, InductiveInvariant, PTL

\* THEOREM. No call finds the engine out of its Detach unless the engine itself
\* panicked in an earlier call of process().
THEOREM EngineIsThere == Spec => []MissedOnlyAfterItsPanic
<1>1. IInv => MissedOnlyAfterItsPanic
  BY DEF IInv, PanicInv
<1> QED
  BY <1>1, InductiveInvariant, PTL

\* THEOREM. The client's answer to a message that came with a tracker id finds
\* that message, once, and the engine gets the answer to a direct message under
\* the id it gave that message.
THEOREM AnswersFindTheirMessage == Spec => []AnswersReachTheirMessage
<1>1. IInv => AnswersReachTheirMessage
  BY DEF IInv, TrackedInv, GotInv, Handed, Direct, AnswersReachTheirMessage
<1> QED
  BY <1>1, InductiveInvariant, PTL

=============================================================================
