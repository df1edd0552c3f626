------------------------- MODULE GhostChannelProofs -------------------------
(***************************************************************************)
(* Proofs about GhostChannel for any set of request ids, events, timeouts  *)
(* and any clock bound.                                                    *)
(***************************************************************************)
EXTENDS GhostChannel, SequenceTheorems, TLAPS

(* What a queue holds after a message was appended to it. *)
LEMMA AppendElements ==
    ASSUME NEW S, NEW q \in Seq(S), NEW e \in S
    PROVE  /\ Append(q, e) \in Seq(S)
           /\ \A k \in DOMAIN Append(q, e) :
                \/ k \in DOMAIN q /\ Append(q, e)[k] = q[k]
                \/ k = Len(q) + 1 /\ Append(q, e)[k] = e
  OBVIOUS

(* What a queue holds after its first message was taken off. *)
LEMMA TailElements ==
    ASSUME NEW S, NEW q \in Seq(S), q # <<>>
    PROVE  /\ Head(q) \in S
           /\ Head(q) = q[1]
           /\ 1 \in DOMAIN q
           /\ Tail(q) \in Seq(S)
           /\ \A k \in DOMAIN Tail(q) : 
                k \in Nat /\ k + 1 \in DOMAIN q /\ k + 1 # 1 /\ Tail(q)[k] = q[k + 1]
  OBVIOUS

-----------------------------------------------------------------------------
LEMMA SidesFacts ==
    ASSUME NEW s \in Sides
    PROVE  /\ Other(s) \in Sides
           /\ Other(s) # s
           /\ Other(Other(s)) = s
           /\ \A u \in Sides : u = s \/ u = Other(s)
  BY DEF Sides, Other

LEMMA MessageTypes ==
    /\ \A i \in Ids : RequestMsg(i) \in Messages
    /\ \A i \in Ids, ok \in BOOLEAN : ResponseMsg(i, ok) \in Messages
    /\ Requests \subseteq Ids
    /\ Events \subseteq Ids
  BY DEF RequestMsg, ResponseMsg, Messages, Ids

LEMMA SendType ==
    ASSUME TypeOK, NEW to \in Sides, NEW m \in Messages, Send(to, m)
    PROVE  chan' \in [Sides -> Seq(Messages)]
  BY AppendElements DEF TypeOK, Send

(* THEOREM. The variables keep their types: in particular the queues hold   *)
(* well-formed messages only and the tracker maps stay inside the ids.      *)
THEOREM TypeCorrect == Spec => []TypeOK
<1>1. Init => TypeOK
  BY ChannelAssumption DEF Init, TypeOK, Results, Sides
<1>2. TypeOK /\ [Next]_vars => TypeOK'
  <2> SUFFICES ASSUME TypeOK, [Next]_vars PROVE TypeOK'
    OBVIOUS
  <2> USE DEF TypeOK
  <2>1. CASE Tick
    BY <2>1, ChannelAssumption
       DEF Tick, endpointVars, trackerVars, processVars
  <2>2. ASSUME NEW s \in Sides, Request(s) PROVE TypeOK'
    <3>1. PICK r \in Requests, t \in Timeouts :
            /\ pending' = [pending EXCEPT ![s] = @ \cup {r}]
            /\ expires' = [expires EXCEPT ![r] = now + t]
            /\ sender' = [sender EXCEPT ![r] = s]
            /\ Send(Other(s), RequestMsg(r))
      BY <2>2 DEF Request
    <3>2. now + t \in Nat
      BY ChannelAssumption
    <3>3. chan' \in [Sides -> Seq(Messages)]
      BY <3>1, SendType, SidesFacts, MessageTypes
    <3>4. expires' \in [Requests -> Nat]
      BY <3>1, <3>2
    <3>5. pending' \in [Sides -> SUBSET Requests] /\ sender' \in [Ids -> Sides \cup {"none"}]
      BY <3>1, MessageTypes
    <3>6. UNCHANGED <<now, alive, outbox, held, pc, expired, result, answer, outcome>>
      BY <2>2 DEF Request, processVars
    <3> QED
      BY <3>3, <3>4, <3>5, <3>6
  <2>3. ASSUME NEW s \in Sides, Publish(s) PROVE TypeOK'
    <3>1. PICK e \in Events :
            /\ sender' = [sender EXCEPT ![e] = s]
            /\ Send(Other(s), RequestMsg(e))
      BY <2>3 DEF Publish
    <3>2. chan' \in [Sides -> Seq(Messages)]
      BY <3>1, SendType, SidesFacts, MessageTypes
    <3> QED
      BY <2>3, <3>1, <3>2, MessageTypes DEF Publish, trackerVars, processVars
  <2>4. ASSUME NEW s \in Sides, DrainMessages(s) PROVE TypeOK'
    BY <2>4 DEF DrainMessages, trackerVars, processVars
  <2>5. ASSUME NEW s \in Sides, RespondRequest(s) PROVE TypeOK'
    <3>1. PICK r \in held[s] \cap Requests, ok \in BOOLEAN :
            /\ held' = [held EXCEPT ![s] = @ \ {r}]
            /\ answer' = [answer EXCEPT ![r] = Answer(ok)]
            /\ Send(Other(s), ResponseMsg(r, ok))
      BY <2>5 DEF RespondRequest
    <3>2. chan' \in [Sides -> Seq(Messages)]
      BY <3>1, SendType, SidesFacts, MessageTypes
    <3> QED
      BY <2>5, <3>1, <3>2 DEF RespondRequest, trackerVars, processVars, Answer
  <2>6. ASSUME NEW s \in Sides, DiscardMessage(s) PROVE TypeOK'
    BY <2>6 DEF DiscardMessage, trackerVars, processVars
  <2>7. ASSUME NEW s \in Sides, Close(s) \/ RespondPublishError(s) PROVE TypeOK'
    <3>1. PICK kept \in SUBSET Ids : DropEndpoint(s, kept)
      BY <2>7 DEF Close, RespondPublishError
    <3>2. <<>> \in Seq(Messages) /\ <<>> \in Seq(Ids)
      OBVIOUS
    <3>3. chan' \in [Sides -> Seq(Messages)] /\ outbox' \in [Sides -> Seq(Ids)]
      BY <3>1, <3>2 DEF DropEndpoint
    <3>4. held' \in [Sides -> SUBSET Ids] /\ alive' \in [Sides -> BOOLEAN]
      BY <3>1 DEF DropEndpoint
    <3>5. /\ pending' \in [Sides -> SUBSET Requests]
          /\ expired' \in [Sides -> SUBSET Requests]
          /\ pc' \in [Sides -> {"idle", "expire", "receive"}]
      BY <3>1 DEF DropEndpoint
    <3> QED
      BY <3>1, <3>3, <3>4, <3>5 DEF DropEndpoint
  <2>8. ASSUME NEW s \in Sides, ProcessStart(s) PROVE TypeOK'
    BY <2>8 DEF ProcessStart, endpointVars, trackerVars
  <2>9. ASSUME NEW s \in Sides, ExpireOne(s) PROVE TypeOK'
    <3>1. PICK r \in expired[s], cbOk \in BOOLEAN :
            /\ pending' = [pending EXCEPT ![s] = @ \ {r}]
            /\ outcome' = [outcome EXCEPT ![r] = "timeout"]
            /\ \/ /\ expired' = [expired EXCEPT ![s] = @ \ {r}]
                  /\ UNCHANGED <<pc, result>>
               \/ /\ expired' = [expired EXCEPT ![s] = {}]
                  /\ pc' = [pc EXCEPT ![s] = "idle"]
                  /\ result' = [result EXCEPT ![s] = "CallbackFailed"]
      BY <2>9, Zenon DEF ExpireOne
    <3>2. UNCHANGED <<now, alive, chan, outbox, held, expires, sender, answer>>
      BY <2>9 DEF ExpireOne, endpointVars
    <3>3. pending' \in [Sides -> SUBSET Requests]
      BY <3>1
    <3>4. outcome' \in [Requests -> {"none", "ok", "err", "timeout"}]
      BY <3>1
    <3>5. /\ expired' \in [Sides -> SUBSET Requests]
          /\ pc' \in [Sides -> {"idle", "expire", "receive"}]
          /\ result' \in [Sides -> Results]
      BY <3>1 DEF Results
    <3> QED
      BY <3>2, <3>3, <3>4, <3>5
  <2>10. ASSUME NEW s \in Sides, ExpireDone(s) PROVE TypeOK'
    BY <2>10 DEF ExpireDone, endpointVars, trackerVars
  <2>11. ASSUME NEW s \in Sides, ReceiveRequest(s) PROVE TypeOK'
    <3>1. Head(chan[s]).id \in Ids /\ Tail(chan[s]) \in Seq(Messages)
      <4>1. chan[s] \in Seq(Messages) /\ chan[s] # <<>>
        BY <2>11 DEF ReceiveRequest
      <4>2. Head(chan[s]) \in Messages /\ Tail(chan[s]) \in Seq(Messages)
        BY <4>1, TailElements
      <4> QED
        BY <4>2 DEF Messages
    <3>2. Append(outbox[s], Head(chan[s]).id) \in Seq(Ids)
      BY <3>1, AppendElements
    <3> QED
      BY <2>11, <3>1, <3>2 DEF ReceiveRequest, trackerVars, processVars
  <2>12. ASSUME NEW s \in Sides, ReceiveResponse(s) PROVE TypeOK'
    <3>1. Head(chan[s]) \in Messages /\ Tail(chan[s]) \in Seq(Messages)
      BY <2>12, TailElements DEF ReceiveResponse
    <3>2. chan' \in [Sides -> Seq(Messages)]
      BY <2>12, <3>1 DEF ReceiveResponse
    <3>3. Answer(Head(chan[s]).ok) \in {"ok", "err"}
      BY DEF Answer
    <3>4. pending' \in [Sides -> SUBSET Requests]
      <4>1. CASE pending' = pending
        BY <4>1
      <4>2. CASE pending' = [pending EXCEPT ![s] = @ \ {Head(chan[s]).id}]
        <5>1. pending[s] \ {Head(chan[s]).id} \in SUBSET Requests
          OBVIOUS
        <5> QED
          BY <4>2, <5>1
      <4> QED
        BY <2>12, <4>1, <4>2, Zenon DEF ReceiveResponse
    <3>5. outcome' \in [Requests -> {"none", "ok", "err", "timeout"}]
      BY <2>12, <3>3 DEF ReceiveResponse
    <3>6. pc' \in [Sides -> {"idle", "expire", "receive"}] /\ result' \in [Sides -> Results]
      <4>1. \/ UNCHANGED <<pc, result>>
            \/ \E res \in Results : Return(s, res)
        BY <2>12, Zenon DEF ReceiveResponse, Results
      <4> QED
        BY <4>1 DEF Return
    <3> QED
      <4>1. UNCHANGED <<now, alive, outbox, held, expires, expired, sender, answer>>
        BY <2>12 DEF ReceiveResponse
      <4> QED
        BY <3>2, <3>4, <3>5, <3>6, <4>1
  <2>13. ASSUME NEW s \in Sides, ReceiveEmpty(s) PROVE TypeOK'
    BY <2>13 DEF ReceiveEmpty, Return, Results, endpointVars, trackerVars
  <2>14. CASE UNCHANGED vars
    BY <2>14 DEF vars
  <2> QED
    BY <2>1, <2>2, <2>3, <2>4, <2>5, <2>6, <2>7, <2>8, <2>9, <2>10, <2>11,
       <2>12, <2>13, <2>14 DEF Next, Process, Actor
<1> QED
  BY <1>1, <1>2, PTL DEF Spec

-----------------------------------------------------------------------------
(* The effect of Send and of taking the head off a queue, per position.     *)
LEMMA SendEffect ==
    ASSUME TypeOK, NEW to \in Sides, NEW m \in Messages, Send(to, m)
    PROVE  /\ \A u \in Sides : \A k \in DOMAIN chan'[u] :
                \/ k \in DOMAIN chan[u] /\ chan'[u][k] = chan[u][k]
                \/ u = to /\ alive[to] /\ k = Len(chan[to]) + 1 /\ chan'[u][k] = m
           /\ \A u \in Sides : u # to \/ ~alive[to] => chan'[u] = chan[u]
<1>1. CASE ~alive[to]
  BY <1>1 DEF Send
<1>2. CASE alive[to]
  <2>1. chan' = [chan EXCEPT ![to] = Append(@, m)]
    BY <1>2 DEF Send
  <2>2. chan \in [Sides -> Seq(Messages)] /\ chan[to] \in Seq(Messages)
    BY DEF TypeOK
  <2>3. chan'[to] = Append(chan[to], m) /\ \A u \in Sides : u # to => chan'[u] = chan[u]
    BY <2>1, <2>2
  <2>4. \A k \in DOMAIN Append(chan[to], m) :
           \/ k \in DOMAIN chan[to] /\ Append(chan[to], m)[k] = chan[to][k]
           \/ k = Len(chan[to]) + 1 /\ Append(chan[to], m)[k] = m
    BY <2>2, AppendElements
  <2> QED
    BY <1>2, <2>3, <2>4
<1> QED
  BY <1>1, <1>2

LEMMA ReceiveEffect ==
    ASSUME TypeOK, NEW s \in Sides, chan[s] # <<>>,
           chan' = [chan EXCEPT ![s] = Tail(@)]
    PROVE  /\ 1 \in DOMAIN chan[s]
           /\ chan[s][1] = Head(chan[s])
           /\ Head(chan[s]) \in Messages
           /\ \A u \in Sides : u # s => chan'[u] = chan[u]
           /\ \A k \in DOMAIN chan'[s] :
                /\ k \in Nat /\ k + 1 # 1
                /\ k + 1 \in DOMAIN chan[s]
                /\ chan'[s][k] = chan[s][k + 1]
<1>1. chan \in [Sides -> Seq(Messages)] /\ chan[s] \in Seq(Messages)
  BY DEF TypeOK
<1>2. chan'[s] = Tail(chan[s]) /\ \A u \in Sides : u # s => chan'[u] = chan[u]
  BY <1>1
<1> QED
  BY <1>1, <1>2, TailElements

LEMMA InitChannel == Init => ChannelInv
<1> SUFFICES ASSUME Init PROVE ChannelInv
  OBVIOUS
<1> USE DEF Init
<1>1. \A s \in Sides : DOMAIN chan[s] = {} /\ DOMAIN outbox[s] = {} /\ held[s] = {}
  OBVIOUS
<1>2. CopiesInv /\ UniqueInv
  BY <1>1 DEF CopiesInv, UniqueInv
<1>3. TrackerInv /\ ExpiryInv /\ DroppedInv /\ DisconnectIsFinal
  BY DEF TrackerInv, ExpiryInv, DroppedInv, DisconnectIsFinal
<1>4. FreshInv /\ OutcomeInv /\ NoRequestForgotten
  BY MessageTypes DEF FreshInv, OutcomeInv, NoRequestForgotten, Sides
<1> QED
  BY <1>2, <1>3, <1>4 DEF ChannelInv

-----------------------------------------------------------------------------
(* The elements of the queues and boxes are typed. *)
LEMMA ElementTypes ==
    ASSUME TypeOK, NEW u \in Sides
    PROVE  /\ \A k \in DOMAIN chan[u] : /\ chan[u][k] \in Messages
                                       /\ chan[u][k].id \in Ids
                                       /\ chan[u][k].type \in {"Request", "Response"}
           /\ \A k \in DOMAIN outbox[u] : outbox[u][k] \in Ids
           /\ held[u] \subseteq Ids
<1>1. chan[u] \in Seq(Messages) /\ outbox[u] \in Seq(Ids) /\ held[u] \subseteq Ids
  BY DEF TypeOK
<1>2. \A k \in DOMAIN chan[u] : chan[u][k] \in Messages
  BY <1>1
<1> QED
  BY <1>1, <1>2 DEF Messages

(* A fresh id sent to the other side, by request (with a bookmark) or by    *)
(* publish (without): what both do to the copies of messages.               *)
LEMMA FreshSend ==
    ASSUME TypeOK, ChannelInv, NEW s \in Sides, NEW i \in Ids,
           sender[i] = "none",
           sender' = [sender EXCEPT ![i] = s],
           Send(Other(s), RequestMsg(i)),
           UNCHANGED <<outbox, held, answer, outcome>>,
           \A u \in Sides : pending[u] \subseteq pending'[u]
    PROVE  CopiesInv' /\ UniqueInv'
<1> DEFINE o == Other(s)
<1>1. o \in Sides /\ o # s /\ Other(o) = s /\ "none" \notin Sides
  BY SidesFacts DEF Sides
<1>2. RequestMsg(i) \in Messages /\ RequestMsg(i).type = "Request" /\ RequestMsg(i).id = i
  BY MessageTypes DEF RequestMsg
<1>3. \A u \in Sides : \A k \in DOMAIN chan'[u] :
         \/ k \in DOMAIN chan[u] /\ chan'[u][k] = chan[u][k]
         \/ u = o /\ k = Len(chan[o]) + 1 /\ chan'[u][k] = RequestMsg(i)
  BY <1>1, <1>2, SendEffect
<1>4. sender'[i] = s /\ \A x \in Ids : x # i => sender'[x] = sender[x]
  BY DEF TypeOK
<1>5. i \in Requests => answer[i] = "none"
  BY DEF ChannelInv, FreshInv
<1>6. ASSUME NEW u \in Sides
      PROVE  /\ \A k \in DOMAIN chan[u] : chan[u][k].id # i
             /\ \A k \in DOMAIN outbox[u] : outbox[u][k] # i
             /\ i \notin held[u]
  <2>1. Other(u) \in Sides
    BY SidesFacts
  <2> QED
    BY <1>1, <2>1, ElementTypes DEF ChannelInv, CopiesInv, Unanswered, GoodMessage
<1>7. CopiesInv'
  <2> SUFFICES ASSUME NEW u \in Sides
      PROVE /\ \A k \in DOMAIN chan'[u] : GoodMessage(u, chan[u][k])'
            /\ \A k \in DOMAIN outbox[u] : Unanswered(u, outbox[u][k])'
            /\ \A x \in held[u] : Unanswered(u, x)'
    BY DEF CopiesInv
  <2>1. ASSUME NEW k \in DOMAIN chan'[u] PROVE GoodMessage(u, chan[u][k])'
    <3>1. CASE k \in DOMAIN chan[u] /\ chan'[u][k] = chan[u][k]
      <4>1. GoodMessage(u, chan[u][k]) /\ chan[u][k].id \in Ids /\ chan[u][k].id # i
        BY <3>1, <1>6, ElementTypes DEF ChannelInv, CopiesInv
      <4> QED
        BY <3>1, <4>1, <1>4 DEF GoodMessage, Unanswered
    <3>2. CASE u = o /\ chan'[u][k] = RequestMsg(i)
      BY <3>2, <1>1, <1>2, <1>4, <1>5 DEF GoodMessage, Unanswered
    <3> QED
      BY <3>1, <3>2, <1>3
  <2>2. ASSUME NEW k \in DOMAIN outbox[u] PROVE Unanswered(u, outbox[u][k])'
    BY <1>4, <1>6, ElementTypes DEF ChannelInv, CopiesInv, Unanswered
  <2>3. ASSUME NEW x \in held[u] PROVE Unanswered(u, x)'
    BY <1>4, <1>6, ElementTypes DEF ChannelInv, CopiesInv, Unanswered
  <2> QED
    BY <2>1, <2>2, <2>3
<1>8. UniqueInv'
  <2> SUFFICES ASSUME NEW u \in Sides
      PROVE /\ \A j, k \in DOMAIN chan'[u] : SameMessage(chan'[u][j], chan'[u][k]) => j = k
            /\ \A j \in DOMAIN chan'[u] :
                 chan'[u][j].type = "Request" =>
                    /\ chan'[u][j].id \notin held[u]
                    /\ \A k \in DOMAIN outbox[u] : outbox[u][k] # chan'[u][j].id
    BY DEF ChannelInv, UniqueInv
  <2>1. ASSUME NEW j \in DOMAIN chan'[u], NEW k \in DOMAIN chan'[u],
               SameMessage(chan'[u][j], chan'[u][k])
        PROVE  j = k
    <3>1. CASE j \in DOMAIN chan[u] /\ chan'[u][j] = chan[u][j]
      BY <2>1, <3>1, <1>2, <1>3, <1>6 DEF ChannelInv, UniqueInv, SameMessage
    <3>2. CASE u = o /\ j = Len(chan[o]) + 1 /\ chan'[u][j] = RequestMsg(i)
      BY <2>1, <3>2, <1>2, <1>3, <1>6 DEF SameMessage
    <3> QED
      BY <3>1, <3>2, <1>3
  <2>2. ASSUME NEW j \in DOMAIN chan'[u], chan'[u][j].type = "Request"
        PROVE  /\ chan'[u][j].id \notin held[u]
               /\ \A k \in DOMAIN outbox[u] : outbox[u][k] # chan'[u][j].id
    BY <2>2, <1>2, <1>3, <1>6 DEF ChannelInv, UniqueInv
  <2> QED
    BY <2>1, <2>2
<1> QED
  BY <1>7, <1>8

LEMMA RequestStep ==
    ASSUME TypeOK, ChannelInv, NEW s \in Sides, Request(s)
    PROVE  ChannelInv'
<1>1. PICK r \in Requests, t \in Timeouts :
        /\ sender[r] = "none"
        /\ pending' = [pending EXCEPT ![s] = @ \cup {r}]
        /\ expires' = [expires EXCEPT ![r] = now + t]
        /\ sender' = [sender EXCEPT ![r] = s]
        /\ Send(Other(s), RequestMsg(r))
  BY DEF Request
<1>2. UNCHANGED <<now, alive, outbox, held, pc, expired, result, answer, outcome>> /\ alive[s]
  BY DEF Request, processVars
<1>3. /\ \A u \in Sides : pending'[u] = IF u = s THEN pending[u] \cup {r} ELSE pending[u]
      /\ \A x \in Requests : x # r => expires'[x] = expires[x]
      /\ \A x \in Ids : sender'[x] = IF x = r THEN s ELSE sender[x]
  BY <1>1 DEF TypeOK, Ids
<1>4. CopiesInv' /\ UniqueInv'
  <2>1. r \in Ids /\ \A u \in Sides : pending[u] \subseteq pending'[u]
    BY <1>3, MessageTypes
  <2>2. UNCHANGED <<outbox, held, answer, outcome>>
    BY <1>2
  <2> QED
    BY <1>1, <2>1, <2>2, FreshSend
<1>5. "none" \notin Sides /\ Requests \subseteq Ids
  BY MessageTypes DEF Sides
<1>6. outcome[r] = "none" /\ answer[r] = "none"
  BY <1>1 DEF ChannelInv, FreshInv
<1>7. \A u \in Sides : pending[u] \subseteq Requests /\ r \notin pending[u]
  BY <1>1, <1>5 DEF ChannelInv, TrackerInv, TypeOK
<1>8. TrackerInv'
  <2> SUFFICES ASSUME NEW u \in Sides
      PROVE  /\ \A x \in pending'[u] : sender'[x] = u /\ outcome'[x] = "none"
             /\ expired'[u] \subseteq pending'[u]
             /\ \A x \in expired'[u] : now' > expires'[x]
    BY DEF TrackerInv
  <2>1. ASSUME NEW x \in pending'[u] PROVE sender'[x] = u /\ outcome'[x] = "none"
    <3>1. CASE x = r /\ u = s
      BY <3>1, <1>2, <1>3, <1>5, <1>6
    <3>2. CASE x \in pending[u]
      <4>1. x \in Ids /\ x # r /\ sender[x] = u /\ outcome[x] = "none"
        BY <3>2, <1>5, <1>7 DEF ChannelInv, TrackerInv
      <4> QED
        BY <4>1, <1>2, <1>3
    <3> QED
      BY <3>1, <3>2, <1>3
  <2>2. expired[u] \subseteq pending[u] /\ \A x \in expired[u] : now > expires[x]
    BY DEF ChannelInv, TrackerInv
  <2>3. \A x \in expired[u] : expires'[x] = expires[x]
    <3>1. ASSUME NEW x \in expired[u] PROVE expires'[x] = expires[x]
      <4>1. x \in pending[u]
        BY <2>2
      <4>2. x \in Requests /\ x # r
        BY <4>1, <1>7
      <4> QED
        BY <4>2, <1>3
    <3> QED
      BY <3>1
  <2>4. expired' = expired /\ now' = now /\ pending[u] \subseteq pending'[u]
    BY <1>2, <1>3
  <2> QED
    BY <2>1, <2>2, <2>3, <2>4
<1>9. FreshInv' /\ OutcomeInv'
  BY <1>2, <1>3, <1>5 DEF ChannelInv, FreshInv, OutcomeInv
<1>10. /\ \A u \in Sides : u # Other(s) \/ ~alive[Other(s)] => chan'[u] = chan[u]
  BY <1>1, SendEffect, SidesFacts, MessageTypes
<1>11. DroppedInv' /\ ExpiryInv'
  BY <1>2, <1>3, <1>10 DEF ChannelInv, DroppedInv, ExpiryInv
<1>12. NoRequestForgotten'
  BY <1>2, <1>3, <1>5, <1>6, <1>7 DEF ChannelInv, NoRequestForgotten
<1>13. DisconnectIsFinal'
  BY <1>2, <1>10, SidesFacts DEF ChannelInv, DisconnectIsFinal, Disconnected
<1> QED
  BY <1>4, <1>8, <1>9, <1>11, <1>12, <1>13 DEF ChannelInv

LEMMA PublishStep ==
    ASSUME TypeOK, ChannelInv, NEW s \in Sides, Publish(s)
    PROVE  ChannelInv'
<1>1. PICK e \in Events :
        /\ sender[e] = "none"
        /\ sender' = [sender EXCEPT ![e] = s]
        /\ Send(Other(s), RequestMsg(e))
  BY DEF Publish
<1>2. UNCHANGED <<now, alive, outbox, held, pending, expires, outcome, pc, expired, result, answer>>
      /\ alive[s]
  BY DEF Publish, trackerVars, processVars
<1>3. \A x \in Requests : sender'[x] = sender[x]
  BY <1>1, ChannelAssumption DEF TypeOK, Ids
<1>4. CopiesInv' /\ UniqueInv'
  BY <1>1, <1>2, FreshSend, MessageTypes
<1>5. \A u \in Sides : u # Other(s) \/ ~alive[Other(s)] => chan'[u] = chan[u]
  BY <1>1, SendEffect, SidesFacts, MessageTypes
<1>6. TrackerInv' /\ FreshInv' /\ OutcomeInv'
  BY <1>2, <1>3 DEF ChannelInv, TrackerInv, FreshInv, OutcomeInv, TypeOK
<1>7. DroppedInv' /\ ExpiryInv'
  BY <1>2, <1>5 DEF ChannelInv, DroppedInv, ExpiryInv
<1>8. NoRequestForgotten'
  BY <1>2, <1>3 DEF ChannelInv, NoRequestForgotten
<1>9. DisconnectIsFinal'
  BY <1>2, <1>5, SidesFacts DEF ChannelInv, DisconnectIsFinal, Disconnected
<1> QED
  BY <1>4, <1>6, <1>7, <1>8, <1>9 DEF ChannelInv

LEMMA DrainStep ==
    ASSUME TypeOK, ChannelInv, NEW s \in Sides, DrainMessages(s)
    PROVE  ChannelInv'
<1>1. /\ UNCHANGED <<now, alive, chan, pending, expires, outcome, pc, expired, result, sender, answer>>
      /\ alive[s]
  BY DEF DrainMessages, trackerVars, processVars
<1>2. \A u \in Sides : outbox'[u] = IF u = s THEN <<>> ELSE outbox[u]
  BY DEF DrainMessages, TypeOK
<1>3. \A u \in Sides : \A x \in held'[u] :
         x \in held[u] \/ (u = s /\ \E k \in DOMAIN outbox[u] : x = outbox[u][k])
  BY DEF DrainMessages, TypeOK
<1>4. \A u \in Sides : u # s => held'[u] = held[u]
  BY DEF DrainMessages, TypeOK
<1>5. CopiesInv'
  BY <1>1, <1>2, <1>3 DEF ChannelInv, CopiesInv, GoodMessage, Unanswered
<1>6. UniqueInv'
  BY <1>1, <1>2, <1>3, <1>4 DEF ChannelInv, UniqueInv, SameMessage
<1>7. TrackerInv' /\ FreshInv' /\ OutcomeInv' /\ NoRequestForgotten'
  BY <1>1 DEF ChannelInv, TrackerInv, FreshInv, OutcomeInv, NoRequestForgotten
<1>8. DroppedInv' /\ ExpiryInv'
  BY <1>1, <1>2 DEF ChannelInv, DroppedInv, ExpiryInv
<1>9. DisconnectIsFinal'
  BY <1>1, <1>4, SidesFacts DEF ChannelInv, DisconnectIsFinal, Disconnected
<1> QED
  BY <1>5, <1>6, <1>7, <1>8, <1>9 DEF ChannelInv

LEMMA DiscardStep ==
    ASSUME TypeOK, ChannelInv, NEW s \in Sides, DiscardMessage(s)
    PROVE  ChannelInv'
<1>1. UNCHANGED <<now, alive, chan, outbox, pending, expires, outcome, pc, expired, result, sender, answer>>
  BY DEF DiscardMessage, trackerVars, processVars
<1>2. \A u \in Sides : held'[u] \subseteq held[u]
  BY DEF DiscardMessage, TypeOK
<1>3. CopiesInv'
  BY <1>1, <1>2 DEF ChannelInv, CopiesInv, GoodMessage, Unanswered
<1>4. UniqueInv'
  BY <1>1, <1>2 DEF ChannelInv, UniqueInv, SameMessage
<1>5. TrackerInv' /\ FreshInv' /\ OutcomeInv' /\ NoRequestForgotten' /\ DroppedInv' /\ ExpiryInv'
  BY <1>1 DEF ChannelInv, TrackerInv, FreshInv, OutcomeInv, NoRequestForgotten, DroppedInv, ExpiryInv
<1>6. DisconnectIsFinal'
  BY <1>1, <1>2, SidesFacts DEF ChannelInv, DisconnectIsFinal, Disconnected
<1> QED
  BY <1>3, <1>4, <1>5, <1>6 DEF ChannelInv

LEMMA DropStep ==
    ASSUME TypeOK, ChannelInv, NEW s \in Sides,
           NEW kept \in SUBSET held[s], DropEndpoint(s, kept)
    PROVE  ChannelInv'
<1>1. UNCHANGED <<now, expires, result, sender, answer, outcome>>
  BY DEF DropEndpoint
<1>2. /\ alive'[s] = FALSE
      /\ chan'[s] = <<>> /\ outbox'[s] = <<>>
      /\ held'[s] = kept
      /\ pending'[s] = {} /\ expired'[s] = {}
      /\ pc'[s] = "idle"
  BY DEF DropEndpoint, TypeOK
<1>3. \A u \in Sides : u # s =>
         /\ alive'[u] = alive[u]
         /\ chan'[u] = chan[u] /\ outbox'[u] = outbox[u]
         /\ held'[u] = held[u]
         /\ pending'[u] = pending[u] /\ expired'[u] = expired[u]
         /\ pc'[u] = pc[u]
  BY DEF DropEndpoint, TypeOK
<1>4. CopiesInv'
  <2> SUFFICES ASSUME NEW u \in Sides
      PROVE /\ \A k \in DOMAIN chan'[u] : GoodMessage(u, chan[u][k])'
            /\ \A k \in DOMAIN outbox'[u] : Unanswered(u, outbox[u][k])'
            /\ \A x \in held'[u] : Unanswered(u, x)'
    BY DEF CopiesInv
  <2>1. CASE u = s
    BY <2>1, <1>1, <1>2 DEF ChannelInv, CopiesInv, Unanswered
  <2>2. CASE u # s
    BY <2>2, <1>1, <1>3 DEF ChannelInv, CopiesInv, Unanswered, GoodMessage
  <2> QED
    BY <2>1, <2>2
<1>5. UniqueInv'
  BY <1>2, <1>3 DEF ChannelInv, UniqueInv, SameMessage
<1>6. TrackerInv'
  <2>1. ASSUME NEW u \in Sides
        PROVE  /\ \A r \in pending'[u] : sender'[r] = u /\ outcome'[r] = "none"
               /\ expired'[u] \subseteq pending'[u]
               /\ \A r \in expired'[u] : now' > expires'[r]
    BY <1>1, <1>2, <1>3 DEF ChannelInv, TrackerInv
  <2> QED
    BY <2>1 DEF TrackerInv
<1>7. FreshInv' /\ OutcomeInv'
  BY <1>1 DEF ChannelInv, FreshInv, OutcomeInv
<1>8. DroppedInv' /\ ExpiryInv'
  BY <1>2, <1>3 DEF ChannelInv, DroppedInv, ExpiryInv
<1>9. NoRequestForgotten'
  BY <1>1, <1>2, <1>3 DEF ChannelInv, NoRequestForgotten
<1>10. DisconnectIsFinal'
  BY <1>1, <1>2, <1>3, SidesFacts DEF ChannelInv, DisconnectIsFinal, Disconnected
<1> QED
  BY <1>4, <1>5, <1>6, <1>7, <1>8, <1>9, <1>10 DEF ChannelInv

LEMMA RespondStep ==
    ASSUME TypeOK, ChannelInv, NEW s \in Sides, RespondRequest(s)
    PROVE  ChannelInv'
<1> DEFINE o == Other(s)
<1>1. PICK r \in held[s] \cap Requests, ok \in BOOLEAN :
        /\ held' = [held EXCEPT ![s] = @ \ {r}]
        /\ answer' = [answer EXCEPT ![r] = Answer(ok)]
        /\ Send(o, ResponseMsg(r, ok))
  BY DEF RespondRequest
<1>2. UNCHANGED <<now, alive, outbox, pending, expires, outcome, pc, expired, result, sender>>
  BY DEF RespondRequest, trackerVars, processVars
<1>3. /\ \A u \in Sides : held'[u] = IF u = s THEN held[u] \ {r} ELSE held[u]
      /\ answer'[r] = Answer(ok)
      /\ \A x \in Requests : x # r => answer'[x] = answer[x]
  BY <1>1 DEF TypeOK
<1>4. o \in Sides /\ o # s /\ Other(o) = s /\ r \in Ids
  BY SidesFacts, MessageTypes
<1>5. ResponseMsg(r, ok) \in Messages /\ ResponseMsg(r, ok).type = "Response"
      /\ ResponseMsg(r, ok).id = r /\ ResponseMsg(r, ok).ok = ok
  BY MessageTypes DEF ResponseMsg
<1>6. /\ \A u \in Sides : \A k \in DOMAIN chan'[u] :
           \/ k \in DOMAIN chan[u] /\ chan'[u][k] = chan[u][k]
           \/ u = o /\ alive[o] /\ k = Len(chan[o]) + 1 /\ chan'[u][k] = ResponseMsg(r, ok)
      /\ \A u \in Sides : u # o \/ ~alive[o] => chan'[u] = chan[u]
  BY <1>1, <1>4, <1>5, SendEffect
<1>7. sender[r] = o /\ answer[r] = "none" /\ Answer(ok) # "none"
  BY <1>1 DEF ChannelInv, CopiesInv, Unanswered, Answer
<1>8. \A u \in Sides : \A k \in DOMAIN chan[u] : chan[u][k].id # r
  <2>1. ASSUME NEW u \in Sides, NEW k \in DOMAIN chan[u], chan[u][k].id = r PROVE FALSE
    <3>1. GoodMessage(u, chan[u][k])
      BY DEF ChannelInv, CopiesInv
    <3>2. CASE chan[u][k].type = "Request"
      <4>1. Other(u) = o
        BY <2>1, <3>1, <3>2, <1>7 DEF GoodMessage, Unanswered
      <4>2. u = s
        BY <4>1, <1>4, SidesFacts
      <4> QED
        BY <2>1, <3>2, <4>2, <1>1 DEF ChannelInv, UniqueInv
    <3>3. CASE chan[u][k].type = "Response"
      BY <2>1, <3>1, <3>3, <1>7 DEF GoodMessage, Answer
    <3> QED
      BY <3>1, <3>2, <3>3 DEF GoodMessage
  <2> QED
    BY <2>1
<1>9. \A u \in Sides : /\ \A k \in DOMAIN outbox[u] : outbox[u][k] # r
                      /\ r \notin held'[u]
  <2>1. ASSUME NEW u \in Sides, NEW k \in DOMAIN outbox[u], outbox[u][k] = r PROVE FALSE
    <3>1. Other(u) = o
      BY <2>1, <1>7 DEF ChannelInv, CopiesInv, Unanswered
    <3>2. u = s
      BY <3>1, <1>4, SidesFacts
    <3> QED
      BY <2>1, <3>2, <1>1 DEF ChannelInv, UniqueInv
  <2>2. ASSUME NEW u \in Sides, r \in held[u] PROVE u = s
    <3>1. Other(u) = o
      BY <2>2, <1>7 DEF ChannelInv, CopiesInv, Unanswered
    <3> QED
      BY <3>1, <1>4, SidesFacts
  <2> QED
    BY <2>1, <2>2, <1>3
<1>10. CopiesInv'
  <2> SUFFICES ASSUME NEW u \in Sides
      PROVE /\ \A k \in DOMAIN chan'[u] : GoodMessage(u, chan[u][k])'
            /\ \A k \in DOMAIN outbox[u] : Unanswered(u, outbox[u][k])'
            /\ \A x \in held'[u] : Unanswered(u, x)'
    BY <1>2 DEF CopiesInv
  <2>1. ASSUME NEW k \in DOMAIN chan'[u] PROVE GoodMessage(u, chan[u][k])'
    <3>1. CASE k \in DOMAIN chan[u] /\ chan'[u][k] = chan[u][k]
      <4>1. GoodMessage(u, chan[u][k]) /\ chan[u][k].id # r
        BY <3>1, <1>8 DEF ChannelInv, CopiesInv
      <4> QED
        BY <3>1, <4>1, <1>2, <1>3 DEF GoodMessage, Unanswered
    <3>2. CASE u = o /\ alive[o] /\ chan'[u][k] = ResponseMsg(r, ok)
      <4>1. r \in pending[o] \/ outcome[r] # "none"
        BY <3>2, <1>1, <1>4, <1>7 DEF ChannelInv, NoRequestForgotten
      <4>2. outcome[r] # "none" => outcome[r] = "timeout"
        <5>1. answer[r] = "none" /\ r \in Requests
          BY <1>1, <1>7
        <5> QED
          BY <5>1 DEF ChannelInv, OutcomeInv, TypeOK
      <4> QED
        BY <3>2, <4>1, <4>2, <1>1, <1>2, <1>3, <1>5, <1>7 DEF GoodMessage
    <3> QED
      BY <3>1, <3>2, <1>6
  <2>2. ASSUME NEW k \in DOMAIN outbox[u] PROVE Unanswered(u, outbox[u][k])'
    BY <1>2, <1>3, <1>9 DEF ChannelInv, CopiesInv, Unanswered
  <2>3. ASSUME NEW x \in held'[u] PROVE Unanswered(u, x)'
    <3>1. x \in held[u] /\ x # r
      BY <1>3, <1>9
    <3> QED
      BY <3>1, <1>2, <1>3 DEF ChannelInv, CopiesInv, Unanswered
  <2> QED
    BY <2>1, <2>2, <2>3
<1>11. UniqueInv'
  <2> SUFFICES ASSUME NEW u \in Sides
      PROVE /\ \A j, k \in DOMAIN chan'[u] : SameMessage(chan'[u][j], chan'[u][k]) => j = k
            /\ \A j, k \in DOMAIN outbox[u] : outbox[u][j] = outbox[u][k] => j = k
            /\ \A j \in DOMAIN chan'[u] :
                 chan'[u][j].type = "Request" =>
                    /\ chan'[u][j].id \notin held'[u]
                    /\ \A k \in DOMAIN outbox[u] : outbox[u][k] # chan'[u][j].id
            /\ \A k \in DOMAIN outbox[u] : outbox[u][k] \notin held'[u]
    BY <1>2 DEF UniqueInv
  <2>1. ASSUME NEW j \in DOMAIN chan'[u], NEW k \in DOMAIN chan'[u],
               SameMessage(chan'[u][j], chan'[u][k])
        PROVE  j = k
    <3>1. CASE j \in DOMAIN chan[u] /\ chan'[u][j] = chan[u][j]
      BY <2>1, <3>1, <1>5, <1>6, <1>8 DEF ChannelInv, UniqueInv, SameMessage
    <3>2. CASE u = o /\ j = Len(chan[o]) + 1 /\ chan'[u][j] = ResponseMsg(r, ok)
      BY <2>1, <3>2, <1>5, <1>6, <1>8 DEF SameMessage
    <3> QED
      BY <3>1, <3>2, <1>6
  <2>2. ASSUME NEW j \in DOMAIN chan'[u], chan'[u][j].type = "Request"
        PROVE  /\ chan'[u][j].id \notin held'[u]
               /\ \A k \in DOMAIN outbox[u] : outbox[u][k] # chan'[u][j].id
    <3>1. j \in DOMAIN chan[u] /\ chan'[u][j] = chan[u][j]
      BY <2>2, <1>5, <1>6
    <3>2. held'[u] \subseteq held[u]
      BY <1>3
    <3> QED
      BY <2>2, <3>1, <3>2 DEF ChannelInv, UniqueInv
  <2> QED
    BY <2>1, <2>2, <1>3 DEF ChannelInv, UniqueInv
<1>12. TrackerInv' /\ NoRequestForgotten'
  BY <1>2 DEF ChannelInv, TrackerInv, NoRequestForgotten
<1>13. FreshInv' /\ OutcomeInv'
  BY <1>2, <1>3, <1>4, <1>7 DEF ChannelInv, FreshInv, OutcomeInv, Sides
<1>14. DroppedInv' /\ ExpiryInv'
  BY <1>2, <1>6 DEF ChannelInv, DroppedInv, ExpiryInv
<1>15. DisconnectIsFinal'
  BY <1>1, <1>2, <1>3, <1>4, <1>6, SidesFacts DEF ChannelInv, DisconnectIsFinal, Disconnected
<1> QED
  BY <1>10, <1>11, <1>12, <1>13, <1>14, <1>15 DEF ChannelInv

-----------------------------------------------------------------------------
(* The steps of process(). *)

LEMMA QuietStep ==
    ASSUME TypeOK, ChannelInv,
           UNCHANGED <<alive, chan, outbox, held, pending, expires, sender, answer, outcome>>
    PROVE  /\ CopiesInv' /\ UniqueInv' /\ FreshInv' /\ OutcomeInv' /\ NoRequestForgotten'
           /\ \A u \in Sides : \A r \in pending'[u] : sender'[r] = u /\ outcome'[r] = "none"
<1>1. CopiesInv' /\ UniqueInv'
  BY DEF ChannelInv, CopiesInv, UniqueInv, GoodMessage, Unanswered, SameMessage
<1>2. FreshInv' /\ OutcomeInv' /\ NoRequestForgotten'
  BY DEF ChannelInv, FreshInv, OutcomeInv, NoRequestForgotten
<1> QED
  BY <1>1, <1>2 DEF ChannelInv, TrackerInv

LEMMA TickStep ==
    ASSUME TypeOK, ChannelInv, Tick
    PROVE  ChannelInv'
<1>1. UNCHANGED <<alive, chan, outbox, held, pending, expires, sender, answer, outcome, pc, expired, result>>
  BY DEF Tick, endpointVars, trackerVars, processVars
<1>2. TrackerInv'
  <2>1. ASSUME NEW u \in Sides, NEW r \in expired[u] PROVE now' > expires[r]
    <3>1. now > expires[r] /\ expires[r] \in Nat /\ now \in Nat
      BY ChannelAssumption DEF ChannelInv, TrackerInv, TypeOK
    <3> QED
      BY <3>1 DEF Tick
  <2> QED
    BY <2>1, <1>1 DEF ChannelInv, TrackerInv
<1>3. DroppedInv' /\ ExpiryInv' /\ DisconnectIsFinal'
  BY <1>1 DEF ChannelInv, DroppedInv, ExpiryInv, DisconnectIsFinal, Disconnected
<1> QED
  BY <1>1, <1>2, <1>3, QuietStep DEF ChannelInv

LEMMA ProcessStartStep ==
    ASSUME TypeOK, ChannelInv, NEW s \in Sides, ProcessStart(s)
    PROVE  ChannelInv'
<1>1. UNCHANGED <<now, alive, chan, outbox, held, pending, expires, sender, answer, outcome, result>>
  BY DEF ProcessStart, endpointVars, trackerVars
<1>2. /\ \A u \in Sides : u # s => expired'[u] = expired[u] /\ pc'[u] = pc[u]
      /\ expired'[s] = {r \in pending[s] : now > expires[r]}
      /\ alive[s]
      /\ pc'[s] = "expire"
  BY DEF ProcessStart, TypeOK
<1>3. TrackerInv'
  <2>1. ASSUME NEW u \in Sides
        PROVE  /\ expired'[u] \subseteq pending[u]
               /\ \A r \in expired'[u] : now > expires[r]
    <3>1. CASE u = s
      BY <3>1, <1>2
    <3>2. CASE u # s
      BY <3>2, <1>2 DEF ChannelInv, TrackerInv
    <3> QED
      BY <3>1, <3>2
  <2> QED
    BY <2>1, <1>1 DEF ChannelInv, TrackerInv
<1>4. DroppedInv' /\ DisconnectIsFinal'
  BY <1>1, <1>2 DEF ChannelInv, DroppedInv, DisconnectIsFinal, Disconnected
<1>5. ExpiryInv'
  BY <1>1, <1>2 DEF ChannelInv, ExpiryInv
<1> QED
  BY <1>1, <1>3, <1>4, <1>5, QuietStep DEF ChannelInv

LEMMA ExpireDoneStep ==
    ASSUME TypeOK, ChannelInv, NEW s \in Sides, ExpireDone(s)
    PROVE  ChannelInv'
<1>1. UNCHANGED <<now, alive, chan, outbox, held, pending, expires, sender, answer, outcome, expired, result>>
  BY DEF ExpireDone, endpointVars, trackerVars
<1>2. /\ \A u \in Sides : u # s => pc'[u] = pc[u]
      /\ pc[s] = "expire" /\ expired[s] = {}
  BY DEF ExpireDone, TypeOK
<1>3. TrackerInv'
  BY <1>1 DEF ChannelInv, TrackerInv
<1>4. DroppedInv' /\ DisconnectIsFinal'
  BY <1>1, <1>2 DEF ChannelInv, DroppedInv, DisconnectIsFinal, Disconnected
<1>5. ExpiryInv'
  BY <1>1, <1>2 DEF ChannelInv, ExpiryInv
<1> QED
  BY <1>1, <1>3, <1>4, <1>5, QuietStep DEF ChannelInv

LEMMA ReceiveEmptyStep ==
    ASSUME TypeOK, ChannelInv, NEW s \in Sides, ReceiveEmpty(s)
    PROVE  ChannelInv'
<1>1. UNCHANGED <<now, alive, chan, outbox, held, pending, expires, sender, answer, outcome, expired>>
  BY DEF ReceiveEmpty, endpointVars, trackerVars
<1>2. /\ \A u \in Sides : u # s => pc'[u] = pc[u] /\ result'[u] = result[u]
      /\ pc[s] = "receive" /\ pc'[s] = "idle" /\ chan[s] = <<>>
      /\ result'[s] = IF Disconnected(s) THEN "EndpointDisconnected" ELSE "Ok"
  BY DEF ReceiveEmpty, Return, TypeOK
<1>3. TrackerInv'
  BY <1>1 DEF ChannelInv, TrackerInv
<1>4. DroppedInv' /\ ExpiryInv'
  <2>1. DroppedInv'
    BY <1>1, <1>2 DEF ChannelInv, DroppedInv
  <2>2. ExpiryInv'
    BY <1>1, <1>2 DEF ChannelInv, ExpiryInv
  <2> QED
    BY <2>1, <2>2
<1>5. DisconnectIsFinal'
  BY <1>1, <1>2 DEF ChannelInv, DisconnectIsFinal, Disconnected
<1> QED
  BY <1>1, <1>3, <1>4, <1>5, QuietStep DEF ChannelInv

(* A callback of side s runs: request r leaves the tracker with outcome v.  *)
CallbackEffect(s, r, v) ==
    /\ r \in pending[s]
    /\ v = "timeout" \/ v = answer[r]
    /\ v # "none"
    /\ pending' = [pending EXCEPT ![s] = @ \ {r}]
    /\ outcome' = [outcome EXCEPT ![r] = v]
    /\ UNCHANGED <<now, alive, expires, sender, answer>>
    /\ \A u \in Sides : u # s => expired'[u] = expired[u]
    /\ expired'[s] \subseteq expired[s] \ {r}

LEMMA CallbackRuns ==
    ASSUME TypeOK, ChannelInv, NEW s \in Sides, NEW r, NEW v, CallbackEffect(s, r, v)
    PROVE  /\ TrackerInv' /\ FreshInv' /\ OutcomeInv' /\ NoRequestForgotten'
           /\ r \in Requests /\ sender[r] = s /\ alive[s] /\ outcome[r] = "none"
           /\ \A x \in Requests : x # r => outcome'[x] = outcome[x]
           /\ outcome'[r] = v
           /\ \A u \in Sides : pending'[u] = IF u = s THEN pending[u] \ {r} ELSE pending[u]
<1> USE DEF CallbackEffect
<1>1. \A u \in Sides : pending[u] \subseteq Requests
  BY DEF TypeOK
<1>2. r \in Requests /\ sender[r] = s /\ outcome[r] = "none" /\ alive[s]
  BY <1>1 DEF ChannelInv, TrackerInv, DroppedInv
<1>3. outcome'[r] = v /\ \A x \in Requests : x # r => outcome'[x] = outcome[x]
  BY <1>2 DEF TypeOK
<1>4. \A u \in Sides : pending'[u] = IF u = s THEN pending[u] \ {r} ELSE pending[u]
  BY DEF TypeOK
<1>5. \A u \in Sides : u # s => r \notin pending[u]
  BY <1>2 DEF ChannelInv, TrackerInv
<1>6. TrackerInv'
  <2> SUFFICES ASSUME NEW u \in Sides
      PROVE  /\ \A x \in pending'[u] : sender'[x] = u /\ outcome'[x] = "none"
             /\ expired'[u] \subseteq pending'[u]
             /\ \A x \in expired'[u] : now > expires[x]
    BY DEF TrackerInv
  <2>1. ASSUME NEW x \in pending'[u] PROVE sender'[x] = u /\ outcome'[x] = "none"
    <3>1. x \in pending[u] /\ x # r
      BY <1>4, <1>5
    <3> QED
      BY <3>1, <1>1, <1>3 DEF ChannelInv, TrackerInv
  <2>2. expired'[u] \subseteq expired[u] /\ expired[u] \subseteq pending[u]
    BY DEF ChannelInv, TrackerInv
  <2>3. expired'[u] \subseteq pending'[u]
    BY <2>2, <1>4, <1>5
  <2>4. \A x \in expired[u] : now > expires[x]
    BY DEF ChannelInv, TrackerInv
  <2> QED
    BY <2>1, <2>2, <2>3, <2>4
<1>7. FreshInv'
  BY <1>2, <1>3 DEF ChannelInv, FreshInv, Sides
<1>8. OutcomeInv'
  BY <1>3 DEF ChannelInv, OutcomeInv
<1>9. NoRequestForgotten'
  <2> SUFFICES ASSUME NEW x \in Requests, sender[x] \in Sides, alive[sender[x]]
      PROVE  x \in pending'[sender[x]] <=> outcome'[x] = "none"
    BY DEF NoRequestForgotten
  <2>1. CASE x = r
    BY <2>1, <1>2, <1>3, <1>4
  <2>2. CASE x # r
    BY <2>2, <1>3, <1>4 DEF ChannelInv, NoRequestForgotten
  <2> QED
    BY <2>1, <2>2
<1> QED
  BY <1>2, <1>3, <1>4, <1>6, <1>7, <1>8, <1>9

LEMMA ExpireOneStep ==
    ASSUME TypeOK, ChannelInv, NEW s \in Sides, ExpireOne(s)
    PROVE  ChannelInv'
<1>1. PICK r \in expired[s], cbOk \in BOOLEAN :
        /\ pending' = [pending EXCEPT ![s] = @ \ {r}]
        /\ outcome' = [outcome EXCEPT ![r] = "timeout"]
        /\ \/ /\ expired' = [expired EXCEPT ![s] = @ \ {r}]
              /\ UNCHANGED <<pc, result>>
           \/ /\ expired' = [expired EXCEPT ![s] = {}]
              /\ pc' = [pc EXCEPT ![s] = "idle"]
              /\ result' = [result EXCEPT ![s] = "CallbackFailed"]
  BY Zenon DEF ExpireOne
<1>2. UNCHANGED <<now, alive, chan, outbox, held, expires, sender, answer>>
  BY DEF ExpireOne, endpointVars
<1>3. /\ \A u \in Sides : u # s =>
           expired'[u] = expired[u] /\ pc'[u] = pc[u] /\ result'[u] = result[u]
      /\ expired'[s] \subseteq expired[s] \ {r}
      /\ result'[s] \in {result[s], "CallbackFailed"}
  BY <1>1 DEF TypeOK
<1>4. r \in pending[s]
  BY DEF ChannelInv, TrackerInv
<1>5. /\ TrackerInv' /\ FreshInv' /\ OutcomeInv' /\ NoRequestForgotten'
      /\ r \in Requests /\ sender[r] = s /\ alive[s]
      /\ \A x \in Requests : x # r => outcome'[x] = outcome[x]
      /\ outcome'[r] = "timeout"
      /\ \A u \in Sides : pending'[u] = IF u = s THEN pending[u] \ {r} ELSE pending[u]
  <2>1. CallbackEffect(s, r, "timeout")
    BY <1>1, <1>2, <1>3, <1>4 DEF CallbackEffect
  <2> QED
    BY <2>1, CallbackRuns
<1>6. CopiesInv'
  <2> SUFFICES ASSUME NEW u \in Sides
      PROVE /\ \A k \in DOMAIN chan[u] : GoodMessage(u, chan[u][k])'
            /\ \A k \in DOMAIN outbox[u] : Unanswered(u, outbox[u][k])'
            /\ \A x \in held[u] : Unanswered(u, x)'
    BY <1>2 DEF CopiesInv
  <2>1. ASSUME NEW k \in DOMAIN chan[u] PROVE GoodMessage(u, chan[u][k])'
    <3>1. GoodMessage(u, chan[u][k])
      BY DEF ChannelInv, CopiesInv
    <3>2. chan[u][k].id = r \/ (chan[u][k].id \in pending[u] => chan[u][k].id \in pending'[u])
      BY <1>5
    <3> QED
      BY <3>1, <3>2, <1>2, <1>5 DEF GoodMessage, Unanswered
  <2> QED
    BY <2>1, <1>2 DEF ChannelInv, CopiesInv, Unanswered
<1>7. UniqueInv'
  BY <1>2 DEF ChannelInv, UniqueInv, SameMessage
<1>8. DroppedInv'
  <2>1. \A u \in Sides : u # s => pending'[u] = pending[u] /\ pc'[u] = pc[u]
    BY <1>3, <1>5
  <2> QED
    BY <2>1, <1>2, <1>5 DEF ChannelInv, DroppedInv
<1>10. ExpiryInv'
  <2>1. pc[s] = "expire"
    BY DEF ExpireOne
  <2>2. pc'[s] = "expire" \/ expired'[s] = {}
    BY <1>1, <2>1 DEF TypeOK
  <2> QED
    BY <2>2, <1>3 DEF ChannelInv, ExpiryInv
<1>9. DisconnectIsFinal'
  BY <1>2, <1>3 DEF ChannelInv, DisconnectIsFinal, Disconnected
<1> QED
  BY <1>5, <1>6, <1>7, <1>8, <1>9, <1>10 DEF ChannelInv

LEMMA ReceiveRequestStep ==
    ASSUME TypeOK, ChannelInv, NEW s \in Sides, ReceiveRequest(s)
    PROVE  ChannelInv'
<1> DEFINE i == Head(chan[s]).id
<1>1. /\ UNCHANGED <<now, alive, held, pending, expires, outcome, pc, expired, result, sender, answer>>
      /\ chan[s] # <<>>
      /\ Head(chan[s]).type = "Request"
      /\ chan' = [chan EXCEPT ![s] = Tail(@)]
      /\ outbox' = [outbox EXCEPT ![s] = Append(@, i)]
      /\ pc[s] = "receive"
  BY DEF ReceiveRequest, trackerVars, processVars
<1>2. /\ 1 \in DOMAIN chan[s] /\ chan[s][1] = Head(chan[s])
      /\ i \in Ids
      /\ \A u \in Sides : u # s => chan'[u] = chan[u]
      /\ \A k \in DOMAIN chan'[s] :
           /\ k \in Nat /\ k + 1 # 1
           /\ k + 1 \in DOMAIN chan[s]
           /\ chan'[s][k] = chan[s][k + 1]
  BY <1>1, ReceiveEffect DEF Messages
<1>3. /\ \A u \in Sides : u # s => outbox'[u] = outbox[u]
      /\ \A k \in DOMAIN outbox'[s] :
           \/ k \in DOMAIN outbox[s] /\ outbox'[s][k] = outbox[s][k]
           \/ k = Len(outbox[s]) + 1 /\ outbox'[s][k] = i
  <2>1. outbox \in [Sides -> Seq(Ids)] /\ outbox[s] \in Seq(Ids)
    BY DEF TypeOK
  <2>2. outbox'[s] = Append(outbox[s], i) /\ \A u \in Sides : u # s => outbox'[u] = outbox[u]
    BY <1>1, <2>1
  <2> QED
    BY <2>1, <2>2, <1>2, AppendElements
<1>4. alive[s]
  BY <1>1 DEF ChannelInv, DroppedInv
<1>5. Unanswered(s, i) /\ i \notin held[s] /\ \A k \in DOMAIN outbox[s] : outbox[s][k] # i
  <2>1. GoodMessage(s, chan[s][1])
    BY <1>2 DEF ChannelInv, CopiesInv
  <2> QED
    BY <2>1, <1>1, <1>2 DEF ChannelInv, UniqueInv, GoodMessage
<1>6. \A k \in DOMAIN chan'[s] : chan'[s][k].type = "Request" => chan'[s][k].id # i
  <2>1. ASSUME NEW k \in DOMAIN chan'[s], chan'[s][k].type = "Request", chan'[s][k].id = i
        PROVE  FALSE
    <3>1. SameMessage(chan[s][k + 1], chan[s][1])
      BY <2>1, <1>1, <1>2 DEF SameMessage
    <3> QED
      BY <3>1, <1>2 DEF ChannelInv, UniqueInv
  <2> QED
    BY <2>1
<1>7. CopiesInv'
  <2> SUFFICES ASSUME NEW u \in Sides
      PROVE /\ \A k \in DOMAIN chan'[u] : GoodMessage(u, chan[u][k])'
            /\ \A k \in DOMAIN outbox'[u] : Unanswered(u, outbox[u][k])'
            /\ \A x \in held[u] : Unanswered(u, x)'
    BY <1>1 DEF CopiesInv
  <2>1. CASE u = s
    <3>1. ASSUME NEW k \in DOMAIN chan'[u] PROVE GoodMessage(u, chan[u][k])'
      <4>1. GoodMessage(s, chan[s][k + 1]) /\ chan'[s][k] = chan[s][k + 1]
        BY <2>1, <1>2 DEF ChannelInv, CopiesInv
      <4> QED
        BY <4>1, <2>1, <1>1 DEF GoodMessage, Unanswered
    <3>2. ASSUME NEW k \in DOMAIN outbox'[u] PROVE Unanswered(u, outbox[u][k])'
      BY <2>1, <1>1, <1>3, <1>5 DEF ChannelInv, CopiesInv, Unanswered
    <3> QED
      BY <3>1, <3>2, <1>1 DEF ChannelInv, CopiesInv, Unanswered
  <2>2. CASE u # s
    BY <2>2, <1>1, <1>2, <1>3 DEF ChannelInv, CopiesInv, GoodMessage, Unanswered
  <2> QED
    BY <2>1, <2>2
<1>8. UniqueInv'
  <2> SUFFICES ASSUME NEW u \in Sides
      PROVE /\ \A j, k \in DOMAIN chan'[u] : SameMessage(chan'[u][j], chan'[u][k]) => j = k
            /\ \A j, k \in DOMAIN outbox'[u] : outbox'[u][j] = outbox'[u][k] => j = k
            /\ \A j \in DOMAIN chan'[u] :
                 chan'[u][j].type = "Request" =>
                    /\ chan'[u][j].id \notin held[u]
                    /\ \A k \in DOMAIN outbox'[u] : outbox'[u][k] # chan'[u][j].id
            /\ \A k \in DOMAIN outbox'[u] : outbox'[u][k] \notin held[u]
    BY <1>1 DEF UniqueInv
  <2>1. CASE u # s
    BY <2>1, <1>2, <1>3 DEF ChannelInv, UniqueInv
  <2>2. CASE u = s
    <3>1. ASSUME NEW j \in DOMAIN chan'[s], NEW k \in DOMAIN chan'[s],
                 SameMessage(chan'[s][j], chan'[s][k])
          PROVE  j = k
      <4>1. j + 1 = k + 1
        BY <3>1, <1>2 DEF ChannelInv, UniqueInv
      <4> QED
        BY <4>1, <1>2
    <3>2. ASSUME NEW j \in DOMAIN outbox'[s], NEW k \in DOMAIN outbox'[s],
                 outbox'[s][j] = outbox'[s][k]
          PROVE  j = k
      BY <3>2, <1>3, <1>5 DEF ChannelInv, UniqueInv
    <3>3. ASSUME NEW j \in DOMAIN chan'[s], chan'[s][j].type = "Request"
          PROVE  /\ chan'[s][j].id \notin held[s]
                 /\ \A k \in DOMAIN outbox'[s] : outbox'[s][k] # chan'[s][j].id
      BY <3>3, <1>2, <1>3, <1>6 DEF ChannelInv, UniqueInv
    <3>4. ASSUME NEW k \in DOMAIN outbox'[s] PROVE outbox'[s][k] \notin held[s]
      BY <1>3, <1>5 DEF ChannelInv, UniqueInv
    <3> QED
      BY <2>2, <3>1, <3>2, <3>3, <3>4
  <2> QED
    BY <2>1, <2>2
<1>9. TrackerInv' /\ FreshInv' /\ OutcomeInv' /\ NoRequestForgotten'
  BY <1>1 DEF ChannelInv, TrackerInv, FreshInv, OutcomeInv, NoRequestForgotten
<1>10. DroppedInv' /\ ExpiryInv'
  BY <1>1, <1>2, <1>3, <1>4 DEF ChannelInv, DroppedInv, ExpiryInv
<1>11. DisconnectIsFinal'
  BY <1>1, <1>2 DEF ChannelInv, DisconnectIsFinal, Disconnected
<1> QED
  BY <1>7, <1>8, <1>9, <1>10, <1>11 DEF ChannelInv

LEMMA ReceiveResponseStep ==
    ASSUME TypeOK, ChannelInv, NEW s \in Sides, ReceiveResponse(s)
    PROVE  ChannelInv'
<1> DEFINE m == Head(chan[s])
<1>1. /\ UNCHANGED <<now, alive, outbox, held, expires, expired, sender, answer>>
      /\ chan[s] # <<>>
      /\ m.type = "Response"
      /\ chan' = [chan EXCEPT ![s] = Tail(@)]
      /\ pc[s] = "receive"
  BY DEF ReceiveResponse
<1>2. \/ /\ m.id \in pending[s]
         /\ pending' = [pending EXCEPT ![s] = @ \ {m.id}]
         /\ outcome' = [outcome EXCEPT ![m.id] = Answer(m.ok)]
      \/ UNCHANGED <<pending, outcome>>
  BY Zenon DEF ReceiveResponse
<1>3. UNCHANGED <<pc, result>> \/ \E res \in {"CallbackFailed", "RequestIdNotFound"} : Return(s, res)
  BY Zenon DEF ReceiveResponse
<1>4. /\ \A u \in Sides : u # s => pc'[u] = pc[u] /\ result'[u] = result[u]
      /\ result'[s] \in {result[s], "CallbackFailed", "RequestIdNotFound"}
  BY <1>3 DEF TypeOK, Return
<1>5. /\ 1 \in DOMAIN chan[s] /\ chan[s][1] = m
      /\ \A u \in Sides : u # s => chan'[u] = chan[u]
      /\ \A k \in DOMAIN chan'[s] :
           /\ k \in Nat /\ k + 1 # 1
           /\ k + 1 \in DOMAIN chan[s]
           /\ chan'[s][k] = chan[s][k + 1]
  BY <1>1, ReceiveEffect
<1>6. GoodMessage(s, m)
  BY <1>5 DEF ChannelInv, CopiesInv
<1>7. m.id \in Requests /\ answer[m.id] = Answer(m.ok) /\ sender[m.id] = s
  BY <1>1, <1>6 DEF GoodMessage
<1>8. \A k \in DOMAIN chan'[s] : chan'[s][k].type = "Response" => chan'[s][k].id # m.id
  <2>1. ASSUME NEW k \in DOMAIN chan'[s], chan'[s][k].type = "Response", chan'[s][k].id = m.id
        PROVE  FALSE
    <3>1. SameMessage(chan[s][k + 1], chan[s][1])
      BY <2>1, <1>1, <1>5 DEF SameMessage
    <3> QED
      BY <3>1, <1>5 DEF ChannelInv, UniqueInv
  <2> QED
    BY <2>1
<1>9. alive[s] /\ expired[s] = {}
  BY <1>1 DEF ChannelInv, DroppedInv, ExpiryInv
<1>10. /\ TrackerInv' /\ FreshInv' /\ OutcomeInv' /\ NoRequestForgotten'
       /\ \A x \in Requests : x # m.id => outcome'[x] = outcome[x]
       /\ \A u \in Sides : u # s => pending'[u] = pending[u]
       /\ \A x : x # m.id /\ x \in pending[s] => x \in pending'[s]
  <2>1. CASE UNCHANGED <<pending, outcome>>
    BY <2>1, <1>1 DEF ChannelInv, TrackerInv, FreshInv, OutcomeInv, NoRequestForgotten
  <2>2. CASE /\ m.id \in pending[s]
             /\ pending' = [pending EXCEPT ![s] = @ \ {m.id}]
             /\ outcome' = [outcome EXCEPT ![m.id] = Answer(m.ok)]
    <3>1. Answer(m.ok) # "none"
      BY DEF Answer
    <3>2. /\ TrackerInv' /\ FreshInv' /\ OutcomeInv' /\ NoRequestForgotten'
          /\ \A x \in Requests : x # m.id => outcome'[x] = outcome[x]
          /\ \A u \in Sides : pending'[u] = IF u = s THEN pending[u] \ {m.id} ELSE pending[u]
      <4>1. UNCHANGED <<now, alive, expires, sender, answer>>
        BY <1>1
      <4>2. /\ \A u \in Sides : u # s => expired'[u] = expired[u]
            /\ expired'[s] \subseteq expired[s] \ {m.id}
        BY <1>1, <1>9
      <4>3. CallbackEffect(s, m.id, Answer(m.ok))
        BY <2>2, <3>1, <1>7, <4>1, <4>2 DEF CallbackEffect
      <4> QED
        BY <4>3, CallbackRuns
    <3> QED
      BY <3>2
  <2> QED
    BY <2>1, <2>2, <1>2
<1>11. CopiesInv'
  <2> SUFFICES ASSUME NEW u \in Sides
      PROVE /\ \A k \in DOMAIN chan'[u] : GoodMessage(u, chan[u][k])'
            /\ \A k \in DOMAIN outbox[u] : Unanswered(u, outbox[u][k])'
            /\ \A x \in held[u] : Unanswered(u, x)'
    BY <1>1 DEF CopiesInv
  <2>1. ASSUME NEW k \in DOMAIN chan'[u] PROVE GoodMessage(u, chan[u][k])'
    <3>1. CASE u = s
      <4>1. GoodMessage(s, chan[s][k + 1]) /\ chan'[s][k] = chan[s][k + 1]
        BY <3>1, <1>5 DEF ChannelInv, CopiesInv
      <4>2. chan'[s][k].type = "Response" => chan'[s][k].id # m.id
        BY <3>1, <1>8
      <4> QED
        BY <3>1, <4>1, <4>2, <1>1, <1>10 DEF GoodMessage, Unanswered
    <3>2. CASE u # s
      <4>1. GoodMessage(u, chan[u][k]) /\ chan'[u] = chan[u]
        BY <3>2, <1>5 DEF ChannelInv, CopiesInv
      <4>2. chan[u][k].type = "Response" => chan[u][k].id # m.id
        BY <3>2, <4>1, <1>7 DEF GoodMessage
      <4> QED
        BY <3>2, <4>1, <4>2, <1>1, <1>10 DEF GoodMessage, Unanswered
    <3> QED
      BY <3>1, <3>2
  <2> QED
    BY <2>1, <1>1 DEF ChannelInv, CopiesInv, Unanswered
<1>12. UniqueInv'
  <2> SUFFICES ASSUME NEW u \in Sides
      PROVE /\ \A j, k \in DOMAIN chan'[u] : SameMessage(chan'[u][j], chan'[u][k]) => j = k
            /\ \A j \in DOMAIN chan'[u] :
                 chan'[u][j].type = "Request" =>
                    /\ chan'[u][j].id \notin held[u]
                    /\ \A k \in DOMAIN outbox[u] : outbox[u][k] # chan'[u][j].id
    BY <1>1 DEF ChannelInv, UniqueInv
  <2>1. CASE u # s
    BY <2>1, <1>5 DEF ChannelInv, UniqueInv
  <2>2. CASE u = s
    <3>1. ASSUME NEW j \in DOMAIN chan'[s], NEW k \in DOMAIN chan'[s],
                 SameMessage(chan'[s][j], chan'[s][k])
          PROVE  j = k
      <4>1. j + 1 = k + 1
        BY <3>1, <1>5 DEF ChannelInv, UniqueInv
      <4> QED
        BY <4>1, <1>5
    <3>2. ASSUME NEW j \in DOMAIN chan'[s], chan'[s][j].type = "Request"
          PROVE  /\ chan'[s][j].id \notin held[s]
                 /\ \A k \in DOMAIN outbox[s] : outbox[s][k] # chan'[s][j].id
      BY <3>2, <1>5 DEF ChannelInv, UniqueInv
    <3> QED
      BY <2>2, <3>1, <3>2
  <2> QED
    BY <2>1, <2>2
<1>13. DroppedInv' /\ ExpiryInv'
  BY <1>1, <1>4, <1>5, <1>9, <1>10 DEF ChannelInv, DroppedInv, ExpiryInv
<1>14. DisconnectIsFinal'
  BY <1>1, <1>4, <1>5 DEF ChannelInv, DisconnectIsFinal, Disconnected
<1> QED
  BY <1>10, <1>11, <1>12, <1>13, <1>14 DEF ChannelInv

-----------------------------------------------------------------------------
LEMMA NextChannel ==
    ASSUME TypeOK, ChannelInv, [Next]_vars
    PROVE  ChannelInv'
<1>1. ASSUME NEW s \in Sides, Process(s) PROVE ChannelInv'
  BY <1>1, ProcessStartStep, ExpireOneStep, ExpireDoneStep, ReceiveRequestStep,
     ReceiveResponseStep, ReceiveEmptyStep DEF Process
<1>2. ASSUME NEW s \in Sides, Actor(s) PROVE ChannelInv'
  <2>1. ASSUME Close(s) PROVE ChannelInv'
    BY <2>1, DropStep DEF Close
  <2>2. ASSUME RespondPublishError(s) PROVE ChannelInv'
    BY <2>2, DropStep DEF RespondPublishError
  <2> QED
    BY <1>2, <2>1, <2>2, RequestStep, PublishStep, DrainStep, RespondStep, DiscardStep
       DEF Actor
<1>3. CASE UNCHANGED vars
  <2>1. TrackerInv' /\ ExpiryInv' /\ DroppedInv' /\ DisconnectIsFinal'
    BY <1>3 DEF ChannelInv, TrackerInv, ExpiryInv, DroppedInv, DisconnectIsFinal, Disconnected, vars
  <2> QED
    BY <1>3, <2>1, QuietStep DEF ChannelInv, vars
<1> QED
  BY <1>1, <1>2, <1>3, TickStep DEF Next

(* THEOREM. The inductive invariant holds in every reachable state.         *)
THEOREM ChannelInvariant == Spec => []ChannelInv
<1>1. Init => ChannelInv
  BY InitChannel
<1>2. TypeOK /\ ChannelInv /\ [Next]_vars => ChannelInv'
  BY NextChannel
<1> QED
  BY <1>1, <1>2, TypeCorrect, PTL DEF Spec

(* THEOREM. The RequestIdNotFound error of GhostTracker::handle only ever   *)
(* reports the late answer to a request that timed out.                     *)
THEOREM LateResponse == Spec => []LateResponseOnlyAfterTimeout
<1>1. ChannelInv => LateResponseOnlyAfterTimeout
  BY DEF ChannelInv, CopiesInv, GoodMessage, LateResponseOnlyAfterTimeout
<1> QED
  BY <1>1, ChannelInvariant, PTL

(* THEOREM. While its endpoint lives, a request is pending until its        *)
(* callback runs, whatever error path process() takes.                      *)
THEOREM RequestsKept == Spec => []NoRequestForgotten
<1>1. ChannelInv => NoRequestForgotten
  BY DEF ChannelInv
<1> QED
  BY <1>1, ChannelInvariant, PTL

(* THEOREM. After EndpointDisconnected nothing is, or will be, queued.      *)
THEOREM DisconnectFinal == Spec => []DisconnectIsFinal
<1>1. ChannelInv => DisconnectIsFinal
  BY DEF ChannelInv
<1> QED
  BY <1>1, ChannelInvariant, PTL

-----------------------------------------------------------------------------
(* The two steps that run a callback, seen through CallbackEffect.          *)
LEMMA ExpireOneEffect ==
    ASSUME TypeOK, ChannelInv, NEW s \in Sides, ExpireOne(s)
    PROVE  \E r \in expired[s] : CallbackEffect(s, r, "timeout") /\ now > expires[r]
<1>1. PICK r \in expired[s] :
        /\ pending' = [pending EXCEPT ![s] = @ \ {r}]
        /\ outcome' = [outcome EXCEPT ![r] = "timeout"]
        /\ \/ expired' = [expired EXCEPT ![s] = @ \ {r}]
           \/ expired' = [expired EXCEPT ![s] = {}]
  BY Zenon DEF ExpireOne
<1>2. UNCHANGED <<now, alive, expires, sender, answer>>
  BY DEF ExpireOne, endpointVars
<1>3. /\ \A u \in Sides : u # s => expired'[u] = expired[u]
      /\ expired'[s] \subseteq expired[s] \ {r}
  BY <1>1 DEF TypeOK
<1>4. r \in pending[s] /\ now > expires[r]
  BY DEF ChannelInv, TrackerInv
<1>5. CallbackEffect(s, r, "timeout")
  BY <1>1, <1>2, <1>3, <1>4 DEF CallbackEffect
<1> QED
  BY <1>4, <1>5

LEMMA ReceiveResponseEffect ==
    ASSUME TypeOK, ChannelInv, NEW s \in Sides, ReceiveResponse(s)
    PROVE  \/ UNCHANGED <<alive, sender, answer, outcome>>
           \/ \E r \in Requests : CallbackEffect(s, r, answer[r]) /\ answer[r] \in {"ok", "err"}
<1> DEFINE m == Head(chan[s])
<1>1. /\ UNCHANGED <<now, alive, expires, expired, sender, answer>>
      /\ chan[s] # <<>>
      /\ m.type = "Response"
      /\ chan' = [chan EXCEPT ![s] = Tail(@)]
      /\ pc[s] = "receive"
  BY DEF ReceiveResponse
<1>2. \/ /\ m.id \in pending[s]
         /\ pending' = [pending EXCEPT ![s] = @ \ {m.id}]
         /\ outcome' = [outcome EXCEPT ![m.id] = Answer(m.ok)]
      \/ UNCHANGED <<pending, outcome>>
  BY Zenon DEF ReceiveResponse
<1>3. GoodMessage(s, m)
  BY <1>1, ReceiveEffect DEF ChannelInv, CopiesInv
<1>4. m.id \in Requests /\ answer[m.id] = Answer(m.ok) /\ Answer(m.ok) \in {"ok", "err"}
  BY <1>1, <1>3 DEF GoodMessage, Answer
<1>5. expired[s] = {}
  BY <1>1 DEF ChannelInv, ExpiryInv
<1>6. CASE /\ m.id \in pending[s]
           /\ pending' = [pending EXCEPT ![s] = @ \ {m.id}]
           /\ outcome' = [outcome EXCEPT ![m.id] = Answer(m.ok)]
  <2>1. expired'[s] \subseteq expired[s] \ {m.id} /\ \A u \in Sides : u # s => expired'[u] = expired[u]
    BY <1>1, <1>5
  <2>2. CallbackEffect(s, m.id, answer[m.id])
    BY <1>1, <1>4, <1>6, <2>1 DEF CallbackEffect
  <2> QED
    BY <1>4, <2>2
<1> QED
  BY <1>1, <1>2, <1>6

(* Every other step leaves the outcomes alone. *)
LEMMA OutcomeSteps ==
    ASSUME [Next]_vars, ~\E s \in Sides : ExpireOne(s) \/ ReceiveResponse(s)
    PROVE  outcome' = outcome
  BY DEF Next, Process, Actor, vars, Tick, Request, Publish, DrainMessages, RespondRequest,
         DiscardMessage, Close, RespondPublishError, DropEndpoint, ProcessStart, ExpireDone,
         ReceiveRequest, ReceiveEmpty, trackerVars

(* THEOREM. Callbacks run at most once, and with a timeout only after the   *)
(* expiry of their bookmark.                                                *)
THEOREM CallbackOnce == Spec => CallbackRunsOnce
<1> DEFINE Once == \A r \in Requests :
                      outcome'[r] # outcome[r] =>
                         /\ outcome[r] = "none"
                         /\ outcome'[r] = "timeout" => now > expires[r]
<1>1. TypeOK /\ ChannelInv /\ [Next]_vars => [Once]_vars
  <2> SUFFICES ASSUME TypeOK, ChannelInv, [Next]_vars PROVE Once
    OBVIOUS
  <2>1. ASSUME NEW s \in Sides, ExpireOne(s) PROVE Once
    <3>1. PICK r \in expired[s] : CallbackEffect(s, r, "timeout") /\ now > expires[r]
      BY <2>1, ExpireOneEffect
    <3>2. /\ outcome[r] = "none"
          /\ \A x \in Requests : x # r => outcome'[x] = outcome[x]
      BY <3>1, CallbackRuns
    <3> QED
      BY <3>1, <3>2
  <2>2. ASSUME NEW s \in Sides, ReceiveResponse(s) PROVE Once
    <3>1. CASE UNCHANGED outcome
      BY <3>1
    <3>2. CASE \E r \in Requests : CallbackEffect(s, r, answer[r]) /\ answer[r] \in {"ok", "err"}
      <4>1. PICK r \in Requests : CallbackEffect(s, r, answer[r]) /\ answer[r] \in {"ok", "err"}
        BY <3>2
      <4>2. /\ outcome[r] = "none" /\ outcome'[r] = answer[r]
            /\ \A x \in Requests : x # r => outcome'[x] = outcome[x]
        BY <4>1, CallbackRuns
      <4> QED
        BY <4>1, <4>2
    <3> QED
      BY <2>2, <3>1, <3>2, ReceiveResponseEffect
  <2>3. CASE outcome' = outcome
    BY <2>3
  <2> QED
    BY <2>1, <2>2, <2>3, OutcomeSteps
<1> QED
  BY <1>1, TypeCorrect, ChannelInvariant, PTL DEF Spec, CallbackRunsOnce

-----------------------------------------------------------------------------
(* The status of a request depends on the sender, outcome and alive only.   *)
LEMMA StatusUnchanged ==
    ASSUME UNCHANGED <<sender, outcome, alive>>
    PROVE  serviceStatus' = serviceStatus
  BY DEF serviceStatus

(* A callback is a Complete step of the service. *)
LEMMA CallbackCompletes ==
    ASSUME TypeOK, ChannelInv, NEW s \in Sides, NEW r, NEW v \in {"timeout", "ok", "err"},
           CallbackEffect(s, r, v)
    PROVE  Service!Next
<1>1. /\ r \in Requests /\ sender[r] = s /\ alive[s] /\ outcome[r] = "none"
      /\ \A x \in Requests : x # r => outcome'[x] = outcome[x]
      /\ outcome'[r] = v
  BY CallbackRuns
<1>2. UNCHANGED <<alive, sender, answer>> /\ (v = "timeout" \/ v = answer[r])
  BY DEF CallbackEffect
<1>3. serviceStatus[r] = "open"
  BY <1>1 DEF serviceStatus, Sides
<1>4. serviceStatus' = [serviceStatus EXCEPT ![r] = v]
  <2>1. \A x \in Requests : serviceStatus'[x] = IF x = r THEN v ELSE serviceStatus[x]
    BY <1>1, <1>2 DEF serviceStatus, Sides
  <2>2. serviceStatus' = [x \in Requests |-> serviceStatus'[x]]
    BY DEF serviceStatus
  <2>3. serviceStatus = [x \in Requests |-> serviceStatus[x]]
    BY DEF serviceStatus
  <2> QED
    BY <2>1, <2>2, <2>3
<1>5. Service!Complete(r)
  <2>1. v \in Service!Outcomes /\ (v \in Service!Answers => v = answer[r])
    BY <1>2 DEF Service!Outcomes, Service!Answers
  <2> QED
    BY <1>2, <1>3, <1>4, <2>1 DEF Service!Complete
<1> QED
  BY <1>1, <1>5 DEF Service!Next

(* Dropping an endpoint abandons the open requests it had made. *)
LEMMA DropAbandons ==
    ASSUME TypeOK, NEW s \in Sides, NEW kept, DropEndpoint(s, kept)
    PROVE  Service!Next
<1> DEFINE rs == {r \in Requests : serviceStatus[r] = "open" /\ sender[r] = s}
<1>1. UNCHANGED <<sender, answer, outcome>>
  BY DEF DropEndpoint
<1>2. alive'[s] = FALSE /\ \A u \in Sides : u # s => alive'[u] = alive[u]
  BY DEF DropEndpoint, TypeOK
<1>3. \A r \in Requests : sender[r] \in Sides \cup {"none"} /\ outcome[r] # "open"
  BY MessageTypes DEF TypeOK
<1>4. \A r \in Requests : serviceStatus'[r] = IF r \in rs THEN "abandoned" ELSE serviceStatus[r]
  <2> SUFFICES ASSUME NEW r \in Requests
      PROVE  serviceStatus'[r] = IF r \in rs THEN "abandoned" ELSE serviceStatus[r]
    OBVIOUS
  <2>1. CASE sender[r] = "none" \/ outcome[r] # "none"
    BY <2>1, <1>1, <1>3 DEF serviceStatus
  <2>2. CASE sender[r] # "none" /\ outcome[r] = "none" /\ sender[r] = s
    BY <2>2, <1>1, <1>2 DEF serviceStatus
  <2>3. CASE sender[r] # "none" /\ outcome[r] = "none" /\ sender[r] # s
    <3>1. alive'[sender[r]] = alive[sender[r]]
      BY <2>3, <1>2, <1>3
    <3> QED
      BY <2>3, <3>1, <1>1 DEF serviceStatus
  <2> QED
    BY <2>1, <2>2, <2>3
<1>5. serviceStatus' = [r \in Requests |-> IF r \in rs THEN "abandoned" ELSE serviceStatus[r]]
  <2>1. serviceStatus' = [x \in Requests |-> serviceStatus'[x]]
    BY DEF serviceStatus
  <2> QED
    BY <2>1, <1>4
<1>6. rs \in SUBSET Requests /\ Service!Abandon(rs)
  BY <1>1, <1>5 DEF Service!Abandon
<1> QED
  BY <1>6 DEF Service!Next

LEMMA RequestOpens ==
    ASSUME TypeOK, ChannelInv, NEW s \in Sides, Request(s)
    PROVE  Service!Next
<1>1. PICK r \in Requests : sender[r] = "none" /\ sender' = [sender EXCEPT ![r] = s]
  BY DEF Request
<1>2. UNCHANGED <<alive, answer, outcome>> /\ alive[s]
  BY DEF Request
<1>3. outcome[r] = "none" /\ s # "none"
  BY <1>1 DEF ChannelInv, FreshInv, Sides
<1>4. sender'[r] = s /\ \A x \in Requests : x # r => sender'[x] = sender[x]
  BY <1>1, MessageTypes DEF TypeOK
<1>5. \A x \in Requests : serviceStatus'[x] = IF x = r THEN "open" ELSE serviceStatus[x]
  BY <1>2, <1>3, <1>4 DEF serviceStatus
<1>6. serviceStatus' = [serviceStatus EXCEPT ![r] = "open"]
  <2>1. serviceStatus' = [x \in Requests |-> serviceStatus'[x]]
    BY DEF serviceStatus
  <2>2. serviceStatus = [x \in Requests |-> serviceStatus[x]]
    BY DEF serviceStatus
  <2> QED
    BY <2>1, <2>2, <1>5
<1>7. serviceStatus[r] = "none"
  BY <1>1 DEF serviceStatus
<1> QED
  BY <1>2, <1>6, <1>7 DEF Service!Next, Service!Open

LEMMA RespondAnswers ==
    ASSUME TypeOK, ChannelInv, NEW s \in Sides, RespondRequest(s)
    PROVE  Service!Next
<1>1. PICK r \in held[s] \cap Requests, ok \in BOOLEAN :
        answer' = [answer EXCEPT ![r] = Answer(ok)]
  BY DEF RespondRequest
<1>2. UNCHANGED <<alive, sender, outcome>>
  BY DEF RespondRequest, trackerVars
<1>3. sender[r] = Other(s) /\ answer[r] = "none" /\ Other(s) \in Sides
  BY <1>1, SidesFacts DEF ChannelInv, CopiesInv, Unanswered
<1>4. serviceStatus[r] # "none"
  BY <1>1, <1>3 DEF serviceStatus, Sides
<1>5. Answer(ok) \in Service!Answers
  BY DEF Answer, Service!Answers
<1>6. Service!Answer(r)
  BY <1>1, <1>2, <1>3, <1>4, <1>5, StatusUnchanged DEF Service!Answer
<1> QED
  BY <1>1, <1>6 DEF Service!Next

(* THEOREM. The channel implements the RequestResponse service.             *)
THEOREM Refinement == Spec => ImplementsRequestResponse
<1>1. Init => Service!Init
  BY MessageTypes DEF Init, Service!Init, serviceStatus
<1>2. TypeOK /\ ChannelInv /\ [Next]_vars => [Service!Next]_(Service!vars)
  <2> SUFFICES ASSUME TypeOK, ChannelInv, [Next]_vars
      PROVE  Service!Next \/ UNCHANGED <<serviceStatus, answer>>
    BY DEF Service!vars
  <2>1. ASSUME NEW s \in Sides, ExpireOne(s) PROVE Service!Next
    BY <2>1, ExpireOneEffect, CallbackCompletes
  <2>2. ASSUME NEW s \in Sides, ReceiveResponse(s)
        PROVE  Service!Next \/ UNCHANGED <<serviceStatus, answer>>
    BY <2>2, ReceiveResponseEffect, CallbackCompletes, StatusUnchanged
  <2>3. ASSUME NEW s \in Sides, Close(s) \/ RespondPublishError(s) PROVE Service!Next
    BY <2>3, DropAbandons DEF Close, RespondPublishError
  <2>4. ASSUME NEW s \in Sides, Publish(s) PROVE UNCHANGED <<serviceStatus, answer>>
    <3>1. PICK e \in Events : sender' = [sender EXCEPT ![e] = s]
      BY <2>4 DEF Publish
    <3>2. \A x \in Requests : sender'[x] = sender[x]
      BY <3>1, ChannelAssumption, MessageTypes DEF TypeOK
    <3>3. UNCHANGED <<alive, answer, outcome>>
      BY <2>4 DEF Publish, trackerVars
    <3> QED
      BY <3>2, <3>3 DEF serviceStatus
  <2>5. CASE UNCHANGED <<sender, answer, outcome, alive>>
    BY <2>5, StatusUnchanged
  <2>6. ASSUME NEW s \in Sides,
               DrainMessages(s) \/ DiscardMessage(s) \/ ProcessStart(s) \/ ExpireDone(s)
                 \/ ReceiveRequest(s) \/ ReceiveEmpty(s)
        PROVE  UNCHANGED <<sender, answer, outcome, alive>>
    BY <2>6 DEF DrainMessages, DiscardMessage, ProcessStart, ExpireDone, ReceiveRequest,
                ReceiveEmpty, trackerVars
  <2>7. Tick \/ UNCHANGED vars => UNCHANGED <<sender, answer, outcome, alive>>
    BY DEF Tick, vars, trackerVars
  <2> QED
    BY <2>1, <2>2, <2>3, <2>4, <2>5, <2>6, <2>7, RequestOpens, RespondAnswers
       DEF Next, Process, Actor
<1> QED
  BY <1>1, <1>2, TypeCorrect, ChannelInvariant, PTL
     DEF Spec, ImplementsRequestResponse, Service!Spec

=============================================================================
