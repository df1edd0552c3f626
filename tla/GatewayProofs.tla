--------------------------- MODULE GatewayProofs ---------------------------
(***************************************************************************)
(* Proofs about Gateway for any set of sends and any timeouts, as long as  *)
(* a ghost request lasts as long as a send may be retried.                 *)
(***************************************************************************)
EXTENDS Gateway, TLAPS

Inv == TypeOK /\ GatewayInv /\ TimeoutPanicOnlyAfterError

LEMMA StepFacts ==
    /\ Steps = {"lookup", "query", "encode", "decode", "send"}
    /\ Stages = {"none", "pending", "lookup", "query", "encode", "decode", "send", "ok", "err"}
    /\ StepsOf("parent") = {}
    /\ StepsOf("transport") = {"send"}
    /\ StepsOf("encoder") = {"encode", "decode"}
    /\ StepsOf("dht") = {"lookup", "query"}
    /\ Ended = {"ok", "err"}
    /\ Polled = {"dht", "encoder"}
    /\ Children = {"parent", "transport", "encoder", "dht"}
    /\ Phases = {"parent", "transport", "encoder", "dht", "pending"}
  BY DEF Steps, DhtSteps, EncoderSteps, Stages, StepsOf, Ended, Polled, Children, Phases

LEMMA StepsOfSteps == \A c \in Children : StepsOf(c) \subseteq Steps
  BY StepFacts

(* The request of an answered or an expired step stays a request. *)
LEMMA RequestFacts ==
    ASSUME NEW o \in Requests
    PROVE  /\ o.send \in Sends
           /\ o.step \in Steps
           /\ o.late \in BOOLEAN
           /\ o.answer \in {"none", "ok", "err"}
  BY DEF Requests

LEMMA AskFacts ==
    ASSUME NEW s \in Sends, NEW step \in Steps
    PROVE  /\ Ask(s, step) \in Requests
           /\ Ask(s, step).send = s
           /\ Ask(s, step).step = step
           /\ Ask(s, step).answer = "none"
           /\ Ask(s, step).late = FALSE
  BY DEF Ask, Requests

-----------------------------------------------------------------------------
(* What every use of Settle has to show for the invariant: the requests it  *)
(* keeps belong to other sends or to sends it gives up, and no send with a  *)
(* copy at the transport goes on.                                           *)
Settles(S, to, requests) ==
    /\ S \subseteq Sends
    /\ to \in [S -> Stages \ {"none"}]
    /\ requests \subseteq Requests
    /\ \A o \in owed : o.send \notin S => o \in requests
    /\ \A o \in requests : o.send \in S => o.late /\ to[o.send] = "err"
    /\ \A o \in requests : o.send \notin S =>
         (o.late => stage[o.send] = "err") /\ (~o.late => stage[o.send] = o.step)
    /\ \A o, q \in requests : o.send = q.send => o = q
    /\ \A o \in requests : o.answer = "err" => o.step \in {"lookup", "send"}
    /\ \A o \in requests : o.step = "send" =>
         copies[o.send] = (IF o.answer = "err" THEN 0 ELSE 1)
    /\ \A s \in S : copies[s] = 1 => to[s] \in Ended
    /\ \A s \in S : to[s] = "ok" => copies[s] = 1

LEMMA SettleType ==
    ASSUME TypeOK, NEW S, NEW to, NEW requests, Settles(S, to, requests), Settle(to, requests)
    PROVE  /\ stage' \in [Sends -> Stages]
           /\ resolved' \in [Sends -> BOOLEAN]
           /\ ttl' \in [Sends -> -1..RetryTimeout]
           /\ age' \in [Sends -> 0..RetryInterval]
           /\ left' \in [Sends -> -1..GhostTimeout]
           /\ owed' \subseteq Requests
           /\ copies' \in [Sends -> Nat]
<1>1. DOMAIN to = S
  BY DEF Settles
<1>2. stage' \in [Sends -> Stages]
  BY <1>1 DEF Settles, Settle, TypeOK
<1>3. resolved' \in [Sends -> BOOLEAN]
  BY <1>1 DEF Settle, TypeOK
<1>4. ttl' \in [Sends -> -1..RetryTimeout] /\ left' \in [Sends -> -1..GhostTimeout]
  BY <1>1, GatewayAssumption DEF Settle, TypeOK, ExpiresIn, RequestTimeout
<1>5. age' \in [Sends -> 0..RetryInterval]
  BY <1>1, GatewayAssumption DEF Settle, TypeOK, LastAttempt
<1>6. ASSUME NEW o \in owed' PROVE o \in Requests
  <2>1. CASE o \in requests
    BY <2>1 DEF Settles
  <2>2. CASE o \notin requests
    <3>1. PICK s \in S : to[s] \in Steps /\ o = Ask(s, to[s])
      BY <1>1, <2>2 DEF Settle
    <3>2. s \in Sends
      BY DEF Settles
    <3> QED
      BY <3>1, <3>2, AskFacts
  <2> QED
    BY <2>1, <2>2
<1>7. copies' \in [Sends -> Nat]
  BY <1>1 DEF Settle, TypeOK
<1> QED
  BY <1>2, <1>3, <1>4, <1>5, <1>6, <1>7

(* A request after Settle is one that was kept, or the new one of its send. *)
LEMMA SettleRequest ==
    ASSUME NEW S, NEW to, NEW requests, Settles(S, to, requests), Settle(to, requests),
           NEW o \in owed'
    PROVE  \/ o \in requests
           \/ /\ o.send \in S
              /\ o.step = to[o.send]
              /\ to[o.send] \in Steps
              /\ ~o.late
              /\ o.answer = "none"
<1>1. DOMAIN to = S
  BY DEF Settles
<1>2. CASE o \notin requests
  <2>1. PICK s \in S : to[s] \in Steps /\ o = Ask(s, to[s])
    BY <1>1, <1>2 DEF Settle
  <2>2. s \in Sends
    BY DEF Settles
  <2>3. o.send = s /\ o.step = to[s] /\ o.answer = "none" /\ o.late = FALSE
    BY <2>1, <2>2, AskFacts
  <2> QED
    BY <2>1, <2>3
<1> QED
  BY <1>2

LEMMA SettleInv ==
    ASSUME TypeOK, OwedInv, WaitInv, ExpiryInv, CopyInv,
           NEW S, NEW to, NEW requests, Settles(S, to, requests), Settle(to, requests)
    PROVE  /\ OwedInv'
           /\ WaitInv'
           /\ ExpiryInv'
           /\ CopyInv'
<1> DEFINE Kept(o) == o \in requests
           New(o) == /\ o.send \in S
                     /\ o.step = to[o.send]
                     /\ to[o.send] \in Steps
                     /\ ~o.late
                     /\ o.answer = "none"
<1>0. DOMAIN to = S /\ S \subseteq Sends
  BY DEF Settles
<1>1. \A s \in Sends : /\ s \in S => stage'[s] = to[s]
                       /\ s \notin S => stage'[s] = stage[s]
  BY <1>0 DEF Settle
<1>2. \A o \in owed' : Kept(o) \/ New(o)
  BY SettleRequest
<1>3. \A o \in owed' : o.send \in Sends /\ o.step \in Steps
  BY SettleType, RequestFacts
<1>4. OwedInv'
  <2>1. \A o \in owed' : o.late => stage'[o.send] = "err"
    BY <1>1, <1>2, <1>3 DEF Settles
  <2>2. \A o \in owed' : ~o.late => stage'[o.send] = o.step
    BY <1>1, <1>2, <1>3 DEF Settles
  <2>3. ASSUME NEW o \in owed', NEW q \in owed', o.send = q.send PROVE o = q
    <3>1. CASE Kept(o) /\ Kept(q)
      BY <2>3, <3>1 DEF Settles
    <3>2. CASE New(o) /\ New(q)
      <4>1. o \notin requests /\ q \notin requests
        BY <3>2, StepFacts DEF Settles
      <4>2. PICK x \in S : to[x] \in Steps /\ o = Ask(x, to[x])
        BY <1>0, <4>1 DEF Settle
      <4>3. PICK y \in S : to[y] \in Steps /\ q = Ask(y, to[y])
        BY <1>0, <4>1 DEF Settle
      <4>4. o.send = x /\ q.send = y
        BY <1>0, <4>2, <4>3, AskFacts
      <4>5. x = y
        BY <2>3, <4>4
      <4> QED
        BY <4>2, <4>3, <4>5
    <3>3. ~(Kept(o) /\ New(q)) /\ ~(New(o) /\ Kept(q))
      BY <2>3, StepFacts DEF Settles
    <3> QED
      BY <1>2, <3>1, <3>2, <3>3
  <2>4. \A o \in owed' : o.answer = "err" => o.step \in {"lookup", "send"}
    BY <1>2 DEF Settles
  <2> QED
    BY <2>1, <2>2, <2>3, <2>4 DEF OwedInv
<1>5. ExpiryInv'
  BY <1>0, <1>1, SettleType, GatewayAssumption DEF ExpiryInv, Settle, TypeOK, RequestTimeout
<1>6. CopyInv'
  <2>1. ASSUME NEW s \in Sends
        PROVE  copies'[s] = IF s \in S /\ to[s] = "send" THEN copies[s] + 1 ELSE copies[s]
    BY <1>0 DEF Settle
  <2>2. \A s \in S : copies[s] = 1 => to[s] \in {"ok", "err"}
    BY StepFacts DEF Settles
  <2>3. \A s \in Sends : copies'[s] \in {0, 1}
    BY <1>0, <2>1, <2>2 DEF CopyInv
  <2>4. \A s \in Sends : copies'[s] = 1 => stage'[s] \in Ended \/ stage'[s] = "send"
    BY <1>0, <1>1, <2>1, <2>2, StepFacts DEF CopyInv
  <2>5. \A s \in Sends : stage'[s] = "ok" => copies'[s] = 1
    BY <1>0, <1>1, <2>1 DEF CopyInv, Settles
  <2>6. ASSUME NEW o \in owed', o.step = "send"
        PROVE  copies'[o.send] = IF o.answer = "err" THEN 0 ELSE 1
    <3>1. CASE New(o)
      BY <1>0, <1>3, <2>1, <2>2, <2>6, <3>1 DEF CopyInv
    <3>2. CASE Kept(o)
      <4>1. ~(o.send \in S /\ to[o.send] = "send")
        BY <3>2 DEF Settles
      <4>2. copies[o.send] = IF o.answer = "err" THEN 0 ELSE 1
        BY <2>6, <3>2 DEF Settles
      <4> QED
        BY <1>3, <2>1, <4>1, <4>2
    <3> QED
      BY <1>2, <3>1, <3>2
  <2> QED
    BY <2>3, <2>4, <2>5, <2>6 DEF CopyInv
<1>7. ASSUME NEW s \in Sends, stage'[s] \in Steps
      PROVE  \E o \in owed' : o.send = s /\ ~o.late
  <2>1. CASE s \in S
    <3>1. Ask(s, to[s]) \in owed'
      BY <1>0, <1>1, <1>7, <2>1 DEF Settle
    <3> QED
      BY <1>1, <1>7, <2>1, <3>1, AskFacts
  <2>2. CASE s \notin S
    <3>1. PICK o \in owed : o.send = s /\ ~o.late
      BY <1>1, <1>7, <2>2 DEF WaitInv
    <3>2. o \in owed'
      BY <2>2, <3>1 DEF Settles, Settle
    <3> QED
      BY <3>1, <3>2
  <2> QED
    BY <2>1, <2>2
<1> QED
  BY <1>4, <1>5, <1>6, <1>7 DEF WaitInv

-----------------------------------------------------------------------------
(* The four uses of Settle *)

LEMMA ExpireSettles ==
    ASSUME TypeOK, OwedInv, ExpiryInv, CopyInv, NEW c \in Children,
           \A s \in TimedOut(c) : stage[s] \notin {"query", "decode"}
    PROVE  /\ Settles(TimedOut(c), [s \in TimedOut(c) |-> QueuePending(s)], Forget(TimedOut(c)))
           /\ \A s \in TimedOut(c) : QueuePending(s) = "err"
<1> DEFINE S == TimedOut(c)
           to == [s \in S |-> QueuePending(s)]
<1>1. S \subseteq Sends
  BY DEF TimedOut
<1>2. ASSUME NEW s \in S
      PROVE  QueuePending(s) = "err" /\ stage[s] \in Steps
  <2>1. s \in Sends /\ stage[s] \in StepsOf(c) /\ left[s] < 0
    BY DEF TimedOut
  <2>2. stage[s] \in {"lookup", "encode", "send"}
    BY <2>1, StepFacts, StepsOfSteps
  <2>3. ttl[s] <= left[s]
    BY <1>1, <2>2 DEF ExpiryInv
  <2>4. ttl[s] < 0
    BY <2>1, <2>3, GatewayAssumption DEF TypeOK
  <2> QED
    BY <2>2, <2>4, StepFacts DEF QueuePending
<1>3. \A s \in S : to[s] = "err"
  BY <1>2
<1>4. ASSUME NEW r \in Forget(S)
      PROVE  \E o \in owed : /\ r = [o EXCEPT !.late = o.late \/ o.send \in S]
                             /\ o \in Requests
                             /\ r \in Requests
                             /\ r.send = o.send /\ r.step = o.step /\ r.answer = o.answer
                             /\ r.late <=> o.late \/ o.send \in S
  <2>1. PICK o \in owed : r = [o EXCEPT !.late = o.late \/ o.send \in S]
    BY DEF Forget
  <2>2. o \in Requests
    BY DEF TypeOK
  <2> QED
    BY <2>1, <2>2 DEF Requests
<1> HIDE DEF S, to
<1>5. \A o \in owed : o.send \notin S => o \in Forget(S)
  <2> SUFFICES ASSUME NEW o \in owed, o.send \notin S PROVE o \in Forget(S)
    OBVIOUS
  <2>1. o \in Requests
    BY DEF TypeOK
  <2>2. o = [o EXCEPT !.late = o.late \/ o.send \in S]
    BY <2>1 DEF Requests
  <2> QED
    BY <2>2 DEF Forget
<1>6. \A r \in Forget(S) : r.send \in S => r.late /\ to[r.send] = "err"
  BY <1>3, <1>4
<1>7. \A r \in Forget(S) : r.send \notin S =>
         (r.late => stage[r.send] = "err") /\ (~r.late => stage[r.send] = r.step)
  BY <1>4 DEF OwedInv
<1>8. ASSUME NEW r \in Forget(S), NEW q \in Forget(S), r.send = q.send PROVE r = q
  <2>1. PICK o \in owed : /\ r = [o EXCEPT !.late = o.late \/ o.send \in S]
                          /\ r.send = o.send
    BY <1>4
  <2>2. PICK u \in owed : /\ q = [u EXCEPT !.late = u.late \/ u.send \in S]
                          /\ q.send = u.send
    BY <1>4
  <2>3. o = u
    BY <1>8, <2>1, <2>2 DEF OwedInv
  <2> QED
    BY <2>1, <2>2, <2>3
<1>9. \A r \in Forget(S) : r.step = "send" =>
         copies[r.send] = (IF r.answer = "err" THEN 0 ELSE 1)
  <2> SUFFICES ASSUME NEW r \in Forget(S), r.step = "send"
               PROVE  copies[r.send] = (IF r.answer = "err" THEN 0 ELSE 1)
    OBVIOUS
  <2>1. PICK o \in owed : /\ o \in Requests
                          /\ r.send = o.send /\ r.step = o.step /\ r.answer = o.answer
    BY <1>4
  <2> QED
    BY <2>1, RequestFacts DEF CopyInv
<1>10. \A r \in Forget(S) : r.answer = "err" => r.step \in {"lookup", "send"}
  BY <1>4 DEF OwedInv
<1>11. to \in [S -> Stages \ {"none"}]
  BY <1>2, StepFacts DEF to
<1>12. Settles(S, to, Forget(S))
  BY <1>1, <1>3, <1>4, <1>5, <1>6, <1>7, <1>8, <1>9, <1>11, <1>10, StepFacts DEF Settles
<1> QED
  BY <1>2, <1>12 DEF S, to

(* The result of a callback, by the step it answers. *)
LEMMA CallbackFacts ==
    ASSUME TypeOK, NEW o \in owed, o.answer # "none"
    PROVE  /\ Callback(o) \in {"encode", "send", "pending", "ok", "err"}
           /\ o.step = "encode" => Callback(o) = "send"
           /\ o.step = "decode" => Callback(o) = "pending"
           /\ o.step \in {"lookup", "query"} => Callback(o) \in {"encode", "pending", "err"}
           /\ o.step = "send" /\ o.answer = "ok" => Callback(o) = "ok"
           /\ o.step = "send" /\ o.answer = "err" => Callback(o) \in {"pending", "err"}
  BY StepFacts, RequestFacts DEF Callback, QueuePending, DhtSteps, TypeOK

LEMMA ReceiveSettles ==
    ASSUME TypeOK, OwedInv, CopyInv, NEW o \in owed, ~o.late, o.answer # "none"
    PROVE  Settles({o.send}, [s \in {o.send} |-> Callback(o)], owed \ {o})
<1> DEFINE to == [s \in {o.send} |-> Callback(o)]
<1>1. /\ o \in Requests
      /\ o.send \in Sends
      /\ o.step \in Steps
      /\ o.answer \in {"ok", "err"}
  BY RequestFacts DEF TypeOK
<1>2. stage[o.send] = o.step
  BY DEF OwedInv
<1>3. \A q \in owed \ {o} : q.send # o.send
  BY DEF OwedInv
<1>4. to \in [{o.send} -> Stages \ {"none"}] /\ to[o.send] = Callback(o)
  BY CallbackFacts, StepFacts
<1>5. \A q \in owed : q.step = "send" => copies[q.send] = (IF q.answer = "err" THEN 0 ELSE 1)
  BY RequestFacts DEF CopyInv, TypeOK
<1>6. copies[o.send] = 1 => o.step = "send" /\ o.answer = "ok"
  BY <1>1, <1>2, <1>5, StepFacts DEF CopyInv
<1>7. Callback(o) = "ok" => o.step = "send" /\ o.answer = "ok"
  BY <1>1, CallbackFacts, StepFacts
<1>8. Callback(o) = "ok" => copies[o.send] = 1
  BY <1>5, <1>7
<1>9. copies[o.send] = 1 => Callback(o) \in Ended
  BY <1>6, CallbackFacts, StepFacts
<1> HIDE DEF to
<1>10. Settles({o.send}, to, owed \ {o})
  BY <1>1, <1>3, <1>4, <1>5, <1>8, <1>9 DEF Settles, OwedInv, TypeOK
<1> QED
  BY <1>10 DEF to

(* Sends that have not begun or are pending have no requests and no copies. *)
LEMMA FreshSettles ==
    ASSUME TypeOK, OwedInv, CopyInv, NEW S \in SUBSET Sends,
           \A s \in S : stage[s] \in {"none", "pending"},
           NEW to \in [S -> Stages \ {"none", "ok"}]
    PROVE  Settles(S, to, owed)
<1>1. \A o \in owed : o.send \in Sends /\ o.step \in Steps
  BY RequestFacts DEF TypeOK
<1>2. \A o \in owed : o.send \notin S
  BY <1>1, StepFacts DEF OwedInv
<1>3. \A s \in S : copies[s] # 1
  BY StepFacts DEF CopyInv
<1>4. \A o \in owed : o.step = "send" => copies[o.send] = (IF o.answer = "err" THEN 0 ELSE 1)
  BY <1>1 DEF CopyInv
<1>5. to \in [S -> Stages \ {"none"}] /\ \A s \in S : to[s] # "ok"
  OBVIOUS
<1> QED
  BY <1>2, <1>3, <1>4, <1>5 DEF Settles, OwedInv, TypeOK

LEMMA BeginSettles ==
    ASSUME TypeOK, OwedInv, CopyInv, NEW kinds, Begin(kinds)
    PROVE  \E S \in SUBSET Unbegun(kinds) : \E to :
              /\ to = [s \in S |-> FirstStep(kind[s])]
              /\ Settles(S, to, owed)
              /\ Settle(to, owed)
              /\ \A s \in S : to[s] = FirstStep(kind[s])
<1>1. PICK S \in SUBSET Unbegun(kinds) : Settle([s \in S |-> FirstStep(kind[s])], owed)
  BY DEF Begin
<1> DEFINE to == [s \in S |-> FirstStep(kind[s])]
<1>2. S \subseteq Sends /\ \A s \in S : stage[s] = "none"
  BY DEF Unbegun
<1>3. \A s \in S : kind[s] \in Kinds
  BY <1>2 DEF TypeOK
<1>4. \A k \in Kinds : FirstStep(k) \in {"lookup", "query", "encode", "decode"}
  BY DEF Kinds, FromParent, FromTransport, FromDht, FirstStep
<1>5. to \in [S -> Stages \ {"none", "ok"}]
  BY <1>3, <1>4, StepFacts
<1>6. Settles(S, to, owed)
  <2> HIDE DEF to
  <2> QED
    BY <1>2, <1>5, FreshSettles
<1> QED
  BY <1>1, <1>6

LEMMA PendingSettles ==
    ASSUME TypeOK, OwedInv, CopyInv, NEW S, S = {s \in Sends : stage[s] = "pending"}
    PROVE  /\ Settles(S, [s \in S |-> Dispatch(s)], owed)
           /\ \A s \in S : Dispatch(s) \in {"pending", "err", "encode", "lookup"}
<1> DEFINE to == [s \in S |-> Dispatch(s)]
<1>1. \A s \in S : Dispatch(s) \in {"pending", "err", "encode", "lookup"}
  BY DEF Dispatch, QueuePending
<1>2. to \in [S -> Stages \ {"none", "ok"}]
  BY <1>1, StepFacts
<1> HIDE DEF to
<1>3. Settles(S, to, owed)
  BY <1>2, FreshSettles
<1> QED
  BY <1>1, <1>3 DEF to

-----------------------------------------------------------------------------
LEMMA InitInv == Init => Inv
<1> SUFFICES ASSUME Init PROVE Inv
  OBVIOUS
<1>1. TypeOK
  <2>1. /\ ttl \in [Sends -> -1..RetryTimeout]
        /\ age \in [Sends -> 0..RetryInterval]
        /\ left \in [Sends -> -1..GhostTimeout]
        /\ copies \in [Sends -> Nat]
    BY GatewayAssumption DEF Init
  <2>2. /\ kind \in [Sends -> Kinds]
        /\ stage \in [Sends -> Stages]
        /\ resolved \in [Sends -> BOOLEAN]
        /\ pc \in {"idle"} \cup Phases
    BY StepFacts DEF Init
  <2> QED
    BY <2>1, <2>2 DEF Init, TypeOK
<1>2. GatewayInv /\ TimeoutPanicOnlyAfterError
  BY StepFacts DEF Init, GatewayInv, OwedInv, WaitInv, ExpiryInv, CopyInv, ServedInv,
                   TimeoutPanicOnlyAfterError
<1> QED
  BY <1>1, <1>2 DEF Inv

(* A panic changes nothing else, and one for a timeout needs an error. *)
LEMMA PanicInv ==
    ASSUME Inv, NEW why \in {"publish", "timeout", "entry"}, Panic(why),
           why = "timeout" => result = "Err"
    PROVE  Inv'
<1>1. TypeOK'
  BY DEF Inv, TypeOK, Panic, sendVars
<1>2. GatewayInv'
  BY DEF Inv, GatewayInv, OwedInv, WaitInv, ExpiryInv, CopyInv, ServedInv, Panic, sendVars
<1>3. TimeoutPanicOnlyAfterError'
  BY DEF Inv, Panic, TimeoutPanicOnlyAfterError
<1> QED
  BY <1>1, <1>2, <1>3 DEF Inv

(* The parts of the invariant about sends and requests survive what leaves  *)
(* these alone.                                                             *)
LEMMA SendsKept ==
    ASSUME Inv, UNCHANGED <<stage, ttl, left, owed, copies>>
    PROVE  OwedInv' /\ WaitInv' /\ ExpiryInv' /\ CopyInv'
  BY DEF Inv, GatewayInv, OwedInv, WaitInv, ExpiryInv, CopyInv

LEMMA StartInv == ASSUME Inv, Start PROVE Inv'
<1>1. TypeOK'
  BY StepFacts DEF Inv, TypeOK, Start, sendVars
<1>2. OwedInv' /\ WaitInv' /\ ExpiryInv' /\ CopyInv'
  BY SendsKept DEF Start, sendVars
<1>3. ServedInv'
  BY StepFacts DEF Inv, GatewayInv, ServedInv, Start, sendVars
<1> QED
  BY <1>1, <1>2, <1>3 DEF Inv, GatewayInv, TimeoutPanicOnlyAfterError, Start

LEMMA TickInv == ASSUME Inv, Tick PROVE Inv'
<1>1. TypeOK'
  BY GatewayAssumption DEF Inv, TypeOK, Tick, Less, More
<1>2. OwedInv' /\ WaitInv' /\ CopyInv'
  BY DEF Inv, GatewayInv, OwedInv, WaitInv, CopyInv, Tick
<1>3. ExpiryInv'
  BY GatewayAssumption, StepFacts DEF Inv, TypeOK, GatewayInv, ExpiryInv, Tick, Less
<1>4. ServedInv'
  BY StepFacts DEF Inv, GatewayInv, ServedInv, Tick
<1> QED
  BY <1>1, <1>2, <1>3, <1>4 DEF Inv, GatewayInv, TimeoutPanicOnlyAfterError, Tick

LEMMA ReceiveThisPeerInv == ASSUME Inv, ReceiveThisPeer PROVE Inv'
<1>1. TypeOK'
  BY DEF Inv, TypeOK, ReceiveThisPeer, sendVars
<1>2. OwedInv' /\ WaitInv' /\ ExpiryInv' /\ CopyInv'
  BY SendsKept DEF ReceiveThisPeer, sendVars
<1>3. ServedInv'
  BY DEF Inv, GatewayInv, ServedInv, ReceiveThisPeer, sendVars
<1> QED
  BY <1>1, <1>2, <1>3 DEF Inv, GatewayInv, TimeoutPanicOnlyAfterError, ReceiveThisPeer

LEMMA ReceiveEntryInv == ASSUME Inv, ReceiveEntry PROVE Inv'
<1>1. CASE Panic("entry")
  BY <1>1, PanicInv
<1>2. CASE ~Panic("entry")
  <2>1. PICK t \in fetching : fetching' = fetching \ {t}
    BY <1>2 DEF ReceiveEntry
  <2>2. UNCHANGED <<kind, sendVars, owed, thisPeer, pc, receiving, result, dead, copies>>
    BY <1>2 DEF ReceiveEntry
  <2>3. TypeOK'
    BY <2>1, <2>2 DEF Inv, TypeOK, sendVars
  <2>4. OwedInv' /\ WaitInv' /\ ExpiryInv' /\ CopyInv'
    BY <2>2, SendsKept DEF sendVars
  <2>5. ServedInv'
    BY <2>2 DEF Inv, GatewayInv, ServedInv, sendVars
  <2> QED
    BY <2>2, <2>3, <2>4, <2>5 DEF Inv, GatewayInv, TimeoutPanicOnlyAfterError
<1> QED
  BY <1>1, <1>2

LEMMA EndEncoderInv == ASSUME Inv, EndEncoder PROVE Inv'
<1>1. TypeOK'
  BY StepFacts DEF Inv, TypeOK, EndEncoder, sendVars
<1>2. OwedInv' /\ WaitInv' /\ ExpiryInv' /\ CopyInv'
  BY SendsKept DEF EndEncoder, sendVars
<1>3. \A s \in Sends : stage[s] # "decode"
  <2> SUFFICES ASSUME NEW s \in Sends, stage[s] = "decode" PROVE FALSE
    OBVIOUS
  <2>1. PICK o \in owed : o.send = s /\ ~o.late
    BY StepFacts DEF Inv, GatewayInv, WaitInv
  <2>2. o.step \in StepsOf("encoder")
    BY <2>1, StepFacts DEF Inv, GatewayInv, OwedInv
  <2> QED
    BY <2>2, StepFacts DEF Inv, GatewayInv, ServedInv, EndEncoder, Received
<1>4. ServedInv'
  BY <1>3, StepFacts DEF Inv, GatewayInv, ServedInv, EndEncoder, sendVars
<1> QED
  BY <1>1, <1>2, <1>4 DEF Inv, GatewayInv, TimeoutPanicOnlyAfterError, EndEncoder

LEMMA AnswerInv == ASSUME Inv, NEW c \in Children, Answer(c) PROVE Inv'
<1>0. PICK o \in owed : \E a \in Answers(o.step) :
         /\ o.step \in StepsOf(c)
         /\ o.answer = "none"
         /\ owed' = (owed \ {o}) \cup {[o EXCEPT !.answer = a]}
         /\ copies' = IF o.step = "send" /\ a = "err"
                      THEN [copies EXCEPT ![o.send] = @ - 1] ELSE copies
  BY DEF Answer
<1>1. PICK a \in Answers(o.step) :
         /\ o.step \in StepsOf(c)
         /\ o.answer = "none"
         /\ owed' = (owed \ {o}) \cup {[o EXCEPT !.answer = a]}
         /\ copies' = IF o.step = "send" /\ a = "err"
                      THEN [copies EXCEPT ![o.send] = @ - 1] ELSE copies
  BY <1>0
<1>2. /\ UNCHANGED <<kind, stage, resolved, ttl, age, left, thisPeer, fetching, pc>>
      /\ UNCHANGED <<receiving, result, dead>>
      /\ c \in Polled => ~receiving
  BY DEF Answer, sendVars
<1>3. a \in {"ok", "err"}
  BY DEF Answers
<1>4. \A q \in owed : /\ q \in Requests /\ q.send \in Sends /\ q.step \in Steps
                      /\ q.late \in BOOLEAN
  BY RequestFacts DEF Inv, TypeOK
<1> DEFINE r == [o EXCEPT !.answer = a]
<1>5. /\ r \in Requests
      /\ r.send = o.send /\ r.step = o.step /\ r.late = o.late /\ r.answer = a
  BY <1>3, <1>4 DEF Requests
<1>6. owed' = (owed \ {o}) \cup {r}
  BY <1>1
<1> HIDE DEF r
<1>7. o.step = "send" => copies[o.send] = 1
  BY <1>1, <1>4 DEF Inv, GatewayInv, CopyInv
<1>8. \A s \in Sends : copies'[s] = IF s = o.send /\ o.step = "send" /\ a = "err"
                                    THEN 0 ELSE copies[s]
  BY <1>1, <1>4, <1>7 DEF Inv, TypeOK
<1>9. TypeOK'
  <2>1. owed' \subseteq Requests
    BY <1>4, <1>5, <1>6
  <2>2. copies' \in [Sends -> Nat]
    BY <1>1, <1>4, <1>7 DEF Inv, TypeOK
  <2> QED
    BY <1>2, <2>1, <2>2 DEF Inv, TypeOK
<1>10. OwedInv'
  <2>1. a = "err" => o.step \in {"lookup", "send"}
    BY DEF Answers
  <2> QED
    BY <1>2, <1>5, <1>6, <2>1 DEF Inv, GatewayInv, OwedInv
<1>11. WaitInv'
  <2> SUFFICES ASSUME NEW s \in Sends, stage[s] \in Steps
               PROVE  \E q \in owed' : q.send = s /\ ~q.late
    BY <1>2 DEF WaitInv
  <2>1. PICK q \in owed : q.send = s /\ ~q.late
    BY DEF Inv, GatewayInv, WaitInv
  <2>2. CASE q = o
    BY <1>5, <1>6, <2>1, <2>2
  <2>3. CASE q # o
    BY <1>6, <2>1, <2>3
  <2> QED
    BY <2>2, <2>3
<1>12. ExpiryInv'
  BY <1>2 DEF Inv, GatewayInv, ExpiryInv
<1>13. CopyInv'
  <2>1. o.step = "send" => stage[o.send] \in {"send", "err"}
    BY DEF Inv, GatewayInv, OwedInv
  <2>2. ASSUME NEW s \in Sends
        PROVE  /\ copies'[s] \in {0, 1}
               /\ copies'[s] = 1 => stage'[s] \in Ended \/ stage'[s] = "send"
               /\ stage'[s] = "ok" => copies'[s] = 1
    BY <1>2, <1>8, <2>1 DEF Inv, GatewayInv, CopyInv
  <2>3. ASSUME NEW q \in owed', q.step = "send"
        PROVE  copies'[q.send] = IF q.answer = "err" THEN 0 ELSE 1
    <3>1. CASE q = r
      BY <1>3, <1>4, <1>5, <1>7, <1>8, <2>3, <3>1
    <3>2. CASE q # r
      <4>1. q \in owed /\ q.send # o.send
        BY <1>6, <3>2 DEF Inv, GatewayInv, OwedInv
      <4> QED
        BY <1>4, <1>8, <2>3, <4>1 DEF Inv, GatewayInv, CopyInv
    <3> QED
      BY <3>1, <3>2
  <2> QED
    BY <2>2, <2>3 DEF CopyInv
<1>14. ServedInv'
  <2>1. ASSUME pc' \in Polled, receiving', NEW q \in owed', q.step \in StepsOf(pc')
        PROVE  q.answer # "none"
    <3>1. CASE q = r
      BY <1>3, <1>5, <3>1
    <3>2. CASE q # r
      BY <1>2, <1>6, <2>1, <3>2 DEF Inv, GatewayInv, ServedInv
    <3> QED
      BY <3>1, <3>2
  <2> QED
    BY <1>2, <2>1 DEF Inv, GatewayInv, ServedInv
<1> QED
  BY <1>2, <1>9, <1>10, <1>11, <1>12, <1>13, <1>14 DEF Inv, GatewayInv, TimeoutPanicOnlyAfterError

LEMMA ExpireInv == ASSUME Inv, NEW c \in Children, Expire(c) PROVE Inv'
<1>1. CASE Panic("publish") \/ Panic("entry")
  BY <1>1, PanicInv
<1>2. ASSUME (\E s \in TimedOut(c) : stage[s] \in {"query", "decode"}) \/ -1 \in thisPeer
      PROVE  result = "Err"
  <2>1. CASE -1 \in thisPeer
    BY <2>1, GatewayAssumption DEF Inv, TypeOK, GatewayInv, ServedInv
  <2>2. ASSUME NEW s \in TimedOut(c), stage[s] \in {"query", "decode"}
        PROVE  result = "Err"
    BY <2>2, GatewayAssumption DEF Inv, TypeOK, GatewayInv, ServedInv, TimedOut
  <2> QED
    BY <1>2, <2>1, <2>2
<1>3. CASE /\ (\E s \in TimedOut(c) : stage[s] \in {"query", "decode"}) \/ -1 \in thisPeer
           /\ Panic("timeout")
  BY <1>2, <1>3, PanicInv
<1>4. CASE /\ \A s \in TimedOut(c) : stage[s] \notin {"query", "decode"}
           /\ Settle([s \in TimedOut(c) |-> QueuePending(s)], Forget(TimedOut(c)))
           /\ receiving' = TRUE
           /\ UNCHANGED <<kind, thisPeer, fetching, pc, result, dead>>
  <2> DEFINE S == TimedOut(c)
             to == [s \in S |-> QueuePending(s)]
  <2>1. Settles(S, to, Forget(S)) /\ Settle(to, Forget(S)) /\ \A s \in S : to[s] = "err"
    BY <1>4, ExpireSettles DEF Inv, GatewayInv
  <2> HIDE DEF to
  <2>2. TypeOK'
    BY <1>4, <2>1, SettleType DEF Inv, TypeOK
  <2>3. OwedInv' /\ WaitInv' /\ ExpiryInv' /\ CopyInv'
    BY <2>1, SettleInv DEF Inv, GatewayInv
  <2>4. \A s \in Sends : \/ stage'[s] = "err"
                         \/ stage'[s] = stage[s] /\ left'[s] = left[s]
    BY <2>1 DEF Settle, Settles
  <2>5. ASSUME NEW r \in owed'
        PROVE  \E o \in owed : r.step = o.step /\ r.answer = o.answer
    <3>1. r \in Forget(S)
      BY <2>1, SettleRequest, StepFacts
    <3>2. PICK o \in owed : r = [o EXCEPT !.late = o.late \/ o.send \in S]
      BY <3>1 DEF Forget
    <3>3. o \in Requests
      BY DEF Inv, TypeOK
    <3> QED
      BY <3>2, <3>3 DEF Requests
  <2>6. pc = c /\ ~receiving
      /\ (c \in Polled => \A o \in owed : o.step \in StepsOf(c) => o.answer # "none")
    BY DEF Expire
  <2>7. pc # "pending" /\ pc # "idle"
    BY <2>6, StepFacts
  <2>8. ServedInv'
    <3>1. (pc \in Polled /\ receiving => \A o \in owed : o.step \in StepsOf(pc) => o.answer # "none")'
      BY <1>4, <2>5, <2>6
    <3> QED
      BY <1>4, <2>4, <2>7, <3>1 DEF Inv, GatewayInv, ServedInv
  <2> QED
    BY <1>4, <2>2, <2>3, <2>8 DEF Inv, GatewayInv, TimeoutPanicOnlyAfterError
<1> QED
  BY <1>1, <1>3, <1>4 DEF Expire

LEMMA ReceiveInv == ASSUME Inv, NEW c \in Children, Receive(c) PROVE Inv'
<1>1. PICK o \in owed :
         /\ o.step \in StepsOf(c)
         /\ o.answer # "none"
         /\ \/ /\ o.late
               /\ owed' = owed \ {o}
               /\ pc' = "idle"
               /\ receiving' = FALSE
               /\ result' = "Err"
               /\ UNCHANGED <<kind, sendVars, thisPeer, fetching, dead, copies>>
            \/ Panic("publish")
            \/ /\ ~o.late
               /\ Settle([s \in {o.send} |-> Callback(o)], owed \ {o})
               /\ UNCHANGED <<kind, thisPeer, fetching, pc, receiving, result, dead>>
  BY DEF Receive
<1>2. CASE Panic("publish")
  BY <1>2, PanicInv
<1>3. CASE /\ o.late
           /\ owed' = owed \ {o}
           /\ pc' = "idle"
           /\ receiving' = FALSE
           /\ result' = "Err"
           /\ UNCHANGED <<kind, sendVars, thisPeer, fetching, dead, copies>>
  <2>1. TypeOK'
    BY <1>3 DEF Inv, TypeOK, sendVars
  <2>2. OwedInv' /\ ExpiryInv' /\ CopyInv'
    BY <1>3 DEF Inv, GatewayInv, OwedInv, ExpiryInv, CopyInv, sendVars
  <2>3. WaitInv'
    BY <1>3 DEF Inv, GatewayInv, WaitInv, sendVars
  <2>4. ServedInv'
    BY <1>3, StepFacts DEF Inv, GatewayInv, ServedInv, sendVars
  <2> QED
    BY <1>3, <2>1, <2>2, <2>3, <2>4 DEF Inv, GatewayInv, TimeoutPanicOnlyAfterError
<1>4. CASE /\ ~o.late
           /\ Settle([s \in {o.send} |-> Callback(o)], owed \ {o})
           /\ UNCHANGED <<kind, thisPeer, fetching, pc, receiving, result, dead>>
  <2> DEFINE to == [s \in {o.send} |-> Callback(o)]
  <2>1. Settles({o.send}, to, owed \ {o}) /\ Settle(to, owed \ {o}) /\ to[o.send] = Callback(o)
    BY <1>1, <1>4, ReceiveSettles DEF Inv, GatewayInv
  <2> HIDE DEF to
  <2>2. TypeOK'
    BY <1>4, <2>1, SettleType DEF Inv, TypeOK
  <2>3. OwedInv' /\ WaitInv' /\ ExpiryInv' /\ CopyInv'
    BY <2>1, SettleInv DEF Inv, GatewayInv
  <2>4. pc = c /\ receiving
    BY DEF Receive
  <2>5. /\ Callback(o) \in {"encode", "send", "pending", "ok", "err"}
        /\ Callback(o) \notin StepsOf(c)
    <3>1. o.step \in Steps /\ o.answer \in {"ok", "err"}
      BY <1>1, RequestFacts DEF Inv, TypeOK
    <3>2. /\ Callback(o) \in {"encode", "send", "pending", "ok", "err"}
          /\ o.step = "encode" => Callback(o) = "send"
          /\ o.step = "decode" => Callback(o) = "pending"
          /\ o.step \in {"lookup", "query"} => Callback(o) \in {"encode", "pending", "err"}
          /\ o.step = "send" => Callback(o) \in {"ok", "pending", "err"}
      BY <1>1, <3>1, CallbackFacts DEF Inv
    <3> QED
      BY <1>1, <3>2, StepFacts
  <2>6. \A s \in Sends : \/ stage'[s] \notin {"query", "decode"}
                         \/ stage'[s] = stage[s] /\ left'[s] = left[s]
    BY <2>1, <2>5 DEF Settle, Settles
  <2>7. ASSUME NEW r \in owed', r.step \in StepsOf(c)
        PROVE  r \in owed
    BY <2>1, <2>5, <2>7, SettleRequest
  <2>8. pc # "pending" /\ pc # "idle"
    BY <2>4, StepFacts
  <2>9. ServedInv'
    <3>1. (pc \in Polled /\ receiving => \A q \in owed : q.step \in StepsOf(pc) => q.answer # "none")'
      BY <1>4, <2>4, <2>7 DEF Inv, GatewayInv, ServedInv
    <3> QED
      BY <1>4, <2>6, <2>8, <3>1 DEF Inv, GatewayInv, ServedInv
  <2> QED
    BY <1>4, <2>2, <2>3, <2>9 DEF Inv, GatewayInv, TimeoutPanicOnlyAfterError
<1> QED
  BY <1>1, <1>2, <1>3, <1>4

(* A drain only begins sends, each with the first request of its kind. *)
LEMMA BeginEffect ==
    ASSUME Inv, NEW kinds, Begin(kinds)
    PROVE  /\ stage' \in [Sends -> Stages]
           /\ resolved' \in [Sends -> BOOLEAN]
           /\ ttl' \in [Sends -> -1..RetryTimeout]
           /\ age' \in [Sends -> 0..RetryInterval]
           /\ left' \in [Sends -> -1..GhostTimeout]
           /\ owed' \subseteq Requests
           /\ copies' \in [Sends -> Nat]
           /\ OwedInv' /\ WaitInv' /\ ExpiryInv' /\ CopyInv'
           /\ \A s \in Sends :
                \/ stage'[s] = stage[s] /\ left'[s] = left[s]
                \/ kind[s] \in kinds /\ stage'[s] = FirstStep(kind[s]) /\ left'[s] = GhostTimeout
<1>1. PICK S \in SUBSET Unbegun(kinds) : \E to :
              /\ to = [s \in S |-> FirstStep(kind[s])]
              /\ Settles(S, to, owed)
              /\ Settle(to, owed)
              /\ \A s \in S : to[s] = FirstStep(kind[s])
  BY BeginSettles DEF Inv, GatewayInv
<1>2. PICK to : /\ to = [s \in S |-> FirstStep(kind[s])]
                /\ Settles(S, to, owed)
                /\ Settle(to, owed)
                /\ \A s \in S : to[s] = FirstStep(kind[s])
  BY <1>1
<1>3. \A s \in Sends :
         \/ stage'[s] = stage[s] /\ left'[s] = left[s]
         \/ kind[s] \in kinds /\ stage'[s] = FirstStep(kind[s]) /\ left'[s] = GhostTimeout
  BY <1>2 DEF Settle, Settles, RequestTimeout, Unbegun
<1>4. OwedInv' /\ WaitInv' /\ ExpiryInv' /\ CopyInv'
  BY <1>2, SettleInv DEF Inv, GatewayInv
<1> QED
  BY <1>2, <1>3, <1>4, SettleType DEF Inv

LEMMA EndParentInv == ASSUME Inv, EndParent PROVE Inv'
<1>1. TypeOK'
  BY BeginEffect, StepFacts DEF Inv, TypeOK, EndParent
<1>2. ServedInv'
  <2>1. ASSUME NEW s \in Sends, result = "Ok", stage'[s] \in {"query", "decode"}
        PROVE  left'[s] = GhostTimeout
    BY <2>1, BeginEffect DEF Inv, GatewayInv, ServedInv, EndParent
  <2> QED
    BY <2>1, StepFacts DEF Inv, GatewayInv, ServedInv, EndParent
<1> QED
  BY <1>1, <1>2, BeginEffect DEF Inv, GatewayInv, TimeoutPanicOnlyAfterError, EndParent

LEMMA EndTransportInv == ASSUME Inv, EndTransport PROVE Inv'
<1>1. TypeOK'
  BY BeginEffect, StepFacts DEF Inv, TypeOK, EndTransport
<1>2. ServedInv'
  <2>1. ASSUME NEW s \in Sends, result = "Ok", stage'[s] \in {"query", "decode"}
        PROVE  left'[s] = GhostTimeout
    BY <2>1, BeginEffect DEF Inv, GatewayInv, ServedInv, EndTransport
  <2> QED
    BY <2>1, StepFacts DEF Inv, GatewayInv, ServedInv, EndTransport
<1> QED
  BY <1>1, <1>2, BeginEffect DEF Inv, GatewayInv, TimeoutPanicOnlyAfterError, EndTransport

LEMMA EndDhtInv == ASSUME Inv, EndDht PROVE Inv'
<1>1. TypeOK'
  <2>1. fetching' = fetching \/ fetching' = fetching \cup {GhostTimeout}
    BY Zenon DEF EndDht
  <2>2. fetching \subseteq -1..GhostTimeout /\ GhostTimeout \in -1..GhostTimeout
    BY GatewayAssumption DEF Inv, TypeOK
  <2>3. fetching' \subseteq -1..GhostTimeout
    BY <2>1, <2>2, Zenon
  <2> QED
    BY <2>3, BeginEffect DEF Inv, TypeOK, EndDht
<1>2. \A s \in Sends : stage[s] \notin {"query", "decode"}
  <2>1. ASSUME NEW s \in Sends, stage[s] = "query" PROVE FALSE
    <3>1. PICK o \in owed : o.send = s /\ ~o.late
      BY <2>1, StepFacts DEF Inv, GatewayInv, WaitInv
    <3>2. o.step \in StepsOf("dht")
      BY <2>1, <3>1, StepFacts DEF Inv, GatewayInv, OwedInv
    <3> QED
      BY <3>2, StepFacts DEF Inv, GatewayInv, ServedInv, EndDht, Received
  <2>2. \A s \in Sends : stage[s] # "decode"
    BY DEF Inv, GatewayInv, ServedInv, EndDht, Received
  <2> QED
    BY <2>1, <2>2
<1>3. \A s \in Sends : stage'[s] \notin {"query", "decode"}
  BY <1>2, BeginEffect DEF EndDht, FromDht, FirstStep
<1>4. ServedInv'
  BY <1>3, StepFacts DEF ServedInv, EndDht
<1> QED
  BY <1>1, <1>4, BeginEffect DEF Inv, GatewayInv, TimeoutPanicOnlyAfterError, EndDht, Received

LEMMA PendingSendsInv == ASSUME Inv, PendingSends PROVE Inv'
<1> DEFINE S == {s \in Sends : stage[s] = "pending"}
           to == [s \in S |-> Dispatch(s)]
<1>1. CASE Panic("publish")
  BY <1>1, PanicInv
<1>2. CASE /\ Settle(to, owed)
           /\ thisPeer' = thisPeer \cup {GhostTimeout}
           /\ pc' = "dht"
           /\ UNCHANGED <<kind, fetching, receiving, result, dead>>
  <2>1. /\ Settles(S, to, owed)
        /\ Settle(to, owed)
        /\ \A s \in S : to[s] \in {"pending", "err", "encode", "lookup"}
    BY <1>2, PendingSettles DEF Inv, GatewayInv
  <2> HIDE DEF to
  <2>2. TypeOK'
    <3>1. thisPeer' \subseteq -1..GhostTimeout
      BY <1>2, GatewayAssumption DEF Inv, TypeOK
    <3> QED
      BY <1>2, <2>1, <3>1, SettleType, StepFacts DEF Inv, TypeOK
  <2>3. OwedInv' /\ WaitInv' /\ ExpiryInv' /\ CopyInv'
    BY <2>1, SettleInv DEF Inv, GatewayInv
  <2>4. \A s \in Sends : \/ stage'[s] \notin {"query", "decode"}
                         \/ stage'[s] = stage[s] /\ left'[s] = left[s]
    BY <2>1 DEF Settle, Settles
  <2>5. pc = "pending" /\ ~receiving
    BY DEF PendingSends, Inv, GatewayInv, ServedInv
  <2>6. ServedInv'
    BY <1>2, <2>4, <2>5 DEF Inv, GatewayInv, ServedInv
  <2> QED
    BY <1>2, <2>2, <2>3, <2>6 DEF Inv, GatewayInv, TimeoutPanicOnlyAfterError
<1> QED
  BY <1>1, <1>2 DEF PendingSends

LEMMA NextInv == ASSUME Inv, [Next]_vars PROVE Inv'
<1>1. CASE UNCHANGED vars
  <2>1. TypeOK'
    BY <1>1 DEF Inv, TypeOK, vars, sendVars
  <2>2. GatewayInv' /\ TimeoutPanicOnlyAfterError'
    BY <1>1 DEF Inv, GatewayInv, OwedInv, WaitInv, ExpiryInv, CopyInv, ServedInv,
                TimeoutPanicOnlyAfterError, vars, sendVars
  <2> QED
    BY <2>1, <2>2 DEF Inv
<1> QED
  BY <1>1, TickInv, StartInv, ExpireInv, ReceiveInv, ReceiveThisPeerInv, ReceiveEntryInv,
     EndParentInv, EndTransportInv, EndEncoderInv, PendingSendsInv, EndDhtInv, AnswerInv
     DEF Next, Process

LEMMA SpecInv == Spec => []Inv
  BY InitInv, NextInv, PTL DEF Spec

(* THEOREM. The variables of a gateway keep their types; no refusal of a    *)
(* copy is counted twice, and no timer is set beyond its timeout.           *)
THEOREM GatewayTypeCorrect == Spec => []TypeOK
  BY SpecInv, PTL DEF Inv

(* THEOREM. For any sends, timeouts and interleavings of answers, retries   *)
(* and errors, each send waits for at most one request of one child, which  *)
(* outlives it, and has at most one copy with the transport.                *)
THEOREM GatewayInvariant == Spec => []GatewayInv
  BY SpecInv, PTL DEF Inv

(* THEOREM. The panics on the timeouts of RequestThisPeer, RequestPeerList  *)
(* and Decode are only reached when an error has cut process() short.       *)
THEOREM GatewayTimeoutPanic == Spec => []TimeoutPanicOnlyAfterError
  BY SpecInv, PTL DEF Inv

-----------------------------------------------------------------------------
(* The refinement *)

(* How a use of Settle moves a send: it begins, or goes on. *)
Advances(S, to) ==
    \A s \in S :
        /\ stage[s] \in {"none", "query", "decode"} =>
             to[s] \in {"lookup", "query", "encode", "decode", "pending"}
        /\ to[s] \in {"query", "decode"} => stage[s] = "none"
        /\ stage[s] \notin Ended

LEMMA StatusOf ==
    ASSUME TypeOK, NEW s \in Sends
    PROVE  /\ stage[s] \in {"none", "query", "decode"} => status[s] = "none"
           /\ stage[s] \in {"lookup", "encode", "send", "pending"} => status[s] = "open"
           /\ stage[s] \in {"ok", "err"} => status[s] = stage[s]
           /\ status[s] \in {"none", "open", "ok", "err"}
  BY StepFacts DEF TypeOK, status

LEMMA StatusOfNext ==
    ASSUME TypeOK', NEW s \in Sends
    PROVE  /\ stage'[s] \in {"none", "query", "decode"} => status'[s] = "none"
           /\ stage'[s] \in {"lookup", "encode", "send", "pending"} => status'[s] = "open"
           /\ stage'[s] \in {"ok", "err"} => status'[s] = stage'[s]
           /\ status'[s] \in {"none", "open", "ok", "err"}
  BY StepFacts DEF TypeOK, status

LEMMA ServiceType ==
    ASSUME Inv' PROVE Service!TypeOK'
<1>1. status' \in [Sends -> {"none", "open", "ok", "err"}]
  <2>1. \A s \in Sends : status'[s] \in {"none", "open", "ok", "err"}
    BY StatusOfNext DEF Inv
  <2> QED
    BY <2>1 DEF status
<1>2. copies' \in [Sends -> {0, 1}]
  BY DEF Inv, TypeOK, GatewayInv, CopyInv
<1> QED
  BY <1>1, <1>2 DEF Service!TypeOK, Service!Statuses

LEMMA SettleMoves ==
    ASSUME Inv, Inv', NEW S, NEW to, NEW requests, Settles(S, to, requests),
           Settle(to, requests), Advances(S, to)
    PROVE  Service!Next
<1>0. DOMAIN to = S /\ S \subseteq Sends /\ to \in [S -> Stages \ {"none"}]
  BY DEF Settles
<1> SUFFICES ASSUME NEW s \in Sends PROVE Service!Moved(s) \/ Service!Kept(s)
  BY ServiceType DEF Service!Next
<1>1. /\ s \in S => stage'[s] = to[s]
      /\ s \notin S => stage'[s] = stage[s]
      /\ copies'[s] = IF s \in S /\ to[s] = "send" THEN copies[s] + 1 ELSE copies[s]
  BY <1>0 DEF Settle
<1>2. CASE s \notin S
  <2>1. status'[s] = status[s]
    BY <1>1, <1>2 DEF status
  <2> QED
    BY <1>1, <1>2, <2>1 DEF Service!Kept
<1>3. CASE s \in S
  <2>1. /\ copies[s] \in {0, 1}
        /\ copies[s] = 1 => to[s] \in {"ok", "err"} /\ stage[s] = "send"
        /\ to[s] = "ok" => copies[s] = 1
    BY <1>3, StepFacts DEF Settles, Advances, Inv, GatewayInv, CopyInv
  <2>2. /\ stage[s] \in Stages \ {"ok", "err"}
        /\ to[s] \in Stages \ {"none"}
    BY <1>0, <1>3, StepFacts DEF Advances, Inv, TypeOK
  <2>3. CASE stage[s] \in {"none", "query", "decode"}
    <3>1. to[s] \in {"lookup", "query", "encode", "decode", "pending"}
      BY <1>3, <2>3 DEF Advances
    <3>2. copies[s] = 0 /\ copies'[s] = 0
      BY <1>1, <2>1, <2>3, <3>1
    <3>3. status[s] = "none" /\ status'[s] \in {"none", "open"}
      BY <1>1, <1>3, <2>3, <3>1, StatusOf, StatusOfNext DEF Inv
    <3> QED
      BY <3>2, <3>3 DEF Service!Kept, Service!Moved, Service!Moves
  <2>4. CASE stage[s] \in {"lookup", "encode", "send", "pending"}
    <3>1. to[s] \in {"lookup", "encode", "send", "pending", "ok", "err"}
      BY <1>3, <2>2, <2>4, StepFacts DEF Advances
    <3>2. status[s] = "open"
      BY <2>4, StatusOf DEF Inv
    <3>3. CASE to[s] \in {"lookup", "encode", "pending"}
      <4>1. status'[s] = "open" /\ copies'[s] = copies[s]
        BY <1>1, <1>3, <3>3, StatusOfNext DEF Inv
      <4> QED
        BY <3>2, <4>1 DEF Service!Kept
    <3>4. CASE to[s] = "send"
      <4>1. status'[s] = "open" /\ copies[s] = 0 /\ copies'[s] = 1
        BY <1>1, <1>3, <2>1, <3>4, StatusOfNext DEF Inv
      <4> QED
        BY <3>2, <4>1 DEF Service!Moved, Service!Moves
    <3>5. CASE to[s] \in {"ok", "err"}
      <4>1. status'[s] = to[s] /\ copies'[s] = copies[s]
        BY <1>1, <1>3, <3>5, StatusOfNext DEF Inv
      <4> QED
        BY <2>1, <3>2, <3>5, <4>1 DEF Service!Moved, Service!Moves
    <3> QED
      BY <3>1, <3>3, <3>4, <3>5
  <2> QED
    BY <2>2, <2>3, <2>4, StepFacts
<1> QED
  BY <1>2, <1>3

LEMMA AnswerMoves ==
    ASSUME Inv, Inv', NEW c \in Children, Answer(c)
    PROVE  Service!Next
<1>1. PICK o \in owed : \E a \in Answers(o.step) :
         /\ o.answer = "none"
         /\ copies' = IF o.step = "send" /\ a = "err"
                      THEN [copies EXCEPT ![o.send] = @ - 1] ELSE copies
  BY DEF Answer
<1>2. o.send \in Sends
  BY RequestFacts DEF Inv, TypeOK
<1>3. stage' = stage /\ status' = status
  BY DEF Answer, sendVars, status
<1>4. o.step = "send" => copies[o.send] = 1 /\ stage[o.send] \in {"send", "err"}
  BY <1>1, <1>2 DEF Inv, GatewayInv, CopyInv, OwedInv
<1>5. copies \in [Sends -> Nat]
  BY DEF Inv, TypeOK
<1> SUFFICES ASSUME NEW s \in Sends PROVE Service!Moved(s) \/ Service!Kept(s)
  BY ServiceType DEF Service!Next
<1>6. CASE copies'[s] = copies[s]
  BY <1>3, <1>6 DEF Service!Kept
<1>7. CASE copies'[s] # copies[s]
  <2>1. s = o.send /\ o.step = "send" /\ copies'[s] = copies[s] - 1
    BY <1>1, <1>2, <1>5, <1>7
  <2>2. copies[s] = 1 /\ copies'[s] = 0 /\ status[s] \in {"open", "err"}
    BY <1>4, <2>1, StatusOf DEF Inv
  <2> QED
    BY <1>3, <2>2 DEF Service!Moved, Service!Moves
<1> QED
  BY <1>6, <1>7

LEMMA BeginMoves ==
    ASSUME Inv, Inv', NEW kinds, Begin(kinds)
    PROVE  Service!Next
<1>1. PICK S \in SUBSET Unbegun(kinds) : \E to :
              /\ to = [s \in S |-> FirstStep(kind[s])]
              /\ Settles(S, to, owed)
              /\ Settle(to, owed)
              /\ \A s \in S : to[s] = FirstStep(kind[s])
  BY BeginSettles DEF Inv, GatewayInv
<1>2. PICK to : /\ Settles(S, to, owed)
                /\ Settle(to, owed)
                /\ \A s \in S : to[s] = FirstStep(kind[s])
  BY <1>1
<1>3. \A k \in Kinds : FirstStep(k) \in {"lookup", "query", "encode", "decode"}
  BY DEF Kinds, FromParent, FromTransport, FromDht, FirstStep
<1>4. \A s \in S : s \in Sends /\ stage[s] = "none" /\ kind[s] \in Kinds
  BY DEF Unbegun, Inv, TypeOK
<1>5. Advances(S, to)
  BY <1>2, <1>3, <1>4, StepFacts DEF Advances
<1> QED
  BY <1>2, <1>5, SettleMoves

LEMMA ExpireMoves ==
    ASSUME Inv, Inv', NEW c \in Children, Expire(c)
    PROVE  Service!Next \/ UNCHANGED <<stage, copies>>
<1>1. CASE /\ \A s \in TimedOut(c) : stage[s] \notin {"query", "decode"}
           /\ Settle([s \in TimedOut(c) |-> QueuePending(s)], Forget(TimedOut(c)))
  <2> DEFINE S == TimedOut(c)
             to == [s \in S |-> QueuePending(s)]
  <2>1. Settles(S, to, Forget(S)) /\ Settle(to, Forget(S)) /\ \A s \in S : to[s] = "err"
    BY <1>1, ExpireSettles DEF Inv, GatewayInv
  <2>2. \A s \in S : stage[s] \in {"lookup", "encode", "send"}
    BY <1>1, StepFacts, StepsOfSteps DEF TimedOut
  <2> HIDE DEF to, S
  <2>3. Advances(S, to)
    BY <2>1, <2>2, StepFacts DEF Advances
  <2> QED
    BY <2>1, <2>3, SettleMoves
<1> QED
  BY <1>1 DEF Expire, Panic, sendVars

LEMMA ReceiveMoves ==
    ASSUME Inv, Inv', NEW c \in Children, Receive(c)
    PROVE  Service!Next \/ UNCHANGED <<stage, copies>>
<1>1. PICK o \in owed :
         /\ o.answer # "none"
         /\ \/ UNCHANGED <<stage, copies>>
            \/ ~o.late /\ Settle([s \in {o.send} |-> Callback(o)], owed \ {o})
  BY DEF Receive, Panic, sendVars
<1>2. CASE ~o.late /\ Settle([s \in {o.send} |-> Callback(o)], owed \ {o})
  <2> DEFINE to == [s \in {o.send} |-> Callback(o)]
  <2>1. Settles({o.send}, to, owed \ {o}) /\ Settle(to, owed \ {o}) /\ to[o.send] = Callback(o)
    BY <1>1, <1>2, ReceiveSettles DEF Inv, GatewayInv
  <2> HIDE DEF to
  <2>2. stage[o.send] = o.step /\ o.step \in Steps
    BY <1>2, RequestFacts DEF Inv, TypeOK, GatewayInv, OwedInv
  <2>3. /\ Callback(o) \in {"encode", "send", "pending", "ok", "err"}
        /\ o.step = "decode" => Callback(o) = "pending"
        /\ o.step = "query" => Callback(o) = "encode"
    <3>1. o \in Requests /\ (o.step = "query" => o.answer = "ok")
      BY <1>1, RequestFacts DEF Inv, TypeOK, GatewayInv, OwedInv
    <3> QED
      BY <1>1, <3>1, CallbackFacts DEF Inv, Callback, DhtSteps
  <2>4. Advances({o.send}, to)
    BY <2>1, <2>2, <2>3, StepFacts DEF Advances
  <2> QED
    BY <2>1, <2>4, SettleMoves
<1> QED
  BY <1>1, <1>2

(* THEOREM. A gateway implements SendService for any set of sends: however  *)
(* often a message is retried and whatever answers come late, at most one   *)
(* copy is with the transport and one outcome is reported.                  *)
THEOREM GatewayRefinement == Spec => ImplementsSendService
<1>1. Init => Service!Init
  BY DEF Init, Service!Init, status
<1>2. Inv /\ Inv' /\ [Next]_vars => [Service!Next]_(Service!vars)
  <2> SUFFICES ASSUME Inv, Inv', [Next]_vars
               PROVE  Service!Next \/ UNCHANGED <<status, copies>>
    BY DEF Service!vars
  <2>1. UNCHANGED <<stage, copies>> => UNCHANGED <<status, copies>>
    BY DEF status
  <2>2. ASSUME NEW c \in Children, Answer(c) PROVE Service!Next
    BY <2>2, AnswerMoves
  <2>3. ASSUME NEW c \in Children, Expire(c) \/ Receive(c)
        PROVE  Service!Next \/ UNCHANGED <<stage, copies>>
    BY <2>3, ExpireMoves, ReceiveMoves
  <2>4. EndParent \/ EndTransport \/ EndDht => Service!Next
    BY BeginMoves DEF EndParent, EndTransport, EndDht
  <2>5. PendingSends => Service!Next \/ UNCHANGED <<stage, copies>>
    <3> SUFFICES ASSUME PendingSends PROVE Service!Next \/ UNCHANGED <<stage, copies>>
      OBVIOUS
    <3> DEFINE S == {s \in Sends : stage[s] = "pending"}
               to == [s \in S |-> Dispatch(s)]
    <3>1. CASE Settle(to, owed)
      <4>1. /\ Settles(S, to, owed)
            /\ Settle(to, owed)
            /\ \A s \in S : to[s] \in {"pending", "err", "encode", "lookup"}
        BY <3>1, PendingSettles DEF Inv, GatewayInv
      <4>2. \A s \in S : stage[s] = "pending"
        OBVIOUS
      <4> HIDE DEF to, S
      <4>3. Advances(S, to)
        BY <4>1, <4>2, StepFacts DEF Advances
      <4> QED
        BY <4>1, <4>3, SettleMoves
    <3> QED
      BY <3>1 DEF PendingSends, Panic, sendVars
  <2>6. Tick \/ Start \/ ReceiveThisPeer \/ ReceiveEntry \/ EndEncoder
          => UNCHANGED <<stage, copies>>
    BY DEF Tick, Start, ReceiveThisPeer, ReceiveEntry, EndEncoder, Panic, sendVars
  <2>7. UNCHANGED vars => UNCHANGED <<stage, copies>>
    BY DEF vars, sendVars
  <2> QED
    BY <2>1, <2>2, <2>3, <2>4, <2>5, <2>6, <2>7 DEF Next, Process
<1> QED
  BY <1>1, <1>2, SpecInv, PTL DEF Spec, ImplementsSendService, Service!Spec

=============================================================================
