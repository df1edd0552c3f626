---------------------------- MODULE EngineProofs ----------------------------
(***************************************************************************)
(* Proofs about Engine for all spaces, agents, messages, locations and     *)
(* bounds.                                                                 *)
(***************************************************************************)
EXTENDS Engine, TLAPS

USE EngineAssumption
USE DEF At, GoTo, Return, Panic, Continue, Worked, Move, Take, AddGateway, TimedOut, Outcomes,
        given, spaceVars, messageVars, clientVars, networkVars, loopVars

AskType == [Chains \X AskKinds -> Nat]

(* Counting a callback up or down keeps the counters natural. *)
LEMMA AskFacts ==
    ASSUME NEW f \in AskType, NEW c \in Chains, NEW k \in AskKinds, NEW n \in Nat
    PROVE  /\ f[<<c, k>>] \in Nat
           /\ [f EXCEPT ![<<c, k>>] = n] \in AskType
           /\ [f EXCEPT ![<<c, k>>] = @ + n] \in AskType
           /\ f[<<c, k>>] > 0 => [f EXCEPT ![<<c, k>>] = @ - 1] \in AskType
<1>1. <<c, k>> \in Chains \X AskKinds
  OBVIOUS
<1>2. f[<<c, k>>] \in Nat
  BY <1>1 DEF AskType
<1> QED
  BY <1>1, <1>2 DEF AskType

(* Every step keeps the types. *)
LEMMA TypeStep ==
    ASSUME TypeOK, [Next]_vars
    PROVE  TypeOK'
<1> USE DEF TypeOK, Messages, Stages, InGateway, Ended, Replies, Phases
<1>1. asks \in AskType
  BY DEF AskType
<1>2. ASSUME NEW d \in Commands, ClientCommand(d) PROVE TypeOK'
  BY <1>2 DEF ClientCommand, Commands
<1>3. ASSUME NEW e \in Events, NetworkEvent(e) PROVE TypeOK'
  BY <1>3 DEF NetworkEvent, Events
<1>4. ASSUME Tick PROVE TypeOK'
  <2>1. listing' \in [Locations -> -1..PeerListTimeout]
    BY <1>4 DEF Tick
  <2> QED
    BY <1>4, <2>1 DEF Tick
<1>5. ASSUME Begin PROVE TypeOK'
  BY <1>5 DEF Begin
<1>6. ASSUME NEW c \in Chains, NEW o \in Outcomes, ListCallback(c, o) PROVE TypeOK'
  <2>1. Done(c, "list") \in AskType
    BY <1>1, <1>6, AskFacts DEF ListCallback, Done, Waiting, AskKinds
  <2>2. [Done(c, "list") EXCEPT ![<<c, "aspects">>] = @ + 1] \in AskType
    BY <2>1, AskFacts DEF AskKinds
  <2>3. asks' \in AskType
    BY <1>6, <2>1, <2>2 DEF ListCallback
  <2> QED
    BY <1>6, <2>3 DEF ListCallback, AskType
<1>7. ASSUME NEW c \in Chains, NEW o \in Outcomes, FetchCallback(c, o) PROVE TypeOK'
  <2>1. asks' \in AskType
    BY <1>1, <1>7, AskFacts DEF FetchCallback, Done, Waiting, AskKinds
  <2> QED
    BY <1>7, <2>1 DEF FetchCallback, AskType
<1>8. ASSUME NEW c \in Chains, NEW o \in Outcomes, EntryCallback(c, o) PROVE TypeOK'
  <2>1. asks' \in AskType
    BY <1>1, <1>8, AskFacts DEF EntryCallback, Done, Waiting, AskKinds
  <2> QED
    BY <1>8, <2>1 DEF EntryCallback, AskType
<1>9. ASSUME NEW m \in Incoming, NEW o \in Outcomes, DirectCallback(m, o) PROVE TypeOK'
  BY <1>9 DEF DirectCallback
<1>10. ASSUME NEW m \in Requests, NEW o \in Outcomes, QueryCallback(m, o) PROVE TypeOK'
  BY <1>10 DEF QueryCallback
<1>11. ASSUME LateAnswer PROVE TypeOK'
  BY <1>11 DEF LateAnswer
<1>12. ASSUME EndEndpoint PROVE TypeOK'
  BY <1>12 DEF EndEndpoint
<1>13. ASSUME NEW c \in Chains, HandleJoin(c) PROVE TypeOK'
  <2>1. [asks EXCEPT ![<<c, "list">>] = @ + 2] \in AskType
    BY <1>1, AskFacts DEF AskKinds
  <2>2. asks' \in AskType
    BY <1>1, <1>13, <2>1 DEF HandleJoin
  <2> QED
    BY <1>13, <2>2 DEF HandleJoin, AskType
<1>14. ASSUME NEW c \in Chains, HandleLeave(c) PROVE TypeOK'
  BY <1>14 DEF HandleLeave, StageWithout, ReplyWithout, AsksWithout, AskKinds
<1>15. ASSUME NEW c \in Chains, HandlePublish(c) PROVE TypeOK'
  <2>1. PICK n \in 0..MaxEntries :
          asks' = [asks EXCEPT ![<<c, "store">>] = @ + n]
    BY <1>15 DEF HandlePublish
  <2>4. n \in Nat /\ "store" \in AskKinds
    BY DEF AskKinds
  <2>2. [asks EXCEPT ![<<c, "store">>] = @ + n] \in AskType
    BY ONLY <1>1, <2>4, AskFacts
  <2>3. asks' \in AskType
    BY <2>1, <2>2
  <2> QED
    BY <1>15, <2>3 DEF HandlePublish, QueueLost, AskType
<1>16. ASSUME NEW m \in Requests, HandleAsk(m) PROVE TypeOK'
  BY <1>16 DEF HandleAsk
<1>17. ASSUME EndClient PROVE TypeOK'
  BY <1>17 DEF EndClient
<1>18. ASSUME NEW m \in Requests, SendFrame(m) \/ AckSend(m) PROVE TypeOK'
  BY <1>18 DEF SendFrame, AckSend, Delivered
<1>19. ASSUME NEW m \in Requests, BootstrapCallback(m) PROVE TypeOK'
  BY <1>19 DEF BootstrapCallback
<1>20. ASSUME NEW l \in Locations, PeerListCallback(l) PROVE TypeOK'
  BY <1>20 DEF PeerListCallback
<1>21. ASSUME EndPoll PROVE TypeOK'
  BY <1>21 DEF EndPoll
<1>22. ASSUME MultiplexerFails PROVE TypeOK'
  BY <1>22 DEF MultiplexerFails
<1>23. ASSUME NEW m \in Incoming, HandleDirect(m) PROVE TypeOK'
  BY <1>23 DEF HandleDirect, QueueLost
<1>24. ASSUME NEW m \in Requests, HandleResult(m) PROVE TypeOK'
  BY <1>24 DEF HandleResult, QueueLost
<1>25. ASSUME NEW s \in RemoteJoins, HandleBroadcastJoin(s) PROVE TypeOK'
  BY <1>25 DEF HandleBroadcastJoin
<1>26. ASSUME NEW l \in Locations, HandleConnection(l) PROVE TypeOK'
  BY <1>26 DEF HandleConnection
<1>27. ASSUME EndEvents PROVE TypeOK'
  BY <1>27 DEF EndEvents
<1>28. ASSUME NEW c \in Chains, ProcessGateway(c) PROVE TypeOK'
  <2>1. asks' \in AskType
    <3>1. PICK n \in 0..asks[<<c, "aspects">>] :
            asks' = [asks EXCEPT ![<<c, "aspects">>] = 0, ![<<c, "fetch">>] = @ + n]
      BY <1>28 DEF ProcessGateway
    <3>2. asks[<<c, "aspects">>] \in Nat /\ n \in Nat
      BY <1>1, AskFacts DEF AskKinds
    <3>3. \A a \in Chains \X AskKinds : asks'[a] \in Nat
      BY <1>1, <3>1, <3>2, AskFacts DEF AskKinds, AskType
    <3> QED
      BY <1>1, <3>1, <3>3 DEF AskType
  <2> QED
    BY <1>28, <2>1 DEF ProcessGateway, AskType, Called
<1>29. ASSUME NEW c \in Chains, FailGateway(c) PROVE TypeOK'
  BY <1>29 DEF FailGateway, Called, StageWithout, ReplyWithout, AsksWithout
<1>30. ASSUME EndSpaces PROVE TypeOK'
  BY <1>30 DEF EndSpaces
<1>31. ASSUME NEW m \in Incoming, ServeDirect(m) PROVE TypeOK'
  BY <1>31 DEF ServeDirect
<1>32. ASSUME NEW m \in Requests, ServeResult(m) PROVE TypeOK'
  BY <1>32 DEF ServeResult
<1>33. ASSUME NEW c \in Chains, ServeRequestEntry(c) PROVE TypeOK'
  <2>1. asks' \in AskType
    BY <1>1, <1>33, AskFacts DEF ServeRequestEntry, Asked, AskKinds
  <2> QED
    BY <1>33, <2>1 DEF ServeRequestEntry, AskType
<1>34. ASSUME EndRequests PROVE TypeOK'
  BY <1>34 DEF EndRequests
<1>36. ASSUME NEW c \in Chains, NEW o \in Outcomes, StoreCallback(c, o) PROVE TypeOK'
  <2>1. asks' \in AskType
    BY <1>1, <1>36, AskFacts DEF StoreCallback, Done, Waiting, AskKinds
  <2> QED
    BY <1>36, <2>1 DEF StoreCallback, AskType
<1>35. CASE UNCHANGED vars
  BY <1>35 DEF vars
<1> QED
  BY <1>2, <1>3, <1>4, <1>5, <1>6, <1>7, <1>8, <1>9, <1>10, <1>11, <1>12,
     <1>13, <1>14, <1>15, <1>16, <1>17, <1>18, <1>19, <1>20, <1>21, <1>22,
     <1>23, <1>24, <1>25, <1>26, <1>27, <1>28, <1>29, <1>30, <1>31, <1>32,
     <1>33, <1>34, <1>35, <1>36
     DEF Next, Environment, Process, Callback, HandleClient, PollNetwork, HandleEvent,
         PollSpaces, Serve

-----------------------------------------------------------------------------
(* A step that leaves the spaces and the messages alone.                    *)
LEMMA QuietStep ==
    ASSUME EngineInv, TypeOK',
           UNCHANGED <<given, gateways, taken, routes, member, messageVars>>,
           commands' \subseteq commands,
           events' \subseteq events,
           pc' = pc \/ {pc, pc'} \cap {"events", "spaces", "requests"} = {},
           dead' # "event"
    PROVE  EngineInv'
  BY DEF EngineInv, MapInv, RoutesFollowGateways, QueueInv, DrainedInv, ReplyInv,
         EventHasGateway

(* A command only queues a new message. *)
LEMMA ClientCommandInv ==
    ASSUME EngineInv, TypeOK', NEW d \in Commands, ClientCommand(d)
    PROVE  EngineInv'
<1> USE DEF EngineInv, TypeOK, Messages, Ended, ClientCommand, Commands
<1>1. MapInv'
  BY DEF MapInv
<1>2. RoutesFollowGateways'
  BY DEF MapInv, RoutesFollowGateways
<1>3. QueueInv'
  BY DEF QueueInv, ReplyInv
<1>4. DrainedInv'
  BY DEF DrainedInv, MapInv, QueueInv
<1>5. ReplyInv'
  BY DEF ReplyInv, QueueInv, DrainedInv
<1>6. EventHasGateway'
  BY DEF EventHasGateway, DrainedInv
<1> QED
  BY <1>1, <1>2, <1>3, <1>4, <1>5, <1>6

(* An event is queued; a result follows the send it answers. *)
LEMMA NetworkEventInv ==
    ASSUME EngineInv, TypeOK', NEW e \in Events, NetworkEvent(e)
    PROVE  EngineInv'
<1> USE DEF EngineInv, TypeOK, Messages, Ended, NetworkEvent, Events
<1>1. MapInv'
  BY DEF MapInv
<1>2. RoutesFollowGateways'
  BY DEF MapInv, RoutesFollowGateways
<1>3. QueueInv'
  BY DEF QueueInv, ReplyInv
<1>4. DrainedInv'
  BY DEF DrainedInv, MapInv, QueueInv
<1>5. ReplyInv'
  BY DEF ReplyInv, QueueInv, DrainedInv
<1>6. EventHasGateway'
  BY DEF EventHasGateway, DrainedInv
<1> QED
  BY <1>1, <1>2, <1>3, <1>4, <1>5, <1>6

(* The client's answer ends a message it was asked to handle. *)
LEMMA DirectCallbackInv ==
    ASSUME EngineInv, TypeOK', NEW m \in Incoming, NEW o \in Outcomes, DirectCallback(m, o)
    PROVE  EngineInv'
<1> USE DEF EngineInv, TypeOK, Messages, Ended, DirectCallback
<1>1. MapInv'
  BY DEF MapInv
<1>2. RoutesFollowGateways'
  BY DEF MapInv, RoutesFollowGateways
<1>3. QueueInv'
  BY DEF QueueInv, ReplyInv
<1>4. DrainedInv'
  BY DEF DrainedInv, MapInv, QueueInv
<1>5. ReplyInv'
  BY DEF ReplyInv, QueueInv, DrainedInv
<1>6. EventHasGateway'
  BY DEF EventHasGateway, DrainedInv
<1> QED
  BY <1>1, <1>2, <1>3, <1>4, <1>5, <1>6

(* An answered query ends. *)
LEMMA QueryCallbackInv ==
    ASSUME EngineInv, TypeOK', NEW m \in Requests, NEW o \in Outcomes, QueryCallback(m, o)
    PROVE  EngineInv'
<1> USE DEF EngineInv, TypeOK, Messages, Ended, QueryCallback
<1>1. MapInv'
  BY DEF MapInv
<1>2. RoutesFollowGateways'
  BY DEF MapInv, RoutesFollowGateways
<1>3. QueueInv'
  BY DEF QueueInv, ReplyInv
<1>4. DrainedInv'
  BY DEF DrainedInv, MapInv, QueueInv
<1>5. ReplyInv'
  BY DEF ReplyInv, QueueInv, DrainedInv
<1>6. EventHasGateway'
  BY DEF EventHasGateway, DrainedInv
<1> QED
  BY <1>1, <1>2, <1>3, <1>4, <1>5, <1>6

(* A joined space gets its gateway and its route together. *)
LEMMA HandleJoinInv ==
    ASSUME EngineInv, TypeOK', NEW c \in Chains, HandleJoin(c)
    PROVE  EngineInv'
<1> USE DEF EngineInv, TypeOK, Messages, Ended, HandleJoin
<1>1. MapInv'
  BY DEF MapInv
<1>2. RoutesFollowGateways'
  BY DEF MapInv, RoutesFollowGateways
<1>3. QueueInv'
  BY DEF QueueInv, ReplyInv
<1>4. DrainedInv'
  BY DEF DrainedInv, MapInv, QueueInv
<1>5. ReplyInv'
  BY DEF ReplyInv, QueueInv, DrainedInv
<1>6. EventHasGateway'
  BY DEF EventHasGateway, DrainedInv
<1> QED
  BY <1>1, <1>2, <1>3, <1>4, <1>5, <1>6

(* A departure takes the gateway, the route and what is inside along. *)
LEMMA HandleLeaveInv ==
    ASSUME EngineInv, TypeOK', NEW c \in Chains, HandleLeave(c)
    PROVE  EngineInv'
<1> USE DEF EngineInv, TypeOK, Messages, Ended, HandleLeave, StageWithout, ReplyWithout, InGateway
<1>1. MapInv'
  BY DEF MapInv
<1>2. RoutesFollowGateways'
  BY DEF MapInv, RoutesFollowGateways
<1>3. QueueInv'
  <2>1. \A m \in Messages : stage[m] = "queued" => stage'[m] = "queued"
    OBVIOUS
  <2>2. \A m \in Requests : reply[m] = "queued" => reply'[m] = "queued"
    OBVIOUS
  <2>3. commands' \subseteq commands /\ events' = events
    OBVIOUS
  <2> QED
    BY <2>1, <2>2, <2>3 DEF QueueInv
<1>4. DrainedInv'
  BY DEF DrainedInv, MapInv, QueueInv
<1>5. ReplyInv'
  BY DEF ReplyInv, QueueInv, DrainedInv
<1>6. EventHasGateway'
  BY DEF EventHasGateway, DrainedInv
<1> QED
  BY <1>1, <1>2, <1>3, <1>4, <1>5, <1>6

(* An error drops the queued commands, and with them only queued messages. *)
LEMMA HandlePublishInv ==
    ASSUME EngineInv, TypeOK', NEW c \in Chains, HandlePublish(c)
    PROVE  EngineInv'
<1> USE DEF EngineInv, TypeOK, Messages, Ended, HandlePublish, QueueLost
<1>1. MapInv'
  BY DEF MapInv
<1>2. RoutesFollowGateways'
  BY DEF MapInv, RoutesFollowGateways
<1>3. QueueInv'
  BY DEF QueueInv, ReplyInv
<1>4. DrainedInv'
  BY DEF DrainedInv, MapInv, QueueInv
<1>5. ReplyInv'
  BY DEF ReplyInv, QueueInv, DrainedInv
<1>6. EventHasGateway'
  BY DEF EventHasGateway, DrainedInv
<1> QED
  BY <1>1, <1>2, <1>3, <1>4, <1>5, <1>6

(* A queued message is given to a gateway, to the client or to the network. *)
LEMMA HandleAskInv ==
    ASSUME EngineInv, TypeOK', NEW m \in Requests, HandleAsk(m)
    PROVE  EngineInv'
<1> USE DEF EngineInv, TypeOK, Messages, Ended, HandleAsk
<1>1. MapInv'
  BY DEF MapInv
<1>2. RoutesFollowGateways'
  BY DEF MapInv, RoutesFollowGateways
<1>3. QueueInv'
  BY DEF QueueInv, ReplyInv
<1>4. DrainedInv'
  BY DEF DrainedInv, MapInv, QueueInv
<1>5. ReplyInv'
  BY DEF ReplyInv, QueueInv, DrainedInv
<1>6. EventHasGateway'
  BY DEF EventHasGateway, DrainedInv
<1> QED
  BY <1>1, <1>2, <1>3, <1>4, <1>5, <1>6

(* A message that went out may be answered from now on, whether or not its
   send is known to have succeeded. *)
LEMMA SentInv ==
    ASSUME EngineInv, TypeOK', NEW m \in Requests, SendFrame(m) \/ AckSend(m)
    PROVE  EngineInv'
<1> USE DEF EngineInv, TypeOK, Messages, Ended, SendFrame, AckSend, Delivered
<1>1. MapInv'
  BY DEF MapInv
<1>2. RoutesFollowGateways'
  BY DEF MapInv, RoutesFollowGateways
<1>3. QueueInv'
  BY DEF QueueInv, ReplyInv
<1>4. DrainedInv'
  BY DEF DrainedInv, MapInv, QueueInv
<1>5. ReplyInv'
  BY DEF ReplyInv, QueueInv, DrainedInv
<1>6. EventHasGateway'
  BY DEF EventHasGateway, DrainedInv
<1> QED
  BY <1>1, <1>2, <1>3, <1>4, <1>5, <1>6

(* A bootstrap ends. *)
LEMMA BootstrapCallbackInv ==
    ASSUME EngineInv, TypeOK', NEW m \in Requests, BootstrapCallback(m)
    PROVE  EngineInv'
<1> USE DEF EngineInv, TypeOK, Messages, Ended, BootstrapCallback
<1>1. MapInv'
  BY DEF MapInv
<1>2. RoutesFollowGateways'
  BY DEF MapInv, RoutesFollowGateways
<1>3. QueueInv'
  BY DEF QueueInv, ReplyInv
<1>4. DrainedInv'
  BY DEF DrainedInv, MapInv, QueueInv
<1>5. ReplyInv'
  BY DEF ReplyInv, QueueInv, DrainedInv
<1>6. EventHasGateway'
  BY DEF EventHasGateway, DrainedInv
<1> QED
  BY <1>1, <1>2, <1>3, <1>4, <1>5, <1>6

(* The routes without a gateway are removed. *)
LEMMA EndPollInv ==
    ASSUME EngineInv, TypeOK', EndPoll
    PROVE  EngineInv'
<1> USE DEF EngineInv, TypeOK, Messages, Ended, EndPoll
<1>1. MapInv'
  BY DEF MapInv
<1>2. RoutesFollowGateways'
  BY DEF MapInv, RoutesFollowGateways
<1>3. QueueInv'
  BY DEF QueueInv, ReplyInv
<1>4. DrainedInv'
  BY DEF DrainedInv, MapInv, QueueInv
<1>5. ReplyInv'
  BY DEF ReplyInv, QueueInv, DrainedInv
<1>6. EventHasGateway'
  BY DEF EventHasGateway, DrainedInv
<1> QED
  BY <1>1, <1>2, <1>3, <1>4, <1>5, <1>6

(* An incoming message goes into the gateway its route leads to. *)
LEMMA HandleDirectInv ==
    ASSUME EngineInv, TypeOK', NEW m \in Incoming, HandleDirect(m)
    PROVE  EngineInv'
<1> USE DEF EngineInv, TypeOK, Messages, Ended, HandleDirect, QueueLost
<1>1. MapInv'
  BY DEF MapInv
<1>2. RoutesFollowGateways'
  BY DEF MapInv, RoutesFollowGateways
<1>3. QueueInv'
  BY DEF QueueInv, ReplyInv
<1>4. DrainedInv'
  BY DEF DrainedInv, MapInv, QueueInv
<1>5. ReplyInv'
  BY DEF ReplyInv, QueueInv, DrainedInv
<1>6. EventHasGateway'
  BY DEF EventHasGateway, DrainedInv
<1> QED
  BY <1>1, <1>2, <1>3, <1>4, <1>5, <1>6

(* A result goes into the gateway its route leads to. *)
LEMMA HandleResultInv ==
    ASSUME EngineInv, TypeOK', NEW m \in Requests, HandleResult(m)
    PROVE  EngineInv'
<1> USE DEF EngineInv, TypeOK, Messages, Ended, HandleResult, QueueLost
<1>1. MapInv'
  BY DEF MapInv
<1>2. RoutesFollowGateways'
  BY DEF MapInv, RoutesFollowGateways
<1>3. QueueInv'
  BY DEF QueueInv, ReplyInv
<1>4. DrainedInv'
  BY DEF DrainedInv, MapInv, QueueInv
<1>5. ReplyInv'
  BY DEF ReplyInv, QueueInv, DrainedInv
<1>6. EventHasGateway'
  BY DEF EventHasGateway, DrainedInv
<1> QED
  BY <1>1, <1>2, <1>3, <1>4, <1>5, <1>6

(* The map is drained as a whole. *)
LEMMA EndEventsInv ==
    ASSUME EngineInv, TypeOK', EndEvents
    PROVE  EngineInv'
<1> USE DEF EngineInv, TypeOK, Messages, Ended, EndEvents
<1>1. MapInv'
  BY DEF MapInv
<1>2. RoutesFollowGateways'
  BY DEF MapInv, RoutesFollowGateways
<1>3. QueueInv'
  BY DEF QueueInv, ReplyInv
<1>4. DrainedInv'
  BY DEF DrainedInv, MapInv, QueueInv
<1>5. ReplyInv'
  BY DEF ReplyInv, QueueInv, DrainedInv
<1>6. EventHasGateway'
  BY DEF EventHasGateway, DrainedInv
<1> QED
  BY <1>1, <1>2, <1>3, <1>4, <1>5, <1>6

(* A polled gateway is put back, and what is drained belongs to it.  Its
   callbacks run before its results are drained. *)
LEMMA ProcessGatewayInv ==
    ASSUME EngineInv, TypeOK', NEW c \in Chains, ProcessGateway(c)
    PROVE  EngineInv'
<1> USE DEF EngineInv, TypeOK, Messages, Ended, ProcessGateway, Called, Acked, Sending
<1>1. MapInv'
  BY DEF MapInv
<1>2. RoutesFollowGateways'
  BY DEF MapInv, RoutesFollowGateways
<1>3. QueueInv'
  BY DEF QueueInv, ReplyInv
<1>4. DrainedInv'
  BY DEF DrainedInv, MapInv, QueueInv
<1>5. ReplyInv'
  BY DEF ReplyInv, QueueInv, DrainedInv
<1>6. EventHasGateway'
  BY DEF EventHasGateway, DrainedInv
<1> QED
  BY <1>1, <1>2, <1>3, <1>4, <1>5, <1>6

(* An error leaves nothing drained behind. *)
LEMMA FailGatewayInv ==
    ASSUME EngineInv, TypeOK', NEW c \in Chains, FailGateway(c)
    PROVE  EngineInv'
<1> USE DEF EngineInv, TypeOK, Messages, Ended, FailGateway, Called, Acked, Sending,
            StageWithout, ReplyWithout, InGateway
<1>1. MapInv'
  BY DEF MapInv
<1>2. RoutesFollowGateways'
  BY DEF MapInv, RoutesFollowGateways
<1>3. QueueInv'
  BY DEF QueueInv, ReplyInv
<1>4. DrainedInv'
  BY DEF DrainedInv, MapInv, QueueInv
<1>5. ReplyInv'
  BY DEF ReplyInv, QueueInv, DrainedInv
<1>6. EventHasGateway'
  BY DEF EventHasGateway, DrainedInv
<1> QED
  BY <1>1, <1>2, <1>3, <1>4, <1>5, <1>6

(* All gateways were put back. *)
LEMMA EndSpacesInv ==
    ASSUME EngineInv, TypeOK', EndSpaces
    PROVE  EngineInv'
<1> USE DEF EngineInv, TypeOK, Messages, Ended, EndSpaces
<1>1. MapInv'
  BY DEF MapInv
<1>2. RoutesFollowGateways'
  BY DEF MapInv, RoutesFollowGateways
<1>3. QueueInv'
  BY DEF QueueInv, ReplyInv
<1>4. DrainedInv'
  BY DEF DrainedInv, MapInv, QueueInv
<1>5. ReplyInv'
  BY DEF ReplyInv, QueueInv, DrainedInv
<1>6. EventHasGateway'
  BY DEF EventHasGateway, DrainedInv
<1> QED
  BY <1>1, <1>2, <1>3, <1>4, <1>5, <1>6

(* A drained message has its gateway in the map. *)
LEMMA ServeDirectInv ==
    ASSUME EngineInv, TypeOK', NEW m \in Incoming, ServeDirect(m)
    PROVE  EngineInv'
<1> USE DEF EngineInv, TypeOK, Messages, Ended, ServeDirect
<1>1. MapInv'
  BY DEF MapInv
<1>2. RoutesFollowGateways'
  BY DEF MapInv, RoutesFollowGateways
<1>3. QueueInv'
  BY DEF QueueInv, ReplyInv
<1>4. DrainedInv'
  BY DEF DrainedInv, MapInv, QueueInv
<1>5. ReplyInv'
  BY DEF ReplyInv, QueueInv, DrainedInv
<1>6. EventHasGateway'
  BY DEF EventHasGateway, DrainedInv
<1> QED
  BY <1>1, <1>2, <1>3, <1>4, <1>5, <1>6

(* A drained result finds its message pending, or ended. *)
LEMMA ServeResultInv ==
    ASSUME EngineInv, TypeOK', NEW m \in Requests, ServeResult(m)
    PROVE  EngineInv'
<1> USE DEF EngineInv, TypeOK, Messages, Ended, ServeResult
<1>1. MapInv'
  BY DEF MapInv
<1>2. RoutesFollowGateways'
  BY DEF MapInv, RoutesFollowGateways
<1>3. QueueInv'
  BY DEF QueueInv, ReplyInv
<1>4. DrainedInv'
  BY DEF DrainedInv, MapInv, QueueInv
<1>5. ReplyInv'
  BY DEF ReplyInv, QueueInv, DrainedInv
<1>6. EventHasGateway'
  BY DEF EventHasGateway, DrainedInv
<1> QED
  BY <1>1, <1>2, <1>3, <1>4, <1>5, <1>6

(* All that was drained is served. *)
LEMMA EndRequestsInv ==
    ASSUME EngineInv, TypeOK', EndRequests
    PROVE  EngineInv'
<1> USE DEF EngineInv, TypeOK, Messages, Ended, EndRequests
<1>1. MapInv'
  BY DEF MapInv
<1>2. RoutesFollowGateways'
  BY DEF MapInv, RoutesFollowGateways
<1>3. QueueInv'
  BY DEF QueueInv, ReplyInv
<1>4. DrainedInv'
  BY DEF DrainedInv, MapInv, QueueInv
<1>5. ReplyInv'
  BY DEF ReplyInv, QueueInv, DrainedInv
<1>6. EventHasGateway'
  BY DEF EventHasGateway, DrainedInv
<1> QED
  BY <1>1, <1>2, <1>3, <1>4, <1>5, <1>6

(* Every step keeps the invariant. *)
LEMMA InvStep ==
    ASSUME EngineInv, [Next]_vars
    PROVE  EngineInv'
<1>1. TypeOK'
  BY TypeStep DEF EngineInv
<1>2. dead # "event"
  BY DEF EngineInv, EventHasGateway
<1>3. ASSUME Tick PROVE EngineInv'
  BY <1>1, <1>2, <1>3, QuietStep DEF Tick
<1>4. ASSUME Begin PROVE EngineInv'
  BY <1>1, <1>2, <1>4, QuietStep DEF Begin
<1>5. ASSUME NEW c \in Chains, NEW o \in Outcomes, ListCallback(c, o) PROVE EngineInv'
  BY <1>1, <1>2, <1>5, QuietStep DEF ListCallback
<1>6. ASSUME NEW c \in Chains, NEW o \in Outcomes, FetchCallback(c, o) PROVE EngineInv'
  BY <1>1, <1>2, <1>6, QuietStep DEF FetchCallback
<1>7. ASSUME NEW c \in Chains, NEW o \in Outcomes, EntryCallback(c, o) PROVE EngineInv'
  BY <1>1, <1>2, <1>7, QuietStep DEF EntryCallback
<1>17. ASSUME NEW c \in Chains, NEW o \in Outcomes, StoreCallback(c, o) PROVE EngineInv'
  BY <1>1, <1>2, <1>17, QuietStep DEF StoreCallback
<1>8. ASSUME LateAnswer PROVE EngineInv'
  BY <1>1, <1>2, <1>8, QuietStep DEF LateAnswer
<1>9. ASSUME EndEndpoint PROVE EngineInv'
  BY <1>1, <1>2, <1>9, QuietStep DEF EndEndpoint
<1>10. ASSUME EndClient PROVE EngineInv'
  BY <1>1, <1>2, <1>10, QuietStep DEF EndClient
<1>11. ASSUME NEW l \in Locations, PeerListCallback(l) PROVE EngineInv'
  BY <1>1, <1>2, <1>11, QuietStep DEF PeerListCallback
<1>12. ASSUME MultiplexerFails PROVE EngineInv'
  BY <1>1, <1>2, <1>12, QuietStep DEF MultiplexerFails
<1>13. ASSUME NEW s \in RemoteJoins, HandleBroadcastJoin(s) PROVE EngineInv'
  BY <1>1, <1>2, <1>13, QuietStep DEF HandleBroadcastJoin
<1>14. ASSUME NEW l \in Locations, HandleConnection(l) PROVE EngineInv'
  BY <1>1, <1>2, <1>14, QuietStep DEF HandleConnection
<1>15. ASSUME NEW c \in Chains, ServeRequestEntry(c) PROVE EngineInv'
  BY <1>1, <1>2, <1>15, QuietStep DEF ServeRequestEntry
<1>16. CASE UNCHANGED vars
  BY <1>1, <1>2, <1>16, QuietStep DEF vars
<1> QED
  BY <1>1, <1>2, <1>3, <1>4, <1>5, <1>6, <1>7, <1>8, <1>9, <1>10, <1>11,
     <1>12, <1>13, <1>14, <1>15, <1>16, <1>17,
     ClientCommandInv, NetworkEventInv, DirectCallbackInv,
     QueryCallbackInv, HandleJoinInv, HandleLeaveInv, HandlePublishInv,
     HandleAskInv, SentInv, BootstrapCallbackInv, EndPollInv,
     HandleDirectInv, HandleResultInv, EndEventsInv, ProcessGatewayInv,
     FailGatewayInv, EndSpacesInv, ServeDirectInv, ServeResultInv,
     EndRequestsInv
     DEF Next, Environment, Process, Callback, HandleClient, PollNetwork, HandleEvent,
         PollSpaces, Serve

(* The invariant holds of a new engine. *)
LEMMA InitInv == Init => EngineInv
<1> SUFFICES ASSUME Init PROVE EngineInv
  OBVIOUS
<1>1. asks \in [Chains \X AskKinds -> Nat]
  BY DEF Init
<1>2. listing \in [Locations -> -1..PeerListTimeout]
  BY DEF Init
<1>3. stage \in [Messages -> Stages] /\ reply \in [Requests -> Replies]
  BY DEF Init, Stages, Replies
<1>4. TypeOK
  BY <1>1, <1>2, <1>3 DEF Init, TypeOK
<1> QED
  BY <1>4 DEF Init, EngineInv, MapInv, RoutesFollowGateways, QueueInv, DrainedInv, ReplyInv,
              EventHasGateway, Messages

-----------------------------------------------------------------------------
(* Every call of process(), whatever the client and the network answer,     *)
(* keeps the engine's maps and queues in their types.                       *)
THEOREM EngineTypeCorrect == Spec => []TypeOK
<1>1. Init => TypeOK
  BY InitInv DEF EngineInv
<1>2. TypeOK /\ [Next]_vars => TypeOK'
  BY TypeStep
<1> QED
  BY <1>1, <1>2, PTL DEF Spec

(* The inductive invariant of the engine.                                   *)
THEOREM EngineInvariant == Spec => []EngineInv
<1>1. EngineInv /\ [Next]_vars => EngineInv'
  BY InvStep
<1> QED
  BY <1>1, InitInv, PTL DEF Spec

(* A joined space always has a route, and no other route is left when the   *)
(* events of the network are served (mplex.rs:384-399).                      *)
THEOREM EngineRoutes == Spec => []RoutesFollowGateways
<1>1. EngineInv => RoutesFollowGateways
  BY DEF EngineInv
<1> QED
  BY <1>1, EngineInvariant, PTL

(* handle_space_request finds the gateway that made the request             *)
(* (space_layer.rs:100): the expect never panics.                           *)
THEOREM EngineEvents == Spec => []EventHasGateway
<1>1. EngineInv => EventHasGateway
  BY DEF EngineInv
<1> QED
  BY <1>1, EngineInvariant, PTL

-----------------------------------------------------------------------------
(* Only an error, a departure or an unanswered query loses a message.       *)
LostWith(m) ==
    (stage'[m] = "lost" /\ stage[m] # "lost") =>
        \/ pc' = "idle" /\ result' = "Err"
        \/ chain[m] \in member \ member'
        \/ m \in Requests /\ kind[m] = "query"

(* The steps that may lose a message, and all the others. *)
LEMMA LossStep ==
    ASSUME EngineInv, [Next]_vars, NEW m \in Messages
    PROVE  LostWith(m)
<1> USE DEF EngineInv, TypeOK, Messages, LostWith
<1>1. ASSUME NEW d \in Commands, ClientCommand(d) PROVE LostWith(m)
  BY <1>1 DEF ClientCommand, Commands
<1>2. ASSUME NEW e \in Events, NetworkEvent(e) PROVE LostWith(m)
  BY <1>2 DEF NetworkEvent, Events
<1>3. ASSUME NEW n \in Incoming, NEW o \in Outcomes, DirectCallback(n, o) PROVE LostWith(m)
  BY <1>3 DEF DirectCallback
<1>4. ASSUME NEW n \in Requests, NEW o \in Outcomes, QueryCallback(n, o) PROVE LostWith(m)
  BY <1>4 DEF QueryCallback
<1>5. ASSUME NEW c \in Chains, HandleLeave(c) PROVE LostWith(m)
  BY <1>5 DEF HandleLeave, MapInv, StageWithout
<1>6. ASSUME NEW c \in Chains, HandlePublish(c) PROVE LostWith(m)
  BY <1>6 DEF HandlePublish, QueueLost
<1>7. ASSUME NEW n \in Requests, HandleAsk(n) PROVE LostWith(m)
  BY <1>7 DEF HandleAsk
<1>8. ASSUME NEW n \in Requests, AckSend(n) PROVE LostWith(m)
  BY <1>8 DEF AckSend
<1>9. ASSUME NEW n \in Requests, BootstrapCallback(n) PROVE LostWith(m)
  BY <1>9 DEF BootstrapCallback
<1>10. ASSUME NEW n \in Incoming, HandleDirect(n) PROVE LostWith(m)
  BY <1>10 DEF HandleDirect, QueueLost
<1>11. ASSUME NEW n \in Requests, HandleResult(n) PROVE LostWith(m)
  BY <1>11 DEF HandleResult, QueueLost
<1>12. ASSUME NEW c \in Chains, ProcessGateway(c) PROVE LostWith(m)
  BY <1>12 DEF ProcessGateway, Called
<1>13. ASSUME NEW c \in Chains, FailGateway(c) PROVE LostWith(m)
  BY <1>13 DEF FailGateway, Called
<1>14. ASSUME NEW n \in Incoming, ServeDirect(n) PROVE LostWith(m)
  BY <1>14 DEF ServeDirect
<1>15. ASSUME NEW n \in Requests, ServeResult(n) PROVE LostWith(m)
  BY <1>15 DEF ServeResult
<1>16. ASSUME \/ Tick
              \/ Begin
              \/ \E c \in Chains, o \in Outcomes : ListCallback(c, o)
              \/ \E c \in Chains, o \in Outcomes : FetchCallback(c, o)
              \/ \E c \in Chains, o \in Outcomes : EntryCallback(c, o)
              \/ \E c \in Chains, o \in Outcomes : StoreCallback(c, o)
              \/ LateAnswer
              \/ EndEndpoint
              \/ \E n \in Requests : SendFrame(n)
              \/ \E c \in Chains : HandleJoin(c)
              \/ EndClient
              \/ \E l \in Locations : PeerListCallback(l)
              \/ EndPoll
              \/ MultiplexerFails
              \/ \E s \in RemoteJoins : HandleBroadcastJoin(s)
              \/ \E l \in Locations : HandleConnection(l)
              \/ EndEvents
              \/ EndSpaces
              \/ \E c \in Chains : ServeRequestEntry(c)
              \/ EndRequests
              \/ UNCHANGED vars
       PROVE  LostWith(m)
  <2>1. UNCHANGED stage
    BY <1>16 DEF vars, Tick, Begin, ListCallback, FetchCallback, EntryCallback,
           StoreCallback, LateAnswer, SendFrame, EndEndpoint, HandleJoin, EndClient, PeerListCallback, EndPoll, MultiplexerFails,
           HandleBroadcastJoin, HandleConnection, EndEvents, EndSpaces, ServeRequestEntry,
           EndRequests
  <2> QED
    BY <2>1
<1> QED
  BY <1>1, <1>2, <1>3, <1>4, <1>5, <1>6, <1>7, <1>8, <1>9, <1>10, <1>11,
     <1>12, <1>13, <1>14, <1>15, <1>16
     DEF Next, Environment, Process, Callback, HandleClient, PollNetwork, HandleEvent,
         PollSpaces, Serve

(* ACTION. A direct message is dropped only in a call that returns an       *)
(* error, or with the space it belongs to when the client leaves it.        *)
THEOREM EngineLoss == Spec => NoSilentLoss
<1>1. EngineInv /\ [Next]_vars
        => [\A m \in Messages :
             (stage'[m] = "lost" /\ stage[m] # "lost") =>
                \/ pc' = "idle" /\ result' = "Err"
                \/ chain[m] \in member \ member'
                \/ m \in Requests /\ kind[m] = "query"]_vars
  BY LossStep DEF LostWith
<1> QED
  BY <1>1, EngineInvariant, PTL DEF Spec, NoSilentLoss

-----------------------------------------------------------------------------
(* A result is thrown away only with a message that ended, or by overtaking *)
(* the success of its send.                                                 *)
WastedWith(m) ==
    (reply'[m] = "done" /\ reply[m] # "done") => stage[m] = "sending" \/ stage'[m] \in Ended

(* Only a served result is done, and the callback of its send, if it has    *)
(* succeeded, was run when the result was drained. *)
LEMMA ResultStep ==
    ASSUME EngineInv, [Next]_vars, NEW m \in Requests
    PROVE  WastedWith(m)
<1> USE DEF EngineInv, TypeOK, Messages, WastedWith
<1>1. ASSUME NEW n \in Requests, ServeResult(n) PROVE WastedWith(m)
  BY <1>1 DEF ServeResult, ReplyInv, Ended
<1>2. ASSUME NEW e \in Events, NetworkEvent(e) PROVE WastedWith(m)
  BY <1>2 DEF NetworkEvent, Events
<1>3. ASSUME NEW c \in Chains, HandleLeave(c) PROVE WastedWith(m)
  BY <1>3 DEF HandleLeave, ReplyWithout
<1>4. ASSUME NEW n \in Requests, SendFrame(n) \/ AckSend(n) PROVE WastedWith(m)
  BY <1>4 DEF SendFrame, AckSend, Delivered
<1>5. ASSUME NEW n \in Incoming, HandleDirect(n) PROVE WastedWith(m)
  BY <1>5 DEF HandleDirect
<1>6. ASSUME NEW n \in Requests, HandleResult(n) PROVE WastedWith(m)
  BY <1>6 DEF HandleResult
<1>7. ASSUME NEW c \in Chains, ProcessGateway(c) PROVE WastedWith(m)
  BY <1>7 DEF ProcessGateway
<1>8. ASSUME NEW c \in Chains, FailGateway(c) PROVE WastedWith(m)
  BY <1>8 DEF FailGateway, ReplyWithout
<1>9. ASSUME  \/ \E d \in Commands : ClientCommand(d)
              \/ Tick
              \/ Begin
              \/ \E c \in Chains, o \in Outcomes : ListCallback(c, o)
              \/ \E c \in Chains, o \in Outcomes : FetchCallback(c, o)
              \/ \E c \in Chains, o \in Outcomes : EntryCallback(c, o)
              \/ \E c \in Chains, o \in Outcomes : StoreCallback(c, o)
              \/ \E n \in Incoming, o \in Outcomes : DirectCallback(n, o)
              \/ \E n \in Requests, o \in Outcomes : QueryCallback(n, o)
              \/ LateAnswer
              \/ EndEndpoint
              \/ \E c \in Chains : HandleJoin(c)
              \/ \E c \in Chains : HandlePublish(c)
              \/ \E n \in Requests : HandleAsk(n)
              \/ EndClient
              \/ \E n \in Requests : BootstrapCallback(n)
              \/ \E l \in Locations : PeerListCallback(l)
              \/ EndPoll
              \/ MultiplexerFails
              \/ \E s \in RemoteJoins : HandleBroadcastJoin(s)
              \/ \E l \in Locations : HandleConnection(l)
              \/ EndEvents
              \/ EndSpaces
              \/ \E n \in Incoming : ServeDirect(n)
              \/ \E c \in Chains : ServeRequestEntry(c)
              \/ EndRequests
              \/ UNCHANGED vars
       PROVE  WastedWith(m)
  <2>1. UNCHANGED reply
    BY <1>9 DEF vars, ClientCommand, Tick, Begin, ListCallback, FetchCallback, EntryCallback,
           StoreCallback, DirectCallback, QueryCallback, LateAnswer, EndEndpoint, HandleJoin,
           HandlePublish, HandleAsk, EndClient, BootstrapCallback, PeerListCallback, EndPoll,
           MultiplexerFails, HandleBroadcastJoin, HandleConnection, EndEvents, EndSpaces,
           ServeDirect, ServeRequestEntry, EndRequests
  <2> QED
    BY <2>1
<1> QED
  BY <1>1, <1>2, <1>3, <1>4, <1>5, <1>6, <1>7, <1>8, <1>9
     DEF Next, Environment, Process, Callback, HandleClient, PollNetwork, HandleEvent,
         PollSpaces, Serve

(* ACTION. A result is thrown away only if its message has ended, or if it  *)
(* overtakes the success of its send: with a websocket a frame may go out   *)
(* whose write was reported failed (websocket/actor.rs:175-182).            *)
THEOREM EngineResults == Spec => NoResultWasted
<1>1. EngineInv /\ [Next]_vars
        => [\A m \in Requests :
             (reply'[m] = "done" /\ reply[m] # "done") =>
                stage[m] = "sending" \/ stage'[m] \in Ended]_vars
  BY ResultStep DEF WastedWith
<1> QED
  BY <1>1, EngineInvariant, PTL DEF Spec, NoResultWasted

-----------------------------------------------------------------------------
(* Only an error or a departure drops a space.                              *)
DroppedWith(c) == c \notin member' \/ (pc' = "idle" /\ result' = "Err")

(* The steps that change the map, and all the others. *)
LEMMA SpaceStep ==
    ASSUME EngineInv, [Next]_vars,
           NEW c \in (gateways \cup taken) \ (gateways' \cup taken')
    PROVE  DroppedWith(c)
<1> USE DEF EngineInv, TypeOK, DroppedWith
<1>1. ASSUME NEW b \in Chains, HandleJoin(b) PROVE DroppedWith(c)
  BY <1>1 DEF HandleJoin
<1>2. ASSUME NEW b \in Chains, HandleLeave(b) PROVE DroppedWith(c)
  BY <1>2 DEF HandleLeave
<1>3. ASSUME EndEvents PROVE DroppedWith(c)
  BY <1>3 DEF EndEvents, MapInv
<1>4. ASSUME NEW b \in Chains, ProcessGateway(b) PROVE DroppedWith(c)
  BY <1>4 DEF ProcessGateway
<1>5. ASSUME NEW b \in Chains, FailGateway(b) PROVE DroppedWith(c)
  BY <1>5 DEF FailGateway
<1>6. ASSUME  \/ \E d \in Commands : ClientCommand(d)
              \/ \E e \in Events : NetworkEvent(e)
              \/ Tick
              \/ Begin
              \/ \E b \in Chains, o \in Outcomes : ListCallback(b, o)
              \/ \E b \in Chains, o \in Outcomes : FetchCallback(b, o)
              \/ \E b \in Chains, o \in Outcomes : EntryCallback(b, o)
              \/ \E b \in Chains, o \in Outcomes : StoreCallback(b, o)
              \/ \E m \in Incoming, o \in Outcomes : DirectCallback(m, o)
              \/ \E m \in Requests, o \in Outcomes : QueryCallback(m, o)
              \/ LateAnswer
              \/ EndEndpoint
              \/ \E b \in Chains : HandlePublish(b)
              \/ \E m \in Requests : HandleAsk(m)
              \/ EndClient
              \/ \E m \in Requests : SendFrame(m)
              \/ \E m \in Requests : AckSend(m)
              \/ \E m \in Requests : BootstrapCallback(m)
              \/ \E l \in Locations : PeerListCallback(l)
              \/ EndPoll
              \/ MultiplexerFails
              \/ \E m \in Incoming : HandleDirect(m)
              \/ \E m \in Requests : HandleResult(m)
              \/ \E s \in RemoteJoins : HandleBroadcastJoin(s)
              \/ \E l \in Locations : HandleConnection(l)
              \/ EndSpaces
              \/ \E m \in Incoming : ServeDirect(m)
              \/ \E m \in Requests : ServeResult(m)
              \/ \E b \in Chains : ServeRequestEntry(b)
              \/ EndRequests
              \/ UNCHANGED vars
       PROVE  DroppedWith(c)
  <2>1. UNCHANGED <<gateways, taken>>
    BY <1>6 DEF vars, ClientCommand, NetworkEvent, Tick, Begin, ListCallback, FetchCallback,
           EntryCallback, StoreCallback, SendFrame, DirectCallback, QueryCallback, LateAnswer, EndEndpoint,
           HandlePublish, HandleAsk, EndClient, AckSend, BootstrapCallback, PeerListCallback,
           EndPoll, MultiplexerFails, HandleDirect, HandleResult, HandleBroadcastJoin,
           HandleConnection, EndSpaces, ServeDirect, ServeResult, ServeRequestEntry,
           EndRequests
  <2> QED
    BY <2>1
<1> QED
  BY <1>1, <1>2, <1>3, <1>4, <1>5, <1>6
     DEF Next, Environment, Process, Callback, HandleClient, PollNetwork, HandleEvent,
         PollSpaces, Serve

(* ACTION. A space is dropped only by leaving it or in a call that returns  *)
(* an error, although process_space_gateways drains the map while it works  *)
(* (space_layer.rs:58-85).                                                  *)
THEOREM EngineSpaces == Spec => SpacesStay
<1>1. EngineInv /\ [Next]_vars
        => [\A c \in (gateways \cup taken) \ (gateways' \cup taken') :
             c \notin member' \/ (pc' = "idle" /\ result' = "Err")]_vars
  BY SpaceStep DEF DroppedWith
<1> QED
  BY <1>1, EngineInvariant, PTL DEF Spec, SpacesStay

=============================================================================
