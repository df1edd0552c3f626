--------------------------- MODULE MemoryTransport ---------------------------
(***************************************************************************)
(* The in-memory transport (transport/memory_mock): the MemoryNet shared   *)
(* by all transports of a process, with a MemoryServer per bound url, and  *)
(* the GhostTransportMemory actors that bind, discover, connect and send   *)
(* through it.                                                             *)
(*                                                                         *)
(* Transports may live in different threads and share the net through a    *)
(* Mutex.  One step of the model is one critical section: process_concrete *)
(* of a transport is cut wherever it lets go of the lock.  A transport that *)
(* panics under the lock poisons it, and everybody who takes it afterwards  *)
(* panics at lock().unwrap().                                               *)
(***************************************************************************)
EXTENDS Naturals, Sequences, FiniteSets

CONSTANTS
    Transports,  \* the GhostTransportMemory actors of the process
    Messages,    \* the SendMessage requests parents make, one payload each
    Sends,       \* which transport may be asked to send which message where
    Rebinders,   \* the transports whose parents may bind again
    Unbinds,     \* the urls that may be unbound
    Starts,      \* which transports are made before the clock is older than the
                 \* interval: functions to "never" or "due"
    MaxUrls      \* bound on url_count: the binds there may be

ASSUME MemoryAssumption ==
    /\ IsFiniteSet(Transports)
    /\ MaxUrls \in Nat \ {0}
    /\ "bind" \notin Messages
    /\ Sends \subseteq Transports \X Messages \X (1..MaxUrls)
    /\ Rebinders \subseteq Transports
    /\ Unbinds \subseteq 1..MaxUrls
    /\ Starts \subseteq [Transports -> {"never", "due"}]

Urls == 1..MaxUrls    \* mem://addr_1/, mem://addr_2/, ...
Unbound == 0          \* maybe_my_address is None

VARIABLES
    urlCount,     \* url_count: how many urls were handed out
    state,        \* per url: the State of its server, "None" before bind
    inboxMap,     \* per url: the keys of inbox_map
    queue,        \* per url and sender: the payloads of inbox_map
    connInbox,    \* per url: connection_inbox
    advertised,   \* advertised_machines
    addr,         \* per transport: maybe_my_address
    connections,  \* per transport: connections
    discovery,    \* per transport: last_discover against the interval
    pc,           \* per transport: where it is in process_concrete
    todo,         \* per transport: the urls its current loop has left
    events,       \* per transport and sender: the local non_connect_events
    inbox,        \* per transport: the requests of its parent
    dead,         \* per transport: its process_concrete panicked; what it had in
                  \* hand is lost and stays in the other variables as it was
    binds,        \* history: per transport, how often it was bound
    uri,          \* history: per message, where its parent sent it
    answer,       \* history: per message, how it was answered
    posted,       \* history: per sender and url, what was posted
    received      \* history: per sender and url, what the parent was told

netVars == <<urlCount, state, inboxMap, queue, connInbox, advertised>>
ownVars == <<addr, connections, discovery, binds>>
callVars == <<pc, todo, events>>
historyVars == <<uri, answer, posted, received>>
vars == <<netVars, ownVars, callVars, inbox, dead, historyVars>>

Pairs == Urls \X Urls
NoMessages == [f \in Urls |-> <<>>]

(* The state of the net and of the transports, by its types. *)
TypeOK ==
    /\ urlCount \in 0..MaxUrls
    /\ state \in [Urls -> {"None", "Running", "Closing", "Closed"}]
    /\ inboxMap \in [Urls -> SUBSET Urls]
    /\ queue \in [Urls -> [Urls -> Seq(Messages)]]
    /\ connInbox \in [Urls -> Seq(Urls)]
    /\ advertised \subseteq Urls
    /\ addr \in [Transports -> Urls \cup {Unbound}]
    /\ connections \in [Transports -> SUBSET Urls]
    /\ discovery \in [Transports -> {"never", "due", "recent"}]
    /\ pc \in [Transports -> {"idle", "discover", "connect", "inbox", "advertise"}]
    /\ todo \in [Transports -> SUBSET Urls]
    /\ events \in [Transports -> [Urls -> Seq(Messages)]]
    /\ inbox \in [Transports -> Seq(Messages \cup {"bind"})]
    /\ dead \in [Transports -> BOOLEAN]
    /\ binds \in [Transports -> Nat]
    /\ uri \in [Messages -> Urls \cup {Unbound}]
    /\ answer \in [Messages -> {"none", "ok", "err"}]
    /\ posted \in [Pairs -> Seq(Messages)]
    /\ received \in [Pairs -> Seq(Messages)]

-----------------------------------------------------------------------------
(* GhostTransportMemory::new: the first discovery is due at once, unless    *)
(* the clock is younger than the interval, in which case there is none.     *)
InitTransports ==
    /\ addr = [t \in Transports |-> Unbound]
    /\ connections = [t \in Transports |-> {}]
    /\ discovery \in Starts
    /\ pc = [t \in Transports |-> "idle"]
    /\ todo = [t \in Transports |-> {}]
    /\ events = [t \in Transports |-> NoMessages]
    /\ inbox = [t \in Transports |-> <<>>]
    /\ dead = [t \in Transports |-> FALSE]
    /\ binds = [t \in Transports |-> 0]

(* MemoryVerse::get_network, MemoryNet::new: the net of a network name. *)
InitNet ==
    /\ urlCount = 0
    /\ state = [u \in Urls |-> "None"]
    /\ inboxMap = [u \in Urls |-> {}]
    /\ queue = [u \in Urls |-> NoMessages]
    /\ connInbox = [u \in Urls |-> <<>>]
    /\ advertised = {}

Init ==
    /\ InitNet
    /\ InitTransports
    /\ uri = [m \in Messages |-> Unbound]
    /\ answer = [m \in Messages |-> "none"]
    /\ posted = [p \in Pairs |-> <<>>]
    /\ received = [p \in Pairs |-> <<>>]

-----------------------------------------------------------------------------
(* The parent of a transport, which polls it and so asks between two calls  *)
(* of process_concrete.  An engine binds once; Rebinders may do it again,   *)
(* and MaxUrls bounds what parents may ask for.                             *)
BindsAsked ==
    urlCount + Cardinality({t \in Transports : \E i \in DOMAIN inbox[t] : inbox[t][i] = "bind"})

AskBind(t) ==
    /\ ~dead[t]
    /\ pc[t] = "idle"
    /\ binds[t] > 0 => t \in Rebinders
    /\ BindsAsked < MaxUrls
    /\ ~\E i \in DOMAIN inbox[t] : inbox[t][i] = "bind"
    /\ inbox' = [inbox EXCEPT ![t] = Append(@, "bind")]
    /\ UNCHANGED <<netVars, ownVars, callVars, dead, historyVars>>

AskSend(t) ==
    /\ ~dead[t]
    /\ pc[t] = "idle"
    /\ \E m \in Messages, u \in Urls :
         /\ <<t, m, u>> \in Sends
         /\ uri[m] = Unbound
         /\ uri' = [uri EXCEPT ![m] = u]
         /\ inbox' = [inbox EXCEPT ![t] = Append(@, m)]
    /\ UNCHANGED <<netVars, ownVars, callVars, dead, answer, posted, received>>

(* Instant::elapsed passes discover_interval_ms. *)
DiscoveryDue(t) ==
    /\ ~dead[t]
    /\ discovery[t] = "recent"
    /\ pc[t] = "idle"
    /\ discovery' = [discovery EXCEPT ![t] = "due"]
    /\ UNCHANGED <<netVars, addr, connections, binds, callVars, inbox, dead, historyVars>>

(* The mutex of the net is poisoned: the panics there are happen under it, *)
(* or because it is.                                                        *)
Poisoned == \E t \in Transports : dead[t]

(* MemoryNet::unbind, MemoryServer::close.  Closing a closed server opens   *)
(* it for one more process().                                               *)
Unbind ==
    /\ ~Poisoned
    /\ \E u \in Unbinds :
         /\ state[u] # "None"
         /\ state' = [state EXCEPT ![u] = "Closing"]
    /\ UNCHANGED <<urlCount, inboxMap, queue, connInbox, advertised, ownVars,
                   callVars, inbox, dead, historyVars>>

-----------------------------------------------------------------------------
(* MemoryServer::request_connect of the server at u, by other.  Refused for *)
(* itself and for a second connection.                                      *)
RequestConnect(u, other) ==
    IF other = u \/ other \in inboxMap[u]
    THEN UNCHANGED <<inboxMap, connInbox>>
    ELSE /\ inboxMap' = [inboxMap EXCEPT ![u] = @ \cup {other}]
         /\ connInbox' = [connInbox EXCEPT ![u] = Append(@, other)]

ConnectRefused(u, other) == other = u \/ other \in inboxMap[u]

Goto(t, l) == pc' = [pc EXCEPT ![t] = l]

(* Whether the step a transport is about to take may be one under the lock. *)
TakesLock(t) ==
    \/ pc[t] = "idle" /\ addr[t] # Unbound /\ discovery[t] = "due"
    \/ pc[t] = "discover" /\ todo[t] = {}
    \/ pc[t] \in {"discover", "connect"} /\ todo[t] \ connections[t] # {}
    \/ pc[t] = "inbox" /\ inbox[t] # <<>> /\ (Head(inbox[t]) = "bind" \/ addr[t] # Unbound)
    \/ pc[t] = "advertise"

PanicsAtLock(t) == Poisoned /\ TakesLock(t)

(* network.lock().unwrap() of a poisoned mutex.                             *)
LockPanics(t) ==
    /\ ~dead[t]
    /\ PanicsAtLock(t)
    /\ dead' = [dead EXCEPT ![t] = TRUE]
    /\ UNCHANGED <<netVars, ownVars, callVars, inbox, historyVars>>

(* process_concrete begins; try_discover takes the list of machines while   *)
(* it holds the lock, and nothing when it is not bound or not due.          *)
StartProcess(t) ==
    /\ ~dead[t]
    /\ pc[t] = "idle"
    /\ ~PanicsAtLock(t)
    /\ IF addr[t] # Unbound /\ discovery[t] = "due"
       THEN /\ todo' = [todo EXCEPT ![t] = advertised \ {addr[t]}]
            /\ discovery' = [discovery EXCEPT ![t] = "recent"]
            /\ Goto(t, "discover")
       ELSE /\ UNCHANGED <<todo, discovery>>
            /\ Goto(t, IF addr[t] = Unbound THEN "inbox" ELSE "discover")
    /\ UNCHANGED <<netVars, addr, connections, binds, events, inbox, dead, historyVars>>

(* One url of the loop of try_discover; every advertised url has a server.  *)
(* The answer of request_connect is ignored.                                *)
DiscoverOne(t) ==
    /\ pc[t] = "discover"
    /\ ~dead[t]
    /\ \E u \in todo[t] :
         /\ todo' = [todo EXCEPT ![t] = @ \ {u}]
         /\ IF u \in connections[t]
            THEN UNCHANGED <<inboxMap, connInbox, connections>>
            ELSE /\ ~Poisoned
                 /\ RequestConnect(u, addr[t])
                 /\ connections' = [connections EXCEPT ![t] = @ \cup {u}]
    /\ UNCHANGED <<urlCount, state, queue, advertised, addr, discovery, binds, pc, events,
                   inbox, dead, historyVars>>

(* MUTANT of ServerProcess: a closing server is not drained any more. *)
ServerProcess_DropsOnClose(t) ==
    LET u == addr[t] IN
    /\ pc[t] = "discover" /\ todo[t] = {}
    /\ ~Poisoned
    /\ IF state[u] = "Closed"
       THEN UNCHANGED <<state, queue, connInbox, todo, events>>
       ELSE /\ todo' = [todo EXCEPT ![t] = {connInbox[u][i] : i \in DOMAIN connInbox[u]}]
            /\ events' = [events EXCEPT ![t] = IF state[u] = "Closing" THEN NoMessages ELSE queue[u]]
            /\ connInbox' = [connInbox EXCEPT ![u] = <<>>]
            /\ queue' = [queue EXCEPT ![u] = NoMessages]
            /\ state' = [state EXCEPT ![u] = IF @ = "Closing" THEN "Closed" ELSE @]
    /\ Goto(t, "connect")
    /\ UNCHANGED <<urlCount, inboxMap, advertised, ownVars, inbox, dead, historyVars>>

(* MUTANT of ServerProcess: returns early when nobody connected. *)
ServerProcess_NeedsConnection(t) ==
    LET u == addr[t] IN
    /\ pc[t] = "discover" /\ todo[t] = {}
    /\ ~Poisoned
    /\ IF state[u] = "Closed" \/ connInbox[u] = <<>>
       THEN UNCHANGED <<state, queue, connInbox, todo, events>>
       ELSE /\ todo' = [todo EXCEPT ![t] = {connInbox[u][i] : i \in DOMAIN connInbox[u]}]
            /\ events' = [events EXCEPT ![t] = queue[u]]
            /\ connInbox' = [connInbox EXCEPT ![u] = <<>>]
            /\ queue' = [queue EXCEPT ![u] = NoMessages]
            /\ state' = [state EXCEPT ![u] = IF @ = "Closing" THEN "Closed" ELSE @]
    /\ Goto(t, "connect")
    /\ UNCHANGED <<urlCount, inboxMap, advertised, ownVars, inbox, dead, historyVars>>

(* MemoryServer::process under the lock: hands out the connections and the  *)
(* payloads of every inbox, and the Unbind notice of a closing server.      *)
(* A closed server hands out nothing.                                       *)
ServerProcess(t) ==
    LET u == addr[t] IN
    /\ pc[t] = "discover" /\ todo[t] = {}
    /\ ~Poisoned
    /\ IF state[u] = "Closed"
       THEN UNCHANGED <<state, queue, connInbox, todo, events>>
       ELSE /\ todo' = [todo EXCEPT ![t] = {connInbox[u][i] : i \in DOMAIN connInbox[u]}]
            /\ events' = [events EXCEPT ![t] = queue[u]]
            /\ connInbox' = [connInbox EXCEPT ![u] = <<>>]
            /\ queue' = [queue EXCEPT ![u] = NoMessages]
            /\ state' = [state EXCEPT ![u] = IF @ = "Closing" THEN "Closed" ELSE @]
    /\ Goto(t, "connect")
    /\ UNCHANGED <<urlCount, inboxMap, advertised, ownVars, inbox, dead, historyVars>>

(* MUTANT of ConnectBack: takes an incoming connection for a mutual one. *)
ConnectBack_Assumes(t) ==
    /\ pc[t] = "connect"
    /\ ~dead[t]
    /\ \E u \in todo[t] : todo' = [todo EXCEPT ![t] = @ \ {u}]
    /\ UNCHANGED <<netVars, ownVars, pc, events, inbox, dead, historyVars>>

(* One connection to answer.  A refusal leaves process_concrete with an     *)
(* error, and the drained events are gone.                                  *)
ConnectBack(t) ==
    /\ pc[t] = "connect"
    /\ ~dead[t]
    /\ \E u \in todo[t] :
         \/ /\ u \in connections[t]
            /\ todo' = [todo EXCEPT ![t] = @ \ {u}]
            /\ UNCHANGED <<inboxMap, connInbox, connections, events, pc>>
         \/ /\ u \notin connections[t]
            /\ ~Poisoned
            /\ ~ConnectRefused(u, addr[t])
            /\ RequestConnect(u, addr[t])
            /\ connections' = [connections EXCEPT ![t] = @ \cup {u}]
            /\ todo' = [todo EXCEPT ![t] = @ \ {u}]
            /\ UNCHANGED <<events, pc>>
         \/ /\ u \notin connections[t]
            /\ ~Poisoned
            /\ ConnectRefused(u, addr[t])
            /\ todo' = [todo EXCEPT ![t] = {}]
            /\ events' = [events EXCEPT ![t] = NoMessages]
            /\ Goto(t, "idle")
            /\ UNCHANGED <<inboxMap, connInbox, connections>>
    /\ UNCHANGED <<urlCount, state, queue, advertised, addr, discovery, binds, inbox, dead, historyVars>>

(* The parent is told of every payload, sender by sender, and the requests  *)
(* of the parent are drained.                                               *)
PublishReceived(t) ==
    /\ pc[t] = "connect"
    /\ ~dead[t]
    /\ todo[t] = {}
    /\ received' = [p \in Pairs |->
                      IF p[2] = addr[t] THEN received[p] \o events[t][p[1]] ELSE received[p]]
    /\ events' = [events EXCEPT ![t] = NoMessages]
    /\ Goto(t, "inbox")
    /\ UNCHANGED <<netVars, ownVars, todo, inbox, dead, uri, answer, posted>>

-----------------------------------------------------------------------------
(* MemoryNet::bind, new_url.  A second bind gives a second url; connections *)
(* made under the first are kept.                                           *)
HandleBind(t) ==
    /\ pc[t] = "inbox"
    /\ ~Poisoned
    /\ inbox[t] # <<>>
    /\ Head(inbox[t]) = "bind"
    /\ urlCount' = urlCount + 1
    /\ state' = [state EXCEPT ![urlCount + 1] = "Running"]
    /\ addr' = [addr EXCEPT ![t] = urlCount + 1]
    /\ binds' = [binds EXCEPT ![t] = @ + 1]
    /\ inbox' = [inbox EXCEPT ![t] = Tail(@)]
    /\ Goto(t, "advertise")
    /\ UNCHANGED <<inboxMap, queue, connInbox, advertised, connections, discovery, todo, events,
                   dead, historyVars>>

(* The rest of Bind takes the lock again, for MemoryNet::advertise.         *)
Advertise(t) ==
    /\ pc[t] = "advertise"
    /\ ~Poisoned
    /\ advertised' = advertised \cup {addr[t]}
    /\ Goto(t, "inbox")
    /\ UNCHANGED <<urlCount, state, inboxMap, queue, connInbox, ownVars, todo, events, inbox, dead,
                   historyVars>>

(* MUTANT of PostTo: posts before it asks for the connection. *)
PostTo_BeforeConnect(t, u, m) ==
    IF addr[t] \in inboxMap[u]
    THEN /\ queue' = [queue EXCEPT ![u][addr[t]] = Append(@, m)]
         /\ posted' = [posted EXCEPT ![<<addr[t], u>>] = Append(@, m)]
         /\ answer' = [answer EXCEPT ![m] = "ok"]
         /\ RequestConnect(u, addr[t])
         /\ connections' = [connections EXCEPT ![t] = @ \cup {u}]
         /\ UNCHANGED dead
    ELSE /\ dead' = [dead EXCEPT ![t] = TRUE]
         /\ UNCHANGED <<queue, posted, answer, connections, inboxMap, connInbox>>

(* Connects when connections does not have the url yet, then post().unwrap: *)
(* a panic under the lock when the server has no inbox for this sender.     *)
PostTo(t, u, m) ==
    \/ /\ u \notin connections[t]
       /\ ConnectRefused(u, addr[t])
       /\ answer' = [answer EXCEPT ![m] = "err"]
       /\ UNCHANGED <<inboxMap, connInbox, connections, queue, posted, dead>>
    \/ /\ u \notin connections[t]
       /\ ~ConnectRefused(u, addr[t])
       /\ RequestConnect(u, addr[t])
       /\ connections' = [connections EXCEPT ![t] = @ \cup {u}]
       /\ queue' = [queue EXCEPT ![u][addr[t]] = Append(@, m)]
       /\ posted' = [posted EXCEPT ![<<addr[t], u>>] = Append(@, m)]
       /\ answer' = [answer EXCEPT ![m] = "ok"]
       /\ UNCHANGED dead
    \/ /\ u \in connections[t]
       /\ addr[t] \in inboxMap[u]
       /\ queue' = [queue EXCEPT ![u][addr[t]] = Append(@, m)]
       /\ posted' = [posted EXCEPT ![<<addr[t], u>>] = Append(@, m)]
       /\ answer' = [answer EXCEPT ![m] = "ok"]
       /\ UNCHANGED <<inboxMap, connInbox, connections, dead>>
    \/ /\ u \in connections[t]
       /\ addr[t] \notin inboxMap[u]
       /\ dead' = [dead EXCEPT ![t] = TRUE]
       /\ UNCHANGED <<inboxMap, connInbox, connections, queue, posted, answer>>

(* SendMessage: an error when unbound or when there is no such server, a    *)
(* notice to the own parent when sent to itself, a post otherwise.          *)
HandleSendMessage(t) ==
    /\ pc[t] = "inbox"
    /\ ~dead[t] /\ ~PanicsAtLock(t)
    /\ inbox[t] # <<>>
    /\ Head(inbox[t]) # "bind"
    /\ inbox' = [inbox EXCEPT ![t] = Tail(@)]
    /\ LET m == Head(inbox[t])
           u == uri[m] IN
         \/ /\ addr[t] = Unbound \/ state[u] = "None"
            /\ answer' = [answer EXCEPT ![m] = "err"]
            /\ UNCHANGED <<inboxMap, connInbox, connections, queue, posted, received, dead>>
         \/ /\ addr[t] # Unbound
            /\ u = addr[t]
            /\ posted' = [posted EXCEPT ![<<u, u>>] = Append(@, m)]
            /\ received' = [received EXCEPT ![<<u, u>>] = Append(@, m)]
            /\ answer' = [answer EXCEPT ![m] = "ok"]
            /\ UNCHANGED <<inboxMap, connInbox, connections, queue, dead>>
         \/ /\ addr[t] # Unbound /\ state[u] # "None" /\ u # addr[t]
            /\ PostTo(t, u, m)
            /\ UNCHANGED received
    /\ UNCHANGED <<urlCount, state, advertised, addr, discovery, binds, callVars, uri>>

EndProcess(t) ==
    /\ pc[t] = "inbox"
    /\ ~dead[t]
    /\ inbox[t] = <<>>
    /\ Goto(t, "idle")
    /\ UNCHANGED <<netVars, ownVars, todo, events, inbox, dead, historyVars>>

(* process_concrete of a transport, one critical section per step *)
Process(t) ==
    \/ StartProcess(t)
    \/ DiscoverOne(t)
    \/ ServerProcess(t)
    \/ ConnectBack(t)
    \/ PublishReceived(t)
    \/ HandleBind(t)
    \/ Advertise(t)
    \/ HandleSendMessage(t)
    \/ EndProcess(t)
    \/ LockPanics(t)

Next ==
    \/ \E t \in Transports : AskBind(t) \/ AskSend(t) \/ DiscoveryDue(t) \/ Process(t)
    \/ Unbind

Spec == Init /\ [][Next]_vars

(* Owners poll their transports. *)
FairSpec == Spec /\ \A t \in Transports : WF_vars(Process(t))

-----------------------------------------------------------------------------
(* What parents see of the transports is a set of FIFO links.               *)
Net == INSTANCE FifoLinks WITH NoUrl <- Unbound

(* REFINEMENT. Servers, connections in both directions, discovery and       *)
(* critical sections in any order implement FIFO links.                     *)
ImplementsFifoLinks == Net!Spec

(* What a transport has drained from the server at u for sender f. *)
InHand(f, u) ==
    LET ts == {t \in Transports : addr[t] = u /\ events[t][f] # <<>>} IN
    IF ts = {} THEN <<>> ELSE events[CHOOSE t \in ts : TRUE][f]

(* Between two urls nothing is lost, repeated or reordered: what was posted *)
(* is what the parent was told, then what the transport holds, then what    *)
(* waits in the server.  Covers process() of the server (drains even when   *)
(* closing) and the early return of the connect-back loop, which would lose *)
(* drained events.  An acknowledged message was posted once, to its url.    *)
QueuesIntact ==
    /\ TypeOK
    /\ Net!EachOnce
    /\ \A f, u \in Urls : posted[<<f, u>>] = received[<<f, u>>] \o InHand(f, u) \o queue[u][f]

(* post().unwrap() relies on the two sides agreeing without ever talking    *)
(* about it: a transport that was bound once has a url among its            *)
(* connections exactly if the server there has an inbox for it.  One that   *)
(* was bound again has the connections of its first url, may panic, and     *)
(* takes the others along through the mutex; nothing else makes a           *)
(* transport panic.                                                         *)
PanicNeedsRebind ==
    /\ Poisoned => \E t \in Transports : dead[t] /\ binds[t] > 1
    /\ \A t \in Transports :
         binds[t] = 1 => \A u \in Urls : u \in connections[t] <=> addr[t] \in inboxMap[u]

(* Nobody in this process is going to poll the server at u any more. *)
GivenUp(u) == state[u] \in {"Closing", "Closed"} \/ ~\E t \in Transports : addr[t] = u

(* A payload that was acknowledged reaches the parent of the transport at   *)
(* that url, unless the url was unbound or given up for another one, or a   *)
(* transport panicked.  Messages are never forgotten, so "again and again   *)
(* none is missing" says that each arrives.                                 *)
AcknowledgedIsReceived ==
    []<>(\/ Poisoned
         \/ \A m \in Messages : \A u \in Urls :
               answer[m] = "ok" /\ uri[m] = u =>
                   \/ \E f \in Urls : \E i \in DOMAIN received[<<f, u>>] : received[<<f, u>>][i] = m
                   \/ GivenUp(u))

(* Connections become mutual: whoever has an inbox at the server of a       *)
(* polled transport gets an inbox in the other direction, unless that       *)
(* transport was bound again and takes the old connection for the new one,  *)
(* or a transport panicked.                                                 *)
ConnectionsBecomeMutual ==
    []<>(\/ Poisoned
         \/ \A u, v \in Urls :
               u \in inboxMap[v] =>
                   \/ v \in inboxMap[u] \/ GivenUp(v)
                   \/ \E t \in Transports : addr[t] = v /\ binds[t] > 1)
=============================================================================
