-------------------------- MODULE WebsocketTransport --------------------------
(***************************************************************************)
(* The websocket transport (transport/websocket): the StreamManager with   *)
(* a state machine per socket, and the GhostTransportWebsocket actor that  *)
(* binds, sends, keeps messages that wait for a connection, and tells its  *)
(* parent what arrives.                                                    *)
(*                                                                         *)
(* The transport runs in one thread.  What its sockets, the clock and the  *)
(* remote peers do is nondeterministic, except for the Responsive peers,   *)
(* which accept, finish every handshake and never close.                   *)
(***************************************************************************)
EXTENDS Naturals, Sequences, FiniteSets

CONSTANTS
    Remotes,        \* the urls messages are sent to
    Responsive,     \* those of them that never fail
    Callers,        \* the urls of sockets that may be accepted
    Messages,       \* the SendMessage requests of the parent
    uri,            \* per message: the url it is sent to
    Binds,          \* the Bind requests of the parent
    HeartbeatMs,    \* DEFAULT_HEARTBEAT_MS, in ticks
    WaitMs,         \* DEFAULT_HEARTBEAT_WAIT_MS, in ticks
    MaxSilence,     \* bound on the silence that is told apart
    MaxFrames,      \* bound on the data frames read from a socket
    MaxCopies       \* bound on the frames a socket keeps for one message

ASSUME WebsocketAssumption ==
    /\ Responsive \subseteq Remotes
    /\ Remotes \cap Callers = {}
    /\ Messages \cap Binds = {}
    /\ uri \in [Messages -> Remotes]
    /\ HeartbeatMs \in Nat /\ WaitMs \in Nat /\ HeartbeatMs < WaitMs
    /\ MaxSilence \in Nat /\ MaxFrames \in Nat /\ MaxCopies \in Nat

Urls == Remotes \cup Callers
Requests == Messages \cup Binds

VARIABLES
    encrypted,   \* tls_config is not Unencrypted
    bound,       \* bound_url is Some; the acceptor is set at the same time
    mdns,        \* the mDNS instance exists
    inbox,       \* requests the parent has sent
    drained,     \* the rest of the loop over drain_messages
    pending,     \* pending: messages that wait for a connection
    temp,        \* the local list of process_pending_messages
    socket,      \* per url: the state of its stream, "None" if it has none
    silent,      \* per url: how long ago last_msg is, up to MaxSilence
    taken,       \* the urls process_stream_sockets has yet to look at
    events,      \* event_queue
    pc,          \* where process_concrete is
    result,      \* how its latest call ended
    dead,        \* the transport panicked or was dropped
    answer,      \* history: per request, how it was answered
    frames,      \* history: per message, the frames given to a socket for it
    read,        \* history: per url, the number of data frames read
    told,        \* history: the data frames the parent was told of
    cutOff       \* history: urls whose stream an error of another one dropped

streamVars == <<socket, silent, events, read>>
callVars == <<drained, temp, taken, pc, result>>
vars == <<encrypted, bound, mdns, inbox, pending, streamVars, callVars, dead,
          answer, frames, told, cutOff>>

(* WebsocketStreamState by what it is followed by: a base stream, one in    *)
(* the middle of a handshake, and one that can carry messages.              *)
Starting == {"Connecting", "ConnectingSrv", "TlsReady", "TlsSrvReady"}
MidHandshake == {"TlsMid", "TlsSrvMid", "WsMid", "WsSrvMid", "WssMid", "WssSrvMid"}
Ready == {"ReadyWs", "ReadyWss"}
States == {"None"} \cup Starting \cup MidHandshake \cup Ready

(* StreamEvent, without the two kinds that are only logged: ConnectResult   *)
(* and ConnectionClosed.                                                    *)
EventKinds == {"Error", "Incoming", "Data"}
Event(k, u, n) == [kind |-> k, url |-> u, n |-> n]

(* The state of the transport, by its types. *)
TypeOK ==
    /\ encrypted \in BOOLEAN /\ bound \in BOOLEAN /\ mdns \in BOOLEAN
    /\ inbox \in Seq(Requests) /\ drained \in Seq(Requests)
    /\ pending \in Seq(Messages) /\ temp \in Seq(Messages)
    /\ socket \in [Urls -> States]
    /\ silent \in [Urls -> 0..MaxSilence]
    /\ taken \subseteq Urls
    /\ events \in Seq([kind : EventKinds, url : Urls, n : 0..MaxFrames])
    /\ pc \in {"idle", "inbox", "accept", "sockets", "pending"}
    /\ result \in {"Ok", "AdvertiseFailed", "PingFailed"}
    /\ dead \in BOOLEAN
    /\ answer \in [Requests -> {"new", "asked", "ok", "err", "dropped"}]
    /\ frames \in [Messages -> Nat]
    /\ read \in [Urls -> 0..MaxFrames]
    /\ told \in [Urls -> Seq(1..MaxFrames)]
    /\ cutOff \subseteq Urls

(* GhostTransportWebsocket::new, StreamManager::new *)
Init ==
    /\ encrypted \in BOOLEAN
    /\ bound = FALSE /\ mdns = FALSE
    /\ inbox = <<>> /\ drained = <<>> /\ pending = <<>> /\ temp = <<>>
    /\ socket = [u \in Urls |-> "None"]
    /\ silent = [u \in Urls |-> 0]
    /\ taken = {}
    /\ events = <<>>
    /\ pc = "idle" /\ result = "Ok" /\ dead = FALSE
    /\ answer = [r \in Requests |-> "new"]
    /\ frames = [m \in Messages |-> 0]
    /\ read = [u \in Urls |-> 0]
    /\ told = [u \in Urls |-> <<>>]
    /\ cutOff = {}

-----------------------------------------------------------------------------
(* The parent asks, between two calls of process_concrete. *)
Ask(r) ==
    /\ ~dead /\ pc = "idle"
    /\ answer[r] = "new"
    /\ answer' = [answer EXCEPT ![r] = "asked"]
    /\ inbox' = Append(inbox, r)
    /\ UNCHANGED <<encrypted, bound, mdns, pending, streamVars, callVars, dead, frames, told, cutOff>>

(* Time since last_msg; MaxSilence bounds it. *)
Tick ==
    /\ ~dead /\ pc = "idle"
    /\ silent' = [u \in Urls |-> IF socket[u] # "None" /\ silent[u] < MaxSilence
                                 THEN silent[u] + 1 ELSE silent[u]]
    /\ silent' # silent
    /\ UNCHANGED <<encrypted, bound, mdns, inbox, pending, socket, events, read, callVars, dead,
                   answer, frames, told, cutOff>>

(* Drop, close_all, WssInfo::close: every stream is closed, whatever the    *)
(* errors, and the requests that wait are gone with the transport.          *)
DropTransport ==
    /\ ~dead /\ pc = "idle"
    /\ dead' = TRUE
    /\ socket' = [u \in Urls |-> "None"]
    /\ pending' = <<>> /\ inbox' = <<>>
    /\ answer' = [r \in Requests |-> IF answer[r] = "asked" THEN "dropped" ELSE answer[r]]
    /\ UNCHANGED <<encrypted, bound, mdns, silent, events, read, callVars, frames, told, cutOff>>

-----------------------------------------------------------------------------
(* connection_status: a stream that has only finished TLS counts as ready. *)
ConnectionStatus(u) ==
    CASE socket[u] = "None" -> "None"
      [] socket[u] \in Ready \cup {"TlsReady", "TlsSrvReady"} -> "Ready"
      [] OTHER -> "Initializing"

(* write_message of the library: a frame that cannot be written at once is  *)
(* either refused or kept to be written later, and both are errors.         *)
WriteOutcomes(u) == IF u \in Responsive THEN {"written"} ELSE {"written", "kept", "refused"}

Send(m, w) ==
    frames' = [frames EXCEPT ![m] = IF w = "refused" THEN @ ELSE @ + 1]

(* MUTANT of HandleSendMessage: an error consumes the message. *)
HandleSendMessage_Consumes(m, list) ==
    \/ /\ socket[uri[m]] \in Ready
       /\ \E w \in WriteOutcomes(uri[m]) :
            /\ w = "kept" => frames[m] < MaxCopies
            /\ Send(m, w)
            /\ answer' = IF w = "written" THEN [answer EXCEPT ![m] = "ok"] ELSE answer
            /\ list' = list
    \/ /\ socket[uri[m]] \notin Ready
       /\ list' = Append(list, m)
       /\ UNCHANGED <<frames, answer>>

(* MUTANT of HandleSendMessage: does not look at the result of send. *)
HandleSendMessage_IgnoresError(m, list) ==
    \/ /\ socket[uri[m]] \in Ready
       /\ \E w \in WriteOutcomes(uri[m]) :
            /\ w = "kept" => frames[m] < MaxCopies
            /\ Send(m, w)
            /\ answer' = [answer EXCEPT ![m] = "ok"]
            /\ list' = list
    \/ /\ socket[uri[m]] \notin Ready
       /\ list' = Append(list, m)
       /\ UNCHANGED <<frames, answer>>

(* handle_send_message with StreamManager::send: answered when written, put *)
(* back into the given list on an error.                                    *)
HandleSendMessage(m, list) ==
    \/ /\ socket[uri[m]] \in Ready
       /\ \E w \in WriteOutcomes(uri[m]) :
            /\ w = "kept" => frames[m] < MaxCopies
            /\ Send(m, w)
            /\ IF w = "written"
               THEN answer' = [answer EXCEPT ![m] = "ok"] /\ list' = list
               ELSE list' = Append(list, m) /\ UNCHANGED answer
    \/ /\ socket[uri[m]] \notin Ready
       /\ list' = Append(list, m)
       /\ UNCHANGED <<frames, answer>>

(* process_concrete begins: the requests are drained. *)
StartProcess ==
    /\ ~dead /\ pc = "idle"
    /\ drained' = inbox
    /\ inbox' = <<>>
    /\ pc' = "inbox"
    /\ UNCHANGED <<encrypted, bound, mdns, pending, streamVars, temp, taken, result, dead,
                   answer, frames, told, cutOff>>

(* An error in the loop over the drained messages drops the rest of them,   *)
(* and nobody answers.                                                      *)
DropRest ==
    /\ drained' = <<>>
    /\ answer' = [r \in Requests |->
                    IF \E i \in 2..Len(drained) : drained[i] = r THEN "dropped"
                    ELSE IF r = Head(drained) THEN "ok" ELSE answer[r]]
    /\ pc' = "idle"
    /\ result' = "AdvertiseFailed"

(* RequestToChild::Bind: binding may fail; after it succeeded the parent is *)
(* answered, and then advertise, which makes the mDNS instance the first    *)
(* time, may fail.                                                          *)
InboxBind ==
    /\ pc = "inbox"
    /\ drained # <<>>
    /\ Head(drained) \in Binds
    /\ \/ /\ answer' = [answer EXCEPT ![Head(drained)] = "err"]
          /\ drained' = Tail(drained)
          /\ UNCHANGED <<bound, mdns, pc, result>>
       \/ /\ bound' = TRUE
          /\ mdns' = TRUE
          /\ answer' = [answer EXCEPT ![Head(drained)] = "ok"]
          /\ drained' = Tail(drained)
          /\ UNCHANGED <<pc, result>>
       \/ /\ bound' = TRUE
          /\ mdns' \in {mdns, TRUE}
          /\ DropRest
    /\ UNCHANGED <<encrypted, inbox, pending, streamVars, temp, taken, dead, frames, told, cutOff>>

(* StreamManager::connect, WssInfo::client *)
Connect(u) ==
    \/ /\ socket' = [socket EXCEPT ![u] = "Connecting"]
       /\ silent' = [silent EXCEPT ![u] = 0]
    \/ /\ u \notin Responsive
       /\ UNCHANGED <<socket, silent>>

(* RequestToChild::SendMessage: an error while unbound; otherwise sent on a *)
(* ready stream, or kept, after connecting if there is no stream yet.       *)
InboxSend ==
    /\ pc = "inbox"
    /\ drained # <<>>
    /\ Head(drained) \in Messages
    /\ LET m == Head(drained) IN
         \/ /\ ~bound
            /\ answer' = [answer EXCEPT ![m] = "err"]
            /\ UNCHANGED <<pending, socket, silent, frames>>
         \/ /\ bound /\ ConnectionStatus(uri[m]) = "None"
            /\ Connect(uri[m])
            /\ pending' = Append(pending, m)
            /\ UNCHANGED <<answer, frames>>
         \/ /\ bound /\ ConnectionStatus(uri[m]) = "Initializing"
            /\ pending' = Append(pending, m)
            /\ UNCHANGED <<answer, socket, silent, frames>>
         \/ /\ bound /\ ConnectionStatus(uri[m]) = "Ready"
            /\ HandleSendMessage(m, pending)
            /\ UNCHANGED <<socket, silent>>
    /\ drained' = Tail(drained)
    /\ UNCHANGED <<encrypted, bound, mdns, inbox, events, read, temp, taken, pc, result, dead,
                   told, cutOff>>

(* Nothing else happens before the transport is bound. *)
EndInbox ==
    /\ pc = "inbox"
    /\ drained = <<>>
    /\ pc' = IF bound THEN "accept" ELSE "idle"
    /\ result' = "Ok"
    /\ UNCHANGED <<encrypted, bound, mdns, inbox, pending, streamVars, drained, temp, taken, dead,
                   answer, frames, told, cutOff>>

-----------------------------------------------------------------------------
(* priv_process_accept, the acceptor of tcp_bind and WssInfo::server: at    *)
(* most one socket per call.  It replaces a stream with the same url.  Any  *)
(* error but WouldBlock panics.  The sockets are then taken out of the map. *)
Accept ==
    /\ pc = "accept"
    /\ \/ /\ taken' = {u \in Urls : socket[u] # "None"}
          /\ pc' = "sockets"
          /\ UNCHANGED <<socket, silent, dead>>
       \/ \E c \in Callers :
            /\ socket' = [socket EXCEPT ![c] = "ConnectingSrv"]
            /\ silent' = [silent EXCEPT ![c] = 0]
            /\ taken' = {u \in Urls : socket[u] # "None"} \cup {c}
            /\ pc' = "sockets"
            /\ UNCHANGED dead
       \/ /\ dead' = TRUE
          /\ UNCHANGED <<socket, silent, taken, pc>>
    /\ UNCHANGED <<encrypted, bound, mdns, inbox, pending, events, read, drained, temp, result,
                   answer, frames, told, cutOff>>

(* The six handshake functions: what a state waits for, and where it goes   *)
(* once the handshake is through.                                           *)
TlsHandshake == [from |-> {"Connecting", "TlsMid"}, mid |-> "TlsMid", done |-> "TlsReady"]
TlsSrvHandshake == [from |-> {"ConnectingSrv", "TlsSrvMid"}, mid |-> "TlsSrvMid", done |-> "TlsSrvReady"]
WsHandshake == [from |-> {"Connecting", "WsMid"}, mid |-> "WsMid", done |-> "ReadyWs"]
WssHandshake == [from |-> {"TlsReady", "WssMid"}, mid |-> "WssMid", done |-> "ReadyWss"]
WsSrvHandshake == [from |-> {"ConnectingSrv", "WsSrvMid"}, mid |-> "WsSrvMid", done |-> "ReadyWs"]
WssSrvHandshake == [from |-> {"TlsSrvReady", "WssSrvMid"}, mid |-> "WssSrvMid", done |-> "ReadyWss"]

Handshakes ==
    IF encrypted THEN {TlsHandshake, TlsSrvHandshake, WssHandshake, WssSrvHandshake}
                 ELSE {WsHandshake, WsSrvHandshake}

(* What the parent learns when a stream becomes ready. *)
ReadyEvents(h, u) ==
    IF h \in {WsSrvHandshake, WssSrvHandshake} THEN <<Event("Incoming", u, 0)>> ELSE <<>>

(* A stream after priv_process_socket: its state, last_msg, new events, and *)
(* how many data frames it has read.                                        *)
Step(s, age, evs, n) == [state |-> s, silent |-> age, events |-> evs, read |-> n]

(* A stream that starts a handshake sets last_msg; one that continues with  *)
(* it does not.  Blocked, through, or failed with an error event.           *)
HandshakeSteps(u) ==
    LET age == IF socket[u] \in Starting THEN 0 ELSE silent[u] IN
    UNION {{Step(h.done, age, ReadyEvents(h, u), read[u])}
           \cup (IF u \in Responsive THEN {}
                 ELSE {Step(h.mid, age, <<>>, read[u]),
                       Step("None", age, <<Event("Error", u, 0)>>, read[u])})
           : h \in {h \in Handshakes : socket[u] \in h.from}}

(* read_message on a ready stream: nothing, a control frame, a data frame;  *)
(* the connection was closed, or an error.                                  *)
ReadSteps(u) ==
    {Step(socket[u], silent[u], <<>>, read[u]), Step(socket[u], 0, <<>>, read[u])}
    \cup {Step(socket[u], 0, <<Event("Data", u, n)>>, n) : n \in {n \in 1..MaxFrames : n = read[u] + 1}}
    \cup (IF u \in Responsive THEN {}
          ELSE {Step("None", silent[u], <<>>, read[u]),
                Step("None", silent[u], <<Event("Error", u, 0)>>, read[u])})

(* priv_process_socket *)
ProcessSocket(u) == IF socket[u] \in Ready THEN ReadSteps(u) ELSE HandshakeSteps(u)

(* The stream goes back into the map with state st, or not at all. *)
Return(u, st) ==
    /\ socket' = [socket EXCEPT ![u] = st]
    /\ taken' = taken \ {u}
    /\ UNCHANGED <<pc, result, cutOff>>

(* A ping that cannot be written returns from the loop with ?.  This stream *)
(* and all that were not looked at yet were taken out of the map and are    *)
(* dropped; their urls are not reported.                                    *)
PingFails(u) ==
    /\ socket' = [v \in Urls |-> IF v \in taken THEN "None" ELSE socket[v]]
    /\ cutOff' = cutOff \cup taken
    /\ taken' = {}
    /\ pc' = "idle"
    /\ result' = "PingFailed"

(* The order of the heartbeat's branches: WaitMs is looked at only while    *)
(* the silence is within HeartbeatMs.                                       *)
PingDue(age) == age > HeartbeatMs
GivenUp(age) == ~PingDue(age) /\ age > WaitMs

(* One stream of the loop of priv_process_stream_sockets: its state machine,*)
(* then closed if it has no state left or was given up, else a ping if one  *)
(* is due.                                                                  *)
SocketStep(u) ==
    /\ pc = "sockets"
    /\ u \in taken
    /\ \E s \in ProcessSocket(u) :
         /\ silent' = [silent EXCEPT ![u] = s.silent]
         /\ read' = [read EXCEPT ![u] = s.read]
         /\ events' = events \o s.events
         /\ \/ Return(u, IF GivenUp(s.silent) THEN "None" ELSE s.state)
            \/ /\ s.state \in Ready /\ PingDue(s.silent)
               /\ u \notin Responsive
               /\ PingFails(u)
    /\ UNCHANGED <<encrypted, bound, mdns, inbox, pending, drained, temp, dead,
                   answer, frames, told>>

(* The data frames of a sequence of events, per url *)
DataOf(u, evs) ==
    LET upTo[i \in 0..Len(evs)] ==
          IF i = 0 THEN <<>>
          ELSE IF evs[i].kind = "Data" /\ evs[i].url = u THEN Append(upTo[i - 1], evs[i].n)
          ELSE upTo[i - 1]
    IN upTo[Len(evs)]

(* MUTANT of ProcessStreamEvents: an event that is an error ends the loop. *)
ProcessStreamEvents_StopsAtError ==
    /\ pc = "sockets"
    /\ taken = {}
    /\ LET errs == {i \in DOMAIN events : events[i].kind = "Error"}
           cut == IF errs = {} THEN events ELSE SubSeq(events, 1, CHOOSE i \in errs : \A j \in errs : i <= j)
       IN told' = [u \in Urls |-> told[u] \o DataOf(u, cut)]
    /\ events' = <<>>
    /\ pc' = "pending"
    /\ UNCHANGED <<encrypted, bound, mdns, inbox, pending, socket, silent, read, drained, temp, taken,
                   result, dead, answer, frames, cutOff>>

(* StreamManager::process drains the event queue, process_stream_events     *)
(* publishes to the parent.                                                 *)
ProcessStreamEvents ==
    /\ pc = "sockets"
    /\ taken = {}
    /\ told' = [u \in Urls |-> told[u] \o DataOf(u, events)]
    /\ events' = <<>>
    /\ pc' = "pending"
    /\ UNCHANGED <<encrypted, bound, mdns, inbox, pending, socket, silent, read, drained, temp, taken,
                   result, dead, answer, frames, cutOff>>

(* MUTANT of ProcessPending: gives up when the first message must wait. *)
ProcessPending_Stops ==
    /\ pc = "pending"
    /\ pending # <<>>
    /\ LET m == pending[Len(pending)] IN
         IF ConnectionStatus(uri[m]) = "Ready"
         THEN HandleSendMessage(m, temp) /\ pending' = SubSeq(pending, 1, Len(pending) - 1)
         ELSE temp' = temp \o pending /\ pending' = <<>> /\ UNCHANGED <<answer, frames>>
    /\ UNCHANGED <<encrypted, bound, mdns, inbox, streamVars, drained, taken, pc, result, dead,
                   told, cutOff>>

(* One message of process_pending_messages, which takes the list from its   *)
(* end: sent if its stream is ready, otherwise kept for the next call.      *)
ProcessPending ==
    /\ pc = "pending"
    /\ pending # <<>>
    /\ LET m == pending[Len(pending)] IN
         IF ConnectionStatus(uri[m]) = "Ready"
         THEN HandleSendMessage(m, temp)
         ELSE temp' = Append(temp, m) /\ UNCHANGED <<answer, frames>>
    /\ pending' = SubSeq(pending, 1, Len(pending) - 1)
    /\ UNCHANGED <<encrypted, bound, mdns, inbox, streamVars, drained, taken, pc, result, dead,
                   told, cutOff>>

EndProcess ==
    /\ pc = "pending"
    /\ pending = <<>>
    /\ pending' = temp
    /\ temp' = <<>>
    /\ pc' = "idle"
    /\ result' = "Ok"
    /\ UNCHANGED <<encrypted, bound, mdns, inbox, streamVars, drained, taken, dead,
                   answer, frames, told, cutOff>>

(* process_concrete *)
Process ==
    /\ ~dead
    /\ \/ StartProcess \/ InboxBind \/ InboxSend \/ EndInbox
       \/ Accept \/ (\E u \in Urls : SocketStep(u)) \/ ProcessStreamEvents
       \/ ProcessPending \/ EndProcess

Next ==
    \/ \E r \in Requests : Ask(r)
    \/ Tick
    \/ DropTransport
    \/ Process

Spec == Init /\ [][Next]_vars

(* The owner polls its transport. *)
FairSpec == Spec /\ WF_vars(Process)

-----------------------------------------------------------------------------
In(x, s) == \E i \in DOMAIN s : s[i] = x
Places(m) == {p \in {"inbox", "drained", "pending", "temp"} :
                In(m, CASE p = "inbox" -> inbox [] p = "drained" -> drained
                        [] p = "pending" -> pending [] p = "temp" -> temp)}

(* A request that was made and not answered is in exactly one place, and    *)
(* one that was answered, or dropped with an error, is in none: no path     *)
(* through connecting, retrying and reconnecting loses or doubles it, and   *)
(* no bind gets among the pending messages.                                 *)
RequestsAccounted ==
    /\ TypeOK
    /\ \A r \in Requests : Cardinality(Places(r)) = IF answer[r] = "asked" THEN 1 ELSE 0

(* Success means that a stream took the message; an error answer means that *)
(* none ever did (unbound transports refuse before they touch a socket).    *)
AnswerTellsTheTruth ==
    \A m \in Messages :
        /\ answer[m] = "ok" => frames[m] > 0
        /\ answer[m] = "err" => frames[m] = 0

(* What was read from a socket is told to the parent once and in order,     *)
(* also when the call that read it ends with an error before events are     *)
(* published: they stay in event_queue.                                     *)
ReadIsReported ==
    \A u \in Urls :
        LET all == told[u] \o DataOf(u, events) IN
        /\ Len(all) = read[u]
        /\ \A i \in DOMAIN all : all[i] = i

(* A message for a peer that answers does not wait forever, unless an error *)
(* on another stream dropped its connection: nothing connects again for a   *)
(* message that is already in the pending list.                             *)
PendingIsSent ==
    []<>(\A m \in Messages :
            uri[m] \in Responsive /\ answer[m] = "asked" => uri[m] \in cutOff \/ dead)

=============================================================================
