------------------------ MODULE MemoryTransportProofs ------------------------
(***************************************************************************)
(* That the in-memory transport delivers what is posted between two urls   *)
(* in order, once and without loss, and that no transport panics unless one *)
(* that was bound twice does: for every set of transports,      *)
(* messages, urls, and every interleaving of their critical sections.      *)
(* What parents see of it is shown to be a set of FIFO links (FifoLinks);  *)
(* that a message is accepted once is proved there.                        *)
(***************************************************************************)
EXTENDS MemoryTransport, FiniteSetTheorems, TLAPS

-----------------------------------------------------------------------------
(* The clauses of the inductive invariant. *)

(* A url is handed out once, so it is the address of one transport at most. *)
AddrInv ==
    /\ \A t \in Transports : addr[t] <= urlCount /\ (addr[t] = Unbound <=> binds[t] = 0)
    /\ \A s, t \in Transports : addr[s] = addr[t] /\ addr[t] # Unbound => s = t

(* There are urls left for the binds that wait. *)
Asking == {t \in Transports : \E i \in DOMAIN inbox[t] : inbox[t][i] = "bind"}
BindsInv ==
    /\ urlCount + Cardinality(Asking) <= MaxUrls
    /\ \A t \in Transports : \A i, j \in DOMAIN inbox[t] :
         inbox[t][i] = "bind" /\ inbox[t][j] = "bind" => i = j

(* Every message a transport is asked to send has a destination. *)
UriInv ==
    \A t \in Transports : \A i \in DOMAIN inbox[t] :
        inbox[t][i] = "bind" \/ uri[inbox[t][i]] \in Urls

(* What the local variables of process_concrete hold while it is there: a   *)
(* bound transport has drained its server only while it connects back, and  *)
(* never talks to itself.                                                   *)
PhaseInv ==
    \A t \in Transports :
        /\ pc[t] \in {"discover", "connect", "advertise"} => addr[t] # Unbound
        /\ pc[t] \in {"idle", "inbox", "advertise"} => todo[t] = {}
        /\ pc[t] # "connect" => events[t] = NoMessages
        /\ addr[t] \notin todo[t]

(* Servers know addresses that were handed out, and not their own. *)
ServerInv ==
    \A u \in Urls :
        /\ \A v \in inboxMap[u] : v <= urlCount
        /\ \A i \in DOMAIN connInbox[u] : connInbox[u][i] # u

(* Nobody posts to itself through its server. *)
SelfInv == \A u \in Urls : queue[u][u] = <<>>

(* Whoever has an inbox knows it: connections are never removed.  That is   *)
(* so for a transport that was bound again, too, whose new address is in no *)
(* inbox_map before it connects with it.                                    *)
KnownInv ==
    \A t \in Transports :
        /\ binds[t] = 0 => connections[t] = {}
        /\ addr[t] # Unbound => \A u \in Urls : addr[t] \in inboxMap[u] => u \in connections[t]

(* What was posted between two urls, when a transport is bound to the       *)
(* second, and when none is (any more, or yet).                             *)
Flow(f, u) ==
    /\ \A t \in Transports : addr[t] = u =>
         posted[<<f, u>>] = received[<<f, u>>] \o events[t][f] \o queue[u][f]
    /\ (\A t \in Transports : addr[t] # u) =>
         posted[<<f, u>>] = received[<<f, u>>] \o queue[u][f]
FlowInv == \A f, u \in Urls : Flow(f, u)

Links == ServerInv /\ KnownInv /\ PanicNeedsRebind

IInv ==
    /\ TypeOK
    /\ AddrInv
    /\ BindsInv
    /\ UriInv
    /\ PhaseInv
    /\ Links
    /\ SelfInv
    /\ FlowInv

-----------------------------------------------------------------------------
(* A clause is kept by a step that leaves alone what it speaks of. *)
LEMMA AddrKept == ASSUME AddrInv, UNCHANGED <<addr, urlCount, binds>> PROVE AddrInv'
BY DEF AddrInv

LEMMA BindsKept == ASSUME BindsInv, UNCHANGED <<inbox, urlCount>> PROVE BindsInv'
BY DEF BindsInv, Asking

LEMMA UriKept == ASSUME UriInv, UNCHANGED <<inbox, uri>> PROVE UriInv'
BY DEF UriInv

LEMMA PhaseKept == ASSUME PhaseInv, UNCHANGED <<pc, addr, todo, events>> PROVE PhaseInv'
BY DEF PhaseInv

LEMMA LinksKept ==
    ASSUME Links, UNCHANGED <<inboxMap, connInbox, connections, addr, binds, urlCount, dead>>
    PROVE  Links'
BY DEF Links, ServerInv, KnownInv, PanicNeedsRebind, Poisoned

LEMMA SelfKept == ASSUME SelfInv, UNCHANGED queue PROVE SelfInv'
BY DEF SelfInv

LEMMA FlowKept ==
    ASSUME FlowInv, UNCHANGED <<posted, received, queue, addr, events>>
    PROVE  FlowInv'
BY DEF FlowInv, Flow

(* Sequences without and with something in the middle. *)
LEMMA ConcatEmpty ==
    ASSUME NEW S, NEW r \in Seq(S), NEW q \in Seq(S)
    PROVE  /\ r \o <<>> \o q = r \o q /\ r \o q \o <<>> = r \o q
           /\ r \o <<>> = r /\ <<>> \o r = r
OBVIOUS

LEMMA ConcatLast ==
    ASSUME NEW S, NEW r \in Seq(S), NEW q \in Seq(S), NEW m \in S
    PROVE  r \o Append(q, m) = Append(r \o q, m)
OBVIOUS

LEMMA ConcatType ==
    ASSUME NEW S, NEW r \in Seq(S), NEW e \in Seq(S)
    PROVE  r \o e \in Seq(S)
OBVIOUS

LEMMA TailOfInbox ==
    ASSUME NEW S, NEW s \in Seq(S), s # <<>>
    PROVE  /\ Tail(s) \in Seq(S) /\ Head(s) \in S /\ Head(s) = s[1] /\ 1 \in DOMAIN s
           /\ \A i \in DOMAIN Tail(s) : i + 1 \in DOMAIN s /\ i + 1 # 1 /\ Tail(s)[i] = s[i + 1]
           /\ \A i \in DOMAIN s : i # 1 => i - 1 \in DOMAIN Tail(s) /\ Tail(s)[i - 1] = s[i]
<1>1. Tail(s) \in Seq(S) /\ Head(s) \in S /\ Head(s) = s[1] /\ 1 \in DOMAIN s
  OBVIOUS
<1>2. \A i \in DOMAIN Tail(s) : i + 1 \in DOMAIN s /\ i + 1 # 1 /\ Tail(s)[i] = s[i + 1]
  OBVIOUS
<1>3. \A i \in DOMAIN s : i # 1 => i - 1 \in DOMAIN Tail(s) /\ Tail(s)[i - 1] = s[i]
  OBVIOUS
<1>4. QED
  BY <1>1, <1>2, <1>3

LEMMA InboxAppended ==
    ASSUME NEW S, NEW s \in Seq(S), NEW x \in S
    PROVE  /\ Append(s, x) \in Seq(S)
           /\ Len(s) + 1 \in DOMAIN Append(s, x) /\ Append(s, x)[Len(s) + 1] = x
           /\ \A i \in DOMAIN Append(s, x) :
                i = Len(s) + 1 \/ (i \in DOMAIN s /\ Append(s, x)[i] = s[i])
           /\ \A i \in DOMAIN s : i \in DOMAIN Append(s, x) /\ Append(s, x)[i] = s[i]
<1>1. /\ Len(s) \in Nat /\ DOMAIN s = 1..Len(s) /\ Append(s, x) \in Seq(S)
      /\ DOMAIN Append(s, x) = 1..(Len(s) + 1)
      /\ Append(s, x)[Len(s) + 1] = x
      /\ \A i \in 1..Len(s) : Append(s, x)[i] = s[i]
  OBVIOUS
<1>2. \A k \in Nat : k + 1 \in 1..(k + 1) /\ 1..k \subseteq 1..(k + 1)
                     /\ \A i \in 1..(k + 1) : i = k + 1 \/ i \in 1..k
  OBVIOUS
<1>3. QED
  BY <1>1, <1>2, Zenon

LEMMA UrlsFacts == /\ Unbound \notin Urls /\ MaxUrls \in Nat
                   /\ \A u \in Urls : u \in Nat /\ u # 0 /\ u <= MaxUrls
                   /\ \A n \in Nat : n < MaxUrls => n + 1 \in Urls
                   /\ \A f, u \in Urls : <<f, u>> \in Pairs
BY MemoryAssumption DEF Urls, Unbound, Pairs

LEMMA NoMessagesType == NoMessages \in [Urls -> Seq(Messages)]
BY DEF NoMessages

-----------------------------------------------------------------------------
(* What both sides of a connection know of it. *)

(* request_connect, with the url put into connections: the two sides still  *)
(* agree, whether the server took the request or had taken it before.       *)
LEMMA ConnectKeepsLinks ==
    ASSUME TypeOK, AddrInv, Links, NEW t \in Transports, NEW u \in Urls,
           addr[t] # Unbound, u # addr[t], RequestConnect(u, addr[t]),
           connections' = [connections EXCEPT ![t] = @ \cup {u}],
           UNCHANGED <<addr, binds, urlCount, dead>>
    PROVE  /\ Links'
           /\ inboxMap' \in [Urls -> SUBSET Urls]
           /\ connInbox' \in [Urls -> Seq(Urls)]
           /\ connections' \in [Transports -> SUBSET Urls]
<1>1. PICK a \in Urls : a = addr[t]
  BY DEF TypeOK
<1>2. /\ inboxMap \in [Urls -> SUBSET Urls] /\ connInbox \in [Urls -> Seq(Urls)]
      /\ connections \in [Transports -> SUBSET Urls]
  BY DEF TypeOK
<1>3. /\ \A v \in Urls : v # u => inboxMap'[v] = inboxMap[v] /\ connInbox'[v] = connInbox[v]
      /\ inboxMap'[u] = inboxMap[u] \cup {a}
      /\ connInbox'[u] = connInbox[u] \/ connInbox'[u] = Append(connInbox[u], a)
      /\ inboxMap' \in [Urls -> SUBSET Urls]
      /\ connInbox' \in [Urls -> Seq(Urls)]
  <2>1. CASE a = u \/ a \in inboxMap[u]
    <3>1. inboxMap' = inboxMap /\ connInbox' = connInbox /\ a \in inboxMap[u]
      BY <1>1, <2>1 DEF RequestConnect
    <3>2. inboxMap[u] \cup {a} = inboxMap[u]
      BY <3>1
    <3>3. QED
      BY <1>2, <3>1, <3>2
  <2>2. CASE ~(a = u \/ a \in inboxMap[u])
    <3>1. /\ inboxMap' = [inboxMap EXCEPT ![u] = @ \cup {a}]
          /\ connInbox' = [connInbox EXCEPT ![u] = Append(@, a)]
      BY <1>1, <2>2 DEF RequestConnect
    <3>2. Append(connInbox[u], a) \in Seq(Urls) /\ inboxMap[u] \cup {a} \in SUBSET Urls
      BY <1>2
    <3>3. QED
      BY <1>2, <3>1, <3>2
  <2>3. QED
    BY <2>1, <2>2
<1>4. /\ connections' \in [Transports -> SUBSET Urls]
      /\ connections'[t] = connections[t] \cup {u}
      /\ \A s \in Transports : s # t => connections'[s] = connections[s]
  BY <1>2
<1>5. ServerInv'
  <2> SUFFICES ASSUME NEW v \in Urls
               PROVE  /\ \A w \in inboxMap'[v] : w <= urlCount
                      /\ \A i \in DOMAIN connInbox'[v] : connInbox'[v][i] # v
    BY DEF ServerInv
  <2>1. /\ \A w \in inboxMap[v] : w <= urlCount
        /\ \A i \in DOMAIN connInbox[v] : connInbox[v][i] # v
    BY DEF Links, ServerInv
  <2>2. a <= urlCount
    BY <1>1 DEF AddrInv
  <2>3. CASE v # u
    BY <1>3, <2>1, <2>3
  <2>4. CASE v = u
    <3>1. \A w \in inboxMap'[v] : w <= urlCount
      BY <1>3, <2>1, <2>2, <2>4
    <3>2. CASE connInbox'[v] = connInbox[v]
      BY <2>1, <3>1, <3>2
    <3>3. CASE connInbox'[v] = Append(connInbox[v], a)
      <4>1. \A i \in DOMAIN Append(connInbox[v], a) :
              Append(connInbox[v], a)[i] = a
              \/ (i \in DOMAIN connInbox[v] /\ Append(connInbox[v], a)[i] = connInbox[v][i])
        BY <1>2, InboxAppended
      <4>2. \A i \in DOMAIN connInbox'[v] : connInbox'[v][i] # v
        BY <1>1, <2>1, <2>4, <3>3, <4>1
      <4>3. QED
        BY <3>1, <4>2
    <3>4. QED
      BY <1>3, <2>4, <3>2, <3>3
  <2>5. QED
    BY <2>3, <2>4
<1>6. ASSUME NEW s \in Transports, addr[s] # Unbound, NEW v \in Urls
      PROVE  /\ s # t \/ v # u => (addr[s] \in inboxMap'[v] <=> addr[s] \in inboxMap[v])
             /\ s # t \/ v # u => (v \in connections'[s] <=> v \in connections[s])
             /\ s = t /\ v = u => addr[s] \in inboxMap'[v] /\ v \in connections'[s]
  <2>1. s # t => addr[s] # a
    BY <1>1, <1>6 DEF AddrInv
  <2>2. addr[s] \in inboxMap'[v] <=> (addr[s] \in inboxMap[v] \/ (v = u /\ addr[s] = a))
    BY <1>3
  <2>3. QED
    BY <1>1, <1>4, <2>1, <2>2
<1>7. KnownInv'
  <2>1. ASSUME NEW s \in Transports, binds'[s] = 0 PROVE connections'[s] = {}
    <3>1. addr[s] = Unbound /\ connections[s] = {}
      BY <2>1 DEF AddrInv, Links, KnownInv
    <3>2. QED
      BY <1>4, <3>1
  <2>2. ASSUME NEW s \in Transports, addr'[s] # Unbound, NEW v \in Urls, addr'[s] \in inboxMap'[v]
        PROVE  v \in connections'[s]
    <3>1. addr[s] \in inboxMap[v] => v \in connections[s]
      BY <2>2 DEF Links, KnownInv
    <3>2. QED
      BY <1>6, <2>2, <3>1
  <2>3. QED
    BY <2>1, <2>2 DEF KnownInv
<1>8. PanicNeedsRebind'
  <2>1. ASSUME NEW s \in Transports, binds'[s] = 1, NEW v \in Urls
        PROVE  v \in connections'[s] <=> addr'[s] \in inboxMap'[v]
    <3>1. addr[s] # Unbound
      BY <2>1 DEF AddrInv
    <3>2. v \in connections[s] <=> addr[s] \in inboxMap[v]
      BY <2>1 DEF Links, PanicNeedsRebind
    <3>3. QED
      BY <1>6, <3>1, <3>2
  <2>2. Poisoned' => \E s \in Transports : dead'[s] /\ binds'[s] > 1
    BY DEF Links, PanicNeedsRebind, Poisoned
  <2>3. QED
    BY <2>1, <2>2 DEF PanicNeedsRebind
<1>9. QED
  BY <1>3, <1>4, <1>5, <1>7, <1>8 DEF Links

(* A bound transport is not refused by a server it does not know, unless it *)
(* is its own.                                                              *)
LEMMA NotRefused ==
    ASSUME TypeOK, Links, NEW t \in Transports, NEW u \in Urls,
           addr[t] # Unbound, u # addr[t], u \notin connections[t]
    PROVE  ~ConnectRefused(u, addr[t])
BY DEF Links, KnownInv, ConnectRefused

LEMMA StartProcessInv ==
    ASSUME IInv, NEW t \in Transports, StartProcess(t)
    PROVE  IInv'
<1> USE DEF IInv
<1>1. /\ pc[t] = "idle"
      /\ UNCHANGED <<netVars, addr, connections, binds, events, inbox, dead, historyVars>>
  BY DEF StartProcess
<1>2. /\ todo \in [Transports -> SUBSET Urls] /\ pc \in [Transports -> {"idle", "discover", "connect", "inbox", "advertise"}]
      /\ discovery \in [Transports -> {"never", "due", "recent"}] /\ advertised \subseteq Urls
  BY DEF TypeOK
<1>3. \/ /\ addr[t] # Unbound
         /\ todo' = [todo EXCEPT ![t] = advertised \ {addr[t]}]
         /\ discovery' = [discovery EXCEPT ![t] = "recent"]
         /\ pc' = [pc EXCEPT ![t] = "discover"]
      \/ /\ todo' = todo /\ discovery' = discovery
         /\ addr[t] = Unbound /\ pc' = [pc EXCEPT ![t] = "inbox"]
      \/ /\ todo' = todo /\ discovery' = discovery
         /\ addr[t] # Unbound /\ pc' = [pc EXCEPT ![t] = "discover"]
  BY DEF StartProcess, Goto
<1>4. /\ todo' \in [Transports -> SUBSET Urls]
      /\ pc' \in [Transports -> {"idle", "discover", "connect", "inbox", "advertise"}]
      /\ discovery' \in [Transports -> {"never", "due", "recent"}]
  BY <1>2, <1>3
<1>5. TypeOK'
  BY <1>1, <1>4 DEF TypeOK, netVars, historyVars
<1>6. PhaseInv'
  <2> SUFFICES ASSUME NEW s \in Transports
               PROVE  /\ pc'[s] \in {"discover", "connect", "advertise"} => addr[s] # Unbound
                      /\ pc'[s] \in {"idle", "inbox", "advertise"} => todo'[s] = {}
                      /\ pc'[s] # "connect" => events[s] = NoMessages
                      /\ addr[s] \notin todo'[s]
    BY <1>1 DEF PhaseInv
  <2>1. /\ pc[s] \in {"discover", "connect", "advertise"} => addr[s] # Unbound
        /\ pc[s] \in {"idle", "inbox", "advertise"} => todo[s] = {}
        /\ pc[s] # "connect" => events[s] = NoMessages
        /\ addr[s] \notin todo[s]
    BY DEF PhaseInv
  <2>2. s # t => pc'[s] = pc[s] /\ todo'[s] = todo[s]
    BY <1>2, <1>3
  <2>3. s = t => \/ addr[s] # Unbound /\ pc'[s] = "discover" /\ todo'[s] = advertised \ {addr[s]}
                 \/ addr[s] # Unbound /\ pc'[s] = "discover" /\ todo'[s] = todo[s]
                 \/ addr[s] = Unbound /\ pc'[s] = "inbox" /\ todo'[s] = todo[s]
    BY <1>2, <1>3
  <2>4. QED
    BY <1>1, <2>1, <2>2, <2>3
<1>7. QED
  BY <1>1, <1>5, <1>6, AddrKept, BindsKept, UriKept, LinksKept, SelfKept, FlowKept
  DEF netVars, historyVars

LEMMA DiscoverOneInv ==
    ASSUME IInv, NEW t \in Transports, DiscoverOne(t)
    PROVE  IInv'
<1> USE DEF IInv
<1>1. PICK u \in todo[t] :
         /\ todo' = [todo EXCEPT ![t] = @ \ {u}]
         /\ IF u \in connections[t]
            THEN UNCHANGED <<inboxMap, connInbox, connections>>
            ELSE /\ RequestConnect(u, addr[t])
                 /\ connections' = [connections EXCEPT ![t] = @ \cup {u}]
  BY DEF DiscoverOne
<1>2. /\ pc[t] = "discover"
      /\ UNCHANGED <<urlCount, state, queue, advertised, addr, discovery, binds, pc, events,
                     inbox, dead, historyVars>>
  BY DEF DiscoverOne
<1>3. todo \in [Transports -> SUBSET Urls] /\ u \in Urls /\ todo' \in [Transports -> SUBSET Urls]
  BY <1>1 DEF TypeOK
<1>4. addr[t] # Unbound /\ u # addr[t]
  BY <1>1, <1>2 DEF PhaseInv
<1>5. /\ Links'
      /\ inboxMap' \in [Urls -> SUBSET Urls]
      /\ connInbox' \in [Urls -> Seq(Urls)]
      /\ connections' \in [Transports -> SUBSET Urls]
  <2>1. CASE u \in connections[t]
    BY <1>1, <1>2, <2>1, LinksKept DEF TypeOK
  <2>2. CASE u \notin connections[t]
    BY <1>1, <1>2, <1>3, <1>4, <2>2, ConnectKeepsLinks
  <2>3. QED
    BY <2>1, <2>2
<1>6. TypeOK'
  BY <1>2, <1>3, <1>5 DEF TypeOK, historyVars
<1>7. PhaseInv'
  BY <1>1, <1>2, <1>3 DEF PhaseInv
<1>8. QED
  BY <1>2, <1>5, <1>6, <1>7, AddrKept, BindsKept, UriKept, SelfKept, FlowKept
  DEF historyVars

(* process() of the server moves what is queued into the hand of the        *)
(* transport, whose hands are empty.                                        *)
LEMMA ServerProcessInv ==
    ASSUME IInv, NEW t \in Transports, ServerProcess(t)
    PROVE  IInv'
<1> USE DEF IInv
<1>1. /\ pc[t] = "discover" /\ todo[t] = {} /\ pc' = [pc EXCEPT ![t] = "connect"]
      /\ UNCHANGED <<urlCount, inboxMap, advertised, ownVars, inbox, dead, historyVars>>
  BY DEF ServerProcess, Goto
<1>2. PICK a \in Urls : a = addr[t]
  BY <1>1 DEF PhaseInv, TypeOK
<1>3. \/ UNCHANGED <<state, queue, connInbox, todo, events>>
      \/ /\ todo' = [todo EXCEPT ![t] = {connInbox[a][i] : i \in DOMAIN connInbox[a]}]
         /\ events' = [events EXCEPT ![t] = queue[a]]
         /\ connInbox' = [connInbox EXCEPT ![a] = <<>>]
         /\ queue' = [queue EXCEPT ![a] = NoMessages]
         /\ state' = [state EXCEPT ![a] = IF @ = "Closing" THEN "Closed" ELSE @]
  BY <1>2 DEF ServerProcess
<1>4. /\ pc \in [Transports -> {"idle", "discover", "connect", "inbox", "advertise"}]
      /\ todo \in [Transports -> SUBSET Urls]
      /\ events \in [Transports -> [Urls -> Seq(Messages)]]
      /\ connInbox \in [Urls -> Seq(Urls)] /\ queue \in [Urls -> [Urls -> Seq(Messages)]]
      /\ state \in [Urls -> {"None", "Running", "Closing", "Closed"}]
  BY DEF TypeOK
<1>5. pc' \in [Transports -> {"idle", "discover", "connect", "inbox", "advertise"}]
  BY <1>1, <1>4
<1>6. /\ UNCHANGED <<addr, connections, binds, urlCount, inboxMap, advertised, inbox, dead>>
      /\ UNCHANGED <<discovery, uri, answer, posted, received>>
  BY <1>1 DEF ownVars, historyVars
<1>7. events[t] = NoMessages
  BY <1>1 DEF PhaseInv
<1>8. CASE UNCHANGED <<state, queue, connInbox, todo, events>>
  <2>1. TypeOK'
    BY <1>5, <1>6, <1>8 DEF TypeOK
  <2>2. PhaseInv'
    <3> SUFFICES ASSUME NEW s \in Transports
                 PROVE  /\ pc'[s] \in {"discover", "connect", "advertise"} => addr[s] # Unbound
                        /\ pc'[s] \in {"idle", "inbox", "advertise"} => todo[s] = {}
                        /\ pc'[s] # "connect" => events[s] = NoMessages
                        /\ addr[s] \notin todo[s]
      BY <1>6, <1>8 DEF PhaseInv
    <3>1. IF s = t THEN pc'[s] = "connect" ELSE pc'[s] = pc[s]
      BY <1>1, <1>4
    <3>2. QED
      BY <1>1, <3>1 DEF PhaseInv
  <2>3. QED
    BY <1>6, <1>8, <2>1, <2>2, AddrKept, BindsKept, UriKept, LinksKept, SelfKept, FlowKept
<1>9. CASE /\ todo' = [todo EXCEPT ![t] = {connInbox[a][i] : i \in DOMAIN connInbox[a]}]
           /\ events' = [events EXCEPT ![t] = queue[a]]
           /\ connInbox' = [connInbox EXCEPT ![a] = <<>>]
           /\ queue' = [queue EXCEPT ![a] = NoMessages]
           /\ state' = [state EXCEPT ![a] = IF @ = "Closing" THEN "Closed" ELSE @]
  <2>1. {connInbox[a][i] : i \in DOMAIN connInbox[a]} \in SUBSET Urls
    BY <1>4
  <2>2. queue[a] \in [Urls -> Seq(Messages)] /\ <<>> \in Seq(Urls)
    BY <1>4
  <2>3. /\ todo' \in [Transports -> SUBSET Urls]
        /\ events' \in [Transports -> [Urls -> Seq(Messages)]]
    BY <1>4, <1>9, <2>1, <2>2
  <2>4. /\ connInbox' \in [Urls -> Seq(Urls)] /\ queue' \in [Urls -> [Urls -> Seq(Messages)]]
        /\ state' \in [Urls -> {"None", "Running", "Closing", "Closed"}]
    BY <1>4, <1>9, <2>2, NoMessagesType
  <2>5. TypeOK'
    BY <1>5, <1>6, <2>3, <2>4 DEF TypeOK
  <2>6. Links'
    <3>1. ServerInv'
      <4> SUFFICES ASSUME NEW v \in Urls
                   PROVE  /\ \A w \in inboxMap[v] : w <= urlCount
                          /\ \A i \in DOMAIN connInbox'[v] : connInbox'[v][i] # v
        BY <1>6 DEF ServerInv
      <4>1. connInbox'[v] = connInbox[v] \/ connInbox'[v] = <<>>
        BY <1>4, <1>9
      <4>2. QED
        BY <4>1 DEF Links, ServerInv
    <3>2. KnownInv' /\ PanicNeedsRebind'
      BY <1>6 DEF Links, KnownInv, PanicNeedsRebind, Poisoned
    <3>3. QED
      BY <3>1, <3>2 DEF Links
  <2>7. PhaseInv'
    <3> SUFFICES ASSUME NEW s \in Transports
                 PROVE  /\ pc'[s] \in {"discover", "connect", "advertise"} => addr[s] # Unbound
                        /\ pc'[s] \in {"idle", "inbox", "advertise"} => todo'[s] = {}
                        /\ pc'[s] # "connect" => events'[s] = NoMessages
                        /\ addr[s] \notin todo'[s]
      BY <1>6 DEF PhaseInv
    <3>1. CASE s # t
      <4>1. pc'[s] = pc[s] /\ todo'[s] = todo[s] /\ events'[s] = events[s]
        BY <1>1, <1>4, <1>9, <3>1
      <4>2. QED
        BY <4>1 DEF PhaseInv
    <3>2. CASE s = t
      <4>1. pc'[s] = "connect" /\ todo'[s] = {connInbox[a][i] : i \in DOMAIN connInbox[a]}
        BY <1>1, <1>4, <1>9, <3>2
      <4>2. a \notin todo'[s]
        BY <4>1 DEF Links, ServerInv
      <4>3. addr[s] = a /\ a # Unbound
        BY <1>2, <3>2, UrlsFacts
      <4>4. QED
        BY <4>1, <4>2, <4>3
    <3>3. QED
      BY <3>1, <3>2
  <2>8. SelfInv'
    <3>1. \A v \in Urls : queue'[v] = queue[v] \/ queue'[v] = NoMessages
      BY <1>4, <1>9
    <3>2. QED
      BY <3>1 DEF SelfInv, NoMessages
  <2>9. FlowInv'
    <3> SUFFICES ASSUME NEW f \in Urls, NEW u \in Urls
                 PROVE  /\ \A s \in Transports : addr[s] = u =>
                             posted[<<f, u>>] = received[<<f, u>>] \o events'[s][f] \o queue'[u][f]
                        /\ (\A s \in Transports : addr[s] # u) =>
                             posted[<<f, u>>] = received[<<f, u>>] \o queue'[u][f]
      BY <1>6 DEF FlowInv, Flow
    <3>1. CASE u # a
      <4>1. \A s \in Transports : addr[s] = u => events'[s] = events[s]
        BY <1>2, <1>4, <1>9, <3>1
      <4>2. queue'[u] = queue[u]
        BY <1>4, <1>9, <3>1
      <4>3. QED
        BY <4>1, <4>2 DEF FlowInv, Flow
    <3>2. CASE u = a
      <4>1. posted[<<f, u>>] = received[<<f, u>>] \o events[t][f] \o queue[u][f]
        BY <1>2, <3>2 DEF FlowInv, Flow
      <4>2. events[t][f] = <<>>
        BY <1>7 DEF NoMessages
      <4>3. \A s \in Transports : addr[s] = u => s = t
        BY <1>2, <3>2, UrlsFacts DEF AddrInv
      <4>4. events'[t][f] = queue[u][f] /\ queue'[u][f] = <<>>
        BY <1>4, <1>9, <3>2 DEF NoMessages
      <4>5. received[<<f, u>>] \in Seq(Messages) /\ queue[u][f] \in Seq(Messages)
        BY <1>4, UrlsFacts DEF TypeOK
      <4>6. posted[<<f, u>>] = received[<<f, u>>] \o events'[t][f] \o queue'[u][f]
        BY <4>1, <4>2, <4>4, <4>5, ConcatEmpty
      <4>7. QED
        BY <1>2, <3>2, <4>3, <4>6
    <3>3. QED
      BY <3>1, <3>2
  <2>10. QED
    BY <1>6, <2>5, <2>6, <2>7, <2>8, <2>9, AddrKept, BindsKept, UriKept
<1>10. QED
  BY <1>3, <1>8, <1>9

(* The refusal of a connect-back, which would throw away what was drained,  *)
(* cannot happen.                                                           *)
LEMMA ConnectBackInv ==
    ASSUME IInv, NEW t \in Transports, ConnectBack(t)
    PROVE  IInv'
<1> USE DEF IInv
<1>1. PICK u \in todo[t] :
         \/ /\ u \in connections[t]
            /\ todo' = [todo EXCEPT ![t] = @ \ {u}]
            /\ UNCHANGED <<inboxMap, connInbox, connections, events, pc>>
         \/ /\ u \notin connections[t]
            /\ RequestConnect(u, addr[t])
            /\ connections' = [connections EXCEPT ![t] = @ \cup {u}]
            /\ todo' = [todo EXCEPT ![t] = @ \ {u}]
            /\ UNCHANGED <<events, pc>>
         \/ /\ u \notin connections[t]
            /\ ConnectRefused(u, addr[t])
  BY DEF ConnectBack
<1>2. /\ pc[t] = "connect"
      /\ UNCHANGED <<urlCount, state, queue, advertised, addr, discovery, binds, inbox, dead,
                     uri, answer, posted, received>>
  BY DEF ConnectBack, historyVars
<1>3. todo \in [Transports -> SUBSET Urls] /\ u \in Urls
  BY <1>1 DEF TypeOK
<1>4. addr[t] # Unbound /\ u # addr[t]
  BY <1>1, <1>2 DEF PhaseInv
<1>5. /\ todo' = [todo EXCEPT ![t] = @ \ {u}] /\ UNCHANGED <<events, pc>>
      /\ \/ UNCHANGED <<inboxMap, connInbox, connections>>
         \/ /\ RequestConnect(u, addr[t])
            /\ connections' = [connections EXCEPT ![t] = @ \cup {u}]
  BY <1>1, <1>3, <1>4, NotRefused
<1>6. /\ Links'
      /\ inboxMap' \in [Urls -> SUBSET Urls]
      /\ connInbox' \in [Urls -> Seq(Urls)]
      /\ connections' \in [Transports -> SUBSET Urls]
  <2>1. CASE UNCHANGED <<inboxMap, connInbox, connections>>
    BY <1>2, <2>1, LinksKept DEF TypeOK
  <2>2. CASE RequestConnect(u, addr[t]) /\ connections' = [connections EXCEPT ![t] = @ \cup {u}]
    BY <1>2, <1>3, <1>4, <2>2, ConnectKeepsLinks
  <2>3. QED
    BY <1>5, <2>1, <2>2
<1>7. todo' \in [Transports -> SUBSET Urls]
  BY <1>3, <1>5
<1>8. TypeOK'
  BY <1>2, <1>5, <1>6, <1>7 DEF TypeOK
<1>9. PhaseInv'
  BY <1>2, <1>3, <1>5 DEF PhaseInv
<1>10. QED
  BY <1>2, <1>5, <1>6, <1>8, <1>9, AddrKept, BindsKept, UriKept, SelfKept, FlowKept

LEMMA PublishReceivedInv ==
    ASSUME IInv, NEW t \in Transports, PublishReceived(t)
    PROVE  IInv'
<1> USE DEF IInv
<1>1. /\ pc[t] = "connect" /\ todo[t] = {}
      /\ received' = [p \in Pairs |->
                        IF p[2] = addr[t] THEN received[p] \o events[t][p[1]] ELSE received[p]]
      /\ events' = [events EXCEPT ![t] = NoMessages]
      /\ pc' = [pc EXCEPT ![t] = "inbox"]
      /\ UNCHANGED <<urlCount, state, inboxMap, queue, connInbox, advertised, addr, connections,
                     discovery, binds, todo, inbox, dead, uri, answer, posted>>
  BY DEF PublishReceived, Goto, netVars, ownVars
<1>2. PICK a \in Urls : a = addr[t]
  BY <1>1 DEF PhaseInv, TypeOK
<1>3. /\ pc \in [Transports -> {"idle", "discover", "connect", "inbox", "advertise"}]
      /\ events \in [Transports -> [Urls -> Seq(Messages)]]
      /\ received \in [Pairs -> Seq(Messages)] /\ queue \in [Urls -> [Urls -> Seq(Messages)]]
  BY DEF TypeOK
<1>4. ASSUME NEW f \in Urls, NEW u \in Urls
      PROVE  /\ received'[<<f, u>>] = IF u = a THEN received[<<f, u>>] \o events[t][f]
                                      ELSE received[<<f, u>>]
             /\ received[<<f, u>>] \in Seq(Messages) /\ events[t][f] \in Seq(Messages)
             /\ queue[u][f] \in Seq(Messages)
  BY <1>1, <1>2, <1>3, UrlsFacts
<1>5. received' \in [Pairs -> Seq(Messages)]
  <2>1. ASSUME NEW p \in Pairs
        PROVE  (IF p[2] = addr[t] THEN received[p] \o events[t][p[1]] ELSE received[p]) \in Seq(Messages)
    <3>1. p[1] \in Urls /\ p[2] \in Urls
      BY DEF Pairs
    <3>2. received[p] \in Seq(Messages) /\ events[t][p[1]] \in Seq(Messages)
      BY <1>3, <3>1
    <3>3. QED
      BY <3>2
  <2>2. QED
    BY <1>1, <2>1
<1>6. TypeOK'
  <2>1. /\ pc' \in [Transports -> {"idle", "discover", "connect", "inbox", "advertise"}]
        /\ events' \in [Transports -> [Urls -> Seq(Messages)]]
    BY <1>1, <1>3, NoMessagesType
  <2>2. QED
    BY <1>1, <1>5, <2>1 DEF TypeOK
<1>7. PhaseInv'
  <2> SUFFICES ASSUME NEW s \in Transports
               PROVE  /\ pc'[s] \in {"discover", "connect", "advertise"} => addr[s] # Unbound
                      /\ pc'[s] \in {"idle", "inbox", "advertise"} => todo[s] = {}
                      /\ pc'[s] # "connect" => events'[s] = NoMessages
                      /\ addr[s] \notin todo[s]
    BY <1>1 DEF PhaseInv
  <2>1. IF s = t THEN pc'[s] = "inbox" /\ events'[s] = NoMessages
        ELSE pc'[s] = pc[s] /\ events'[s] = events[s]
    BY <1>1, <1>3
  <2>2. QED
    BY <1>1, <2>1 DEF PhaseInv
<1>8. FlowInv'
  <2> SUFFICES ASSUME NEW f \in Urls, NEW u \in Urls
               PROVE  /\ \A s \in Transports : addr[s] = u =>
                           posted[<<f, u>>] = received'[<<f, u>>] \o events'[s][f] \o queue[u][f]
                      /\ (\A s \in Transports : addr[s] # u) =>
                           posted[<<f, u>>] = received'[<<f, u>>] \o queue[u][f]
    <3>1. addr' = addr /\ queue' = queue /\ posted' = posted
      BY <1>1
    <3>2. QED
      BY <3>1 DEF FlowInv, Flow
  <2>1. CASE u # a
    <3>1. \A s \in Transports : addr[s] = u => events'[s] = events[s]
      BY <1>1, <1>2, <1>3, <2>1
    <3>2. received'[<<f, u>>] = received[<<f, u>>]
      BY <1>4, <2>1
    <3>3. QED
      BY <3>1, <3>2 DEF FlowInv, Flow
  <2>2. CASE u = a
    <3>1. posted[<<f, u>>] = received[<<f, u>>] \o events[t][f] \o queue[u][f]
      BY <1>2, <2>2 DEF FlowInv, Flow
    <3>2. \A s \in Transports : addr[s] = u => s = t
      BY <1>2, <2>2, UrlsFacts DEF AddrInv
    <3>3. events'[t][f] = <<>>
      BY <1>1, <1>3 DEF NoMessages
    <3>4. received'[<<f, u>>] = received[<<f, u>>] \o events[t][f]
      BY <1>4, <2>2
    <3>5. received'[<<f, u>>] \in Seq(Messages) /\ queue[u][f] \in Seq(Messages)
      BY <1>4, <3>4
    <3>6. posted[<<f, u>>] = received'[<<f, u>>] \o events'[t][f] \o queue[u][f]
      BY <3>1, <3>3, <3>4, <3>5, ConcatEmpty
    <3>7. QED
      BY <1>2, <2>2, <3>2, <3>6
  <2>3. QED
    BY <2>1, <2>2
<1>9. QED
  BY <1>1, <1>6, <1>7, <1>8, AddrKept, BindsKept, UriKept, LinksKept, SelfKept

-----------------------------------------------------------------------------
(* The requests of the parents. *)

LEMMA AskBindInv ==
    ASSUME IInv, NEW t \in Transports, AskBind(t)
    PROVE  IInv'
<1> USE DEF IInv
<1>1. /\ BindsAsked < MaxUrls
      /\ ~\E i \in DOMAIN inbox[t] : inbox[t][i] = "bind"
      /\ inbox' = [inbox EXCEPT ![t] = Append(@, "bind")]
      /\ UNCHANGED <<netVars, ownVars, callVars, dead, historyVars>>
  BY DEF AskBind
<1>2. /\ UNCHANGED <<urlCount, state, inboxMap, queue, connInbox, advertised, addr, connections>>
      /\ UNCHANGED <<discovery, binds, pc, todo, events, dead, uri, answer, posted, received>>
  BY <1>1 DEF netVars, ownVars, callVars, historyVars
<1>3. inbox \in [Transports -> Seq(Messages \cup {"bind"})] /\ urlCount \in Nat
  BY DEF TypeOK
<1> DEFINE s == Append(inbox[t], "bind")
<1>4. /\ s \in Seq(Messages \cup {"bind"})
      /\ \E i \in DOMAIN s : s[i] = "bind"
      /\ \A i \in DOMAIN s : i = Len(inbox[t]) + 1 \/ (i \in DOMAIN inbox[t] /\ s[i] = inbox[t][i])
  BY <1>3, InboxAppended
<1> HIDE DEF s
<1>5. inbox'[t] = s /\ \A r \in Transports : r # t => inbox'[r] = inbox[r]
  BY <1>1, <1>3 DEF s
<1>6. TypeOK'
  <2>1. inbox' \in [Transports -> Seq(Messages \cup {"bind"})]
    BY <1>1, <1>3, <1>4 DEF s
  <2>2. QED
    BY <1>2, <2>1 DEF TypeOK
<1>7. BindsInv'
  <2>1. Asking' = Asking \cup {t} /\ t \notin Asking
    <3>1. \A r \in Transports : r # t => (r \in Asking' <=> r \in Asking)
      BY <1>5 DEF Asking
    <3>2. t \in Asking' /\ t \notin Asking
      BY <1>1, <1>4, <1>5 DEF Asking
    <3>3. Asking' \subseteq Transports /\ Asking \subseteq Transports
      BY DEF Asking
    <3>4. QED
      BY <3>1, <3>2, <3>3
  <2>2. IsFiniteSet(Asking)
    BY MemoryAssumption, FS_Subset DEF Asking
  <2>3. Cardinality(Asking') = Cardinality(Asking) + 1 /\ Cardinality(Asking) \in Nat
    BY <2>1, <2>2, FS_AddElement, FS_CardinalityType
  <2>4. urlCount + Cardinality(Asking) < MaxUrls
    BY <1>1 DEF BindsAsked, Asking
  <2>5. urlCount' + Cardinality(Asking') <= MaxUrls
    BY <1>2, <1>3, <2>3, <2>4, UrlsFacts
  <2>6. \A r \in Transports : \A i, j \in DOMAIN inbox'[r] :
           inbox'[r][i] = "bind" /\ inbox'[r][j] = "bind" => i = j
    BY <1>1, <1>4, <1>5 DEF BindsInv
  <2>7. QED
    BY <2>5, <2>6 DEF BindsInv
<1>8. UriInv'
  <2>1. \A i \in DOMAIN s : s[i] = "bind" \/ (i \in DOMAIN inbox[t] /\ s[i] = inbox[t][i])
    BY <1>3, <1>4, InboxAppended DEF s
  <2>2. QED
    BY <1>2, <1>5, <2>1 DEF UriInv
<1>9. QED
  BY <1>2, <1>6, <1>7, <1>8, AddrKept, PhaseKept, LinksKept, SelfKept, FlowKept

LEMMA AskSendInv ==
    ASSUME IInv, NEW t \in Transports, AskSend(t)
    PROVE  IInv'
<1> USE DEF IInv
<1>1. PICK m \in Messages, u \in Urls :
         /\ uri' = [uri EXCEPT ![m] = u]
         /\ inbox' = [inbox EXCEPT ![t] = Append(@, m)]
  BY DEF AskSend
<1>2. /\ UNCHANGED <<urlCount, state, inboxMap, queue, connInbox, advertised, addr, connections>>
      /\ UNCHANGED <<discovery, binds, pc, todo, events, dead, answer, posted, received>>
  BY DEF AskSend, netVars, ownVars, callVars
<1>3. /\ inbox \in [Transports -> Seq(Messages \cup {"bind"})]
      /\ uri \in [Messages -> Urls \cup {Unbound}] /\ m # "bind"
  BY MemoryAssumption DEF TypeOK
<1> DEFINE s == Append(inbox[t], m)
<1>4. /\ s \in Seq(Messages \cup {"bind"})
      /\ \A i \in DOMAIN s : s[i] = m \/ (i \in DOMAIN inbox[t] /\ s[i] = inbox[t][i])
      /\ \A i \in DOMAIN inbox[t] : i \in DOMAIN s /\ s[i] = inbox[t][i]
  BY <1>3, InboxAppended
<1> HIDE DEF s
<1>5. inbox'[t] = s /\ \A r \in Transports : r # t => inbox'[r] = inbox[r]
  BY <1>1, <1>3 DEF s
<1>6. /\ \A q \in Messages : uri'[q] = u \/ uri'[q] = uri[q]
      /\ uri'[m] = u
  BY <1>1, <1>3
<1>7. TypeOK'
  <2>1. /\ inbox' \in [Transports -> Seq(Messages \cup {"bind"})]
        /\ uri' \in [Messages -> Urls \cup {Unbound}]
    BY <1>1, <1>3, <1>4 DEF s
  <2>2. QED
    BY <1>2, <2>1 DEF TypeOK
<1>8. BindsInv'
  <2>1. \A r \in Transports :
          (\E i \in DOMAIN inbox'[r] : inbox'[r][i] = "bind")
          <=> (\E i \in DOMAIN inbox[r] : inbox[r][i] = "bind")
    BY <1>3, <1>4, <1>5
  <2>2. Asking' = Asking
    BY <2>1 DEF Asking
  <2>3. \A r \in Transports : \A i, j \in DOMAIN inbox'[r] :
           inbox'[r][i] = "bind" /\ inbox'[r][j] = "bind" => i = j
    BY <1>3, <1>4, <1>5 DEF BindsInv
  <2>4. QED
    BY <1>2, <2>2, <2>3 DEF BindsInv
<1>9. UriInv'
  <2> SUFFICES ASSUME NEW r \in Transports, NEW i \in DOMAIN inbox'[r], inbox'[r][i] # "bind"
               PROVE  uri'[inbox'[r][i]] \in Urls
    BY DEF UriInv
  <2>1. inbox'[r][i] = m \/ (i \in DOMAIN inbox[r] /\ inbox'[r][i] = inbox[r][i])
    BY <1>4, <1>5
  <2>2. CASE inbox'[r][i] = m
    BY <1>6, <2>2
  <2>3. CASE i \in DOMAIN inbox[r] /\ inbox'[r][i] = inbox[r][i]
    <3>1. inbox[r][i] \in Messages /\ uri[inbox[r][i]] \in Urls
      BY <1>3, <2>3 DEF UriInv
    <3>2. QED
      BY <1>6, <2>3, <3>1
  <2>4. QED
    BY <2>1, <2>2, <2>3
<1>10. QED
  BY <1>2, <1>7, <1>8, <1>9, AddrKept, PhaseKept, LinksKept, SelfKept, FlowKept

(* What taking the first request out of the inbox means for the others. *)
LEMMA RequestTaken ==
    ASSUME TypeOK, BindsInv, UriInv, NEW t \in Transports, inbox[t] # <<>>,
           inbox' = [inbox EXCEPT ![t] = Tail(@)], uri' = uri
    PROVE  /\ inbox' \in [Transports -> Seq(Messages \cup {"bind"})]
           /\ UriInv'
           /\ \A r \in Transports : \A i, j \in DOMAIN inbox'[r] :
                inbox'[r][i] = "bind" /\ inbox'[r][j] = "bind" => i = j
           /\ Head(inbox[t]) = "bind" => t \in Asking /\ Asking' = Asking \ {t}
           /\ Head(inbox[t]) # "bind" => /\ Asking' = Asking /\ Head(inbox[t]) \in Messages
                                         /\ uri[Head(inbox[t])] \in Urls
<1>1. inbox \in [Transports -> Seq(Messages \cup {"bind"})]
  BY DEF TypeOK
<1> DEFINE s == Tail(inbox[t])
           x == Head(inbox[t])
<1>2. /\ s \in Seq(Messages \cup {"bind"}) /\ x \in Messages \cup {"bind"}
      /\ x = inbox[t][1] /\ 1 \in DOMAIN inbox[t]
      /\ \A i \in DOMAIN s : i + 1 \in DOMAIN inbox[t] /\ i + 1 # 1 /\ s[i] = inbox[t][i + 1]
      /\ \A i \in DOMAIN inbox[t] : i # 1 => i - 1 \in DOMAIN s /\ s[i - 1] = inbox[t][i]
  BY <1>1, TailOfInbox
<1>3. DOMAIN s \subseteq Nat
  BY <1>2
<1>4. inbox'[t] = s /\ \A r \in Transports : r # t => inbox'[r] = inbox[r]
  BY <1>1
<1>5. inbox' \in [Transports -> Seq(Messages \cup {"bind"})]
  BY <1>1, <1>2
<1> HIDE DEF s, x
<1>a. \A i \in DOMAIN s : \E j \in DOMAIN inbox[t] : j # 1 /\ inbox[t][j] = s[i]
  BY <1>2, Zenon
<1>b. \A j \in DOMAIN inbox[t] : j # 1 => \E i \in DOMAIN s : s[i] = inbox[t][j]
  BY <1>2, Zenon
<1>6. UriInv'
  <2> SUFFICES ASSUME NEW r \in Transports, NEW i \in DOMAIN inbox'[r]
               PROVE  inbox'[r][i] = "bind" \/ uri[inbox'[r][i]] \in Urls
    BY DEF UriInv
  <2>1. CASE r # t
    BY <1>4, <2>1 DEF UriInv
  <2>2. CASE r = t
    <3>1. PICK j \in DOMAIN inbox[t] : inbox[t][j] = inbox'[r][i]
      BY <1>4, <1>a, <2>2
    <3>2. QED
      BY <3>1 DEF UriInv
  <2>3. QED
    BY <2>1, <2>2
<1>7. \A r \in Transports : \A i, j \in DOMAIN inbox'[r] :
         inbox'[r][i] = "bind" /\ inbox'[r][j] = "bind" => i = j
  <2> SUFFICES ASSUME NEW r \in Transports, NEW i \in DOMAIN inbox'[r], NEW j \in DOMAIN inbox'[r],
                      inbox'[r][i] = "bind", inbox'[r][j] = "bind"
               PROVE  i = j
    OBVIOUS
  <2>1. CASE r # t
    BY <1>4, <2>1 DEF BindsInv
  <2>2. CASE r = t
    <3>1. i \in DOMAIN s /\ j \in DOMAIN s /\ s[i] = "bind" /\ s[j] = "bind"
      BY <1>4, <2>2
    <3>2. i + 1 = j + 1
      BY <1>2, <3>1 DEF BindsInv
    <3>3. QED
      BY <1>3, <3>1, <3>2
  <2>3. QED
    BY <2>1, <2>2
<1>8. /\ \A r \in Transports : r # t => (r \in Asking' <=> r \in Asking)
      /\ Asking \subseteq Transports /\ Asking' \subseteq Transports
  BY <1>4 DEF Asking
<1>9. t \in Asking' <=> \E i \in DOMAIN inbox[t] : i # 1 /\ inbox[t][i] = "bind"
  <2>1. t \in Asking' <=> \E i \in DOMAIN s : s[i] = "bind"
    BY <1>4 DEF Asking
  <2>2. QED
    BY <1>a, <1>b, <2>1, Zenon
<1>10. x = "bind" => t \in Asking /\ Asking' = Asking \ {t}
  <2> SUFFICES ASSUME x = "bind" PROVE t \in Asking /\ Asking' = Asking \ {t}
    OBVIOUS
  <2>1. t \in Asking
    BY <1>2 DEF Asking
  <2>2. t \notin Asking'
    BY <1>2, <1>9 DEF BindsInv
  <2>3. QED
    BY <1>8, <2>1, <2>2
<1>11. x # "bind" => Asking' = Asking /\ x \in Messages /\ uri[x] \in Urls
  <2> SUFFICES ASSUME x # "bind" PROVE Asking' = Asking /\ x \in Messages /\ uri[x] \in Urls
    OBVIOUS
  <2>1. t \in Asking <=> \E i \in DOMAIN inbox[t] : inbox[t][i] = "bind"
    BY DEF Asking
  <2>2. t \in Asking' <=> t \in Asking
    BY <1>2, <1>9, <2>1
  <2>3. x \in Messages /\ uri[x] \in Urls
    BY <1>2 DEF UriInv
  <2>4. Asking' = Asking
    <3>1. \A r \in Transports : r \in Asking' <=> r \in Asking
      BY <1>8, <2>2
    <3>2. QED
      BY <1>8, <3>1
  <2>5. QED
    BY <2>3, <2>4
<1>12. QED
  BY <1>5, <1>6, <1>7, <1>10, <1>11 DEF x

(* A new url is nobody's address and in no inbox_map. *)
LEMMA HandleBindInv ==
    ASSUME IInv, NEW t \in Transports, HandleBind(t)
    PROVE  IInv'
<1> USE DEF IInv
<1>1. /\ pc[t] = "inbox" /\ ~Poisoned /\ inbox[t] # <<>> /\ Head(inbox[t]) = "bind"
      /\ urlCount' = urlCount + 1
      /\ state' = [state EXCEPT ![urlCount + 1] = "Running"]
      /\ addr' = [addr EXCEPT ![t] = urlCount + 1]
      /\ binds' = [binds EXCEPT ![t] = @ + 1]
      /\ inbox' = [inbox EXCEPT ![t] = Tail(@)]
      /\ pc' = [pc EXCEPT ![t] = "advertise"]
      /\ UNCHANGED <<inboxMap, queue, connInbox, advertised, connections, discovery, todo, events,
                     dead, uri, answer, posted, received>>
  BY DEF HandleBind, Goto, historyVars
<1>2. /\ inbox' \in [Transports -> Seq(Messages \cup {"bind"})]
      /\ UriInv'
      /\ \A r \in Transports : \A i, j \in DOMAIN inbox'[r] :
           inbox'[r][i] = "bind" /\ inbox'[r][j] = "bind" => i = j
      /\ t \in Asking /\ Asking' = Asking \ {t}
  BY <1>1, RequestTaken
<1>3. /\ IsFiniteSet(Asking) /\ Cardinality(Asking) \in Nat
      /\ Cardinality(Asking') = Cardinality(Asking) - 1
  <2>1. IsFiniteSet(Asking)
    BY MemoryAssumption, FS_Subset DEF Asking
  <2>2. QED
    BY <1>2, <2>1, FS_RemoveElement, FS_CardinalityType
<1>4. Cardinality(Asking) >= 1
  <2>1. Cardinality(Asking) # 0
    BY <1>2, <1>3, FS_EmptySet
  <2>2. QED
    BY <1>3, <2>1
<1>5. urlCount \in Nat /\ urlCount < MaxUrls
  <2>1. urlCount \in Nat /\ urlCount + Cardinality(Asking) <= MaxUrls
    BY DEF TypeOK, BindsInv
  <2>2. QED
    BY <1>3, <1>4, <2>1, UrlsFacts
<1>6. PICK a \in Urls : a = urlCount + 1
  BY <1>5, UrlsFacts
<1>7. /\ addr \in [Transports -> Urls \cup {Unbound}] /\ binds \in [Transports -> Nat]
      /\ state \in [Urls -> {"None", "Running", "Closing", "Closed"}]
      /\ pc \in [Transports -> {"idle", "discover", "connect", "inbox", "advertise"}]
  BY DEF TypeOK
<1>8. \A s \in Transports : addr[s] \in Nat /\ addr[s] <= urlCount /\ addr[s] < a /\ addr[s] # a
  <2> SUFFICES ASSUME NEW s \in Transports
               PROVE  addr[s] \in Nat /\ addr[s] <= urlCount /\ addr[s] < a /\ addr[s] # a
    OBVIOUS
  <2>1. addr[s] \in Nat
    BY <1>7, UrlsFacts DEF Unbound
  <2>2. addr[s] <= urlCount
    BY DEF AddrInv
  <2>3. QED
    BY <1>5, <1>6, <2>1, <2>2
<1>9. /\ addr'[t] = a /\ binds'[t] = binds[t] + 1
      /\ \A s \in Transports : s # t => addr'[s] = addr[s] /\ binds'[s] = binds[s]
  BY <1>1, <1>6, <1>7
<1>10. a # Unbound /\ binds[t] + 1 \in Nat /\ binds[t] + 1 # 0
  BY <1>7, UrlsFacts
<1>11. TypeOK'
  <2>1. urlCount' \in 0..MaxUrls
    BY <1>1, <1>5, UrlsFacts
  <2>2. /\ addr' \in [Transports -> Urls \cup {Unbound}]
        /\ state' \in [Urls -> {"None", "Running", "Closing", "Closed"}]
        /\ pc' \in [Transports -> {"idle", "discover", "connect", "inbox", "advertise"}]
    BY <1>1, <1>6, <1>7
  <2>3. binds' \in [Transports -> Nat]
    BY <1>1, <1>7
  <2>4. QED
    BY <1>1, <1>2, <2>1, <2>2, <2>3 DEF TypeOK
<1>12. AddrInv'
  <2>1. ASSUME NEW s \in Transports
        PROVE  addr'[s] <= urlCount' /\ (addr'[s] = Unbound <=> binds'[s] = 0)
    <3>1. CASE s = t
      BY <1>1, <1>5, <1>6, <1>9, <1>10, <3>1
    <3>2. CASE s # t
      BY <1>1, <1>5, <1>8, <1>9, <3>2 DEF AddrInv
    <3>3. QED
      BY <3>1, <3>2
  <2>2. ASSUME NEW r \in Transports, NEW s \in Transports, addr'[r] = addr'[s], addr'[s] # Unbound
        PROVE  r = s
    BY <1>8, <1>9, <2>2 DEF AddrInv
  <2>3. QED
    BY <2>1, <2>2 DEF AddrInv
<1>13. BindsInv'
  <2>1. urlCount' + Cardinality(Asking') = urlCount + Cardinality(Asking)
    BY <1>1, <1>3, <1>5
  <2>2. QED
    BY <1>2, <2>1 DEF BindsInv
<1>14. PhaseInv'
  <2> SUFFICES ASSUME NEW s \in Transports
               PROVE  /\ pc'[s] \in {"discover", "connect", "advertise"} => addr'[s] # Unbound
                      /\ pc'[s] \in {"idle", "inbox", "advertise"} => todo[s] = {}
                      /\ pc'[s] # "connect" => events[s] = NoMessages
                      /\ addr'[s] \notin todo[s]
    <3>1. todo' = todo /\ events' = events
      BY <1>1
    <3>2. QED
      BY <3>1 DEF PhaseInv
  <2>1. CASE s = t
    <3>1. pc'[s] = "advertise" /\ todo[s] = {} /\ events[s] = NoMessages
      BY <1>1, <1>7, <2>1 DEF PhaseInv
    <3>2. addr'[s] # Unbound
      BY <1>9, <1>10, <2>1
    <3>3. QED
      BY <3>1, <3>2
  <2>2. CASE s # t
    <3>1. pc'[s] = pc[s] /\ addr'[s] = addr[s]
      BY <1>1, <1>7, <1>9, <2>2
    <3>2. QED
      BY <3>1 DEF PhaseInv
  <2>3. QED
    BY <2>1, <2>2
<1>15. \A u \in Urls : a \notin inboxMap[u]
  <2>1. \A u \in Urls : \A v \in inboxMap[u] : v <= urlCount
    BY DEF Links, ServerInv
  <2>2. QED
    BY <1>5, <1>6, <2>1
<1>u. inboxMap' = inboxMap /\ connInbox' = connInbox /\ connections' = connections /\ dead' = dead
      /\ posted' = posted /\ received' = received /\ events' = events /\ queue' = queue
  BY <1>1
<1>16. ServerInv'
  <2>1. inboxMap \in [Urls -> SUBSET Urls]
    BY DEF TypeOK
  <2>2. \A u \in Urls : \A v \in inboxMap[u] : v \in Nat /\ v <= urlCount
    BY <2>1, UrlsFacts DEF Links, ServerInv
  <2>3. \A u \in Urls : \A v \in inboxMap[u] : v <= urlCount'
    BY <1>1, <1>5, <2>2
  <2>4. QED
    BY <1>u, <2>3 DEF Links, ServerInv
<1>17. KnownInv'
  <2>1. ASSUME NEW s \in Transports
        PROVE  /\ binds'[s] = 0 => connections[s] = {}
               /\ addr'[s] # Unbound => \A u \in Urls : addr'[s] \in inboxMap[u] => u \in connections[s]
    BY <1>9, <1>10, <1>15 DEF Links, KnownInv
  <2>2. QED
    BY <1>u, <2>1 DEF KnownInv
<1>18. PanicNeedsRebind'
  <2>1. ASSUME NEW s \in Transports
        PROVE  binds'[s] = 1 => \A u \in Urls : u \in connections[s] <=> addr'[s] \in inboxMap[u]
    <3>1. CASE s # t
      BY <1>9, <3>1 DEF Links, PanicNeedsRebind
    <3>2. CASE s = t
      <4>1. binds'[s] = 1 => binds[s] = 0
        BY <1>7, <1>9, <3>2
      <4>2. binds[s] = 0 => connections[s] = {}
        BY DEF Links, KnownInv
      <4>3. QED
        BY <1>9, <1>15, <3>2, <4>1, <4>2
    <3>3. QED
      BY <3>1, <3>2
  <2>2. ~Poisoned'
    BY <1>1, <1>u DEF Poisoned
  <2>3. QED
    BY <1>u, <2>1, <2>2 DEF PanicNeedsRebind
<1>19. FlowInv'
  <2> SUFFICES ASSUME NEW f \in Urls, NEW u \in Urls
               PROVE  /\ \A s \in Transports : addr'[s] = u =>
                           posted[<<f, u>>] = received[<<f, u>>] \o events[s][f] \o queue[u][f]
                      /\ (\A s \in Transports : addr'[s] # u) =>
                           posted[<<f, u>>] = received[<<f, u>>] \o queue[u][f]
    BY <1>u DEF FlowInv, Flow
  <2>1. received[<<f, u>>] \in Seq(Messages) /\ queue[u][f] \in Seq(Messages)
    BY UrlsFacts DEF TypeOK
  <2>2. events[t][f] = <<>>
    BY <1>1 DEF PhaseInv, NoMessages
  <2>3. received[<<f, u>>] \o <<>> \o queue[u][f] = received[<<f, u>>] \o queue[u][f]
    BY <2>1, ConcatEmpty
  <2>4. CASE u = a
    <3>1. \A s \in Transports : addr[s] # u
      BY <1>8, <2>4
    <3>2. posted[<<f, u>>] = received[<<f, u>>] \o queue[u][f]
      BY <3>1 DEF FlowInv, Flow
    <3>3. \A s \in Transports : addr'[s] = u => s = t
      BY <1>8, <1>9, <2>4
    <3>4. QED
      BY <1>9, <2>2, <2>3, <2>4, <3>2, <3>3
  <2>5. CASE u # a
    <3>1. \A s \in Transports : addr'[s] = u => addr[s] = u
      BY <1>9, <2>5
    <3>2. CASE addr[t] = u
      <4>1. posted[<<f, u>>] = received[<<f, u>>] \o events[t][f] \o queue[u][f]
        BY <3>2 DEF FlowInv, Flow
      <4>2. posted[<<f, u>>] = received[<<f, u>>] \o queue[u][f]
        BY <2>2, <2>3, <4>1
      <4>3. \A s \in Transports : addr'[s] # u
        BY <1>9, <2>5, <3>2, UrlsFacts DEF AddrInv
      <4>4. QED
        BY <4>2, <4>3
    <3>3. CASE addr[t] # u
      <4>1. \A s \in Transports : addr'[s] = u <=> addr[s] = u
        BY <1>9, <2>5, <3>3
      <4>2. QED
        BY <4>1 DEF FlowInv, Flow
    <3>4. QED
      BY <3>2, <3>3
  <2>6. QED
    BY <2>4, <2>5
<1>20. SelfInv'
  BY <1>u, SelfKept
<1>21. QED
  BY <1>2, <1>11, <1>12, <1>13, <1>14, <1>16, <1>17, <1>18, <1>19, <1>20 DEF Links

LEMMA AdvertiseInv ==
    ASSUME IInv, NEW t \in Transports, Advertise(t)
    PROVE  IInv'
<1> USE DEF IInv
<1>1. /\ pc[t] = "advertise" /\ advertised' = advertised \cup {addr[t]}
      /\ pc' = [pc EXCEPT ![t] = "inbox"]
      /\ UNCHANGED <<urlCount, state, inboxMap, queue, connInbox, addr, connections, discovery>>
      /\ UNCHANGED <<binds, todo, events, inbox, dead, uri, answer, posted, received>>
  BY DEF Advertise, Goto, ownVars, historyVars
<1>2. addr[t] \in Urls
  BY <1>1 DEF PhaseInv, TypeOK
<1>3. pc \in [Transports -> {"idle", "discover", "connect", "inbox", "advertise"}]
  BY DEF TypeOK
<1>4. TypeOK'
  BY <1>1, <1>2 DEF TypeOK
<1>5. PhaseInv'
  BY <1>1, <1>3 DEF PhaseInv
<1>6. QED
  BY <1>1, <1>4, <1>5, AddrKept, BindsKept, UriKept, LinksKept, SelfKept, FlowKept

(* The flow between two urls, when a step leaves it alone and when a        *)
(* message is posted.                                                       *)
LEMMA FlowPairKept ==
    ASSUME NEW f, NEW u, Flow(f, u), addr' = addr, events' = events,
           posted'[<<f, u>>] = posted[<<f, u>>], received'[<<f, u>>] = received[<<f, u>>],
           queue'[u][f] = queue[u][f]
    PROVE  Flow(f, u)'
BY DEF Flow

LEMMA FlowPairPosted ==
    ASSUME TypeOK, NEW f \in Urls, NEW u \in Urls, NEW m \in Messages, Flow(f, u),
           addr' = addr, events' = events,
           posted'[<<f, u>>] = Append(posted[<<f, u>>], m),
           received'[<<f, u>>] = received[<<f, u>>],
           queue'[u][f] = Append(queue[u][f], m)
    PROVE  Flow(f, u)'
<1>1. PICK r \in Seq(Messages) : r = received[<<f, u>>]
  BY UrlsFacts DEF TypeOK
<1>2. PICK q \in Seq(Messages) : q = queue[u][f]
  BY DEF TypeOK
<1>3. ASSUME NEW t \in Transports, addr[t] = u
      PROVE  posted'[<<f, u>>] = received'[<<f, u>>] \o events[t][f] \o queue'[u][f]
  <2>1. PICK e \in Seq(Messages) : e = events[t][f]
    BY DEF TypeOK
  <2>2. posted[<<f, u>>] = r \o e \o q
    BY <1>1, <1>2, <1>3, <2>1 DEF Flow
  <2>3. PICK re \in Seq(Messages) : re = r \o e
    <3>1. r \in Seq(Messages) /\ e \in Seq(Messages)
      BY Zenon
    <3>2. QED
      BY <3>1, ConcatType, Zenon
  <2>4. re \o Append(q, m) = Append(re \o q, m)
    BY ConcatLast
  <2>5. QED
    BY <1>1, <1>2, <2>1, <2>2, <2>3, <2>4
<1>4. ASSUME \A t \in Transports : addr[t] # u
      PROVE  posted'[<<f, u>>] = received'[<<f, u>>] \o queue'[u][f]
  <2>1. posted[<<f, u>>] = r \o q
    BY <1>1, <1>2, <1>4 DEF Flow
  <2>2. r \o Append(q, m) = Append(r \o q, m)
    BY ConcatLast
  <2>3. QED
    BY <1>1, <1>2, <2>1, <2>2
<1>5. QED
  BY <1>3, <1>4 DEF Flow

(* A post puts one message at the end of what flows between two urls.       *)
Posts(f, u, m) ==
    /\ queue' = [queue EXCEPT ![u][f] = Append(@, m)]
    /\ posted' = [posted EXCEPT ![<<f, u>>] = Append(@, m)]

LEMMA PostedFlows ==
    ASSUME TypeOK, FlowInv, NEW f \in Urls, NEW u \in Urls, NEW m \in Messages,
           Posts(f, u, m), received' = received, addr' = addr, events' = events
    PROVE  /\ FlowInv'
           /\ queue' \in [Urls -> [Urls -> Seq(Messages)]]
           /\ posted' \in [Pairs -> Seq(Messages)]
           /\ f # u /\ SelfInv => SelfInv'
<1>1. queue \in [Urls -> [Urls -> Seq(Messages)]] /\ posted \in [Pairs -> Seq(Messages)]
  BY DEF TypeOK
<1>2. <<f, u>> \in Pairs
  BY UrlsFacts
<1>3. /\ queue'[u][f] = Append(queue[u][f], m)
      /\ \A g, v \in Urls : g # f \/ v # u => queue'[v][g] = queue[v][g]
  BY <1>1 DEF Posts
<1>4. /\ posted'[<<f, u>>] = Append(posted[<<f, u>>], m)
      /\ \A g, v \in Urls : g # f \/ v # u => posted'[<<g, v>>] = posted[<<g, v>>]
  BY <1>1, <1>2, UrlsFacts DEF Posts
<1>5. queue' \in [Urls -> [Urls -> Seq(Messages)]]
  <2>1. queue[u] \in [Urls -> Seq(Messages)] /\ Append(queue[u][f], m) \in Seq(Messages)
    BY <1>1
  <2>2. [queue[u] EXCEPT ![f] = Append(@, m)] \in [Urls -> Seq(Messages)]
    BY <2>1
  <2>3. QED
    BY <1>1, <2>2 DEF Posts
<1>6. posted' \in [Pairs -> Seq(Messages)]
  <2>1. Append(posted[<<f, u>>], m) \in Seq(Messages)
    BY <1>1, <1>2
  <2>2. QED
    BY <1>1, <2>1 DEF Posts
<1>7. ASSUME NEW g \in Urls, NEW v \in Urls PROVE Flow(g, v)'
  <2>1. Flow(g, v)
    BY DEF FlowInv
  <2>2. CASE g # f \/ v # u
    BY <1>3, <1>4, <2>1, <2>2, FlowPairKept
  <2>3. CASE g = f /\ v = u
    BY <1>3, <1>4, <2>1, <2>3, FlowPairPosted
  <2>4. QED
    BY <2>2, <2>3
<1>8. f # u /\ SelfInv => SelfInv'
  BY <1>3 DEF SelfInv
<1>9. QED
  BY <1>5, <1>6, <1>7, <1>8 DEF FlowInv

(* A notice to the own parent does not go through the server. *)
SelfSent(u, m) ==
    /\ posted' = [posted EXCEPT ![<<u, u>>] = Append(@, m)]
    /\ received' = [received EXCEPT ![<<u, u>>] = Append(@, m)]

LEMMA SelfSentFlows ==
    ASSUME TypeOK, AddrInv, FlowInv, SelfInv, NEW t \in Transports, NEW u \in Urls, NEW m \in Messages,
           addr[t] = u, events[t] = NoMessages, SelfSent(u, m),
           queue' = queue, addr' = addr, events' = events
    PROVE  /\ FlowInv'
           /\ posted' \in [Pairs -> Seq(Messages)]
           /\ received' \in [Pairs -> Seq(Messages)]
<1>1. /\ posted \in [Pairs -> Seq(Messages)] /\ received \in [Pairs -> Seq(Messages)]
      /\ <<u, u>> \in Pairs
  BY UrlsFacts DEF TypeOK
<1>2. /\ posted'[<<u, u>>] = Append(posted[<<u, u>>], m)
      /\ received'[<<u, u>>] = Append(received[<<u, u>>], m)
      /\ \A g, v \in Urls : g # u \/ v # u => /\ posted'[<<g, v>>] = posted[<<g, v>>]
                                              /\ received'[<<g, v>>] = received[<<g, v>>]
  BY <1>1, UrlsFacts DEF SelfSent
<1>3. posted' \in [Pairs -> Seq(Messages)] /\ received' \in [Pairs -> Seq(Messages)]
  <2>1. Append(posted[<<u, u>>], m) \in Seq(Messages) /\ Append(received[<<u, u>>], m) \in Seq(Messages)
    BY <1>1
  <2>2. QED
    BY <1>1, <2>1 DEF SelfSent
<1>4. Flow(u, u)'
  <2>1. \A s \in Transports : addr[s] = u => s = t
    BY UrlsFacts DEF AddrInv
  <2>2. events[t][u] = <<>> /\ queue[u][u] = <<>>
    BY DEF SelfInv, NoMessages
  <2>3. posted[<<u, u>>] = received[<<u, u>>] \o events[t][u] \o queue[u][u]
    BY DEF FlowInv, Flow
  <2>4. PICK r \in Seq(Messages) : r = received[<<u, u>>]
    BY <1>1
  <2>5. r \o <<>> \o <<>> = r /\ Append(r, m) \o <<>> \o <<>> = Append(r, m)
    OBVIOUS
  <2>6. posted'[<<u, u>>] = received'[<<u, u>>] \o events[t][u] \o queue[u][u]
    BY <1>2, <2>2, <2>3, <2>4, <2>5
  <2>7. QED
    BY <2>1, <2>6 DEF Flow
<1>5. ASSUME NEW g \in Urls, NEW v \in Urls PROVE Flow(g, v)'
  <2>1. Flow(g, v)
    BY DEF FlowInv
  <2>2. CASE g # u \/ v # u
    BY <1>2, <2>1, <2>2, FlowPairKept
  <2>3. CASE g = u /\ v = u
    BY <1>4, <2>3
  <2>4. QED
    BY <2>2, <2>3
<1>6. QED
  BY <1>3, <1>5 DEF FlowInv

(* The panic of a post happens to a transport that was bound again only.    *)
LEMMA PanicLinks ==
    ASSUME TypeOK, AddrInv, Links, NEW t \in Transports, NEW u \in Urls,
           addr[t] # Unbound, u \in connections[t], addr[t] \notin inboxMap[u],
           dead' = [dead EXCEPT ![t] = TRUE],
           UNCHANGED <<inboxMap, connInbox, connections, addr, binds, urlCount>>
    PROVE  Links' /\ dead' \in [Transports -> BOOLEAN]
<1>1. binds[t] \in Nat /\ binds[t] # 0 /\ binds[t] # 1
  BY DEF TypeOK, AddrInv, Links, PanicNeedsRebind
<1>2. binds[t] > 1
  BY <1>1
<1>3. dead \in [Transports -> BOOLEAN]
  BY DEF TypeOK
<1>4. \A s \in Transports : s # t => dead'[s] = dead[s]
  BY <1>3
<1>5. ServerInv' /\ KnownInv'
  BY DEF Links, ServerInv, KnownInv
<1>6. PanicNeedsRebind'
  <2>1. dead'[t] /\ binds'[t] > 1
    BY <1>2, <1>3
  <2>2. \A s \in Transports : binds[s] = 1 => \A v \in Urls : v \in connections[s] <=> addr[s] \in inboxMap[v]
    BY DEF Links, PanicNeedsRebind
  <2>3. binds' = binds /\ addr' = addr /\ connections' = connections /\ inboxMap' = inboxMap
    OBVIOUS
  <2>4. QED
    BY <2>1, <2>2, <2>3 DEF PanicNeedsRebind
<1>7. dead' \in [Transports -> BOOLEAN]
  BY <1>3
<1>8. QED
  BY <1>5, <1>6, <1>7 DEF Links

LEMMA HandleSendMessageInv ==
    ASSUME IInv, NEW t \in Transports, HandleSendMessage(t)
    PROVE  IInv'
<1> USE DEF IInv
<1>1. /\ pc[t] = "inbox" /\ ~dead[t] /\ inbox[t] # <<>> /\ Head(inbox[t]) # "bind"
      /\ inbox' = [inbox EXCEPT ![t] = Tail(@)]
      /\ UNCHANGED <<urlCount, state, advertised, addr, discovery, binds, pc, todo, events, uri>>
  BY DEF HandleSendMessage, callVars
<1>2. /\ inbox' \in [Transports -> Seq(Messages \cup {"bind"})]
      /\ UriInv'
      /\ \A r \in Transports : \A i, j \in DOMAIN inbox'[r] :
           inbox'[r][i] = "bind" /\ inbox'[r][j] = "bind" => i = j
      /\ Asking' = Asking /\ Head(inbox[t]) \in Messages /\ uri[Head(inbox[t])] \in Urls
  BY <1>1, RequestTaken
<1>3. PICK m \in Messages : m = Head(inbox[t])
  BY <1>2
<1>4. PICK u \in Urls : u = uri[m]
  BY <1>2, <1>3
<1>5. /\ AddrInv' /\ BindsInv' /\ UriInv' /\ PhaseInv'
  BY <1>1, <1>2, AddrKept, PhaseKept DEF BindsInv
<1>6. answer \in [Messages -> {"none", "ok", "err"}]
  BY DEF TypeOK
<1>7. SUFFICES /\ Links' /\ SelfInv' /\ FlowInv'
               /\ inboxMap' \in [Urls -> SUBSET Urls]
               /\ connInbox' \in [Urls -> Seq(Urls)]
               /\ connections' \in [Transports -> SUBSET Urls]
               /\ queue' \in [Urls -> [Urls -> Seq(Messages)]]
               /\ posted' \in [Pairs -> Seq(Messages)]
               /\ received' \in [Pairs -> Seq(Messages)]
               /\ dead' \in [Transports -> BOOLEAN]
               /\ answer' \in [Messages -> {"none", "ok", "err"}]
  BY <1>1, <1>2, <1>5 DEF TypeOK
<1>8. CASE /\ answer' = [answer EXCEPT ![m] = "err"]
           /\ UNCHANGED <<inboxMap, connInbox, connections, queue, posted, received, dead>>
  <2>1. answer' \in [Messages -> {"none", "ok", "err"}]
    BY <1>6, <1>8
  <2>2. QED
    BY <1>1, <1>8, <2>1, LinksKept, SelfKept, FlowKept DEF TypeOK
<1>9. CASE /\ addr[t] # Unbound /\ u = addr[t]
           /\ posted' = [posted EXCEPT ![<<u, u>>] = Append(@, m)]
           /\ received' = [received EXCEPT ![<<u, u>>] = Append(@, m)]
           /\ answer' = [answer EXCEPT ![m] = "ok"]
           /\ UNCHANGED <<inboxMap, connInbox, connections, queue, dead>>
  <2>1. answer' \in [Messages -> {"none", "ok", "err"}]
    BY <1>6, <1>9
  <2>2. events[t] = NoMessages
    BY <1>1 DEF PhaseInv
  <2>3. FlowInv' /\ posted' \in [Pairs -> Seq(Messages)] /\ received' \in [Pairs -> Seq(Messages)]
    <3>1. SelfSent(u, m) /\ addr[t] = u /\ queue' = queue /\ addr' = addr /\ events' = events
      BY <1>1, <1>9 DEF SelfSent
    <3>2. QED
      BY <2>2, <3>1, SelfSentFlows
  <2>4. QED
    BY <1>1, <1>9, <2>1, <2>3, LinksKept, SelfKept DEF TypeOK
<1>10. CASE addr[t] # Unbound /\ u # addr[t] /\ PostTo(t, u, m) /\ received' = received
  <2>1. PICK a \in Urls : a = addr[t]
    BY <1>10 DEF TypeOK
  <2>2. CASE /\ answer' = [answer EXCEPT ![m] = "err"]
             /\ UNCHANGED <<inboxMap, connInbox, connections, queue, posted, dead>>
    BY <1>8, <1>10, <2>2
  <2>3. CASE /\ \/ /\ RequestConnect(u, addr[t])
                   /\ connections' = [connections EXCEPT ![t] = @ \cup {u}]
                \/ UNCHANGED <<inboxMap, connInbox, connections>>
             /\ queue' = [queue EXCEPT ![u][addr[t]] = Append(@, m)]
             /\ posted' = [posted EXCEPT ![<<addr[t], u>>] = Append(@, m)]
             /\ answer' = [answer EXCEPT ![m] = "ok"]
             /\ UNCHANGED dead
    <3>1. answer' \in [Messages -> {"none", "ok", "err"}]
      BY <1>6, <2>3
    <3>2. /\ queue' = [queue EXCEPT ![u][a] = Append(@, m)]
          /\ posted' = [posted EXCEPT ![<<a, u>>] = Append(@, m)]
      BY <2>1, <2>3
    <3>3. /\ FlowInv' /\ SelfInv'
          /\ queue' \in [Urls -> [Urls -> Seq(Messages)]]
          /\ posted' \in [Pairs -> Seq(Messages)]
      <4>1. Posts(a, u, m) /\ a # u /\ received' = received /\ addr' = addr /\ events' = events
        BY <1>1, <1>10, <2>1, <3>2 DEF Posts
      <4>2. QED
        BY <4>1, PostedFlows
    <3>4. /\ Links'
          /\ inboxMap' \in [Urls -> SUBSET Urls]
          /\ connInbox' \in [Urls -> Seq(Urls)]
          /\ connections' \in [Transports -> SUBSET Urls]
      <4>1. CASE RequestConnect(u, addr[t]) /\ connections' = [connections EXCEPT ![t] = @ \cup {u}]
        BY <1>1, <1>10, <2>3, <4>1, ConnectKeepsLinks
      <4>2. CASE UNCHANGED <<inboxMap, connInbox, connections>>
        BY <1>1, <2>3, <4>2, LinksKept DEF TypeOK
      <4>3. QED
        BY <2>3, <4>1, <4>2
    <3>5. QED
      BY <1>10, <2>3, <3>1, <3>3, <3>4 DEF TypeOK
  <2>4. CASE /\ u \in connections[t] /\ addr[t] \notin inboxMap[u]
             /\ dead' = [dead EXCEPT ![t] = TRUE]
             /\ UNCHANGED <<inboxMap, connInbox, connections, queue, posted, answer>>
    <3>1. Links' /\ dead' \in [Transports -> BOOLEAN]
      BY <1>1, <1>10, <2>4, PanicLinks
    <3>2. QED
      BY <1>1, <1>10, <2>4, <3>1, SelfKept, FlowKept DEF TypeOK
  <2>5. QED
    BY <1>10, <2>2, <2>3, <2>4 DEF PostTo
<1>11. QED
  BY <1>3, <1>4, <1>8, <1>9, <1>10 DEF HandleSendMessage

(* Whoever finds the mutex poisoned follows one that was bound twice.       *)
LEMMA LockPanicsInv ==
    ASSUME IInv, NEW t \in Transports, LockPanics(t)
    PROVE  IInv'
<1> USE DEF IInv
<1>1. /\ Poisoned /\ dead' = [dead EXCEPT ![t] = TRUE]
      /\ UNCHANGED <<urlCount, state, inboxMap, queue, connInbox, advertised, addr, connections>>
      /\ UNCHANGED <<discovery, binds, pc, todo, events, inbox, uri, answer, posted, received>>
  BY DEF LockPanics, PanicsAtLock, netVars, ownVars, callVars, historyVars
<1>2. dead \in [Transports -> BOOLEAN] /\ dead' \in [Transports -> BOOLEAN]
  BY <1>1 DEF TypeOK
<1>3. TypeOK'
  BY <1>1, <1>2 DEF TypeOK
<1>4. Links'
  <2>1. PICK s \in Transports : dead[s] /\ binds[s] > 1
    BY <1>1 DEF Links, PanicNeedsRebind
  <2>2. dead'[s] /\ binds'[s] > 1
    BY <1>1, <1>2, <2>1
  <2>3. PanicNeedsRebind'
    BY <1>1, <2>2 DEF Links, PanicNeedsRebind
  <2>4. ServerInv' /\ KnownInv'
    BY <1>1 DEF Links, ServerInv, KnownInv
  <2>5. QED
    BY <2>3, <2>4 DEF Links
<1>5. QED
  BY <1>1, <1>3, <1>4, AddrKept, BindsKept, UriKept, PhaseKept, SelfKept, FlowKept

-----------------------------------------------------------------------------
LEMMA InitIInv == Init => IInv
<1> SUFFICES ASSUME Init PROVE IInv
  OBVIOUS
<1>1. /\ urlCount = 0 /\ state = [u \in Urls |-> "None"] /\ inboxMap = [u \in Urls |-> {}]
      /\ queue = [u \in Urls |-> NoMessages] /\ connInbox = [u \in Urls |-> <<>>]
      /\ advertised = {}
  BY DEF Init, InitNet
<1>2. /\ addr = [t \in Transports |-> Unbound] /\ connections = [t \in Transports |-> {}]
      /\ discovery \in Starts
      /\ pc = [t \in Transports |-> "idle"] /\ todo = [t \in Transports |-> {}]
      /\ events = [t \in Transports |-> NoMessages] /\ inbox = [t \in Transports |-> <<>>]
      /\ dead = [t \in Transports |-> FALSE] /\ binds = [t \in Transports |-> 0]
  BY DEF Init, InitTransports
<1>3. /\ uri = [m \in Messages |-> Unbound] /\ answer = [m \in Messages |-> "none"]
      /\ posted = [p \in Pairs |-> <<>>] /\ received = [p \in Pairs |-> <<>>]
  BY DEF Init
<1>4. TypeOK
  <2>1. /\ urlCount \in 0..MaxUrls
        /\ state \in [Urls -> {"None", "Running", "Closing", "Closed"}]
        /\ inboxMap \in [Urls -> SUBSET Urls]
        /\ queue \in [Urls -> [Urls -> Seq(Messages)]]
        /\ connInbox \in [Urls -> Seq(Urls)]
        /\ advertised \subseteq Urls
    BY <1>1, UrlsFacts, NoMessagesType
  <2>2. /\ addr \in [Transports -> Urls \cup {Unbound}]
        /\ connections \in [Transports -> SUBSET Urls]
        /\ discovery \in [Transports -> {"never", "due", "recent"}]
        /\ pc \in [Transports -> {"idle", "discover", "connect", "inbox", "advertise"}]
        /\ todo \in [Transports -> SUBSET Urls]
        /\ inbox \in [Transports -> Seq(Messages \cup {"bind"})]
        /\ dead \in [Transports -> BOOLEAN]
        /\ binds \in [Transports -> Nat]
    BY <1>2, MemoryAssumption
  <2>3. events \in [Transports -> [Urls -> Seq(Messages)]]
    BY <1>2, NoMessagesType
  <2>4. /\ uri \in [Messages -> Urls \cup {Unbound}]
        /\ answer \in [Messages -> {"none", "ok", "err"}]
        /\ posted \in [Pairs -> Seq(Messages)]
        /\ received \in [Pairs -> Seq(Messages)]
    BY <1>3
  <2>5. QED
    BY <2>1, <2>2, <2>3, <2>4 DEF TypeOK
<1>5. AddrInv
  BY <1>1, <1>2 DEF AddrInv, Unbound
<1>6. BindsInv
  <2>1. Asking = {}
    BY <1>2 DEF Asking
  <2>2. QED
    BY <1>1, <1>2, <2>1, FS_EmptySet, UrlsFacts DEF BindsInv
<1>7. UriInv
  BY <1>2 DEF UriInv
<1>8. PhaseInv
  BY <1>2 DEF PhaseInv
<1>9. Links
  <2>1. ServerInv
    BY <1>1 DEF ServerInv
  <2>2. KnownInv
    BY <1>2 DEF KnownInv
  <2>3. PanicNeedsRebind
    BY <1>2 DEF PanicNeedsRebind, Poisoned
  <2>4. QED
    BY <2>1, <2>2, <2>3 DEF Links
<1>10. SelfInv
  BY <1>1 DEF SelfInv, NoMessages
<1>11. FlowInv
  <2>1. ASSUME NEW f \in Urls, NEW u \in Urls
        PROVE  /\ posted[<<f, u>>] = <<>> /\ received[<<f, u>>] = <<>> /\ queue[u][f] = <<>>
               /\ \A t \in Transports : events[t][f] = <<>>
    BY <1>1, <1>2, <1>3, UrlsFacts DEF NoMessages
  <2>2. <<>> \o <<>> = <<>>
    OBVIOUS
  <2>3. QED
    BY <2>1, <2>2 DEF FlowInv, Flow
<1>12. QED
  BY <1>4, <1>5, <1>6, <1>7, <1>8, <1>9, <1>10, <1>11 DEF IInv

LEMMA NextIInv ==
    ASSUME IInv, [Next]_vars
    PROVE  IInv'
<1>1. ASSUME NEW t \in Transports, DiscoveryDue(t) PROVE IInv'
  <2>1. /\ discovery' = [discovery EXCEPT ![t] = "due"]
        /\ UNCHANGED <<urlCount, state, inboxMap, queue, connInbox, advertised, addr, connections>>
        /\ UNCHANGED <<binds, pc, todo, events, inbox, dead, uri, answer, posted, received>>
    BY <1>1 DEF DiscoveryDue, netVars, callVars, historyVars
  <2>2. TypeOK'
    BY <2>1 DEF IInv, TypeOK
  <2>3. QED
    BY <2>1, <2>2, AddrKept, BindsKept, UriKept, PhaseKept, LinksKept, SelfKept, FlowKept DEF IInv
<1>2. CASE Unbind
  <2>1. /\ \E u \in Urls : state' = [state EXCEPT ![u] = "Closing"]
        /\ UNCHANGED <<urlCount, inboxMap, queue, connInbox, advertised, addr, connections, discovery>>
        /\ UNCHANGED <<binds, pc, todo, events, inbox, dead, uri, answer, posted, received>>
    BY <1>2, MemoryAssumption DEF Unbind, ownVars, callVars, historyVars, Urls
  <2>2. TypeOK'
    BY <2>1 DEF IInv, TypeOK
  <2>3. QED
    BY <2>1, <2>2, AddrKept, BindsKept, UriKept, PhaseKept, LinksKept, SelfKept, FlowKept DEF IInv
<1>3. ASSUME NEW t \in Transports, EndProcess(t) PROVE IInv'
  <2>1. /\ pc[t] = "inbox" /\ pc' = [pc EXCEPT ![t] = "idle"]
        /\ UNCHANGED <<urlCount, state, inboxMap, queue, connInbox, advertised, addr, connections>>
        /\ UNCHANGED <<discovery, binds, todo, events, inbox, dead, uri, answer, posted, received>>
    BY <1>3 DEF EndProcess, Goto, netVars, ownVars, historyVars
  <2>2. TypeOK'
    BY <2>1 DEF IInv, TypeOK
  <2>3. pc \in [Transports -> {"idle", "discover", "connect", "inbox", "advertise"}]
    BY DEF IInv, TypeOK
  <2>4. PhaseInv'
    BY <2>1, <2>3 DEF IInv, PhaseInv
  <2>5. QED
    BY <2>1, <2>2, <2>4, AddrKept, BindsKept, UriKept, LinksKept, SelfKept, FlowKept DEF IInv
<1>4. CASE UNCHANGED vars
  <2>1. /\ UNCHANGED <<urlCount, state, inboxMap, queue, connInbox, advertised, addr, connections>>
        /\ UNCHANGED <<discovery, binds, pc, todo, events, inbox, dead, uri, answer, posted, received>>
    BY <1>4 DEF vars, netVars, ownVars, callVars, historyVars
  <2>2. TypeOK'
    BY <2>1 DEF IInv, TypeOK
  <2>3. QED
    BY <2>1, <2>2, AddrKept, BindsKept, UriKept, PhaseKept, LinksKept, SelfKept, FlowKept DEF IInv
<1>5. QED
  BY <1>1, <1>2, <1>3, <1>4, AskBindInv, AskSendInv, StartProcessInv, DiscoverOneInv,
     ServerProcessInv, ConnectBackInv, PublishReceivedInv, HandleBindInv, HandleSendMessageInv,
     AdvertiseInv, LockPanicsInv
  DEF Next, Process

(* What the transport at a url has drained is well defined: there is one at *)
(* most.                                                                    *)
LEMMA FlowIsIntact ==
    ASSUME IInv
    PROVE  \A f, u \in Urls :
             posted[<<f, u>>] = received[<<f, u>>] \o InHand(f, u) \o queue[u][f]
<1>1. SUFFICES ASSUME NEW f \in Urls, NEW u \in Urls
               PROVE  posted[<<f, u>>] = received[<<f, u>>] \o InHand(f, u) \o queue[u][f]
  OBVIOUS
<1> DEFINE ts == {t \in Transports : addr[t] = u /\ events[t][f] # <<>>}
<1>2. received[<<f, u>>] \in Seq(Messages) /\ queue[u][f] \in Seq(Messages)
  BY UrlsFacts DEF IInv, TypeOK
<1>3. received[<<f, u>>] \o <<>> \o queue[u][f] = received[<<f, u>>] \o queue[u][f]
  BY <1>2, ConcatEmpty
<1>4. CASE ts = {}
  <2>1. InHand(f, u) = <<>>
    BY <1>4 DEF InHand
  <2>2. CASE \E t \in Transports : addr[t] = u
    <3>1. PICK t \in Transports : addr[t] = u
      BY <2>2
    <3>2. events[t][f] = <<>>
      BY <1>4, <3>1
    <3>3. posted[<<f, u>>] = received[<<f, u>>] \o events[t][f] \o queue[u][f]
      BY <3>1 DEF IInv, FlowInv, Flow
    <3>4. QED
      BY <2>1, <3>2, <3>3
  <2>3. CASE \A t \in Transports : addr[t] # u
    <3>1. posted[<<f, u>>] = received[<<f, u>>] \o queue[u][f]
      BY <2>3 DEF IInv, FlowInv, Flow
    <3>2. QED
      BY <1>3, <2>1, <3>1
  <2>4. QED
    BY <2>2, <2>3
<1>5. CASE ts # {}
  <2>1. PICK t : t = CHOOSE s \in ts : TRUE
    OBVIOUS
  <2>2. t \in Transports /\ addr[t] = u
    BY <1>5, <2>1
  <2>3. InHand(f, u) = events[t][f]
    BY <1>5, <2>1 DEF InHand
  <2>4. posted[<<f, u>>] = received[<<f, u>>] \o events[t][f] \o queue[u][f]
    BY <2>2 DEF IInv, FlowInv, Flow
  <2>5. QED
    BY <2>3, <2>4
<1>6. QED
  BY <1>4, <1>5

-----------------------------------------------------------------------------
LEMMA Invariance == Spec => []IInv
BY InitIInv, NextIInv, PTL DEF Spec

(* No transport panics, by post().unwrap() or because the mutex is          *)
(* poisoned, unless one that was bound twice does: for one that was bound   *)
(* once, its connections and the inbox_map of the other side agree, through *)
(* every interleaving of discoveries, connect-backs and sends.              *)
THEOREM OnlyRebindingPanics == Spec => []PanicNeedsRebind
<1>1. IInv => PanicNeedsRebind
  BY DEF IInv, Links
<1>2. QED
  BY <1>1, Invariance, PTL

(* The early return of the connect-back loop, which would drop the drained  *)
(* events, is never taken: a server that refuses a transport is one it has  *)
(* among its connections.                                                   *)
ConnectBackSucceeds ==
    \A t \in Transports : pc[t] = "connect" =>
        \A u \in todo[t] \ connections[t] : ~ConnectRefused(u, addr[t])

THEOREM ConnectBackIsNotRefused == Spec => []ConnectBackSucceeds
<1>1. IInv => ConnectBackSucceeds
  BY NotRefused DEF IInv, ConnectBackSucceeds, PhaseInv, TypeOK
<1>2. QED
  BY <1>1, Invariance, PTL

-----------------------------------------------------------------------------
(* The links by themselves.                                                 *)
LEMMA BeginsConcat ==
    ASSUME NEW S, NEW r \in Seq(S), NEW e \in Seq(S)
    PROVE  Net!Begins(r, r \o e) /\ Net!Begins(r, r)
BY DEF Net!Begins

LEMMA BeginsAppend ==
    ASSUME NEW S, NEW r \in Seq(S), NEW p \in Seq(S), Net!Begins(r, p), NEW m \in S
    PROVE  Net!Begins(r, Append(p, m))
BY DEF Net!Begins

NetInv == Net!TypeOK /\ Net!EachOnce /\ Net!InOrder

(* Nothing changes for a message whose occurrences stay.                    *)
LEMMA SameOnce ==
    ASSUME NEW n \in Messages, Net!Once(n), answer'[n] = answer[n], uri'[n] = uri[n],
           \A p \in Pairs : Net!At(n, p)' = Net!At(n, p)
    PROVE  Net!Once(n)'
<1>1. Net!Pairs = Pairs
  BY DEF Net!Pairs, Pairs
<1>2. CASE answer[n] # "ok"
  BY <1>1, <1>2 DEF Net!Once
<1>3. CASE answer[n] = "ok"
  <2>1. PICK p \in Pairs : /\ p[2] = uri[n]
                           /\ \E i \in DOMAIN posted[p] : Net!At(n, p) = {i}
                           /\ \A q \in Pairs \ {p} : Net!At(n, q) = {}
    BY <1>1, <1>3 DEF Net!Once
  <2>2. PICK i : Net!At(n, p) = {i}
    BY <2>1
  <2>3. Net!At(n, p)' = {i} /\ i \in DOMAIN posted'[p]
    <3>1. Net!At(n, p)' = {i}
      BY <2>2
    <3> QED
      BY <3>1 DEF Net!At
  <2>4. \A q \in Pairs \ {p} : Net!At(n, q)' = {}
    BY <2>1
  <2> QED
    BY <1>1, <1>3, <2>1, <2>3, <2>4 DEF Net!Once
<1> QED
  BY <1>2, <1>3

(* A message that is accepted appears at the end of one link.               *)
LEMMA AcceptedOnce ==
    ASSUME Net!TypeOK, Net!EachOnce, NEW m \in Messages, NEW f \in Urls, NEW u \in Urls,
           uri[m] = u, answer[m] = "none", uri' = uri,
           answer' = [answer EXCEPT ![m] = "ok"],
           posted' = [posted EXCEPT ![<<f, u>>] = Append(@, m)]
    PROVE  Net!EachOnce'
<1>1. /\ posted \in [Pairs -> Seq(Messages)] /\ <<f, u>> \in Pairs /\ Net!Pairs = Pairs
      /\ answer \in [Messages -> {"none", "ok", "err"}]
  BY DEF Net!TypeOK, Net!Pairs, Pairs
<1>2. \A p \in Pairs : p # <<f, u>> => posted'[p] = posted[p]
  BY <1>1
<1>3. posted'[<<f, u>>] = Append(posted[<<f, u>>], m)
  BY <1>1
<1>4. \A p \in Pairs : p # <<f, u>> => \A n \in Messages : Net!At(n, p)' = Net!At(n, p)
  BY <1>2 DEF Net!At
<1> DEFINE s == posted[<<f, u>>]
<1>5. s \in Seq(Messages)
  BY <1>1
<1> HIDE DEF s
<1>6. /\ DOMAIN Append(s, m) = DOMAIN s \cup {Len(s) + 1}
      /\ \A i \in DOMAIN s : Append(s, m)[i] = s[i]
      /\ Append(s, m)[Len(s) + 1] = m /\ Len(s) + 1 \notin DOMAIN s
  BY <1>5
<1>7. \A n \in Messages : n # m => Net!At(n, <<f, u>>)' = Net!At(n, <<f, u>>)
  BY <1>3, <1>6 DEF Net!At, s
<1>8. \A p \in Pairs : Net!At(m, p) = {}
  BY <1>1 DEF Net!EachOnce, Net!Once
<1>9. Net!Once(m)'
  <2>1. \A i \in DOMAIN s : s[i] # m
    BY <1>1, <1>8 DEF Net!At, s
  <2>2. Net!At(m, <<f, u>>)' = {Len(s) + 1} /\ Len(s) + 1 \in DOMAIN posted'[<<f, u>>]
    <3> DEFINE t == Append(s, m)
               k == Len(s) + 1
    <3>1. /\ DOMAIN t = DOMAIN s \cup {k} /\ t[k] = m
          /\ \A i \in DOMAIN s : t[i] = s[i]
      BY <1>6
    <3>2. posted'[<<f, u>>] = t
      BY <1>3 DEF s
    <3> HIDE DEF t, k
    <3>3. {i \in DOMAIN t : t[i] = m} = {k}
      BY <2>1, <3>1
    <3>4. Net!At(m, <<f, u>>)' = {k} /\ k \in DOMAIN posted'[<<f, u>>]
      BY <3>1, <3>2, <3>3, Zenon DEF Net!At
    <3> QED
      BY <3>4 DEF k
  <2>3. answer'[m] = "ok" /\ uri'[m] = u /\ u # Unbound
    BY <1>1, UrlsFacts
  <2>4. \A q \in Pairs \ {<<f, u>>} : Net!At(m, q)' = {}
    BY <1>4, <1>8
  <2> QED
    BY <1>1, <2>2, <2>3, <2>4 DEF Net!Once
<1>10. ASSUME NEW n \in Messages, n # m PROVE Net!Once(n)'
  <2>1. \A p \in Pairs : Net!At(n, p)' = Net!At(n, p)
    BY <1>4, <1>7, <1>10
  <2>2. answer'[n] = answer[n] /\ uri'[n] = uri[n]
    BY <1>1, <1>10
  <2> QED
    BY <1>10, <2>1, <2>2, SameOnce DEF Net!EachOnce
<1> QED
  BY <1>9, <1>10 DEF Net!EachOnce

LEMMA NetStart == Net!Init => NetInv
<1> SUFFICES ASSUME Net!Init PROVE NetInv
  OBVIOUS
<1>1. Net!TypeOK
  BY DEF Net!Init, Net!TypeOK
<1>2. Net!InOrder
  BY DEF Net!Init, Net!InOrder, Net!Begins
<1>3. Net!EachOnce
  <2>1. \A m \in Messages, p \in Net!Pairs : Net!At(m, p) = {}
    BY DEF Net!Init, Net!At
  <2> QED
    BY <2>1 DEF Net!Init, Net!EachOnce, Net!Once
<1> QED
  BY <1>1, <1>2, <1>3 DEF NetInv

LEMMA NetStep ==
    ASSUME NetInv, [Net!Next]_Net!vars
    PROVE  NetInv'
<1>1. /\ uri \in [Messages -> Urls \cup {Unbound}]
      /\ answer \in [Messages -> {"none", "ok", "err"}]
      /\ posted \in [Pairs -> Seq(Messages)] /\ received \in [Pairs -> Seq(Messages)]
      /\ Net!EachOnce /\ Net!InOrder /\ Net!TypeOK /\ Net!Pairs = Pairs
  BY DEF NetInv, Net!TypeOK, Net!Pairs, Pairs
<1>2. ASSUME UNCHANGED <<posted, received>>, Net!TypeOK',
             \A m \in Messages : \/ answer'[m] = answer[m] /\ uri'[m] = uri[m]
                                 \/ /\ answer[m] = "none" /\ answer'[m] # "ok"
                                    /\ uri'[m] = Unbound => answer'[m] = "none"
      PROVE  NetInv'
  <2>1. Net!InOrder'
    BY <1>1, <1>2 DEF Net!InOrder
  <2>2. \A m \in Messages, p \in Pairs : Net!At(m, p)' = Net!At(m, p)
    BY <1>2 DEF Net!At
  <2>3. ASSUME NEW m \in Messages PROVE Net!Once(m)'
    <3>1. CASE answer'[m] = answer[m] /\ uri'[m] = uri[m]
      BY <1>1, <2>2, <3>1, SameOnce DEF Net!EachOnce
    <3>2. CASE /\ answer[m] = "none" /\ answer'[m] # "ok"
               /\ uri'[m] = Unbound => answer'[m] = "none"
      BY <1>1, <2>2, <3>2 DEF Net!EachOnce, Net!Once
    <3> QED
      BY <1>2, <3>1, <3>2
  <2> QED
    BY <1>2, <2>1, <2>3 DEF NetInv, Net!EachOnce
<1>3. CASE UNCHANGED Net!vars
  <2>1. UNCHANGED <<uri, answer, posted, received>>
    BY <1>3 DEF Net!vars
  <2>2. Net!TypeOK'
    BY <1>1, <2>1 DEF Net!TypeOK
  <2> QED
    BY <1>2, <2>1, <2>2
<1>4. ASSUME NEW m \in Messages, Net!Ask(m) PROVE NetInv'
  <2>1. PICK u \in Urls : uri' = [uri EXCEPT ![m] = u]
    BY <1>4 DEF Net!Ask
  <2>2. uri[m] = Unbound /\ answer[m] = "none" /\ UNCHANGED <<answer, posted, received>>
    BY <1>1, <1>4 DEF Net!Ask, Net!EachOnce, Net!Once
  <2>3. Net!TypeOK'
    BY <1>1, <2>1, <2>2 DEF Net!TypeOK
  <2> QED
    BY <1>1, <1>2, <2>1, <2>2, <2>3
<1>5. ASSUME NEW m \in Messages, Net!Refuse(m) PROVE NetInv'
  <2>1. /\ uri[m] # Unbound /\ answer[m] = "none" /\ answer' = [answer EXCEPT ![m] = "err"]
        /\ UNCHANGED <<uri, posted, received>>
    BY <1>5 DEF Net!Refuse, Net!Waits
  <2>2. Net!TypeOK'
    BY <1>1, <2>1 DEF Net!TypeOK
  <2> QED
    BY <1>1, <1>2, <2>1, <2>2
<1>6. ASSUME NEW m \in Messages, NEW f \in Urls, NEW u \in Urls,
             u = uri[m], Net!Waits(m), uri' = uri,
             answer' = [answer EXCEPT ![m] = "ok"],
             posted' = [posted EXCEPT ![<<f, u>>] = Append(@, m)]
      PROVE  /\ Net!EachOnce' /\ posted' \in [Pairs -> Seq(Messages)]
             /\ answer' \in [Messages -> {"none", "ok", "err"}]
             /\ \A p \in Pairs : p # <<f, u>> => posted'[p] = posted[p]
             /\ posted'[<<f, u>>] = Append(posted[<<f, u>>], m) /\ <<f, u>> \in Pairs
  <2>1. answer[m] = "none"
    BY <1>6 DEF Net!Waits
  <2>2. Net!EachOnce'
    BY <1>1, <1>6, <2>1, AcceptedOnce
  <2>3. <<f, u>> \in Pairs
    BY DEF Pairs
  <2>4. Append(posted[<<f, u>>], m) \in Seq(Messages)
    BY <1>1, <2>3
  <2> QED
    BY <1>1, <1>6, <2>2, <2>3, <2>4
<1>7. ASSUME NEW m \in Messages, NEW f \in Urls, Net!Accept(m, f) PROVE NetInv'
  <2>1. PICK u \in Urls : u = uri[m]
    BY <1>1, <1>7 DEF Net!Accept, Net!Waits
  <2>2. /\ Net!EachOnce' /\ posted' \in [Pairs -> Seq(Messages)]
        /\ answer' \in [Messages -> {"none", "ok", "err"}]
        /\ \A p \in Pairs : p # <<f, u>> => posted'[p] = posted[p]
        /\ posted'[<<f, u>>] = Append(posted[<<f, u>>], m) /\ <<f, u>> \in Pairs
    BY <1>6, <1>7, <2>1 DEF Net!Accept
  <2>3. received' = received /\ uri' = uri
    BY <1>7 DEF Net!Accept
  <2>4. Net!Begins(received[<<f, u>>], Append(posted[<<f, u>>], m))
    BY <1>1, <2>2, BeginsAppend DEF Net!InOrder
  <2>5. Net!InOrder'
    <3>1. \A p \in Pairs : Net!Begins(received[p], posted'[p])
      BY <1>1, <2>2, <2>4 DEF Net!InOrder
    <3> QED
      BY <1>1, <2>3, <3>1 DEF Net!InOrder, Net!Begins
  <2> QED
    BY <1>1, <2>2, <2>3, <2>5 DEF NetInv, Net!TypeOK
<1>8. ASSUME NEW m \in Messages, Net!Loop(m) PROVE NetInv'
  <2>1. PICK u \in Urls : u = uri[m]
    BY <1>1, <1>8 DEF Net!Loop, Net!Waits
  <2>2. /\ Net!EachOnce' /\ posted' \in [Pairs -> Seq(Messages)]
        /\ answer' \in [Messages -> {"none", "ok", "err"}]
        /\ \A p \in Pairs : p # <<u, u>> => posted'[p] = posted[p]
        /\ posted'[<<u, u>>] = Append(posted[<<u, u>>], m) /\ <<u, u>> \in Pairs
    BY <1>6, <1>8, <2>1 DEF Net!Loop
  <2>3. /\ received[<<u, u>>] = posted[<<u, u>>] /\ uri' = uri
        /\ received' = [received EXCEPT ![<<u, u>>] = Append(@, m)]
    BY <1>8, <2>1 DEF Net!Loop
  <2>4. Append(received[<<u, u>>], m) \in Seq(Messages)
    BY <1>1, <2>2
  <2>5. received' \in [Pairs -> Seq(Messages)] /\ received'[<<u, u>>] = posted'[<<u, u>>]
          /\ \A p \in Pairs : p # <<u, u>> => received'[p] = received[p]
    BY <1>1, <2>2, <2>3, <2>4
  <2>6. Net!Begins(received'[<<u, u>>], posted'[<<u, u>>])
    BY <2>2, <2>5 DEF Net!Begins
  <2>7. Net!InOrder'
    <3>1. \A p \in Pairs : Net!Begins(received'[p], posted'[p])
      BY <1>1, <2>2, <2>5, <2>6 DEF Net!InOrder
    <3> QED
      BY <1>1, <3>1 DEF Net!InOrder, Net!Begins
  <2> QED
    BY <1>1, <2>2, <2>3, <2>5, <2>7 DEF NetInv, Net!TypeOK
<1>9. ASSUME NEW u \in Urls, Net!Deliver(u) PROVE NetInv'
  <2>1. /\ received' \in [Pairs -> Seq(Messages)] /\ UNCHANGED <<uri, answer, posted>>
        /\ \A p \in Pairs : Net!Begins(received'[p], posted[p])
    BY <1>1, <1>9 DEF Net!Deliver
  <2>2. Net!InOrder'
    BY <1>1, <2>1 DEF Net!InOrder, Net!Begins
  <2>3. \A m \in Messages : Net!Once(m)'
    <3>1. \A m \in Messages, p \in Pairs : Net!At(m, p)' = Net!At(m, p)
      BY <2>1 DEF Net!At
    <3> QED
      BY <1>1, <2>1, <3>1, SameOnce DEF Net!EachOnce
  <2> QED
    BY <1>1, <2>1, <2>2, <2>3 DEF NetInv, Net!TypeOK, Net!EachOnce
<1> QED
  BY <1>3, <1>4, <1>5, <1>7, <1>8, <1>9 DEF Net!Next

LEMMA NetInvariant == Net!Spec => []NetInv
BY NetStart, NetStep, PTL DEF Net!Spec

-----------------------------------------------------------------------------
(* The transports as links.  A message in an inbox is there once and has    *)
(* not been answered.                                                       *)
WaitingInv ==
    /\ \A m \in Messages : uri[m] = Unbound => answer[m] = "none"
    /\ \A t \in Transports : \A i \in DOMAIN inbox[t] :
         inbox[t][i] # "bind" => answer[inbox[t][i]] = "none"
    /\ \A s, t \in Transports : \A i \in DOMAIN inbox[s], j \in DOMAIN inbox[t] :
         inbox[s][i] # "bind" /\ inbox[s][i] = inbox[t][j] => s = t /\ i = j

LEMMA WaitingKept ==
    ASSUME WaitingInv, UNCHANGED <<inbox, answer, uri>>
    PROVE  WaitingInv'
BY DEF WaitingInv

(* What AskBind and AskSend do to the inbox of a transport.                 *)
LEMMA WaitingAsked ==
    ASSUME TypeOK, WaitingInv, NEW t \in Transports, NEW x \in Messages \cup {"bind"},
           inbox' = [inbox EXCEPT ![t] = Append(@, x)], answer' = answer,
           \A m \in Messages : uri'[m] = Unbound => uri[m] = Unbound,
           x # "bind" => answer[x] = "none" /\ \A s \in Transports : \A i \in DOMAIN inbox[s] : inbox[s][i] # x
    PROVE  WaitingInv'
<1>1. inbox \in [Transports -> Seq(Messages \cup {"bind"})]
  BY DEF TypeOK
<1> DEFINE b == Append(inbox[t], x)
           k == Len(inbox[t]) + 1
<1>2. /\ b[k] = x
      /\ \A i \in DOMAIN b : i = k \/ (i \in DOMAIN inbox[t] /\ b[i] = inbox[t][i])
  BY <1>1, InboxAppended
<1>3. inbox'[t] = b /\ \A s \in Transports : s # t => inbox'[s] = inbox[s]
  BY <1>1
<1> HIDE DEF b, k
<1>4. \A s \in Transports : \A i \in DOMAIN inbox'[s] :
        \/ s = t /\ i = k /\ inbox'[s][i] = x
        \/ i \in DOMAIN inbox[s] /\ inbox'[s][i] = inbox[s][i]
  BY <1>2, <1>3
<1>5. \A s \in Transports : \A i \in DOMAIN inbox'[s] :
        inbox'[s][i] # "bind" => answer'[inbox'[s][i]] = "none"
  BY <1>4 DEF WaitingInv
<1>6. ASSUME NEW r \in Transports, NEW s \in Transports,
             NEW i \in DOMAIN inbox'[r], NEW j \in DOMAIN inbox'[s],
             inbox'[r][i] # "bind", inbox'[r][i] = inbox'[s][j]
      PROVE  r = s /\ i = j
  <2>1. CASE inbox'[r][i] = x
    <3>1. r = t /\ i = k /\ s = t /\ j = k
      BY <1>4, <1>6, <2>1
    <3> QED
      BY <3>1
  <2>2. CASE inbox'[r][i] # x
    <3>1. /\ i \in DOMAIN inbox[r] /\ inbox'[r][i] = inbox[r][i]
          /\ j \in DOMAIN inbox[s] /\ inbox'[s][j] = inbox[s][j]
      BY <1>4, <1>6, <2>2
    <3> QED
      BY <1>6, <3>1 DEF WaitingInv
  <2> QED
    BY <2>1, <2>2
<1>7. \A m \in Messages : uri'[m] = Unbound => answer'[m] = "none"
  BY DEF WaitingInv
<1> QED
  BY <1>5, <1>6, <1>7 DEF WaitingInv

(* What HandleBind and HandleSendMessage do to it.                          *)
LEMMA WaitingTaken ==
    ASSUME TypeOK, WaitingInv, NEW t \in Transports, inbox[t] # <<>>,
           inbox' = [inbox EXCEPT ![t] = Tail(@)], uri' = uri,
           NEW x, x = Head(inbox[t]), \A m \in Messages : m # x => answer'[m] = answer[m],
           x # "bind" => uri[x] # Unbound
    PROVE  WaitingInv'
<1>1. inbox \in [Transports -> Seq(Messages \cup {"bind"})]
  BY DEF TypeOK
<1> DEFINE b == Tail(inbox[t])
<1>2. /\ inbox[t][1] = x /\ 1 \in DOMAIN inbox[t]
      /\ \A i \in DOMAIN b : i + 1 \in DOMAIN inbox[t] /\ i + 1 # 1 /\ b[i] = inbox[t][i + 1]
  BY <1>1, TailOfInbox
<1>3. DOMAIN b \subseteq Nat
  BY <1>1, TailOfInbox
<1>4. inbox'[t] = b /\ \A s \in Transports : s # t => inbox'[s] = inbox[s]
  BY <1>1
<1>5. \A i \in DOMAIN b : b[i] # "bind" => b[i] # x
  BY <1>2 DEF WaitingInv
<1>6. \A s \in Transports : s # t => \A i \in DOMAIN inbox[s] : inbox[s][i] # "bind" => inbox[s][i] # x
  BY <1>2 DEF WaitingInv
<1> HIDE DEF b
<1>7. \A i \in DOMAIN b : \E j \in DOMAIN inbox[t] : inbox[t][j] = b[i]
  BY <1>2, Zenon
<1>8. ASSUME NEW s \in Transports, NEW i \in DOMAIN inbox'[s], inbox'[s][i] # "bind"
      PROVE  answer'[inbox'[s][i]] = "none"
  <2>1. PICK j \in DOMAIN inbox[s] : inbox[s][j] = inbox'[s][i]
    BY <1>4, <1>7
  <2>2. inbox'[s][i] # x
    BY <1>4, <1>5, <1>6, <1>8
  <2>3. inbox[s][j] \in Messages /\ answer[inbox[s][j]] = "none"
    <3>1. inbox[s][j] \in Messages \cup {"bind"}
      BY <1>1
    <3> QED
      BY <1>8, <2>1, <3>1 DEF WaitingInv
  <2> QED
    BY <2>1, <2>2, <2>3
<1>9. ASSUME NEW r \in Transports, NEW s \in Transports,
             NEW i \in DOMAIN inbox'[r], NEW j \in DOMAIN inbox'[s],
             inbox'[r][i] # "bind", inbox'[r][i] = inbox'[s][j]
      PROVE  r = s /\ i = j
  <2>1. r = s
    <3>1. PICK k \in DOMAIN inbox[r] : inbox[r][k] = inbox'[r][i]
      BY <1>4, <1>7
    <3>2. PICK l \in DOMAIN inbox[s] : inbox[s][l] = inbox'[s][j]
      BY <1>4, <1>7
    <3> QED
      BY <1>9, <3>1, <3>2 DEF WaitingInv
  <2>2. CASE r # t
    BY <1>4, <1>9, <2>1, <2>2 DEF WaitingInv
  <2>3. CASE r = t
    <3>1. i \in DOMAIN b /\ j \in DOMAIN b /\ b[i] = b[j] /\ b[i] # "bind"
      BY <1>4, <1>9, <2>1, <2>3
    <3>2. i + 1 = j + 1
      BY <1>2, <3>1 DEF WaitingInv
    <3> QED
      BY <1>3, <2>1, <3>1, <3>2
  <2> QED
    BY <2>1, <2>2, <2>3
<1>10. \A m \in Messages : uri'[m] = Unbound => answer'[m] = "none"
  <2> SUFFICES ASSUME NEW m \in Messages, uri[m] = Unbound PROVE answer'[m] = "none"
    OBVIOUS
  <2>1. m # "bind"
    BY MemoryAssumption
  <2> QED
    BY <2>1 DEF WaitingInv
<1> QED
  BY <1>8, <1>9, <1>10 DEF WaitingInv

(* What a request to send comes to, by what the parents can tell.           *)
LEMMA SendEffect ==
    ASSUME IInv, NEW t \in Transports, HandleSendMessage(t)
    PROVE  \E m \in Messages :
             /\ inbox[t] # <<>> /\ m = Head(inbox[t]) /\ m # "bind" /\ uri[m] \in Urls
             /\ inbox' = [inbox EXCEPT ![t] = Tail(@)] /\ uri' = uri
             /\ \/ answer' = [answer EXCEPT ![m] = "err"] /\ UNCHANGED <<posted, received>>
                \/ /\ addr[t] = uri[m] /\ pc[t] = "inbox"
                   /\ posted' = [posted EXCEPT ![<<uri[m], uri[m]>>] = Append(@, m)]
                   /\ received' = [received EXCEPT ![<<uri[m], uri[m]>>] = Append(@, m)]
                   /\ answer' = [answer EXCEPT ![m] = "ok"]
                \/ /\ addr[t] \in Urls
                   /\ posted' = [posted EXCEPT ![<<addr[t], uri[m]>>] = Append(@, m)]
                   /\ received' = received
                   /\ answer' = [answer EXCEPT ![m] = "ok"]
                \/ UNCHANGED <<answer, posted, received>>
<1>1. /\ pc[t] = "inbox" /\ inbox[t] # <<>> /\ Head(inbox[t]) # "bind"
      /\ inbox' = [inbox EXCEPT ![t] = Tail(@)] /\ uri' = uri
  BY DEF HandleSendMessage
<1>2. Head(inbox[t]) \in Messages /\ uri[Head(inbox[t])] \in Urls
  BY <1>1, RequestTaken DEF IInv
<1>3. PICK m \in Messages : m = Head(inbox[t])
  BY <1>2
<1>4. addr[t] \in Urls \cup {Unbound}
  BY DEF IInv, TypeOK
<1>5. \/ answer' = [answer EXCEPT ![m] = "err"] /\ UNCHANGED <<posted, received>>
      \/ /\ addr[t] = uri[m]
         /\ posted' = [posted EXCEPT ![<<uri[m], uri[m]>>] = Append(@, m)]
         /\ received' = [received EXCEPT ![<<uri[m], uri[m]>>] = Append(@, m)]
         /\ answer' = [answer EXCEPT ![m] = "ok"]
      \/ addr[t] # Unbound /\ PostTo(t, uri[m], m) /\ UNCHANGED received
  BY <1>3 DEF HandleSendMessage
<1>6. ASSUME addr[t] # Unbound, PostTo(t, uri[m], m), received' = received
      PROVE  \/ answer' = [answer EXCEPT ![m] = "err"] /\ UNCHANGED <<posted, received>>
             \/ /\ addr[t] \in Urls
                /\ posted' = [posted EXCEPT ![<<addr[t], uri[m]>>] = Append(@, m)]
                /\ received' = received
                /\ answer' = [answer EXCEPT ![m] = "ok"]
             \/ UNCHANGED <<answer, posted, received>>
  BY <1>4, <1>6 DEF PostTo
<1>7. m # "bind"
  BY <1>1, <1>3
<1> QED
  BY <1>1, <1>2, <1>3, <1>5, <1>6, <1>7

LEMMA WaitingStep ==
    ASSUME IInv, WaitingInv, [Next]_vars
    PROVE  WaitingInv'
<1>1. TypeOK /\ inbox \in [Transports -> Seq(Messages \cup {"bind"})]
        /\ answer \in [Messages -> {"none", "ok", "err"}] /\ uri \in [Messages -> Urls \cup {Unbound}]
  BY DEF IInv, TypeOK
<1>2. CASE UNCHANGED <<inbox, answer, uri>>
  BY <1>2, WaitingKept
<1>3. ASSUME NEW t \in Transports, AskBind(t) PROVE WaitingInv'
  <2>1. inbox' = [inbox EXCEPT ![t] = Append(@, "bind")] /\ answer' = answer /\ uri' = uri
    BY <1>3 DEF AskBind, historyVars
  <2> QED
    BY <1>1, <2>1, WaitingAsked
<1>4. ASSUME NEW t \in Transports, AskSend(t) PROVE WaitingInv'
  <2>1. PICK m \in Messages, u \in Urls :
           /\ uri[m] = Unbound /\ uri' = [uri EXCEPT ![m] = u]
           /\ inbox' = [inbox EXCEPT ![t] = Append(@, m)] /\ answer' = answer
    BY <1>4 DEF AskSend
  <2>2. \A s \in Transports : \A i \in DOMAIN inbox[s] : inbox[s][i] # m
    BY <2>1, UrlsFacts, MemoryAssumption DEF IInv, UriInv
  <2>3. \A n \in Messages : uri'[n] = Unbound => uri[n] = Unbound
    BY <1>1, <2>1, UrlsFacts
  <2>4. answer[m] = "none"
    BY <2>1 DEF WaitingInv
  <2> QED
    BY <1>1, <2>1, <2>2, <2>3, <2>4, WaitingAsked
<1>5. ASSUME NEW t \in Transports, HandleBind(t) PROVE WaitingInv'
  <2>1. /\ inbox[t] # <<>> /\ Head(inbox[t]) = "bind" /\ inbox' = [inbox EXCEPT ![t] = Tail(@)]
        /\ uri' = uri /\ answer' = answer
    BY <1>5 DEF HandleBind, historyVars
  <2> QED
    BY <1>1, <2>1, WaitingTaken
<1>6. ASSUME NEW t \in Transports, HandleSendMessage(t) PROVE WaitingInv'
  <2>1. PICK m \in Messages :
          /\ inbox[t] # <<>> /\ m = Head(inbox[t]) /\ uri[m] \in Urls
          /\ inbox' = [inbox EXCEPT ![t] = Tail(@)] /\ uri' = uri
          /\ \/ answer' = [answer EXCEPT ![m] = "err"]
             \/ answer' = [answer EXCEPT ![m] = "ok"]
             \/ answer' = answer
    BY <1>6, SendEffect
  <2>2. \A n \in Messages : n # m => answer'[n] = answer[n]
    BY <1>1, <2>1
  <2>3. uri[m] # Unbound
    BY <2>1, UrlsFacts
  <2> QED
    BY <1>1, <2>1, <2>2, <2>3, WaitingTaken
<1>7. ASSUME NEW t \in Transports,
             DiscoveryDue(t) \/ StartProcess(t) \/ DiscoverOne(t) \/ ServerProcess(t)
               \/ ConnectBack(t) \/ PublishReceived(t) \/ EndProcess(t)
               \/ Advertise(t) \/ LockPanics(t)
      PROVE  WaitingInv'
  BY <1>2, <1>7 DEF DiscoveryDue, StartProcess, DiscoverOne, ServerProcess, ConnectBack,
                    PublishReceived, EndProcess, Advertise, LockPanics, historyVars
<1>8. CASE Unbind
  BY <1>2, <1>8 DEF Unbind, historyVars
<1>9. CASE UNCHANGED vars
  BY <1>2, <1>9 DEF vars, historyVars
<1> QED
  BY <1>3, <1>4, <1>5, <1>6, <1>7, <1>8, <1>9 DEF Next, Process

(* What a parent was told is the beginning of what was posted.              *)
LEMMA ToldInOrder ==
    ASSUME IInv, NEW f \in Urls, NEW u \in Urls
    PROVE  /\ Net!Begins(received[<<f, u>>], posted[<<f, u>>])
           /\ \A t \in Transports : addr[t] = u =>
                /\ Net!Begins(received[<<f, u>>], received[<<f, u>>] \o events[t][f])
                /\ Net!Begins(received[<<f, u>>] \o events[t][f], posted[<<f, u>>])
<1>1. PICK r \in Seq(Messages), q \in Seq(Messages) : r = received[<<f, u>>] /\ q = queue[u][f]
  BY UrlsFacts DEF IInv, TypeOK
<1>2. Flow(f, u)
  BY DEF IInv, FlowInv
<1>3. ASSUME NEW t \in Transports, addr[t] = u
      PROVE  /\ Net!Begins(r, r \o events[t][f])
             /\ Net!Begins(r \o events[t][f], posted[<<f, u>>])
             /\ Net!Begins(r, posted[<<f, u>>])
  <2>1. PICK e \in Seq(Messages) : e = events[t][f]
    BY DEF IInv, TypeOK
  <2>2. posted[<<f, u>>] = r \o e \o q
    BY <1>1, <1>2, <1>3, <2>1 DEF Flow
  <2>3. r \o e \in Seq(Messages) /\ e \o q \in Seq(Messages) /\ r \o e \o q = r \o (e \o q)
    OBVIOUS
  <2>4. Net!Begins(r, r \o e) /\ Net!Begins(r \o e, (r \o e) \o q) /\ Net!Begins(r, r \o (e \o q))
    BY <2>3, BeginsConcat
  <2> QED
    BY <2>1, <2>2, <2>3, <2>4
<1>4. CASE \E t \in Transports : addr[t] = u
  BY <1>1, <1>3, <1>4
<1>5. CASE \A t \in Transports : addr[t] # u
  BY <1>1, <1>2, <1>5, BeginsConcat DEF Flow
<1> QED
  BY <1>1, <1>3, <1>4, <1>5

LEMMA NetInit == Init => Net!Init
BY DEF Init, Net!Init, Pairs, Net!Pairs

LEMMA NetSteps ==
    ASSUME IInv, WaitingInv, [Next]_vars
    PROVE  [Net!Next]_Net!vars
<1>1. /\ Net!Pairs = Pairs /\ addr \in [Transports -> Urls \cup {Unbound}]
      /\ received \in [Pairs -> Seq(Messages)] /\ posted \in [Pairs -> Seq(Messages)]
      /\ inbox \in [Transports -> Seq(Messages \cup {"bind"})]
  BY DEF Net!Pairs, Pairs, IInv, TypeOK
<1>2. CASE UNCHANGED <<uri, answer, posted, received>>
  BY <1>2 DEF Net!vars
<1>3. ASSUME NEW t \in Transports, AskSend(t) PROVE \E m \in Messages : Net!Ask(m)
  <2>1. PICK m \in Messages, u \in Urls :
           uri[m] = Unbound /\ uri' = [uri EXCEPT ![m] = u] /\ UNCHANGED <<answer, posted, received>>
    BY <1>3 DEF AskSend
  <2> QED
    BY <2>1 DEF Net!Ask
<1>4. ASSUME NEW t \in Transports, HandleSendMessage(t) PROVE [Net!Next]_Net!vars
  <2>1. PICK m \in Messages :
          /\ inbox[t] # <<>> /\ m = Head(inbox[t]) /\ m # "bind" /\ uri[m] \in Urls /\ uri' = uri
          /\ \/ answer' = [answer EXCEPT ![m] = "err"] /\ UNCHANGED <<posted, received>>
             \/ /\ addr[t] = uri[m] /\ pc[t] = "inbox"
                /\ posted' = [posted EXCEPT ![<<uri[m], uri[m]>>] = Append(@, m)]
                /\ received' = [received EXCEPT ![<<uri[m], uri[m]>>] = Append(@, m)]
                /\ answer' = [answer EXCEPT ![m] = "ok"]
             \/ /\ addr[t] \in Urls
                /\ posted' = [posted EXCEPT ![<<addr[t], uri[m]>>] = Append(@, m)]
                /\ received' = received
                /\ answer' = [answer EXCEPT ![m] = "ok"]
             \/ UNCHANGED <<answer, posted, received>>
    BY <1>4, SendEffect
  <2>2. Net!Waits(m)
    <3>1. inbox[t][1] = m /\ 1 \in DOMAIN inbox[t]
      BY <1>1, <2>1, TailOfInbox
    <3>2. inbox[t][1] # "bind"
      BY <2>1, <3>1
    <3>3. answer[m] = "none"
      BY <3>1, <3>2, Zenon DEF WaitingInv
    <3>4. uri[m] # Unbound
      BY <2>1, UrlsFacts
    <3> QED
      BY <3>3, <3>4 DEF Net!Waits
  <2>3. CASE answer' = [answer EXCEPT ![m] = "err"] /\ UNCHANGED <<posted, received>>
    BY <2>1, <2>2, <2>3 DEF Net!Refuse, Net!Next
  <2>4. CASE /\ addr[t] = uri[m] /\ pc[t] = "inbox"
             /\ posted' = [posted EXCEPT ![<<uri[m], uri[m]>>] = Append(@, m)]
             /\ received' = [received EXCEPT ![<<uri[m], uri[m]>>] = Append(@, m)]
             /\ answer' = [answer EXCEPT ![m] = "ok"]
    <3>1. PICK u \in Urls : u = uri[m]
      BY <2>1
    <3>2. received[<<u, u>>] = posted[<<u, u>>]
      <4>1. events[t][u] = <<>> /\ queue[u][u] = <<>>
        BY <2>4 DEF IInv, PhaseInv, SelfInv, NoMessages
      <4>2. posted[<<u, u>>] = received[<<u, u>>] \o events[t][u] \o queue[u][u]
        BY <2>4, <3>1 DEF IInv, FlowInv, Flow
      <4>3. received[<<u, u>>] \in Seq(Messages)
        BY <1>1, UrlsFacts
      <4> QED
        BY <4>1, <4>2, <4>3, ConcatEmpty
    <3>3. Net!Loop(m)
      BY <2>1, <2>2, <2>4, <3>1, <3>2 DEF Net!Loop
    <3> QED
      BY <3>3 DEF Net!Next
  <2>5. CASE /\ addr[t] \in Urls
             /\ posted' = [posted EXCEPT ![<<addr[t], uri[m]>>] = Append(@, m)]
             /\ received' = received
             /\ answer' = [answer EXCEPT ![m] = "ok"]
    <3>1. Net!Accept(m, addr[t])
      BY <2>1, <2>2, <2>5 DEF Net!Accept
    <3> QED
      BY <2>5, <3>1 DEF Net!Next
  <2>6. CASE UNCHANGED <<answer, posted, received>>
    BY <1>2, <2>1, <2>6
  <2> QED
    BY <2>1, <2>3, <2>4, <2>5, <2>6
<1>5. ASSUME NEW t \in Transports, PublishReceived(t) PROVE \E u \in Urls : Net!Deliver(u)
  <2>1. /\ pc[t] = "connect" /\ UNCHANGED <<uri, answer, posted>>
        /\ received' = [p \in Pairs |->
                          IF p[2] = addr[t] THEN received[p] \o events[t][p[1]] ELSE received[p]]
    BY <1>5 DEF PublishReceived
  <2>2. PICK u \in Urls : u = addr[t]
    BY <1>1, <2>1 DEF IInv, PhaseInv
  <2>3. received' \in [Pairs -> Seq(Messages)]
    <3>1. IInv'
      BY NextIInv
    <3>2. Pairs' = Pairs
      BY DEF Pairs, Urls
    <3> QED
      BY <3>1, <3>2 DEF IInv, TypeOK
  <2>4. ASSUME NEW p \in Pairs
        PROVE  /\ p[2] # u => received'[p] = received[p]
               /\ Net!Begins(received[p], received'[p])
               /\ Net!Begins(received'[p], posted[p])
    <3>1. PICK f \in Urls, v \in Urls : p = <<f, v>>
      BY DEF Pairs
    <3>2. received'[p] = IF v = u THEN received[<<f, v>>] \o events[t][f] ELSE received[<<f, v>>]
      BY <2>1, <2>2, <3>1
    <3>3. CASE v = u
      BY <2>2, <3>1, <3>2, <3>3, ToldInOrder
    <3>4. CASE v # u
      <4>1. Net!Begins(received[p], received[p])
        BY <1>1, BeginsConcat
      <4> QED
        BY <3>1, <3>2, <3>4, <4>1, ToldInOrder
    <3> QED
      BY <3>3, <3>4
  <2> QED
    BY <1>1, <2>1, <2>3, <2>4 DEF Net!Deliver
<1>6. ASSUME NEW t \in Transports,
             AskBind(t) \/ DiscoveryDue(t) \/ StartProcess(t) \/ DiscoverOne(t) \/ ServerProcess(t)
               \/ ConnectBack(t) \/ HandleBind(t) \/ EndProcess(t)
               \/ Advertise(t) \/ LockPanics(t)
      PROVE  UNCHANGED <<uri, answer, posted, received>>
  BY <1>6 DEF AskBind, DiscoveryDue, StartProcess, DiscoverOne, ServerProcess, ConnectBack,
              HandleBind, EndProcess, Advertise, LockPanics, historyVars
<1>7. CASE Unbind
  BY <1>2, <1>7 DEF Unbind, historyVars
<1>8. CASE UNCHANGED vars
  BY <1>2, <1>8 DEF vars, historyVars
<1> QED
  BY <1>2, <1>3, <1>4, <1>5, <1>6, <1>7, <1>8 DEF Next, Process, Net!Next

LEMMA WaitingInit == Init => WaitingInv
BY DEF Init, InitTransports, WaitingInv

(* REFINEMENT. What parents see of the transports, with their servers,      *)
(* their connections in both directions and their critical sections in any  *)
(* order, is a set of FIFO links that accept a message once or refuse it.   *)
THEOREM TransportsAreLinks == Spec => ImplementsFifoLinks
<1>1. Init => Net!Init
  BY NetInit
<1>2. Init => WaitingInv
  BY WaitingInit
<1>3. IInv /\ WaitingInv /\ [Next]_vars => WaitingInv' /\ [Net!Next]_Net!vars
  BY WaitingStep, NetSteps
<1> QED
  BY <1>1, <1>2, <1>3, Invariance, PTL DEF Spec, Net!Spec, ImplementsFifoLinks

(* Between any two urls, what was posted is what the parent was told, what  *)
(* the transport holds and what waits in the server, in this order: nothing *)
(* is lost, repeated or reordered, also when the server is closed and when  *)
(* a transport is bound again while its old url still has messages.  Of a   *)
(* message its sender was told is sent there is one copy, on a link to the  *)
(* url it was sent to, and of others there is none.                         *)
THEOREM NothingLost == Spec => []QueuesIntact
<1>1. IInv /\ NetInv => QueuesIntact
  BY FlowIsIntact DEF IInv, NetInv, QueuesIntact
<1> QED
  BY <1>1, Invariance, NetInvariant, TransportsAreLinks, PTL DEF ImplementsFifoLinks

=============================================================================
