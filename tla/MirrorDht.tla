----------------------------- MODULE MirrorDht -----------------------------
(***************************************************************************)
(* The mirror DHT (lib3h/src/dht/mirror_dht.rs) of every node of a space,  *)
(* with what its owners (the gateway, the engine's space layer and the     *)
(* client behind it) do with its events, and a network between them.       *)
(*                                                                         *)
(* A DHT handles the requests of its owner one after the other and then    *)
(* runs internal_process: peers that stayed silent are reported, and its   *)
(* own PeerData is gossiped from time to time.  Gossip travels through a   *)
(* network that delays, reorders and (a send is repeated when its answer   *)
(* is late) duplicates; a message that is never delivered is lost.         *)
(*                                                                         *)
(* Every node reads the clock of its own machine.  Ages are differences of *)
(* u64: of a time that is ahead of the own clock the subtraction panics in *)
(* a build with overflow checks, and wraps to a huge age in one without.   *)
(***************************************************************************)
EXTENDS Naturals, FiniteSets

CONSTANTS
    Nodes,              \* the peers of the space, by name
    Locations,          \* the uris a node may be bound to
    Entries, Aspects,   \* entry and aspect addresses
    GossipInterval,     \* DhtConfig::gossip_interval
    TimeoutThreshold,   \* DhtConfig::timeout_threshold
    Introductions,      \* who hears of whom outside gossip: pairs <<n, p>>
    Publishers,         \* the nodes whose clients publish entries
    Listers,            \* the nodes whose clients list what they store
    CanRestart,         \* the nodes whose process may be started again
    MaxRequests,        \* bound on what waits when an owner asks for more
    StartTimes,         \* the times the clocks may show when the nodes start
    MaxTime             \* bound on the clocks

ASSUME DhtAssumption ==
    /\ Locations # {}
    /\ GossipInterval \in Nat
    /\ TimeoutThreshold \in Nat
    /\ Introductions \subseteq Nodes \X Nodes
    /\ Publishers \subseteq Nodes
    /\ Listers \subseteq Nodes
    /\ CanRestart \subseteq Nodes
    /\ MaxRequests \in Nat
    /\ MaxTime \in Nat
    /\ StartTimes \subseteq 0..MaxTime

VARIABLES
    clock,                \* per node: since_epoch_ms
    panicked,             \* the nodes that a subtraction stopped
    this_peer,            \* per node: its own location and timestamp
    peer_map,             \* per node: the peers it holds
    timed_out_map,        \* per node: which of them it has reported
    entry_list,           \* per node and entry: the aspects it holds
    last_gossip_of_self,  \* per node
    requests,             \* per node: what waits between its DHT and its client
    store,                \* per node and entry: the aspects its client stores
    gossip,               \* the gossip in the network
    published,            \* HISTORY. per node and entry: the aspects its client published
    restarted             \* HISTORY. the nodes that were started again

peerVars == <<this_peer, peer_map, timed_out_map, last_gossip_of_self>>
entryVars == <<entry_list, store, published>>
runVars == <<panicked, restarted>>
vars == <<clock, runVars, peerVars, entryVars, requests, gossip>>

PeerInfo == [location : Locations, timestamp : 0..MaxTime]
Peer(p, info) == [name |-> p, info |-> info]
Entry(e, as) == [entry |-> e, aspects |-> as]

PeerData == [name : Nodes, info : PeerInfo]
EntryData == [entry : Entries, aspects : SUBSET Aspects]

(* MirrorGossip on its way from one node to another *)
PeerGossip(from, to, d) == [kind |-> "Peer", from |-> from, to |-> to, peer |-> d]
EntryGossip(from, to, d) == [kind |-> "Entry", from |-> from, to |-> to, data |-> d]

Gossips ==
    [kind : {"Peer"}, from : Nodes, to : Nodes, peer : PeerData]
      \cup [kind : {"Entry"}, from : Nodes, to : Nodes, data : EntryData]

(* Requests to the DHT of a node, and to its client.                        *)
HoldPeerMsg(d) == [kind |-> "HoldPeer", peer |-> d]
HoldAspectsMsg(d, shallow) == [kind |-> "HoldEntryAspectAddress", data |-> d, shallow |-> shallow]
BroadcastMsg(d) == [kind |-> "BroadcastEntry", data |-> d]
FetchMsg(e) == [kind |-> "HandleFetchEntry", entry |-> e]
StoreMsg(e, a) == [kind |-> "HandleStoreEntryAspect", entry |-> e, aspect |-> a]

DhtRequests ==
    [kind : {"HoldPeer"}, peer : PeerData]
      \cup [kind : {"HoldEntryAspectAddress"}, data : EntryData, shallow : BOOLEAN]
      \cup [kind : {"BroadcastEntry"}, data : EntryData]
      \cup [kind : {"HandleFetchEntry"}, entry : Entries]
      \cup [kind : {"HandleStoreEntryAspect"}, entry : Entries, aspect : Aspects]

TypeOK ==
    /\ clock \in [Nodes -> 0..MaxTime]
    /\ panicked \subseteq Nodes /\ restarted \subseteq Nodes
    /\ this_peer \in [Nodes -> PeerInfo]
    /\ last_gossip_of_self \in [Nodes -> 0..MaxTime]
    /\ entry_list \in [Nodes -> [Entries -> SUBSET Aspects]]
    /\ store \in [Nodes -> [Entries -> SUBSET Aspects]]
    /\ published \in [Nodes -> [Entries -> SUBSET Aspects]]
    /\ requests \in [Nodes -> SUBSET DhtRequests]
    /\ gossip \subseteq Gossips
    /\ DOMAIN peer_map = Nodes
    /\ DOMAIN timed_out_map = Nodes
    /\ \A n \in Nodes :
         /\ DOMAIN peer_map[n] \subseteq Nodes
         /\ peer_map[n] \in [DOMAIN peer_map[n] -> PeerInfo]
         /\ timed_out_map[n] \in [DOMAIN timed_out_map[n] -> BOOLEAN]

-----------------------------------------------------------------------------
(* MirrorDht::new_with_config, before anybody is introduced.  The clocks of *)
(* the machines need not agree.                                             *)
Init ==
    /\ clock \in [Nodes -> StartTimes]
    /\ panicked = {} /\ restarted = {}
    /\ this_peer \in [Nodes -> PeerInfo]
    /\ \A n \in Nodes : this_peer[n].timestamp = clock[n]
    /\ last_gossip_of_self = clock
    /\ peer_map = [n \in Nodes |-> [p \in {} |-> this_peer[n]]]
    /\ timed_out_map = [n \in Nodes |-> [p \in {} |-> FALSE]]
    /\ entry_list = [n \in Nodes |-> [e \in Entries |-> {}]]
    /\ store = [n \in Nodes |-> [e \in Entries |-> {}]]
    /\ published = [n \in Nodes |-> [e \in Entries |-> {}]]
    /\ requests = [n \in Nodes |-> {}]
    /\ gossip = {}

(* Each clock moves on its own, and not back.  MaxTime bounds it.           *)
Tick(n) ==
    /\ clock[n] < MaxTime
    /\ clock' = [clock EXCEPT ![n] = @ + 1]
    /\ UNCHANGED <<runVars, peerVars, entryVars, requests, gossip>>

(* The age of t, subtracted from the clock of n as a u64.                   *)
Ahead(n, t) == clock[n] < t
OlderThan(n, t, age) == Ahead(n, t) \/ clock[n] - t > age
YoungerThan(n, t, age) == ~Ahead(n, t) /\ clock[n] - t < age

Running(n) == n \notin panicked

(* HashMap::insert *)
Put(f, k, v) == [x \in DOMAIN f \cup {k} |-> IF x = k THEN v ELSE f[x]]

(* get_other_peer_list *)
OtherPeers(n) == DOMAIN peer_map[n] \ {n}

(* gossip_self *)
SelfGossip(n, to) == {PeerGossip(n, p, Peer(n, this_peer[n])) : p \in to}

-----------------------------------------------------------------------------
(* The owners of the DHTs.                                                  *)

(* An owner that runs, and the bound on its inputs. *)
MayAsk(n) == Running(n) /\ Cardinality(requests[n]) < MaxRequests

(* The owner of n hears of p over a connection (PeerName), or over a join   *)
(* message, and asks its DHT to hold it.                                    *)
Introduce(n, p) ==
    /\ <<n, p>> \in Introductions
    /\ MayAsk(n)
    /\ requests' = [requests EXCEPT ![n] = @ \cup {HoldPeerMsg(Peer(p, this_peer[p]))}]
    /\ UNCHANGED <<clock, runVars, peerVars, entryVars, gossip>>

(* handle_publish_entry: the client is asked to store what it published.    *)
(* That it publishes nothing twice is a bound.                              *)
PublishEntry(n) ==
    /\ n \in Publishers
    /\ MayAsk(n)
    /\ \E e \in Entries, as \in (SUBSET Aspects) \ {{}} :
         /\ ~(as \subseteq published[n][e])
         /\ requests' = [requests EXCEPT ![n] =
                           @ \cup {StoreMsg(e, a) : a \in as} \cup {BroadcastMsg(Entry(e, as))}]
         /\ published' = [published EXCEPT ![n][e] = @ \cup as]
    /\ UNCHANGED <<clock, runVars, peerVars, entry_list, store, gossip>>

(* handle_HandleGetGossipingEntryListResult: the client lists what it       *)
(* stores, as entries without content.  An owner may also pass content.     *)
HoldEntry(n) ==
    /\ n \in Listers
    /\ MayAsk(n)
    /\ \E e \in Entries, shallow \in BOOLEAN :
         /\ store[n][e] # {}
         /\ requests' = [requests EXCEPT ![n] =
                           @ \cup {HoldAspectsMsg(Entry(e, store[n][e]), shallow)}]
    /\ UNCHANGED <<clock, runVars, peerVars, entryVars, gossip>>

(* handle_HandleGetAuthoringEntryListResult: only entries with aspects the  *)
(* DHT does not hold are fetched.                                           *)
AuthorEntry(n) ==
    /\ n \in Listers
    /\ MayAsk(n)
    /\ \E e \in Entries :
         /\ ~(store[n][e] \subseteq entry_list[n][e])
         /\ requests' = [requests EXCEPT ![n] = @ \cup {FetchMsg(e)}]
    /\ UNCHANGED <<clock, runVars, peerVars, entryVars, gossip>>

(* HandleFetchEntryResult: the client returns the aspects it stores by then, *)
(* which are broadcast.                                                     *)
FetchEntry(n) ==
    /\ Running(n)
    /\ \E r \in requests[n] :
         /\ r.kind = "HandleFetchEntry"
         /\ requests' = [requests EXCEPT ![n] =
                           (@ \ {r}) \cup {BroadcastMsg(Entry(r.entry, store[n][r.entry]))}]
    /\ UNCHANGED <<clock, runVars, peerVars, entryVars, gossip>>

(* The client stores an aspect it was asked to store; or it refuses, or     *)
(* does not answer, and nobody looks at that.                               *)
StoreEntryAspect(n) ==
    /\ Running(n)
    /\ \E r \in requests[n] :
         /\ r.kind = "HandleStoreEntryAspect"
         /\ store' \in {store, [store EXCEPT ![n][r.entry] = @ \cup {r.aspect}]}
         /\ requests' = [requests EXCEPT ![n] = @ \ {r}]
    /\ UNCHANGED <<clock, runVars, peerVars, entry_list, published, gossip>>

UpdateAdvertise(n) ==
    /\ Running(n)
    /\ \E l \in Locations : this_peer' = [this_peer EXCEPT ![n].location = l]
    /\ UNCHANGED <<clock, runVars, peer_map, timed_out_map, last_gossip_of_self, entryVars, requests, gossip>>

(* The process of n starts again, possibly elsewhere: a new DHT with a      *)
(* newer timestamp.  What its client stores survives.                       *)
Restart(n) ==
    /\ n \in CanRestart
    /\ clock[n] > this_peer[n].timestamp
    /\ \E l \in Locations :
         this_peer' = [this_peer EXCEPT ![n] = [location |-> l, timestamp |-> clock[n]]]
    /\ last_gossip_of_self' = [last_gossip_of_self EXCEPT ![n] = clock[n]]
    /\ peer_map' = [peer_map EXCEPT ![n] = [p \in {} |-> this_peer[n]]]
    /\ timed_out_map' = [timed_out_map EXCEPT ![n] = [p \in {} |-> FALSE]]
    /\ entry_list' = [entry_list EXCEPT ![n] = [e \in Entries |-> {}]]
    /\ requests' = [requests EXCEPT ![n] = {}]
    /\ panicked' = panicked \ {n}
    /\ restarted' = restarted \cup {n}
    /\ UNCHANGED <<clock, store, published, gossip>>

-----------------------------------------------------------------------------
(* MUTANT of IsNews: the timestamps are not compared. *)
IsNews_Always(n, d) == TRUE

(* add_peer *)
IsNews(n, d) ==
    \/ d.name \notin DOMAIN peer_map[n]
    \/ d.info.timestamp > peer_map[n][d.name].timestamp

(* MUTANT of AddPeer: a refreshed peer stays marked as timed out. *)
AddPeer_StaysTimedOut(n, d) ==
    IF d.name \notin DOMAIN peer_map[n]
    THEN /\ peer_map' = [peer_map EXCEPT ![n] = Put(@, d.name, d.info)]
         /\ timed_out_map' = [timed_out_map EXCEPT ![n] = Put(@, d.name, FALSE)]
    ELSE /\ peer_map' = [peer_map EXCEPT ![n][d.name].timestamp = d.info.timestamp]
         /\ UNCHANGED timed_out_map

(* A known peer keeps its location, and stays reported when even the new    *)
(* timestamp is old.                                                        *)
AddPeer(n, d) ==
    IF d.name \notin DOMAIN peer_map[n]
    THEN /\ peer_map' = [peer_map EXCEPT ![n] = Put(@, d.name, d.info)]
         /\ timed_out_map' = [timed_out_map EXCEPT ![n] = Put(@, d.name, FALSE)]
    ELSE /\ peer_map' = [peer_map EXCEPT ![n][d.name].timestamp = d.info.timestamp]
         /\ timed_out_map' =
              IF YoungerThan(n, d.info.timestamp, TimeoutThreshold)
              THEN [timed_out_map EXCEPT ![n] = Put(@, d.name, FALSE)]
              ELSE timed_out_map

(* get_peer: a node knows itself *)
GetPeer(n, p) == IF p = n THEN this_peer[n] ELSE peer_map[n][p]

(* HandleGossip of peer data: the timestamp of a known peer is brought up to *)
(* date; an unknown one goes to the owner, which accepts it.                *)
HandlePeerGossip(n, d) ==
    /\ IF d.name = n \/ d.name \in DOMAIN peer_map[n]
       THEN /\ IF d.info.timestamp > GetPeer(n, d.name).timestamp /\ IsNews(n, d)
               THEN AddPeer(n, d)
               ELSE UNCHANGED <<peer_map, timed_out_map>>
            /\ UNCHANGED requests
       ELSE /\ requests' = [requests EXCEPT ![n] = @ \cup {HoldPeerMsg(d)}]
            /\ UNCHANGED <<peer_map, timed_out_map>>
    /\ UNCHANGED <<this_peer, last_gossip_of_self>>

(* MUTANT of HandleEntryGossip: the DHT holds what it hears, before the      *)
(* client has accepted it.                                                  *)
HandleEntryGossip_Holds(n, d) ==
    /\ requests' =
         IF d.aspects \subseteq entry_list[n][d.entry] THEN requests
         ELSE [requests EXCEPT ![n] = @ \cup {StoreMsg(d.entry, a) : a \in d.aspects}
                                        \cup {HoldAspectsMsg(d, FALSE)}]
    /\ UNCHANGED peerVars

(* HandleGossip of an entry: one with a new aspect goes to the client, all  *)
(* its aspects with it.  The DHT does not hold it yet.                      *)
HandleEntryGossip(n, d) ==
    /\ requests' =
         IF d.aspects \subseteq entry_list[n][d.entry] THEN requests
         ELSE [requests EXCEPT ![n] = @ \cup {StoreMsg(d.entry, a) : a \in d.aspects}]
    /\ UNCHANGED peerVars

(* A delivery may leave a copy behind in the network. *)
HandleGossip(n) ==
    /\ Running(n)
    /\ \E g \in gossip :
         /\ g.to = n
         /\ gossip' \in {gossip, gossip \ {g}}
         /\ \/ g.kind = "Peer" /\ HandlePeerGossip(n, g.peer)
            \/ g.kind = "Entry" /\ HandleEntryGossip(n, g.data)
    /\ UNCHANGED <<clock, runVars, entryVars>>

(* MUTANT of HoldPeer: the newcomer is not told of us. *)
HoldPeer_NoReply(n, p) ==
    /\ Running(n)
    /\ \E r \in requests[n] :
         /\ r.kind = "HoldPeer"
         /\ r.peer.name = p
         /\ requests' = [requests EXCEPT ![n] = @ \ {r}]
         /\ IF IsNews(n, r.peer)
            THEN /\ AddPeer(n, r.peer)
                 /\ gossip' = gossip
                      \cup {PeerGossip(n, q, Peer(p, peer_map'[n][p])) : q \in OtherPeers(n)}
            ELSE UNCHANGED <<peer_map, timed_out_map, gossip>>
    /\ UNCHANGED <<clock, runVars, this_peer, last_gossip_of_self, entryVars>>

(* HoldPeer: the others are told of the newcomer, and the newcomer of us.   *)
HoldPeer(n, p) ==
    /\ Running(n)
    /\ \E r \in requests[n] :
         /\ r.kind = "HoldPeer"
         /\ r.peer.name = p
         /\ requests' = [requests EXCEPT ![n] = @ \ {r}]
         /\ IF IsNews(n, r.peer)
            THEN /\ AddPeer(n, r.peer)
                 /\ gossip' = gossip
                      \cup {PeerGossip(n, q, Peer(p, peer_map'[n][p])) : q \in OtherPeers(n)}
                      \cup SelfGossip(n, {p} \ {n})
            ELSE UNCHANGED <<peer_map, timed_out_map, gossip>>
    /\ UNCHANGED <<clock, runVars, this_peer, last_gossip_of_self, entryVars>>

(* MUTANT of HoldAndGossip: bookkeeping without gossip. *)
HoldAndGossip_OnlyHold(n, d) ==
    /\ entry_list' = [entry_list EXCEPT ![n][d.entry] = @ \cup d.aspects]
    /\ UNCHANGED gossip

(* add_entry_aspects, gossip_entry *)
HoldAndGossip(n, d) ==
    IF d.aspects \subseteq entry_list[n][d.entry]
    THEN UNCHANGED <<entry_list, gossip>>
    ELSE /\ entry_list' = [entry_list EXCEPT ![n][d.entry] = @ \cup d.aspects]
         /\ gossip' = gossip \cup {EntryGossip(n, p, d) : p \in OtherPeers(n)}

BroadcastEntry(n) ==
    /\ Running(n)
    /\ \E r \in requests[n] :
         /\ r.kind = "BroadcastEntry"
         /\ requests' = [requests EXCEPT ![n] = @ \ {r}]
         /\ HoldAndGossip(n, r.data)
    /\ UNCHANGED <<clock, runVars, peerVars, store, published>>

(* A shallow entry is only fetched from the client; the gateway broadcasts   *)
(* what comes back.                                                         *)
HoldEntryAspectAddress(n) ==
    /\ Running(n)
    /\ \E r \in requests[n] :
         /\ r.kind = "HoldEntryAspectAddress"
         /\ IF r.shallow
            THEN /\ requests' = [requests EXCEPT ![n] = (@ \ {r}) \cup {FetchMsg(r.data.entry)}]
                 /\ UNCHANGED <<entry_list, gossip>>
            ELSE /\ requests' = [requests EXCEPT ![n] = @ \ {r}]
                 /\ HoldAndGossip(n, r.data)
    /\ UNCHANGED <<clock, runVars, peerVars, store, published>>

(* internal_process *)
Silent(n) ==
    {p \in OtherPeers(n) : ~timed_out_map[n][p]
                           /\ OlderThan(n, peer_map[n][p].timestamp, TimeoutThreshold)}

(* MUTANT of InternalProcess: keeps when to gossip next, not when it did.   *)
InternalProcess_KeepsDeadline(n) ==
    /\ Running(n)
    /\ timed_out_map' = [timed_out_map EXCEPT ![n] =
                           [p \in DOMAIN @ |-> @[p] \/ p \in Silent(n)]]
    /\ IF OlderThan(n, last_gossip_of_self[n], GossipInterval)
       THEN /\ last_gossip_of_self' = [last_gossip_of_self EXCEPT ![n] = clock[n] + GossipInterval]
            /\ gossip' = gossip \cup SelfGossip(n, OtherPeers(n))
       ELSE UNCHANGED <<last_gossip_of_self, gossip>>
    /\ UNCHANGED <<clock, runVars, this_peer, peer_map, entryVars, requests>>

InternalProcess(n) ==
    /\ Running(n)
    /\ timed_out_map' = [timed_out_map EXCEPT ![n] =
                           [p \in DOMAIN @ |-> @[p] \/ p \in Silent(n)]]
    /\ IF OlderThan(n, last_gossip_of_self[n], GossipInterval)
       THEN /\ last_gossip_of_self' = [last_gossip_of_self EXCEPT ![n] = clock[n]]
            /\ gossip' = gossip \cup SelfGossip(n, OtherPeers(n))
       ELSE UNCHANGED <<last_gossip_of_self, gossip>>
    /\ UNCHANGED <<clock, runVars, this_peer, peer_map, entryVars, requests>>

(* The PeerData that gossip or the owner has for the DHT of n.              *)
Waiting(n) ==
    {g.peer : g \in {h \in gossip : h.to = n /\ h.kind = "Peer"}}
      \cup {r.peer : r \in {q \in requests[n] : q.kind = "HoldPeer"}}

(* What internal_process and add_peer subtract from the clock.              *)
Subtracted(n) ==
    {peer_map[n][p].timestamp : p \in {q \in OtherPeers(n) : ~timed_out_map[n][q]}}
      \cup {last_gossip_of_self[n]}
      \cup {d.info.timestamp : d \in {w \in Waiting(n) :
                                        w.name \in DOMAIN peer_map[n] /\ IsNews(n, w)}}

(* The panic of a build with overflow checks: the node stops.               *)
Overflow(n) ==
    /\ Running(n)
    /\ \E t \in Subtracted(n) : Ahead(n, t)
    /\ panicked' = panicked \cup {n}
    /\ UNCHANGED <<clock, restarted, peerVars, entryVars, requests, gossip>>

Dht(n) ==
    \/ HandleGossip(n)
    \/ \E p \in Nodes : HoldPeer(n, p)
    \/ HoldEntryAspectAddress(n)
    \/ BroadcastEntry(n)
    \/ InternalProcess(n)
    \/ Overflow(n)

Owner(n) ==
    \/ \E p \in Nodes : Introduce(n, p)
    \/ PublishEntry(n)
    \/ HoldEntry(n)
    \/ AuthorEntry(n)
    \/ FetchEntry(n)
    \/ StoreEntryAspect(n)
    \/ UpdateAdvertise(n)
    \/ Restart(n)

Next == \E n \in Nodes : Tick(n) \/ Dht(n) \/ Owner(n)

Spec == Init /\ [][Next]_vars

(* Every actor is polled, so that no request waits forever, and the network  *)
(* is reliable, as the GossipTo event asks: no copy stays in it forever.     *)
Fairness ==
    \A n \in Nodes :
        /\ WF_vars(HandleGossip(n) /\ gossip' # gossip)
        /\ \A p \in Nodes : WF_vars(HoldPeer(n, p))
        /\ WF_vars(BroadcastEntry(n))

FairSpec == Spec /\ Fairness

-----------------------------------------------------------------------------
(* A peer that n reports as silent in this step.                            *)
Reported(n) ==
    {p \in DOMAIN peer_map[n] \cap DOMAIN peer_map'[n] :
        timed_out_map'[n][p] /\ ~timed_out_map[n][p]}

(* ACTION. A subtraction wraps or panics only on a node whose clock is      *)
(* behind that of a peer it holds: where the clocks agree no delay, repeat  *)
(* or order of gossip and no restart brings a time from the future to       *)
(* internal_process or add_peer (mirror_dht.rs:157, :180, :251).            *)
WrapNeedsSkew ==
    [][\A n \in Nodes :
         /\ n \in panicked' \ panicked => \E p \in OtherPeers(n) : clock[n] < clock[p]
         /\ \A p \in Reported(n) :
              Ahead(n, peer_map[n][p].timestamp) => clock[n] < clock[p]]_vars

(* What internal_process reports: an old time, or one that wraps.           *)
Stale(n, t) == Ahead(n, t) \/ clock[n] - t >= TimeoutThreshold

(* ACTION. Every held peer has its entry in timed_out_map (the expect of    *)
(* internal_process), and one that is marked as timed out was not heard of  *)
(* since: no refresh of a peer leaves it marked unless the news itself is   *)
(* stale, or the peer would never be reported again.                        *)
TimeoutBookkeeping ==
    [][\A n \in Nodes :
         /\ DOMAIN timed_out_map'[n] = DOMAIN peer_map'[n]
         /\ \A p \in DOMAIN peer_map'[n] :
              timed_out_map'[n][p] =>
                 /\ p # n
                 /\ \/ /\ p \in DOMAIN peer_map[n]
                       /\ timed_out_map[n][p]
                       /\ peer_map'[n][p].timestamp = peer_map[n][p].timestamp
                    \/ Stale(n, peer_map'[n][p].timestamp)]_vars

(* SAFETY. No node gossips to itself, even one that was asked to hold its   *)
(* own PeerData.                                                            *)
NoGossipToSelf == \A g \in gossip : g.from # g.to

(* Some client published the aspect. *)
Origin(e, a) == \E m \in Nodes : a \in published[m][e]

(* The client of n published the aspect, or accepted it when asked to store *)
(* it; and some client published it.                                        *)
Vouched(n, e, a) == (a \in published[n][e] \/ a \in store[n][e]) /\ Origin(e, a)

(* SAFETY. A DHT holds, and advertises, no aspect on hearsay: its own       *)
(* client published it or has accepted it, and some client published it.    *)
(* Gossip only asks the client to store (mirror_dht.rs:372-383), through    *)
(* every order of gossip, lists, fetches, refusals and restarts.            *)
HeldIsVouched ==
    \A n \in Nodes, e \in Entries : \A a \in entry_list[n][e] : Vouched(n, e, a)

(* The records of peers are no newer than the peers and their clocks.       *)
RecordInv ==
    \A n \in Nodes :
        /\ this_peer[n].timestamp <= clock[n]
        /\ last_gossip_of_self[n] <= clock[n]
        /\ \A p \in DOMAIN peer_map[n] :
             peer_map[n][p].timestamp <= this_peer[p].timestamp

(* The two maps of peers agree, and no node marks itself. *)
MapsInv ==
    \A n \in Nodes :
        /\ DOMAIN timed_out_map[n] = DOMAIN peer_map[n]
        /\ n \in DOMAIN peer_map[n] => ~timed_out_map[n][n]

(* No message carries a newer timestamp of a peer than the peer has. *)
NoFutureNews(d) == d.info.timestamp <= this_peer[d.name].timestamp

NewsInv ==
    /\ \A g \in gossip : g.kind = "Peer" => NoFutureNews(g.peer)
    /\ \A n \in Nodes : \A r \in requests[n] : r.kind = "HoldPeer" => NoFutureNews(r.peer)

(* What a DHT is asked to hold, its client has published or accepted.       *)
PendingInv ==
    \A n \in Nodes : \A r \in requests[n] :
        r.kind \in {"BroadcastEntry", "HoldEntryAspectAddress"}
            => \A a \in r.data.aspects : Vouched(n, r.data.entry, a)

(* What gossip carries, clients are asked to store and have stored, was     *)
(* published by some client.                                                *)
OriginInv ==
    /\ \A g \in gossip :
         g.kind = "Entry" => \A a \in g.data.aspects : Origin(g.data.entry, a)
    /\ \A n \in Nodes : \A r \in requests[n] :
         r.kind = "HandleStoreEntryAspect" => Origin(r.entry, r.aspect)
    /\ \A n \in Nodes, e \in Entries : \A a \in store[n][e] : Origin(e, a)

(* SAFETY. The inductive invariant: the records of peers and the messages   *)
(* about them are no newer than the peers, and what a DHT holds, gossips or *)
(* is asked to hold comes from clients.                                     *)
DhtInv ==
    /\ RecordInv
    /\ NewsInv
    /\ MapsInv
    /\ NoGossipToSelf
    /\ HeldIsVouched
    /\ PendingInv
    /\ OriginInv

(* While n runs it forgets no peer and no aspect, timestamps do not go back, *)
(* and a reported peer comes back only through news that is not stale.      *)
Forward(n) ==
    this_peer'[n].timestamp = this_peer[n].timestamp =>
        /\ \A e \in Entries : entry_list[n][e] \subseteq entry_list'[n][e]
        /\ \A p \in DOMAIN peer_map[n] :
             /\ p \in DOMAIN peer_map'[n]
             /\ peer_map[n][p].timestamp <= peer_map'[n][p].timestamp
             /\ timed_out_map[n][p] =>
                  \/ timed_out_map'[n][p]
                  \/ /\ peer_map[n][p].timestamp < peer_map'[n][p].timestamp
                     /\ YoungerThan(n, peer_map'[n][p].timestamp, TimeoutThreshold)

(* ACTION. "Monotonic data" (the comment on MirrorDht): gossip that arrives  *)
(* late, twice or out of order never takes a running node back.             *)
Monotonic == [][\A n \in Nodes : Forward(n)]_vars

(* ACTION. add_peer brings only the timestamp of a known peer up to date: a  *)
(* node that runs keeps each peer at the location under which it first held *)
(* it, wherever the peer starts again and whatever gossip says of it since. *)
LocationsStay ==
    [][\A n \in Nodes :
         this_peer'[n].timestamp = this_peer[n].timestamp =>
            \A p \in DOMAIN peer_map[n] :
                peer_map'[n][p].location = peer_map[n][p].location]_vars

(* LIVENESS. Knowing a peer becomes mutual, and two peers that one node     *)
(* holds come to hold each other, in whatever order the introductions and   *)
(* the gossip they cause arrive.                                            *)
PeersConverge ==
    \A n, p \in Nodes :
        /\ (p \in OtherPeers(n)) ~> (n \in DOMAIN peer_map[p])
        /\ \A q \in Nodes \ {p} :
             ({p, q} \subseteq OtherPeers(n)) ~> (q \in DOMAIN peer_map[p])

(* The first DHT of n is running. *)
NeverStopped(n) == n \notin panicked \cup restarted

(* LIVENESS. An aspect that an author broadcasts for the first time reaches *)
(* every peer it holds by then, whose client is asked to store it unless    *)
(* its DHT holds it already; or one of the two stops or starts again, which *)
(* loses the requests that wait in the DHT's owner.                         *)
BroadcastReachesKnownPeers ==
    \A n \in Publishers : \A m \in Nodes \ {n}, e \in Entries, a \in Aspects :
        /\ NeverStopped(n) /\ NeverStopped(m)
        /\ m \in OtherPeers(n)
        /\ a \notin entry_list[n][e]
        /\ \E r \in requests[n] :
             r.kind = "BroadcastEntry" /\ r.data.entry = e /\ a \in r.data.aspects
        ~> \/ StoreMsg(e, a) \in requests[m]
           \/ a \in entry_list[m][e]
           \/ ~NeverStopped(n) \/ ~NeverStopped(m)

=============================================================================
