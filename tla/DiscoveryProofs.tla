--------------------------- MODULE DiscoveryProofs ---------------------------
(***************************************************************************)
(* Proofs about the two ways nodes find each other, for every number of     *)
(* nodes: the gossip of MirrorDht, for any entries, restarts and clock      *)
(* bound, and, in the last part, the announcements of Mdns on the local     *)
(* network, for any networks, urls and losses.                              *)
(*                                                                         *)
(* Mdns speaks of Hosts where MirrorDht speaks of Nodes; the two share      *)
(* nothing.  The invariant of Mdns bounds what a host caches of a url: at   *)
(* most one dead and one new record (DeadAndNew), of which update() keeps   *)
(* one and ageing prunes the dead one, so that what discover() returns      *)
(* holds each url once and alive (Live).                                    *)
(***************************************************************************)
EXTENDS MirrorDht, Mdns, Integers, FiniteSetTheorems, TLAPS

-----------------------------------------------------------------------------
(* What the members of the message sets look like.                          *)

(* The two kinds of gossip. *)
LEMMA GossipTypes ==
    ASSUME NEW g \in Gossips
    PROVE  /\ g.kind \in {"Peer", "Entry"}
           /\ g.from \in Nodes
           /\ g.to \in Nodes
           /\ g.kind = "Peer" => g.peer \in PeerData
           /\ g.kind = "Entry" => g.data \in EntryData
BY DEF Gossips

(* The five kinds of requests. *)
LEMMA RequestTypes ==
    ASSUME NEW r \in DhtRequests
    PROVE  /\ r.kind = "HoldPeer" => r.peer \in PeerData
           /\ r.kind = "HoldEntryAspectAddress" => r.data \in EntryData /\ r.shallow \in BOOLEAN
           /\ r.kind = "BroadcastEntry" => r.data \in EntryData
           /\ r.kind = "HandleFetchEntry" => r.entry \in Entries
           /\ r.kind = "HandleStoreEntryAspect" => r.entry \in Entries /\ r.aspect \in Aspects
BY DEF DhtRequests

(* The constructors yield members of the sets. *)
LEMMA Constructors ==
    /\ \A p \in Nodes, i \in PeerInfo : Peer(p, i) \in PeerData
    /\ \A e \in Entries, as \in SUBSET Aspects : Entry(e, as) \in EntryData
    /\ \A n, m \in Nodes, d \in PeerData : PeerGossip(n, m, d) \in Gossips
    /\ \A n, m \in Nodes, d \in EntryData : EntryGossip(n, m, d) \in Gossips
    /\ \A d \in PeerData : HoldPeerMsg(d) \in DhtRequests
    /\ \A d \in EntryData, b \in BOOLEAN : HoldAspectsMsg(d, b) \in DhtRequests
    /\ \A d \in EntryData : BroadcastMsg(d) \in DhtRequests
    /\ \A e \in Entries : FetchMsg(e) \in DhtRequests
    /\ \A e \in Entries, a \in Aspects : StoreMsg(e, a) \in DhtRequests
<1>1. \A p \in Nodes, i \in PeerInfo : Peer(p, i) \in PeerData
  BY DEF Peer, PeerData
<1>2. \A e \in Entries, as \in SUBSET Aspects : Entry(e, as) \in EntryData
  BY DEF Entry, EntryData
<1>3. \A n, m \in Nodes, d \in PeerData : PeerGossip(n, m, d) \in Gossips
  BY DEF PeerGossip, Gossips
<1>4. \A n, m \in Nodes, d \in EntryData : EntryGossip(n, m, d) \in Gossips
  BY DEF EntryGossip, Gossips
<1>5. \A d \in PeerData : HoldPeerMsg(d) \in DhtRequests
  BY DEF HoldPeerMsg, DhtRequests
<1>6. \A d \in EntryData, b \in BOOLEAN : HoldAspectsMsg(d, b) \in DhtRequests
  BY DEF HoldAspectsMsg, DhtRequests
<1>7. \A d \in EntryData : BroadcastMsg(d) \in DhtRequests
  BY DEF BroadcastMsg, DhtRequests
<1>8. \A e \in Entries : FetchMsg(e) \in DhtRequests
  BY DEF FetchMsg, DhtRequests
<1>9. \A e \in Entries, a \in Aspects : StoreMsg(e, a) \in DhtRequests
  BY DEF StoreMsg, DhtRequests
<1> QED  BY <1>1, <1>2, <1>3, <1>4, <1>5, <1>6, <1>7, <1>8, <1>9

(* A peer record has a location and a timestamp. *)
LEMMA PeerFields ==
    ASSUME NEW d \in PeerData
    PROVE  /\ d.name \in Nodes
           /\ d.info \in PeerInfo
           /\ d.info.timestamp \in 0..MaxTime
           /\ d.info.timestamp \in Nat
BY DhtAssumption DEF PeerData, PeerInfo

LEMMA EntryFields ==
    ASSUME NEW d \in EntryData
    PROVE  d.entry \in Entries /\ d.aspects \in SUBSET Aspects
BY DEF EntryData

-----------------------------------------------------------------------------
(* The part of the types that is about the two maps of peers. *)
PeerMaps ==
    /\ DOMAIN peer_map = Nodes
    /\ DOMAIN timed_out_map = Nodes
    /\ \A n \in Nodes :
         /\ DOMAIN peer_map[n] \subseteq Nodes
         /\ peer_map[n] \in [DOMAIN peer_map[n] -> PeerInfo]
         /\ timed_out_map[n] \in [DOMAIN timed_out_map[n] -> BOOLEAN]

(* What a node holds of a peer is a PeerInfo with a timestamp. *)
LEMMA HeldInfo ==
    ASSUME PeerMaps, NEW n \in Nodes, NEW p \in DOMAIN peer_map[n]
    PROVE  /\ p \in Nodes
           /\ peer_map[n][p] \in PeerInfo
           /\ peer_map[n][p].timestamp \in 0..MaxTime
           /\ peer_map[n][p].timestamp \in Nat
<1>1. p \in Nodes /\ peer_map[n][p] \in PeerInfo
  BY DEF PeerMaps
<1> QED  BY <1>1, DhtAssumption DEF PeerInfo

(* add_peer, both branches: the maps of every other node, and of every      *)
(* other peer, stay as they are.                                            *)
LEMMA AddPeerEffect ==
    ASSUME PeerMaps, MapsInv, NEW n \in Nodes, NEW d \in PeerData, AddPeer(n, d)
    PROVE  /\ PeerMaps'
           /\ \A m \in Nodes \ {n} :
                peer_map'[m] = peer_map[m] /\ timed_out_map'[m] = timed_out_map[m]
           /\ DOMAIN peer_map'[n] = DOMAIN peer_map[n] \cup {d.name}
           /\ DOMAIN timed_out_map'[n] = DOMAIN timed_out_map[n] \cup {d.name}
           /\ peer_map'[n][d.name] \in PeerInfo
           /\ peer_map'[n][d.name].timestamp = d.info.timestamp
           /\ \A p \in DOMAIN peer_map[n] \ {d.name} :
                peer_map'[n][p] = peer_map[n][p] /\ timed_out_map'[n][p] = timed_out_map[n][p]
           /\ \/ timed_out_map'[n][d.name] = FALSE
              \/ /\ d.name \in DOMAIN peer_map[n]
                 /\ timed_out_map'[n][d.name] = timed_out_map[n][d.name]
                 /\ ~(YoungerThan(n, d.info.timestamp, TimeoutThreshold))
           /\ d.name \in DOMAIN peer_map[n] =>
                /\ peer_map'[n][d.name].location = peer_map[n][d.name].location
                /\ \/ timed_out_map'[n][d.name] = timed_out_map[n][d.name]
                   \/ YoungerThan(n, d.info.timestamp, TimeoutThreshold)
<1>d. /\ d.name \in Nodes
      /\ d.info \in PeerInfo
      /\ d.info.timestamp \in 0..MaxTime
      /\ DOMAIN timed_out_map[n] = DOMAIN peer_map[n]
  BY PeerFields DEF MapsInv
<1>m. /\ DOMAIN peer_map = Nodes
      /\ DOMAIN timed_out_map = Nodes
      /\ peer_map[n] \in [DOMAIN peer_map[n] -> PeerInfo]
      /\ timed_out_map[n] \in [DOMAIN timed_out_map[n] -> BOOLEAN]
      /\ DOMAIN peer_map[n] \subseteq Nodes
  BY DEF PeerMaps
<1>1. CASE d.name \notin DOMAIN peer_map[n]
  <2>1. /\ peer_map' = [peer_map EXCEPT ![n] = Put(peer_map[n], d.name, d.info)]
        /\ timed_out_map' = [timed_out_map EXCEPT ![n] = Put(timed_out_map[n], d.name, FALSE)]
    BY <1>1, Zenon DEF AddPeer
  <2>2. /\ Put(peer_map[n], d.name, d.info) \in [DOMAIN peer_map[n] \cup {d.name} -> PeerInfo]
        /\ Put(timed_out_map[n], d.name, FALSE)
             \in [DOMAIN timed_out_map[n] \cup {d.name} -> BOOLEAN]
    BY <1>d, <1>m DEF Put
  <2>3. /\ peer_map'[n] = Put(peer_map[n], d.name, d.info)
        /\ timed_out_map'[n] = Put(timed_out_map[n], d.name, FALSE)
        /\ DOMAIN peer_map' = Nodes
        /\ DOMAIN timed_out_map' = Nodes
        /\ \A m \in Nodes \ {n} :
             peer_map'[m] = peer_map[m] /\ timed_out_map'[m] = timed_out_map[m]
    BY <2>1, <1>m
  <2>4. PeerMaps'
    BY <2>2, <2>3, <1>d, <1>m DEF PeerMaps
  <2> QED  BY <2>3, <2>4, <1>d, <1>m, <1>1 DEF Put
<1>2. CASE d.name \in DOMAIN peer_map[n]
  <2>1. peer_map' = [peer_map EXCEPT ![n][d.name].timestamp = d.info.timestamp]
    BY <1>2, Zenon DEF AddPeer
  <2>2. \/ /\ YoungerThan(n, d.info.timestamp, TimeoutThreshold)
           /\ timed_out_map' = [timed_out_map EXCEPT ![n] = Put(timed_out_map[n], d.name, FALSE)]
        \/ /\ ~(YoungerThan(n, d.info.timestamp, TimeoutThreshold))
           /\ timed_out_map' = timed_out_map
    BY <1>2, Zenon DEF AddPeer
  <2>3. peer_map[n][d.name] \in PeerInfo
    BY <1>2, <1>m
  <2>4. [peer_map[n][d.name] EXCEPT !.timestamp = d.info.timestamp] \in PeerInfo
    BY <2>3, <1>d DEF PeerInfo
  <2>5. /\ DOMAIN peer_map' = Nodes
        /\ peer_map'[n] \in [DOMAIN peer_map[n] -> PeerInfo]
        /\ DOMAIN peer_map'[n] = DOMAIN peer_map[n]
        /\ \A m \in Nodes \ {n} : peer_map'[m] = peer_map[m]
        /\ \A p \in DOMAIN peer_map[n] \ {d.name} : peer_map'[n][p] = peer_map[n][p]
        /\ peer_map'[n][d.name] = [peer_map[n][d.name] EXCEPT !.timestamp = d.info.timestamp]
    BY <2>1, <2>4, <1>m, <1>2
  <2>6. /\ peer_map'[n][d.name].timestamp = d.info.timestamp
        /\ peer_map'[n][d.name].location = peer_map[n][d.name].location
    BY <2>5, <2>3 DEF PeerInfo
  <2>7. /\ DOMAIN timed_out_map' = Nodes
        /\ timed_out_map'[n] \in [DOMAIN timed_out_map[n] -> BOOLEAN]
        /\ DOMAIN timed_out_map'[n] = DOMAIN timed_out_map[n]
        /\ \A m \in Nodes \ {n} : timed_out_map'[m] = timed_out_map[m]
        /\ \A p \in DOMAIN peer_map[n] \ {d.name} : timed_out_map'[n][p] = timed_out_map[n][p]
        /\ \/ timed_out_map'[n][d.name] = FALSE /\ YoungerThan(n, d.info.timestamp, TimeoutThreshold)
           \/ /\ timed_out_map'[n][d.name] = timed_out_map[n][d.name]
              /\ ~(YoungerThan(n, d.info.timestamp, TimeoutThreshold))
    <3>1. CASE YoungerThan(n, d.info.timestamp, TimeoutThreshold)
      <4>1. timed_out_map' = [timed_out_map EXCEPT ![n] = Put(timed_out_map[n], d.name, FALSE)]
        BY <3>1, <2>2
      <4>2. Put(timed_out_map[n], d.name, FALSE) \in [DOMAIN timed_out_map[n] -> BOOLEAN]
        BY <1>2, <1>d, <1>m DEF Put
      <4> QED  BY <4>1, <4>2, <3>1, <1>2, <1>d, <1>m DEF Put
    <3>2. CASE ~(YoungerThan(n, d.info.timestamp, TimeoutThreshold))
      BY <3>2, <2>2, <1>m
    <3> QED  BY <3>1, <3>2
  <2>8. PeerMaps'
    BY <2>5, <2>7, <1>d, <1>m DEF PeerMaps
  <2> QED  BY <2>5, <2>6, <2>7, <2>8, <2>4, <1>2, <1>d, <1>m
<1> QED  BY <1>1, <1>2

(* The bookkeeping of peers survives add_peer of news that is no newer than *)
(* the peer it is about.                                                    *)
LEMMA AddPeerInv ==
    ASSUME TypeOK, RecordInv, MapsInv,
           NEW n \in Nodes, NEW d \in PeerData,
           NoFutureNews(d), AddPeer(n, d),
           UNCHANGED <<clock, this_peer, last_gossip_of_self>>
    PROVE  /\ PeerMaps'
           /\ RecordInv'
           /\ MapsInv'
           /\ Peer(d.name, peer_map'[n][d.name]) \in PeerData
           /\ NoFutureNews(Peer(d.name, peer_map'[n][d.name]))
<1>1. PeerMaps
  BY DEF TypeOK, PeerMaps
<1>2. /\ d.name \in Nodes
      /\ d.info.timestamp \in Nat
  BY PeerFields
<1>4. d.info.timestamp <= this_peer[d.name].timestamp
  BY DEF NoFutureNews
<1>5. /\ PeerMaps'
      /\ \A m \in Nodes \ {n} :
           peer_map'[m] = peer_map[m] /\ timed_out_map'[m] = timed_out_map[m]
      /\ DOMAIN peer_map'[n] = DOMAIN peer_map[n] \cup {d.name}
      /\ DOMAIN timed_out_map'[n] = DOMAIN timed_out_map[n] \cup {d.name}
      /\ peer_map'[n][d.name] \in PeerInfo
      /\ peer_map'[n][d.name].timestamp = d.info.timestamp
      /\ \A p \in DOMAIN peer_map[n] \ {d.name} :
           peer_map'[n][p] = peer_map[n][p] /\ timed_out_map'[n][p] = timed_out_map[n][p]
      /\ \/ timed_out_map'[n][d.name] = FALSE
         \/ /\ d.name \in DOMAIN peer_map[n]
            /\ timed_out_map'[n][d.name] = timed_out_map[n][d.name]
            /\ ~(YoungerThan(n, d.info.timestamp, TimeoutThreshold))
  BY <1>1, AddPeerEffect
<1>6. RecordInv'
  <2>1. ASSUME NEW m \in Nodes, NEW p \in DOMAIN peer_map'[m]
        PROVE  peer_map'[m][p].timestamp <= this_peer[p].timestamp
    <3>1. CASE m = n /\ p = d.name
      BY <3>1, <1>4, <1>5
    <3>2. CASE ~(m = n /\ p = d.name)
      <4>1. p \in DOMAIN peer_map[m] /\ peer_map'[m][p] = peer_map[m][p]
        BY <3>2, <1>5
      <4> QED  BY <4>1 DEF RecordInv
    <3> QED  BY <3>1, <3>2
  <2> QED  BY <2>1 DEF RecordInv
<1>7. MapsInv'
  <2>1. ASSUME NEW m \in Nodes
        PROVE  DOMAIN timed_out_map'[m] = DOMAIN peer_map'[m]
    BY <1>5 DEF MapsInv
  <2>2. ASSUME NEW m \in Nodes, m \in DOMAIN peer_map'[m]
        PROVE  ~timed_out_map'[m][m]
    <3>1. CASE m = n /\ m = d.name
      BY <3>1, <1>5 DEF MapsInv
    <3>2. CASE ~(m = n /\ m = d.name)
      <4>1. m \in DOMAIN peer_map[m] /\ timed_out_map'[m][m] = timed_out_map[m][m]
        BY <3>2, <2>2, <1>5
      <4> QED  BY <4>1 DEF MapsInv
    <3> QED  BY <3>1, <3>2
  <2> QED  BY <2>1, <2>2 DEF MapsInv
<1>8. /\ Peer(d.name, peer_map'[n][d.name]) \in PeerData
      /\ NoFutureNews(Peer(d.name, peer_map'[n][d.name]))
  BY <1>2, <1>4, <1>5 DEF Peer, PeerData, NoFutureNews
<1> QED  BY <1>5, <1>6, <1>7, <1>8

-----------------------------------------------------------------------------
(* How the parts of the invariant about messages survive a step. *)

(* The clocks of the nodes do not go back, and what the step sends about a  *)
(* peer is no newer than the peer.                                          *)
NewsStep ==
    /\ \A n \in Nodes : this_peer[n].timestamp <= this_peer'[n].timestamp
    /\ \A g \in gossip' :
         g \in gossip \/ g.kind # "Peer" \/ (g.peer \in PeerData /\ NoFutureNews(g.peer)')
    /\ \A n \in Nodes : \A r \in requests'[n] :
         r \in requests[n] \/ r.kind # "HoldPeer"
           \/ (r.peer \in PeerData /\ NoFutureNews(r.peer)')

LEMMA NewsKept ==
    ASSUME TypeOK, TypeOK', NewsInv, NewsStep
    PROVE  NewsInv'
<1>1. \A n \in Nodes : this_peer[n].timestamp \in Nat /\ this_peer'[n].timestamp \in Nat
  BY DhtAssumption DEF TypeOK, PeerInfo
<1>2. ASSUME NEW d \in PeerData, NoFutureNews(d)
      PROVE  NoFutureNews(d)'
  BY <1>1, <1>2, PeerFields DEF NoFutureNews, NewsStep
<1>3. ASSUME NEW g \in gossip', g.kind = "Peer"
      PROVE  NoFutureNews(g.peer)'
  <2>1. CASE g \in gossip
    <3>1. g.peer \in PeerData
      BY <2>1, <1>3, GossipTypes DEF TypeOK
    <3> QED  BY <2>1, <3>1, <1>2, <1>3 DEF NewsInv
  <2>2. CASE g \notin gossip
    BY <2>2, <1>3 DEF NewsStep
  <2> QED  BY <2>1, <2>2
<1>4. ASSUME NEW n \in Nodes, NEW r \in requests'[n], r.kind = "HoldPeer"
      PROVE  NoFutureNews(r.peer)'
  <2>1. CASE r \in requests[n]
    <3>1. r.peer \in PeerData
      BY <2>1, <1>4, RequestTypes DEF TypeOK
    <3> QED  BY <2>1, <3>1, <1>2, <1>4 DEF NewsInv
  <2>2. CASE r \notin requests[n]
    BY <2>2, <1>4 DEF NewsStep
  <2> QED  BY <2>1, <2>2
<1> QED  BY <1>3, <1>4 DEF NewsInv

(* What was published stays so, and what the step adds to a DHT, to the     *)
(* stores, to the requests or to the gossip comes from clients.             *)
AboutEntry(r) == r.kind \in {"BroadcastEntry", "HoldEntryAspectAddress"}

ClientsKeep ==
    \A n \in Nodes, e \in Entries :
        published[n][e] \subseteq published'[n][e] /\ store[n][e] \subseteq store'[n][e]

EntryStep ==
    /\ ClientsKeep
    /\ \A n \in Nodes, e \in Entries : \A a \in entry_list'[n][e] :
         a \in entry_list[n][e] \/ Vouched(n, e, a)'
    /\ \A n \in Nodes : \A r \in requests'[n] :
         \/ r \in requests[n]
         \/ /\ AboutEntry(r) => \A a \in r.data.aspects : Vouched(n, r.data.entry, a)'
            /\ r.kind = "HandleStoreEntryAspect" => Origin(r.entry, r.aspect)'
    /\ \A g \in gossip' :
         \/ g \in gossip
         \/ g.kind = "Entry" => \A a \in g.data.aspects : Origin(g.data.entry, a)'
    /\ \A n \in Nodes, e \in Entries : \A a \in store'[n][e] :
         a \in store[n][e] \/ Origin(e, a)'

LEMMA VouchedKept ==
    ASSUME ClientsKeep, NEW e \in Entries, NEW a
    PROVE  /\ Origin(e, a) => Origin(e, a)'
           /\ \A n \in Nodes : Vouched(n, e, a) => Vouched(n, e, a)'
<1>1. Origin(e, a) => Origin(e, a)'
  BY DEF Origin, ClientsKeep
<1>2. \A n \in Nodes :
        a \in published[n][e] \/ a \in store[n][e] =>
           a \in published'[n][e] \/ a \in store'[n][e]
  BY DEF ClientsKeep
<1> QED  BY <1>1, <1>2 DEF Vouched

LEMMA EntriesKept ==
    ASSUME TypeOK, HeldIsVouched, PendingInv, OriginInv, EntryStep
    PROVE  HeldIsVouched' /\ PendingInv' /\ OriginInv'
<1>k. ClientsKeep
  BY DEF EntryStep
<1>1. ASSUME NEW n \in Nodes, NEW e \in Entries, NEW a \in entry_list'[n][e]
      PROVE  Vouched(n, e, a)'
  BY <1>k, VouchedKept DEF HeldIsVouched, EntryStep
<1>2. ASSUME NEW n \in Nodes, NEW r \in requests'[n], AboutEntry(r), NEW a \in r.data.aspects
      PROVE  Vouched(n, r.data.entry, a)'
  <2>1. CASE r \in requests[n]
    <3>1. r.data.entry \in Entries
      BY <2>1, <1>2, RequestTypes, EntryFields DEF TypeOK, AboutEntry
    <3>2. Vouched(n, r.data.entry, a)
      BY <2>1, <1>2 DEF PendingInv, AboutEntry
    <3> QED  BY <3>1, <3>2, <1>k, VouchedKept
  <2>2. CASE r \notin requests[n]
    BY <2>2, <1>2 DEF EntryStep
  <2> QED  BY <2>1, <2>2
<1>3. ASSUME NEW g \in gossip', g.kind = "Entry", NEW a \in g.data.aspects
      PROVE  Origin(g.data.entry, a)'
  <2>1. CASE g \in gossip
    <3>1. g.data.entry \in Entries
      BY <2>1, <1>3, GossipTypes, EntryFields DEF TypeOK
    <3>2. Origin(g.data.entry, a)
      BY <2>1, <1>3 DEF OriginInv
    <3> QED  BY <3>1, <3>2, <1>k, VouchedKept
  <2>2. CASE g \notin gossip
    BY <2>2, <1>3 DEF EntryStep
  <2> QED  BY <2>1, <2>2
<1>4. ASSUME NEW n \in Nodes, NEW r \in requests'[n], r.kind = "HandleStoreEntryAspect"
      PROVE  Origin(r.entry, r.aspect)'
  <2>1. CASE r \in requests[n]
    <3>1. r.entry \in Entries
      BY <2>1, <1>4, RequestTypes DEF TypeOK
    <3>2. Origin(r.entry, r.aspect)
      BY <2>1, <1>4 DEF OriginInv
    <3> QED  BY <3>1, <3>2, <1>k, VouchedKept
  <2>2. CASE r \notin requests[n]
    BY <2>2, <1>4 DEF EntryStep
  <2> QED  BY <2>1, <2>2
<1>5. ASSUME NEW n \in Nodes, NEW e \in Entries, NEW a \in store'[n][e]
      PROVE  Origin(e, a)'
  BY <1>k, VouchedKept DEF OriginInv, EntryStep
<1> HIDE DEF Vouched, Origin
<1>6. HeldIsVouched'
  BY <1>1 DEF HeldIsVouched
<1>7. PendingInv'
  BY <1>2 DEF PendingInv, AboutEntry
<1>8. OriginInv'
  BY <1>3, <1>4, <1>5 DEF OriginInv
<1> QED  BY <1>6, <1>7, <1>8

(* A step that is not about entries. *)
LEMMA EntriesUntouched ==
    ASSUME HeldIsVouched, PendingInv, OriginInv, UNCHANGED <<entryVars, requests, gossip>>
    PROVE  HeldIsVouched' /\ PendingInv' /\ OriginInv'
<1>1. UNCHANGED <<entry_list, store, published, requests, gossip>>
  BY DEF entryVars
<1> QED  BY <1>1 DEF HeldIsVouched, PendingInv, OriginInv, Vouched, Origin

-----------------------------------------------------------------------------
(* A new DHT knows nobody and holds nothing. *)
LEMMA InitDht == Init => TypeOK /\ DhtInv
<1> SUFFICES ASSUME Init PROVE TypeOK /\ DhtInv
  OBVIOUS
<1>1. /\ this_peer \in [Nodes -> PeerInfo]
      /\ clock \in [Nodes -> 0..MaxTime]
      /\ \A n \in Nodes : /\ this_peer[n].timestamp = clock[n]
                          /\ last_gossip_of_self[n] = clock[n]
                          /\ clock[n] \in Nat
  <2>1. this_peer \in [Nodes -> PeerInfo] /\ last_gossip_of_self = clock
    BY DEF Init
  <2>2. clock \in [Nodes -> 0..MaxTime]
    BY DhtAssumption DEF Init
  <2>3. \A n \in Nodes : clock[n] \in Nat
    BY <2>2, DhtAssumption
  <2>4. \A n \in Nodes : this_peer[n].timestamp = clock[n]
    BY DEF Init
  <2> QED  BY <2>1, <2>2, <2>3, <2>4
<1>2. \A n \in Nodes : DOMAIN peer_map[n] = {} /\ DOMAIN timed_out_map[n] = {}
  BY DEF Init
<1>3. TypeOK
  <2>1. last_gossip_of_self \in [Nodes -> 0..MaxTime]
    BY <1>1 DEF Init
  <2>2. \A n \in Nodes :
          /\ DOMAIN peer_map[n] \subseteq Nodes
          /\ peer_map[n] \in [DOMAIN peer_map[n] -> PeerInfo]
          /\ timed_out_map[n] \in [DOMAIN timed_out_map[n] -> BOOLEAN]
    BY <1>1 DEF Init
  <2> QED  BY <1>1, <2>1, <2>2 DEF Init, TypeOK
<1>4. RecordInv
  BY <1>1, <1>2 DEF RecordInv
<1>5. NewsInv /\ NoGossipToSelf /\ PendingInv /\ OriginInv
  BY DEF Init, NewsInv, NoGossipToSelf, PendingInv, OriginInv
<1>6. MapsInv
  BY <1>2 DEF MapsInv
<1>7. HeldIsVouched
  BY DEF Init, HeldIsVouched
<1> QED  BY <1>3, <1>4, <1>5, <1>6, <1>7 DEF DhtInv

(* A clock moves on. *)
LEMMA TickInv ==
    ASSUME TypeOK, DhtInv, NEW n \in Nodes, Tick(n)
    PROVE  TypeOK' /\ DhtInv'
<1>1. /\ clock' \in [Nodes -> 0..MaxTime]
      /\ \A m \in Nodes : /\ clock[m] \in Nat
                          /\ clock'[m] \in Nat
                          /\ clock[m] <= clock'[m]
  BY DhtAssumption DEF Tick, TypeOK
<1>2. TypeOK'
  BY <1>1 DEF TypeOK, Tick, runVars, peerVars, entryVars
<1>3. \A m \in Nodes : this_peer[m].timestamp \in Nat /\ last_gossip_of_self[m] \in Nat
  BY DhtAssumption DEF TypeOK, PeerInfo
<1>4. UNCHANGED <<this_peer, peer_map, timed_out_map, last_gossip_of_self>>
  BY DEF Tick, peerVars
<1>5. RecordInv'
  <2>1. \A m \in Nodes : this_peer'[m].timestamp <= clock'[m] /\ last_gossip_of_self'[m] <= clock'[m]
    BY <1>1, <1>3, <1>4 DEF RecordInv, DhtInv
  <2> QED  BY <2>1, <1>4 DEF RecordInv, DhtInv
<1>6. NewsInv' /\ NoGossipToSelf' /\ MapsInv'
  BY <1>4 DEF DhtInv, NewsInv, NoFutureNews, NoGossipToSelf, MapsInv, Tick
<1>7. HeldIsVouched' /\ PendingInv' /\ OriginInv'
  BY EntriesUntouched DEF DhtInv, Tick
<1> QED  BY <1>2, <1>5, <1>6, <1>7 DEF DhtInv

(* A step that exchanges requests of one node: it drops R and adds A, which *)
(* is about what is known of peers and about aspects that clients published *)
(* or store.  A client may have published more by then.                     *)
Ask(n, R, A) ==
    /\ A \in SUBSET DhtRequests
    /\ requests' = [requests EXCEPT ![n] = (requests[n] \ R) \cup A]
    /\ UNCHANGED <<clock, runVars, peerVars, entry_list, store, gossip>>
    /\ published' \in [Nodes -> [Entries -> SUBSET Aspects]]
    /\ \A m \in Nodes, e \in Entries : published[m][e] \subseteq published'[m][e]
    /\ \A r \in A : r.kind = "HoldPeer" => NoFutureNews(r.peer)
    /\ \A r \in A : AboutEntry(r) =>
         \A a \in r.data.aspects : Vouched(n, r.data.entry, a)'
    /\ \A r \in A : r.kind = "HandleStoreEntryAspect" => Origin(r.entry, r.aspect)'

LEMMA AskInv ==
    ASSUME TypeOK, DhtInv, NEW n \in Nodes, NEW R, NEW A, Ask(n, R, A)
    PROVE  TypeOK' /\ DhtInv'
<1>0. UNCHANGED <<clock, panicked, restarted, this_peer, peer_map, timed_out_map,
                  last_gossip_of_self, entry_list, store, gossip>>
  BY DEF Ask, peerVars, runVars
<1>1. TypeOK'
  BY <1>0 DEF TypeOK, Ask
<1>2. RecordInv' /\ MapsInv' /\ NoGossipToSelf'
  BY <1>0 DEF DhtInv, RecordInv, MapsInv, NoGossipToSelf
<1>3. /\ requests'[n] = (requests[n] \ R) \cup A
      /\ \A m \in Nodes \ {n} : requests'[m] = requests[m]
  BY DEF TypeOK, Ask
<1>s. \A m \in Nodes : \A r \in requests'[m] : r \in requests[m] \/ (m = n /\ r \in A)
  BY <1>3
<1>4. NewsInv'
  <2>1. \A r \in A : r.kind = "HoldPeer" => r.peer \in PeerData
    BY RequestTypes DEF Ask
  <2>2. \A r \in A : r.kind = "HoldPeer" => NoFutureNews(r.peer)'
    BY <1>0 DEF NoFutureNews, Ask
  <2>4. \A m \in Nodes : this_peer[m].timestamp <= this_peer'[m].timestamp
    BY <1>0, DhtAssumption DEF TypeOK, PeerInfo
  <2>5. NewsStep
    BY <1>0, <1>s, <2>1, <2>2, <2>4 DEF NewsStep
  <2> QED  BY <2>5, <1>1, NewsKept DEF DhtInv
<1>5. HeldIsVouched' /\ PendingInv' /\ OriginInv'
  <2>1. ClientsKeep
    BY <1>0 DEF ClientsKeep, Ask
  <2>2. EntryStep
    BY <1>0, <1>s, <2>1 DEF EntryStep, Ask
  <2> QED  BY <2>2, EntriesKept DEF DhtInv
<1> QED  BY <1>1, <1>2, <1>4, <1>5 DEF DhtInv

(* ... and when no client publishes: *)
LEMMA QuietAsk ==
    ASSUME TypeOK, DhtInv, NEW n \in Nodes, NEW R, NEW A,
           A \in SUBSET DhtRequests,
           requests' = [requests EXCEPT ![n] = (requests[n] \ R) \cup A],
           UNCHANGED <<clock, runVars, peerVars, entryVars, gossip>>,
           \A r \in A : r.kind # "HandleStoreEntryAspect",
           \A r \in A : r.kind = "HoldPeer" => NoFutureNews(r.peer),
           \A r \in A : AboutEntry(r) => \A a \in r.data.aspects : Vouched(n, r.data.entry, a)
    PROVE  TypeOK' /\ DhtInv'
<1>1. UNCHANGED <<entry_list, store, published>>
  BY DEF entryVars
<1>2. \A e, a : Vouched(n, e, a) => Vouched(n, e, a)'
  BY <1>1 DEF Vouched, Origin
<1>3. \A r \in A : AboutEntry(r) => \A a \in r.data.aspects : Vouched(n, r.data.entry, a)'
  BY <1>2
<1> HIDE DEF Vouched
<1>4. Ask(n, R, A)
  BY <1>1, <1>3 DEF Ask, TypeOK
<1> QED  BY <1>4, AskInv

-----------------------------------------------------------------------------
(* The owners. *)

LEMMA IntroduceInv ==
    ASSUME TypeOK, DhtInv, NEW n \in Nodes, NEW p \in Nodes, Introduce(n, p)
    PROVE  TypeOK' /\ DhtInv'
<1> DEFINE d == Peer(p, this_peer[p])
           A == {HoldPeerMsg(d)}
<1>1. d \in PeerData
  BY Constructors DEF TypeOK
<1>2. A \in SUBSET DhtRequests
  BY <1>1, Constructors
<1>3. requests' = [requests EXCEPT ![n] = (requests[n] \ {}) \cup A]
  <2>1. requests' = [requests EXCEPT ![n] = requests[n] \cup A]
    BY DEF Introduce
  <2>2. (requests[n] \ {}) \cup A = requests[n] \cup A
    OBVIOUS
  <2> QED  BY <2>1, <2>2
<1>4. NoFutureNews(d)
  BY DhtAssumption DEF NoFutureNews, Peer, TypeOK, PeerInfo
<1>5. \A r \in A : r.kind = "HoldPeer" /\ r.peer = d
  BY DEF HoldPeerMsg
<1>6. UNCHANGED <<clock, runVars, peerVars, entryVars, gossip>>
  BY DEF Introduce
<1> HIDE DEF d, A
<1> QED  BY <1>2, <1>3, <1>4, <1>5, <1>6, QuietAsk DEF AboutEntry

LEMMA PublishInv ==
    ASSUME TypeOK, DhtInv, NEW n \in Nodes, PublishEntry(n)
    PROVE  TypeOK' /\ DhtInv'
<1>1. PICK e \in Entries, as \in (SUBSET Aspects) \ {{}} :
        /\ requests' = [requests EXCEPT ![n] = requests[n] \cup {StoreMsg(e, a) : a \in as}
                                                 \cup {BroadcastMsg(Entry(e, as))}]
        /\ published' = [published EXCEPT ![n][e] = published[n][e] \cup as]
  BY DEF PublishEntry
<1> DEFINE A == {StoreMsg(e, a) : a \in as} \cup {BroadcastMsg(Entry(e, as))}
<1>2. A \in SUBSET DhtRequests
  BY Constructors
<1>3. requests' = [requests EXCEPT ![n] = (requests[n] \ {}) \cup A]
  <2>1. (requests[n] \ {}) \cup A = requests[n] \cup {StoreMsg(e, a) : a \in as}
                                              \cup {BroadcastMsg(Entry(e, as))}
    OBVIOUS
  <2> QED  BY <1>1, <2>1
<1>4. /\ published' \in [Nodes -> [Entries -> SUBSET Aspects]]
      /\ \A m \in Nodes, f \in Entries : published[m][f] \subseteq published'[m][f]
      /\ as \subseteq published'[n][e]
  BY <1>1 DEF TypeOK
<1>5. \A a \in as : Origin(e, a)' /\ Vouched(n, e, a)'
  BY <1>4 DEF Vouched, Origin
<1>6. ASSUME NEW r \in A
      PROVE  /\ r.kind # "HoldPeer"
             /\ AboutEntry(r) => \A a \in r.data.aspects : Vouched(n, r.data.entry, a)'
             /\ r.kind = "HandleStoreEntryAspect" => Origin(r.entry, r.aspect)'
  <2>1. CASE r = BroadcastMsg(Entry(e, as))
    <3>1. r.kind = "BroadcastEntry" /\ r.data.entry = e /\ r.data.aspects = as
      BY <2>1 DEF BroadcastMsg, Entry
    <3> QED  BY <3>1, <1>5
  <2>2. ASSUME NEW a \in as, r = StoreMsg(e, a)
        PROVE  r.kind = "HandleStoreEntryAspect" /\ Origin(r.entry, r.aspect)'
    <3>1. r.kind = "HandleStoreEntryAspect" /\ r.entry = e /\ r.aspect = a
      BY <2>2 DEF StoreMsg
    <3>2. Origin(r.entry, r.aspect)'
      BY <3>1, <1>4 DEF Origin
    <3> QED  BY <3>1, <3>2
  <2> QED  BY <2>1, <2>2 DEF AboutEntry
<1>7. UNCHANGED <<clock, runVars, peerVars, entry_list, store, gossip>>
  BY DEF PublishEntry
<1> HIDE DEF A
<1>9. Ask(n, {}, A)
  BY <1>2, <1>3, <1>4, <1>6, <1>7 DEF Ask
<1> QED  BY <1>9, AskInv

LEMMA HoldEntryInv ==
    ASSUME TypeOK, DhtInv, NEW n \in Nodes, HoldEntry(n)
    PROVE  TypeOK' /\ DhtInv'
<1>1. PICK e \in Entries, shallow \in BOOLEAN :
        requests' = [requests EXCEPT ![n] =
                       requests[n] \cup {HoldAspectsMsg(Entry(e, store[n][e]), shallow)}]
  BY DEF HoldEntry
<1> DEFINE A == {HoldAspectsMsg(Entry(e, store[n][e]), shallow)}
<1>2. A \in SUBSET DhtRequests
  BY Constructors DEF TypeOK
<1>3. requests' = [requests EXCEPT ![n] = (requests[n] \ {}) \cup A]
  <2>1. (requests[n] \ {}) \cup A = requests[n] \cup A
    OBVIOUS
  <2> QED  BY <1>1, <2>1
<1>4. \A r \in A : /\ r.kind = "HoldEntryAspectAddress"
                  /\ r.data.entry = e
                  /\ r.data.aspects = store[n][e]
  BY DEF HoldAspectsMsg, Entry
<1>5. \A r \in A : \A a \in r.data.aspects : Vouched(n, r.data.entry, a)
  BY <1>4 DEF Vouched, DhtInv, OriginInv
<1>6. UNCHANGED <<clock, runVars, peerVars, entryVars, gossip>>
  BY DEF HoldEntry
<1> HIDE DEF A
<1> QED  BY <1>2, <1>3, <1>4, <1>5, <1>6, QuietAsk

LEMMA AuthorInv ==
    ASSUME TypeOK, DhtInv, NEW n \in Nodes, AuthorEntry(n)
    PROVE  TypeOK' /\ DhtInv'
<1>1. PICK e \in Entries : requests' = [requests EXCEPT ![n] = requests[n] \cup {FetchMsg(e)}]
  BY DEF AuthorEntry
<1> DEFINE A == {FetchMsg(e)}
<1>2. A \in SUBSET DhtRequests
  BY Constructors
<1>3. requests' = [requests EXCEPT ![n] = (requests[n] \ {}) \cup A]
  <2>1. (requests[n] \ {}) \cup A = requests[n] \cup A
    OBVIOUS
  <2> QED  BY <1>1, <2>1
<1>4. \A r \in A : r.kind = "HandleFetchEntry"
  BY DEF FetchMsg
<1>6. UNCHANGED <<clock, runVars, peerVars, entryVars, gossip>>
  BY DEF AuthorEntry
<1> HIDE DEF A
<1> QED  BY <1>2, <1>3, <1>4, <1>6, QuietAsk DEF AboutEntry

LEMMA FetchInv ==
    ASSUME TypeOK, DhtInv, NEW n \in Nodes, FetchEntry(n)
    PROVE  TypeOK' /\ DhtInv'
<1>1. PICK q \in requests[n] :
        /\ q.kind = "HandleFetchEntry"
        /\ requests' = [requests EXCEPT ![n] =
             (requests[n] \ {q}) \cup {BroadcastMsg(Entry(q.entry, store[n][q.entry]))}]
  BY DEF FetchEntry
<1> DEFINE A == {BroadcastMsg(Entry(q.entry, store[n][q.entry]))}
<1>2. q.entry \in Entries
  BY <1>1, RequestTypes DEF TypeOK
<1>3. A \in SUBSET DhtRequests
  BY <1>2, Constructors DEF TypeOK
<1>4. \A r \in A : /\ r.kind = "BroadcastEntry"
                  /\ r.data.entry = q.entry
                  /\ r.data.aspects = store[n][q.entry]
  BY DEF BroadcastMsg, Entry
<1>5. \A r \in A : \A a \in r.data.aspects : Vouched(n, r.data.entry, a)
  BY <1>2, <1>4 DEF Vouched, DhtInv, OriginInv
<1>6. UNCHANGED <<clock, runVars, peerVars, entryVars, gossip>>
  BY DEF FetchEntry
<1>8. requests' = [requests EXCEPT ![n] = (requests[n] \ {q}) \cup A]
  BY <1>1
<1> HIDE DEF A
<1> QED  BY <1>3, <1>4, <1>5, <1>6, <1>8, QuietAsk

(* The client takes an aspect it was asked to store, or refuses. *)
LEMMA StoreInv ==
    ASSUME TypeOK, DhtInv, NEW n \in Nodes, StoreEntryAspect(n)
    PROVE  TypeOK' /\ DhtInv'
<1>1. PICK q \in requests[n] :
        /\ q.kind = "HandleStoreEntryAspect"
        /\ store' \in {store, [store EXCEPT ![n][q.entry] = store[n][q.entry] \cup {q.aspect}]}
        /\ requests' = [requests EXCEPT ![n] = requests[n] \ {q}]
  BY DEF StoreEntryAspect
<1>2. UNCHANGED <<clock, panicked, restarted, this_peer, peer_map, timed_out_map,
                  last_gossip_of_self, entry_list, published, gossip>>
  BY DEF StoreEntryAspect, runVars, peerVars
<1>3. q.entry \in Entries /\ q.aspect \in Aspects
  BY <1>1, RequestTypes DEF TypeOK
<1>4. /\ store' \in [Nodes -> [Entries -> SUBSET Aspects]]
      /\ \A m \in Nodes, e \in Entries : store[m][e] \subseteq store'[m][e]
      /\ \A m \in Nodes, e \in Entries : \A a \in store'[m][e] :
           a \in store[m][e] \/ (e = q.entry /\ a = q.aspect)
  <2>1. CASE store' = store
    BY <2>1 DEF TypeOK
  <2>2. CASE store' = [store EXCEPT ![n][q.entry] = store[n][q.entry] \cup {q.aspect}]
    BY <2>2, <1>3 DEF TypeOK
  <2> QED  BY <1>1, <2>1, <2>2
<1>5. /\ requests' \in [Nodes -> SUBSET DhtRequests]
      /\ \A m \in Nodes : requests'[m] \subseteq requests[m]
  BY <1>1 DEF TypeOK
<1>6. TypeOK'
  BY <1>2, <1>4, <1>5 DEF TypeOK
<1>7. RecordInv' /\ MapsInv' /\ NoGossipToSelf'
  BY <1>2 DEF DhtInv, RecordInv, MapsInv, NoGossipToSelf
<1>8. NewsInv'
  BY <1>2, <1>5 DEF DhtInv, NewsInv, NoFutureNews
<1>9. HeldIsVouched' /\ PendingInv' /\ OriginInv'
  <2>1. ClientsKeep
    BY <1>2, <1>4 DEF ClientsKeep
  <2>2. Origin(q.entry, q.aspect)
    BY <1>1 DEF DhtInv, OriginInv
  <2>3. Origin(q.entry, q.aspect)'
    BY <2>1, <2>2, <1>3, VouchedKept
  <2>4. EntryStep
    BY <1>2, <1>4, <1>5, <2>1, <2>3 DEF EntryStep
  <2> QED  BY <2>4, EntriesKept DEF DhtInv
<1> QED  BY <1>6, <1>7, <1>8, <1>9 DEF DhtInv

LEMMA AdvertiseInv ==
    ASSUME TypeOK, DhtInv, NEW n \in Nodes, UpdateAdvertise(n)
    PROVE  TypeOK' /\ DhtInv'
<1>1. PICK l \in Locations : this_peer' = [this_peer EXCEPT ![n].location = l]
  BY DEF UpdateAdvertise
<1>2. /\ UNCHANGED <<clock, panicked, restarted, peer_map, timed_out_map, last_gossip_of_self>>
      /\ UNCHANGED <<entryVars, requests, gossip>>
  BY DEF UpdateAdvertise, runVars
<1>3. \A m \in Nodes : this_peer[m] \in PeerInfo
  BY DEF TypeOK
<1>4. /\ this_peer' \in [Nodes -> PeerInfo]
      /\ \A m \in Nodes : this_peer'[m].timestamp = this_peer[m].timestamp
  <2>1. [this_peer[n] EXCEPT !.location = l] \in PeerInfo
    BY <1>3 DEF PeerInfo
  <2>2. [this_peer[n] EXCEPT !.location = l].timestamp = this_peer[n].timestamp
    BY <1>3 DEF PeerInfo
  <2>3. this_peer' = [this_peer EXCEPT ![n] = [this_peer[n] EXCEPT !.location = l]]
    BY <1>1
  <2> HIDE <1>1
  <2> QED  BY <2>1, <2>2, <2>3 DEF TypeOK
<1>5. TypeOK'
  BY <1>2, <1>4 DEF TypeOK, entryVars
<1>6. RecordInv'
  <2>1. PeerMaps
    BY DEF TypeOK, PeerMaps
  <2> QED  BY <2>1, <1>2, <1>4, HeldInfo DEF DhtInv, RecordInv
<1>7. MapsInv' /\ NoGossipToSelf' /\ HeldIsVouched' /\ PendingInv' /\ OriginInv'
  BY <1>2, EntriesUntouched DEF DhtInv, MapsInv, NoGossipToSelf
<1>8. NewsInv'
  <2>1. \A m \in Nodes : this_peer[m].timestamp <= this_peer'[m].timestamp
    BY <1>3, <1>4, DhtAssumption DEF PeerInfo
  <2>2. NewsStep
    BY <2>1, <1>2 DEF NewsStep
  <2> QED  BY <2>2, <1>5, NewsKept DEF DhtInv
<1> QED  BY <1>5, <1>6, <1>7, <1>8 DEF DhtInv

(* A new process: it holds nothing, and is newer than all that is known of  *)
(* the old one.                                                             *)
LEMMA RestartInv ==
    ASSUME TypeOK, DhtInv, NEW n \in Nodes, Restart(n)
    PROVE  TypeOK' /\ DhtInv'
<1>1. PICK l \in Locations :
        this_peer' = [this_peer EXCEPT ![n] = [location |-> l, timestamp |-> clock[n]]]
  BY DEF Restart
<1>2. /\ clock[n] > this_peer[n].timestamp
      /\ last_gossip_of_self' = [last_gossip_of_self EXCEPT ![n] = clock[n]]
      /\ peer_map' = [peer_map EXCEPT ![n] = [p \in {} |-> this_peer[n]]]
      /\ timed_out_map' = [timed_out_map EXCEPT ![n] = [p \in {} |-> FALSE]]
      /\ entry_list' = [entry_list EXCEPT ![n] = [e \in Entries |-> {}]]
      /\ requests' = [requests EXCEPT ![n] = {}]
      /\ panicked' = panicked \ {n}
      /\ restarted' = restarted \cup {n}
      /\ UNCHANGED <<clock, store, published, gossip>>
  BY DEF Restart
<1>3. /\ \A m \in Nodes : clock[m] \in 0..MaxTime /\ clock[m] \in Nat
      /\ \A m \in Nodes : this_peer[m] \in PeerInfo /\ this_peer[m].timestamp \in Nat
  BY DhtAssumption DEF TypeOK, PeerInfo
<1>4. /\ this_peer' \in [Nodes -> PeerInfo]
      /\ this_peer'[n].timestamp = clock[n]
      /\ \A m \in Nodes \ {n} : this_peer'[m] = this_peer[m]
  <2>1. [location |-> l, timestamp |-> clock[n]] \in PeerInfo
    BY <1>3 DEF PeerInfo
  <2> QED  BY <1>1, <2>1 DEF TypeOK
<1>5. \A m \in Nodes : /\ this_peer'[m].timestamp \in Nat
                       /\ this_peer[m].timestamp <= this_peer'[m].timestamp
  BY <1>2, <1>3, <1>4
<1>6. /\ DOMAIN peer_map'[n] = {}
      /\ DOMAIN timed_out_map'[n] = {}
      /\ \A m \in Nodes \ {n} :
           peer_map'[m] = peer_map[m] /\ timed_out_map'[m] = timed_out_map[m]
      /\ peer_map'[n] \in [{} -> PeerInfo]
      /\ timed_out_map'[n] \in [{} -> BOOLEAN]
      /\ DOMAIN peer_map' = Nodes
      /\ DOMAIN timed_out_map' = Nodes
  BY <1>2, <1>3 DEF TypeOK
<1>7. /\ requests'[n] = {}
      /\ \A m \in Nodes \ {n} : requests'[m] = requests[m]
      /\ \A e \in Entries : entry_list'[n][e] = {}
      /\ \A m \in Nodes \ {n} : entry_list'[m] = entry_list[m]
  BY <1>2 DEF TypeOK
<1>8. TypeOK'
  <2>1. /\ last_gossip_of_self' \in [Nodes -> 0..MaxTime]
        /\ entry_list' \in [Nodes -> [Entries -> SUBSET Aspects]]
        /\ requests' \in [Nodes -> SUBSET DhtRequests]
    BY <1>2, <1>3 DEF TypeOK
  <2>2. \A m \in Nodes :
         /\ DOMAIN peer_map'[m] \subseteq Nodes
         /\ peer_map'[m] \in [DOMAIN peer_map'[m] -> PeerInfo]
         /\ timed_out_map'[m] \in [DOMAIN timed_out_map'[m] -> BOOLEAN]
    BY <1>6 DEF TypeOK
  <2> QED  BY <1>2, <1>4, <1>6, <2>1, <2>2 DEF TypeOK
<1>9. RecordInv'
  <2>1. \A m \in Nodes : this_peer'[m].timestamp <= clock[m]
    BY <1>3, <1>4 DEF DhtInv, RecordInv
  <2>2. \A m \in Nodes : last_gossip_of_self'[m] <= clock[m]
    BY <1>2, <1>3 DEF DhtInv, RecordInv, TypeOK
  <2>3. ASSUME NEW m \in Nodes, NEW p \in DOMAIN peer_map'[m]
        PROVE  peer_map'[m][p].timestamp <= this_peer'[p].timestamp
    <3>1. PeerMaps
      BY DEF TypeOK, PeerMaps
    <3>2. m # n /\ p \in DOMAIN peer_map[m] /\ peer_map'[m] = peer_map[m]
      BY <1>6
    <3>3. p \in Nodes /\ peer_map[m][p].timestamp \in Nat
      BY <3>1, <3>2, HeldInfo
    <3>4. peer_map[m][p].timestamp <= this_peer[p].timestamp
      BY <3>2 DEF DhtInv, RecordInv
    <3> QED  BY <3>2, <3>3, <3>4, <1>3, <1>5
  <2> QED  BY <1>2, <2>1, <2>2, <2>3 DEF RecordInv
<1>10. MapsInv'
  BY <1>2, <1>6 DEF DhtInv, MapsInv
<1>11. NoGossipToSelf'
  BY <1>2 DEF DhtInv, NoGossipToSelf
<1>12. NewsInv'
  <2>1. NewsStep
    BY <1>2, <1>5, <1>7 DEF NewsStep
  <2> QED  BY <2>1, <1>8, NewsKept DEF DhtInv
<1>13. HeldIsVouched' /\ PendingInv' /\ OriginInv'
  <2>1. ClientsKeep
    BY <1>2 DEF ClientsKeep
  <2>2. EntryStep
    BY <2>1, <1>2, <1>7 DEF EntryStep
  <2> QED  BY <2>2, EntriesKept DEF DhtInv
<1> QED  BY <1>8, <1>9, <1>10, <1>11, <1>12, <1>13 DEF DhtInv

-----------------------------------------------------------------------------
(* The DHT itself. *)

(* Gossip of a peer is either news of a held peer, or goes to the owner. *)
LEMMA PeerGossipInv ==
    ASSUME TypeOK, DhtInv, NEW n \in Nodes, NEW d \in PeerData, NoFutureNews(d),
           HandlePeerGossip(n, d), gossip' \subseteq gossip, UNCHANGED <<clock, runVars, entryVars>>
    PROVE  TypeOK' /\ DhtInv'
<1>1. /\ UNCHANGED <<clock, panicked, restarted, entry_list, store, published,
                      this_peer, last_gossip_of_self>>
      /\ \/ AddPeer(n, d) /\ requests' = requests
         \/ /\ UNCHANGED <<peer_map, timed_out_map>>
            /\ \/ requests' = requests
               \/ requests' = [requests EXCEPT ![n] = requests[n] \cup {HoldPeerMsg(d)}]
  <2>1. UNCHANGED <<clock, panicked, restarted, entry_list, store, published,
                    this_peer, last_gossip_of_self>>
    BY DEF HandlePeerGossip, entryVars, runVars
  <2>2. CASE d.name = n \/ d.name \in DOMAIN peer_map[n]
    <3>1. /\ requests' = requests
          /\ AddPeer(n, d) \/ UNCHANGED <<peer_map, timed_out_map>>
      BY <2>2, Zenon DEF HandlePeerGossip
    <3> QED  BY <2>1, <3>1, Zenon
  <2>3. CASE ~(d.name = n \/ d.name \in DOMAIN peer_map[n])
    <3>1. /\ requests' = [requests EXCEPT ![n] = requests[n] \cup {HoldPeerMsg(d)}]
          /\ UNCHANGED <<peer_map, timed_out_map>>
      BY <2>3, Zenon DEF HandlePeerGossip
    <3> QED  BY <2>1, <3>1, Zenon
  <2> QED  BY <2>2, <2>3
<1>2. PeerMaps' /\ RecordInv' /\ MapsInv'
  <2>1. CASE AddPeer(n, d)
    BY <1>1, <2>1, AddPeerInv DEF DhtInv
  <2>2. CASE UNCHANGED <<peer_map, timed_out_map>>
    BY <1>1, <2>2 DEF DhtInv, TypeOK, PeerMaps, RecordInv, MapsInv
  <2> QED  BY <1>1, <2>1, <2>2
<1>3. /\ requests' \in [Nodes -> SUBSET DhtRequests]
      /\ \A m \in Nodes : requests[m] \subseteq requests'[m]
      /\ \A m \in Nodes : \A r \in requests'[m] : r \in requests[m] \/ r = HoldPeerMsg(d)
  <2>1. HoldPeerMsg(d) \in DhtRequests
    BY Constructors
  <2>2. CASE requests' = requests
    BY <2>2 DEF TypeOK
  <2>3. CASE requests' = [requests EXCEPT ![n] = requests[n] \cup {HoldPeerMsg(d)}]
    BY <2>1, <2>3 DEF TypeOK
  <2> QED  BY <1>1, <2>2, <2>3
<1>4. TypeOK'
  BY <1>1, <1>2, <1>3 DEF TypeOK, PeerMaps
<1>5. NewsInv'
  <2>1. NoFutureNews(d)'
    BY <1>1 DEF NoFutureNews
  <2>2. HoldPeerMsg(d).peer = d
    BY DEF HoldPeerMsg
  <2>3. \A m \in Nodes : this_peer[m].timestamp <= this_peer'[m].timestamp
    BY <1>1, DhtAssumption DEF TypeOK, PeerInfo
  <2>4. NewsStep
    BY <2>1, <2>2, <2>3, <1>3 DEF NewsStep
  <2> QED  BY <2>4, <1>4, NewsKept DEF DhtInv
<1>6. HeldIsVouched' /\ PendingInv' /\ OriginInv'
  <2>1. HoldPeerMsg(d).kind = "HoldPeer"
    BY DEF HoldPeerMsg
  <2>2. ClientsKeep
    BY <1>1 DEF ClientsKeep
  <2>3. EntryStep
    BY <2>1, <2>2, <1>1, <1>3 DEF EntryStep, AboutEntry
  <2> QED  BY <2>3, EntriesKept DEF DhtInv
<1>7. NoGossipToSelf'
  BY DEF DhtInv, NoGossipToSelf
<1> QED  BY <1>2, <1>4, <1>5, <1>6, <1>7 DEF DhtInv

(* Gossip of an entry only adds requests for the client. *)
LEMMA EntryGossipInv ==
    ASSUME TypeOK, DhtInv, NEW n \in Nodes, NEW d \in EntryData,
           \A a \in d.aspects : Origin(d.entry, a),
           HandleEntryGossip(n, d), gossip' \subseteq gossip, UNCHANGED <<clock, runVars, entryVars>>
    PROVE  TypeOK' /\ DhtInv'
<1> DEFINE A == {StoreMsg(d.entry, a) : a \in d.aspects}
<1>1. /\ UNCHANGED <<clock, runVars, entry_list, store, published, peerVars>>
      /\ \/ requests' = requests
         \/ requests' = [requests EXCEPT ![n] = requests[n] \cup A]
  BY Zenon DEF HandleEntryGossip, entryVars
<1>2. A \in SUBSET DhtRequests
  BY Constructors, EntryFields
<1>5. ASSUME NEW r \in A
      PROVE  r.kind = "HandleStoreEntryAspect" /\ Origin(r.entry, r.aspect)
  <2>1. PICK a \in d.aspects : r = StoreMsg(d.entry, a)
    BY <1>5
  <2>2. r.kind = "HandleStoreEntryAspect" /\ r.entry = d.entry /\ r.aspect = a
    BY <2>1 DEF StoreMsg
  <2> QED  BY <2>2
<1> HIDE DEF A
<1>6. /\ requests' \in [Nodes -> SUBSET DhtRequests]
      /\ \A m \in Nodes : requests[m] \subseteq requests'[m]
      /\ \A m \in Nodes : \A r \in requests'[m] : r \in requests[m] \/ r \in A
  BY <1>1, <1>2 DEF TypeOK
<1>7. TypeOK'
  BY <1>1, <1>6 DEF TypeOK, runVars, peerVars
<1>8. RecordInv' /\ MapsInv' /\ NoGossipToSelf'
  BY <1>1 DEF DhtInv, RecordInv, MapsInv, NoGossipToSelf, peerVars
<1>9. NewsInv'
  <2>1. \A m \in Nodes : this_peer[m].timestamp <= this_peer'[m].timestamp
    BY <1>1, DhtAssumption DEF TypeOK, PeerInfo, peerVars
  <2>2. NewsStep
    BY <2>1, <1>5, <1>6 DEF NewsStep
  <2> QED  BY <2>2, <1>7, NewsKept DEF DhtInv
<1>10. HeldIsVouched' /\ PendingInv' /\ OriginInv'
  <2>1. \A r \in A : Origin(r.entry, r.aspect)'
    BY <1>1, <1>5 DEF Origin
  <2>2. ClientsKeep
    BY <1>1 DEF ClientsKeep
  <2>3. EntryStep
    BY <2>1, <2>2, <1>1, <1>5, <1>6 DEF EntryStep, AboutEntry
  <2> QED  BY <2>3, EntriesKept DEF DhtInv
<1> QED  BY <1>7, <1>8, <1>9, <1>10 DEF DhtInv

LEMMA HandleGossipInv ==
    ASSUME TypeOK, DhtInv, NEW n \in Nodes, HandleGossip(n)
    PROVE  TypeOK' /\ DhtInv'
<1>1. PICK g \in gossip :
        /\ gossip' \in {gossip, gossip \ {g}}
        /\ \/ g.kind = "Peer" /\ HandlePeerGossip(n, g.peer)
           \/ g.kind = "Entry" /\ HandleEntryGossip(n, g.data)
  BY DEF HandleGossip
<1>2. gossip' \subseteq gossip /\ UNCHANGED <<clock, runVars, entryVars>>
  BY <1>1 DEF HandleGossip
<1>3. g \in Gossips
  BY DEF TypeOK
<1>4. CASE g.kind = "Peer" /\ HandlePeerGossip(n, g.peer)
  <2>1. g.peer \in PeerData /\ NoFutureNews(g.peer)
    BY <1>3, <1>4, GossipTypes DEF DhtInv, NewsInv
  <2> QED  BY <2>1, <1>2, <1>4, PeerGossipInv
<1>5. CASE g.kind = "Entry" /\ HandleEntryGossip(n, g.data)
  <2>1. g.data \in EntryData /\ \A a \in g.data.aspects : Origin(g.data.entry, a)
    BY <1>3, <1>5, GossipTypes DEF DhtInv, OriginInv
  <2> QED  BY <2>1, <1>2, <1>5, EntryGossipInv
<1> QED  BY <1>1, <1>4, <1>5

(* What gossip_self and HoldPeer send. *)
LEMMA SelfGossipFacts ==
    ASSUME TypeOK, NEW n \in Nodes, NEW to \in SUBSET (Nodes \ {n})
    PROVE  \A g \in SelfGossip(n, to) :
              /\ g \in Gossips
              /\ g.kind = "Peer"
              /\ g.from # g.to
              /\ g.peer \in PeerData
              /\ NoFutureNews(g.peer)
<1> DEFINE d == Peer(n, this_peer[n])
<1>1. d \in PeerData /\ NoFutureNews(d)
  BY Constructors, DhtAssumption DEF TypeOK, PeerInfo, Peer, NoFutureNews
<1> HIDE DEF d
<1>2. ASSUME NEW p \in to
      PROVE  LET g == PeerGossip(n, p, d) IN
                /\ g \in Gossips
                /\ g.kind = "Peer"
                /\ g.from # g.to
                /\ g.peer \in PeerData
                /\ NoFutureNews(g.peer)
  <2>1. PeerGossip(n, p, d) \in Gossips
    BY <1>1, Constructors
  <2>2. /\ PeerGossip(n, p, d).kind = "Peer"
        /\ PeerGossip(n, p, d).from = n
        /\ PeerGossip(n, p, d).to = p
        /\ PeerGossip(n, p, d).peer = d
    BY DEF PeerGossip
  <2> QED  BY <1>1, <2>1, <2>2
<1>3. SelfGossip(n, to) = {PeerGossip(n, p, d) : p \in to}
  BY DEF SelfGossip, d
<1> QED  BY <1>2, <1>3

LEMMA HoldPeerInv ==
    ASSUME TypeOK, DhtInv, NEW n \in Nodes, NEW p \in Nodes, HoldPeer(n, p)
    PROVE  TypeOK' /\ DhtInv'
<1> DEFINE d == Peer(p, peer_map'[n][p])
           News == {PeerGossip(n, q, d) : q \in OtherPeers(n)}
           Self == SelfGossip(n, {p} \ {n})
<1>1. PICK r \in requests[n] :
        /\ r.kind = "HoldPeer"
        /\ r.peer.name = p
        /\ requests' = [requests EXCEPT ![n] = requests[n] \ {r}]
        /\ \/ AddPeer(n, r.peer) /\ gossip' = gossip \cup News \cup Self
           \/ UNCHANGED <<peer_map, timed_out_map, gossip>>
  BY Zenon DEF HoldPeer
<1>2. UNCHANGED <<clock, panicked, restarted, this_peer, last_gossip_of_self,
                  entry_list, store, published>>
  BY DEF HoldPeer, runVars, entryVars
<1>3. r.peer \in PeerData /\ NoFutureNews(r.peer)
  BY <1>1, RequestTypes DEF TypeOK, DhtInv, NewsInv
<1>4. /\ requests' \in [Nodes -> SUBSET DhtRequests]
      /\ \A m \in Nodes : requests'[m] \subseteq requests[m]
      /\ \A m \in Nodes : \A q \in requests[m] : q \in requests'[m] \/ q.kind = "HoldPeer"
  BY <1>1 DEF TypeOK
<1>5. /\ PeerMaps'
      /\ RecordInv'
      /\ MapsInv'
      /\ AddPeer(n, r.peer) => d \in PeerData /\ NoFutureNews(d)
  <2>1. CASE AddPeer(n, r.peer)
    BY <1>1, <1>2, <1>3, <2>1, AddPeerInv DEF DhtInv
  <2>2. CASE ~AddPeer(n, r.peer)
    BY <1>1, <1>2, <2>2 DEF DhtInv, TypeOK, PeerMaps, RecordInv, MapsInv
  <2> QED  BY <2>1, <2>2
<1>6. \A g \in gossip' :
        g \in gossip \/ (/\ g \in Gossips
                         /\ g.kind = "Peer"
                         /\ g.from # g.to
                         /\ g.peer \in PeerData
                         /\ NoFutureNews(g.peer))
  <2>1. CASE UNCHANGED <<peer_map, timed_out_map, gossip>>
    BY <2>1
  <2>2. CASE AddPeer(n, r.peer) /\ gossip' = gossip \cup News \cup Self
    <3>1. d \in PeerData /\ NoFutureNews(d)
      BY <2>2, <1>5
    <3>2. OtherPeers(n) \subseteq Nodes \ {n}
      BY DEF OtherPeers, TypeOK
    <3>3. ASSUME NEW q \in OtherPeers(n)
          PROVE  LET g == PeerGossip(n, q, d) IN
                    /\ g \in Gossips
                    /\ g.kind = "Peer"
                    /\ g.from # g.to
                    /\ g.peer \in PeerData
                    /\ NoFutureNews(g.peer)
      <4>1. PeerGossip(n, q, d) \in Gossips
        BY <3>1, <3>2, Constructors
      <4>2. /\ PeerGossip(n, q, d).kind = "Peer"
            /\ PeerGossip(n, q, d).from = n
            /\ PeerGossip(n, q, d).to = q
            /\ PeerGossip(n, q, d).peer = d
        BY DEF PeerGossip
      <4> QED  BY <3>1, <3>2, <4>1, <4>2
    <3>4. \A g \in Self : /\ g \in Gossips
                          /\ g.kind = "Peer"
                          /\ g.from # g.to
                          /\ g.peer \in PeerData
                          /\ NoFutureNews(g.peer)
      BY SelfGossipFacts
    <3> QED  BY <2>2, <3>3, <3>4
  <2> QED  BY <1>1, <2>1, <2>2
<1> HIDE DEF d, News, Self
<1>7. gossip' \subseteq Gossips /\ NoGossipToSelf'
  BY <1>6 DEF TypeOK, DhtInv, NoGossipToSelf
<1>8. TypeOK'
  BY <1>2, <1>4, <1>5, <1>7 DEF TypeOK, PeerMaps
<1>9. NewsInv'
  <2>1. \A m \in Nodes : this_peer[m].timestamp <= this_peer'[m].timestamp
    BY <1>2, DhtAssumption DEF TypeOK, PeerInfo
  <2>2. \A g \in gossip' : g \in gossip \/ (g.peer \in PeerData /\ NoFutureNews(g.peer)')
    BY <1>2, <1>6 DEF NoFutureNews
  <2>3. NewsStep
    BY <2>1, <2>2, <1>4 DEF NewsStep
  <2> QED  BY <2>3, <1>8, NewsKept DEF DhtInv
<1>10. HeldIsVouched' /\ PendingInv' /\ OriginInv'
  <2>1. ClientsKeep
    BY <1>2 DEF ClientsKeep
  <2>2. EntryStep
    BY <2>1, <1>2, <1>4, <1>6 DEF EntryStep
  <2> QED  BY <2>2, EntriesKept DEF DhtInv
<1> QED  BY <1>5, <1>7, <1>8, <1>9, <1>10 DEF DhtInv

(* add_entry_aspects and gossip_entry, of aspects the client was given. *)
LEMMA HoldAndGossipEffect ==
    ASSUME TypeOK, NEW n \in Nodes, NEW d \in EntryData, HoldAndGossip(n, d)
    PROVE  /\ entry_list' \in [Nodes -> [Entries -> SUBSET Aspects]]
           /\ \A m \in Nodes, e \in Entries : entry_list[m][e] \subseteq entry_list'[m][e]
           /\ \A m \in Nodes, e \in Entries : \A a \in entry_list'[m][e] :
                a \in entry_list[m][e] \/ (m = n /\ e = d.entry /\ a \in d.aspects)
           /\ \A g \in gossip' :
                g \in gossip \/ (g \in Gossips /\ g.from # g.to /\ g.kind = "Entry" /\ g.data = d)
<1> DEFINE News == {EntryGossip(n, p, d) : p \in OtherPeers(n)}
<1>1. \/ entry_list' = entry_list /\ gossip' = gossip
      \/ /\ entry_list' = [entry_list EXCEPT ![n][d.entry] = entry_list[n][d.entry] \cup d.aspects]
         /\ gossip' = gossip \cup News
  BY Zenon DEF HoldAndGossip
<1>2. d.entry \in Entries /\ d.aspects \in SUBSET Aspects
  BY EntryFields
<1>3. ASSUME NEW p \in OtherPeers(n)
      PROVE  LET g == EntryGossip(n, p, d) IN
                g \in Gossips /\ g.from # g.to /\ g.kind = "Entry" /\ g.data = d
  <2>1. p \in Nodes /\ p # n
    BY DEF OtherPeers, TypeOK
  <2>2. EntryGossip(n, p, d) \in Gossips
    BY <2>1, Constructors
  <2>3. /\ EntryGossip(n, p, d).from = n
        /\ EntryGossip(n, p, d).to = p
        /\ EntryGossip(n, p, d).kind = "Entry"
        /\ EntryGossip(n, p, d).data = d
    BY DEF EntryGossip
  <2> QED  BY <2>1, <2>2, <2>3
<1>4. \A g \in News : g \in Gossips /\ g.from # g.to /\ g.kind = "Entry" /\ g.data = d
  BY <1>3
<1> HIDE DEF News
<1>5. \A g \in gossip' :
        g \in gossip \/ (g \in Gossips /\ g.from # g.to /\ g.kind = "Entry" /\ g.data = d)
  BY <1>1, <1>4
<1>6. CASE entry_list' = entry_list
  BY <1>5, <1>6 DEF TypeOK
<1>7. CASE entry_list' = [entry_list EXCEPT ![n][d.entry] = entry_list[n][d.entry] \cup d.aspects]
  <2>1. entry_list' \in [Nodes -> [Entries -> SUBSET Aspects]]
    BY <1>2, <1>7 DEF TypeOK
  <2>2. \A m \in Nodes, e \in Entries :
          entry_list'[m][e] = IF m = n /\ e = d.entry
                              THEN entry_list[m][e] \cup d.aspects
                              ELSE entry_list[m][e]
    BY <1>2, <1>7 DEF TypeOK
  <2> QED  BY <1>5, <2>1, <2>2
<1> QED  BY <1>1, <1>6, <1>7

(* A step of the DHT that holds the aspects of one of its requests, or      *)
(* fetches them from the client.                                            *)
HoldStep(n, r) ==
    /\ r \in requests[n]
    /\ AboutEntry(r)
    /\ \/ requests' = [requests EXCEPT ![n] = requests[n] \ {r}] /\ HoldAndGossip(n, r.data)
       \/ /\ requests' = [requests EXCEPT ![n] =
                            (requests[n] \ {r}) \cup {FetchMsg(r.data.entry)}]
          /\ UNCHANGED <<entry_list, gossip>>
    /\ UNCHANGED <<clock, runVars, peerVars, store, published>>

LEMMA HoldStepInv ==
    ASSUME TypeOK, DhtInv, NEW n \in Nodes, NEW r, HoldStep(n, r)
    PROVE  TypeOK' /\ DhtInv'
<1>1. r \in requests[n] /\ AboutEntry(r) /\ UNCHANGED <<clock, runVars, peerVars, store, published>>
  BY DEF HoldStep
<1>2. r.data \in EntryData /\ r.data.entry \in Entries /\ r.data.aspects \in SUBSET Aspects
  BY <1>1, RequestTypes, EntryFields DEF TypeOK, AboutEntry
<1>3. FetchMsg(r.data.entry) \in DhtRequests /\ FetchMsg(r.data.entry).kind = "HandleFetchEntry"
  BY <1>2, Constructors DEF FetchMsg
<1>4. /\ requests' \in [Nodes -> SUBSET DhtRequests]
      /\ \A m \in Nodes : \A q \in requests'[m] : q \in requests[m] \/ q.kind = "HandleFetchEntry"
      /\ \A m \in Nodes : \A q \in requests[m] : q \in requests'[m] \/ AboutEntry(q)
  <2>1. CASE requests' = [requests EXCEPT ![n] = requests[n] \ {r}]
    BY <2>1, <1>1 DEF TypeOK
  <2>2. CASE requests' = [requests EXCEPT ![n] =
                            (requests[n] \ {r}) \cup {FetchMsg(r.data.entry)}]
    BY <2>2, <1>1, <1>3 DEF TypeOK
  <2> QED  BY <2>1, <2>2 DEF HoldStep
<1>5. /\ entry_list' \in [Nodes -> [Entries -> SUBSET Aspects]]
      /\ \A m \in Nodes, e \in Entries : \A a \in entry_list'[m][e] :
           a \in entry_list[m][e] \/ (m = n /\ e = r.data.entry /\ a \in r.data.aspects)
      /\ \A g \in gossip' :
           g \in gossip \/ (g \in Gossips /\ g.from # g.to /\ g.kind = "Entry" /\ g.data = r.data)
  <2>1. CASE HoldAndGossip(n, r.data)
    BY <2>1, <1>2, HoldAndGossipEffect
  <2>2. CASE UNCHANGED <<entry_list, gossip>>
    BY <2>2 DEF TypeOK
  <2> QED  BY <2>1, <2>2 DEF HoldStep
<1>6. TypeOK'
  BY <1>1, <1>4, <1>5 DEF TypeOK, runVars, peerVars
<1>7. RecordInv' /\ MapsInv'
  BY <1>1 DEF DhtInv, RecordInv, MapsInv, peerVars
<1>8. NoGossipToSelf'
  BY <1>5 DEF DhtInv, NoGossipToSelf
<1>9. NewsInv'
  <2>1. \A m \in Nodes : this_peer[m].timestamp <= this_peer'[m].timestamp
    BY <1>1, DhtAssumption DEF TypeOK, PeerInfo, peerVars
  <2>2. NewsStep
    BY <2>1, <1>4, <1>5 DEF NewsStep
  <2> QED  BY <2>2, <1>6, NewsKept DEF DhtInv
<1>10. HeldIsVouched' /\ PendingInv' /\ OriginInv'
  <2>1. ClientsKeep
    BY <1>1 DEF ClientsKeep
  <2>2. \A a \in r.data.aspects : Vouched(n, r.data.entry, a)
    BY <1>1 DEF DhtInv, PendingInv, AboutEntry
  <2>3. \A a \in r.data.aspects : Vouched(n, r.data.entry, a)'
    BY <2>1, <2>2, <1>2, VouchedKept
  <2>4. \A a \in r.data.aspects : Origin(r.data.entry, a)'
    BY <2>3 DEF Vouched
  <2>5. EntryStep
    BY <2>1, <2>3, <2>4, <1>1, <1>4, <1>5 DEF EntryStep, AboutEntry
  <2> QED  BY <2>5, EntriesKept DEF DhtInv
<1> QED  BY <1>6, <1>7, <1>8, <1>9, <1>10 DEF DhtInv

LEMMA BroadcastInv ==
    ASSUME TypeOK, DhtInv, NEW n \in Nodes, BroadcastEntry(n)
    PROVE  TypeOK' /\ DhtInv'
<1>1. PICK r \in requests[n] : HoldStep(n, r)
  BY DEF BroadcastEntry, HoldStep, AboutEntry
<1> QED  BY <1>1, HoldStepInv

LEMMA HoldAddressInv ==
    ASSUME TypeOK, DhtInv, NEW n \in Nodes, HoldEntryAspectAddress(n)
    PROVE  TypeOK' /\ DhtInv'
<1>1. PICK r \in requests[n] : HoldStep(n, r)
  BY DEF HoldEntryAspectAddress, HoldStep, AboutEntry
<1> QED  BY <1>1, HoldStepInv

(* internal_process marks silent peers, and only those. *)
LEMMA InternalInv ==
    ASSUME TypeOK, DhtInv, NEW n \in Nodes, InternalProcess(n)
    PROVE  TypeOK' /\ DhtInv'
<1> DEFINE T == [p \in DOMAIN timed_out_map[n] |-> timed_out_map[n][p] \/ p \in Silent(n)]
           Self == SelfGossip(n, OtherPeers(n))
<1>1. /\ timed_out_map' = [timed_out_map EXCEPT ![n] = T]
      /\ UNCHANGED <<clock, panicked, restarted, this_peer, peer_map, entryVars, requests>>
  BY DEF InternalProcess, runVars
<1>2. \/ /\ last_gossip_of_self' = [last_gossip_of_self EXCEPT ![n] = clock[n]]
         /\ gossip' = gossip \cup Self
      \/ UNCHANGED <<last_gossip_of_self, gossip>>
  BY Zenon DEF InternalProcess
<1>3. T \in [DOMAIN timed_out_map[n] -> BOOLEAN]
  BY DEF TypeOK
<1>4. \A p \in DOMAIN timed_out_map[n] : T[p] => timed_out_map[n][p] \/ p \in Silent(n)
  OBVIOUS
<1>5. OtherPeers(n) \in SUBSET (Nodes \ {n})
  BY DEF OtherPeers, TypeOK
<1>6. \A g \in Self : /\ g \in Gossips
                       /\ g.kind = "Peer"
                       /\ g.from # g.to
                       /\ g.peer \in PeerData
                       /\ NoFutureNews(g.peer)
  BY <1>5, SelfGossipFacts
<1> HIDE DEF T, Self
<1>7. \A g \in gossip' :
        g \in gossip \/ (/\ g \in Gossips
                         /\ g.kind = "Peer"
                         /\ g.from # g.to
                         /\ g.peer \in PeerData
                         /\ NoFutureNews(g.peer))
  BY <1>2, <1>6
<1>8. /\ DOMAIN timed_out_map' = Nodes
      /\ timed_out_map'[n] = T
      /\ \A m \in Nodes \ {n} : timed_out_map'[m] = timed_out_map[m]
  BY <1>1 DEF TypeOK
<1>9. /\ last_gossip_of_self' \in [Nodes -> 0..MaxTime]
      /\ \A m \in Nodes : last_gossip_of_self'[m] <= clock[m]
  <2>1. /\ \A m \in Nodes : clock[m] \in 0..MaxTime /\ clock[m] \in Nat
        /\ last_gossip_of_self \in [Nodes -> 0..MaxTime]
    BY DhtAssumption DEF TypeOK
  <2>2. \A m \in Nodes : last_gossip_of_self[m] <= clock[m]
    BY DEF DhtInv, RecordInv
  <2>3. CASE last_gossip_of_self' = [last_gossip_of_self EXCEPT ![n] = clock[n]]
    BY <2>1, <2>2, <2>3
  <2>4. CASE last_gossip_of_self' = last_gossip_of_self
    BY <2>1, <2>2, <2>4
  <2> QED  BY <1>2, <2>3, <2>4
<1>10. TypeOK'
  <2>1. gossip' \subseteq Gossips
    BY <1>7 DEF TypeOK
  <2>2. \A m \in Nodes : timed_out_map'[m] \in [DOMAIN timed_out_map'[m] -> BOOLEAN]
    BY <1>3, <1>8 DEF TypeOK
  <2> QED  BY <1>1, <1>8, <1>9, <2>1, <2>2 DEF TypeOK, entryVars
<1>11. RecordInv'
  BY <1>1, <1>9 DEF DhtInv, RecordInv
<1>12. MapsInv'
  <2>1. \A m \in Nodes : DOMAIN timed_out_map'[m] = DOMAIN peer_map[m]
    BY <1>3, <1>8 DEF DhtInv, MapsInv
  <2>2. ASSUME NEW m \in Nodes, m \in DOMAIN peer_map[m]
        PROVE  ~timed_out_map'[m][m]
    <3>1. ~timed_out_map[m][m] /\ m \in DOMAIN timed_out_map[m]
      BY <2>2 DEF DhtInv, MapsInv
    <3>2. n \notin Silent(n)
      BY DEF Silent, OtherPeers
    <3>3. CASE m = n
      BY <3>1, <3>2, <3>3, <1>4, <1>8, Zenon
    <3>4. CASE m # n
      BY <3>1, <3>4, <1>8
    <3> QED  BY <3>3, <3>4
  <2> QED  BY <2>1, <2>2, <1>1 DEF MapsInv
<1>13. NoGossipToSelf'
  BY <1>7 DEF DhtInv, NoGossipToSelf
<1>14. NewsInv'
  <2>1. \A m \in Nodes : this_peer[m].timestamp <= this_peer'[m].timestamp
    BY <1>1, DhtAssumption DEF TypeOK, PeerInfo
  <2>2. \A g \in gossip' : g \in gossip \/ (g.peer \in PeerData /\ NoFutureNews(g.peer)')
    BY <1>1, <1>7 DEF NoFutureNews
  <2>3. NewsStep
    BY <2>1, <2>2, <1>1 DEF NewsStep
  <2> QED  BY <2>3, <1>10, NewsKept DEF DhtInv
<1>15. HeldIsVouched' /\ PendingInv' /\ OriginInv'
  <2>0. UNCHANGED <<entry_list, store, published, requests>>
    BY <1>1 DEF entryVars
  <2>1. ClientsKeep
    BY <2>0 DEF ClientsKeep
  <2>2. EntryStep
    BY <2>0, <2>1, <1>7 DEF EntryStep
  <2> QED  BY <2>2, EntriesKept DEF DhtInv
<1> QED  BY <1>10, <1>11, <1>12, <1>13, <1>14, <1>15 DEF DhtInv

-----------------------------------------------------------------------------
(* A step that changes nothing, or stops a node. *)
LEMMA FrozenInv ==
    ASSUME TypeOK, DhtInv, panicked' \subseteq Nodes,
           UNCHANGED <<clock, restarted, peerVars, entryVars, requests, gossip>>
    PROVE  TypeOK' /\ DhtInv'
<1>1. UNCHANGED <<this_peer, peer_map, timed_out_map, last_gossip_of_self>>
  BY DEF peerVars
<1>2. TypeOK'
  BY <1>1 DEF TypeOK, entryVars
<1>3. RecordInv' /\ MapsInv' /\ NoGossipToSelf' /\ NewsInv'
  BY <1>1 DEF DhtInv, RecordInv, MapsInv, NoGossipToSelf, NewsInv, NoFutureNews
<1>4. HeldIsVouched' /\ PendingInv' /\ OriginInv'
  BY EntriesUntouched DEF DhtInv
<1> QED  BY <1>2, <1>3, <1>4 DEF DhtInv

LEMMA OverflowInv ==
    ASSUME TypeOK, DhtInv, NEW n \in Nodes, Overflow(n)
    PROVE  TypeOK' /\ DhtInv'
<1>1. panicked' \subseteq Nodes
  BY DEF Overflow, TypeOK
<1> QED  BY <1>1, FrozenInv DEF Overflow

LEMMA StutterInv ==
    ASSUME TypeOK, DhtInv, UNCHANGED vars
    PROVE  TypeOK' /\ DhtInv'
<1>1. panicked' \subseteq Nodes
  BY DEF vars, runVars, TypeOK
<1> QED  BY <1>1, FrozenInv DEF vars, runVars

(* Every action keeps the types and the invariant. *)
LEMMA NextDht ==
    ASSUME TypeOK, DhtInv, [Next]_vars
    PROVE  TypeOK' /\ DhtInv'
<1>1. CASE UNCHANGED vars
  BY <1>1, StutterInv
<1>2. ASSUME NEW n \in Nodes, Tick(n)
      PROVE  TypeOK' /\ DhtInv'
  BY <1>2, TickInv
<1>3. ASSUME NEW n \in Nodes, Dht(n)
      PROVE  TypeOK' /\ DhtInv'
  BY <1>3, HandleGossipInv, HoldPeerInv, HoldAddressInv, BroadcastInv, InternalInv,
     OverflowInv DEF Dht
<1>4. ASSUME NEW n \in Nodes, Owner(n)
      PROVE  TypeOK' /\ DhtInv'
  BY <1>4, IntroduceInv, PublishInv, HoldEntryInv, AuthorInv, FetchInv, StoreInv,
     AdvertiseInv, RestartInv DEF Owner
<1> QED  BY <1>1, <1>2, <1>3, <1>4 DEF Next

(* THEOREM. The types and the inductive invariant hold in every run of any   *)
(* number of nodes, whatever their clocks show: the requests, gossip and    *)
(* records of peers are as declared, the records are no newer than the      *)
(* peers they are about, and every aspect comes from clients.               *)
THEOREM DhtInvariant == Spec => [](TypeOK /\ DhtInv)
<1>1. Init => TypeOK /\ DhtInv
  BY InitDht
<1>2. TypeOK /\ DhtInv /\ [Next]_vars => (TypeOK /\ DhtInv)'
  BY NextDht
<1> QED  BY <1>1, <1>2, PTL DEF Spec

(* THEOREM. The state of every DHT, client and channel keeps its type. *)
THEOREM DhtTypeCorrect == Spec => []TypeOK
BY DhtInvariant, PTL

(* THEOREM. A DHT advertises no aspect that its client has neither published *)
(* nor accepted, though clients may refuse what they are asked to store, and *)
(* none that no client published.                                           *)
THEOREM DhtHeldIsVouched == Spec => []HeldIsVouched
<1>1. TypeOK /\ DhtInv => HeldIsVouched
  BY DEF DhtInv
<1> QED  BY <1>1, DhtInvariant, PTL

-----------------------------------------------------------------------------
(* The subtractions of times.                                               *)

(* Only a subtraction stops a node. *)
LEMMA PanicStep ==
    ASSUME Next, NEW n \in Nodes, n \in panicked' \ panicked
    PROVE  \E t \in Subtracted(n) : Ahead(n, t)
<1>1. ASSUME NEW m \in Nodes, Tick(m)
      PROVE  UNCHANGED panicked
  BY <1>1 DEF Tick, runVars
<1>2. ASSUME NEW m \in Nodes, Owner(m)
      PROVE  panicked' \subseteq panicked
  BY <1>2 DEF Owner, Introduce, PublishEntry, HoldEntry, AuthorEntry, FetchEntry,
              StoreEntryAspect, UpdateAdvertise, Restart, runVars
<1>3. ASSUME NEW m \in Nodes, Dht(m), ~Overflow(m)
      PROVE  UNCHANGED panicked
  BY <1>3 DEF Dht, HandleGossip, HoldPeer, HoldEntryAspectAddress, BroadcastEntry,
              InternalProcess, runVars
<1>4. PICK m \in Nodes : Overflow(m)
  BY <1>1, <1>2, <1>3 DEF Next
<1>5. m = n
  BY <1>4 DEF Overflow
<1> QED  BY <1>4, <1>5 DEF Overflow

(* Every time that is subtracted is one of a peer, or the own one. *)
LEMMA SubtractedTimes ==
    ASSUME TypeOK, DhtInv, NEW n \in Nodes, NEW t \in Subtracted(n)
    PROVE  t <= clock[n] \/ \E p \in OtherPeers(n) : t <= this_peer[p].timestamp
<1>1. CASE t = last_gossip_of_self[n]
  BY <1>1 DEF DhtInv, RecordInv
<1>2. ASSUME NEW p \in OtherPeers(n), t = peer_map[n][p].timestamp
      PROVE  t <= this_peer[p].timestamp
  BY <1>2 DEF OtherPeers, DhtInv, RecordInv
<1>3. ASSUME NEW d \in Waiting(n), d.name \in DOMAIN peer_map[n], t = d.info.timestamp
      PROVE  t <= clock[n] \/ \E p \in OtherPeers(n) : t <= this_peer[p].timestamp
  <2>1. d \in PeerData /\ NoFutureNews(d)
    BY GossipTypes, RequestTypes DEF Waiting, TypeOK, DhtInv, NewsInv
  <2>2. t <= this_peer[d.name].timestamp
    BY <2>1, <1>3 DEF NoFutureNews
  <2>3. CASE d.name = n
    <3>1. /\ this_peer[n].timestamp \in Nat /\ clock[n] \in Nat /\ t \in Nat
          /\ this_peer[n].timestamp <= clock[n]
      BY <2>1, <1>3, PeerFields, DhtAssumption DEF TypeOK, PeerInfo, DhtInv, RecordInv
    <3> QED  BY <2>2, <2>3, <3>1
  <2>4. CASE d.name # n
    <3>1. d.name \in OtherPeers(n)
      BY <2>4, <1>3 DEF OtherPeers
    <3> QED  BY <3>1, <2>2
  <2> QED  BY <2>3, <2>4
<1> QED  BY <1>1, <1>2, <1>3 DEF Subtracted

(* THEOREM. Whatever the network delays, repeats or reorders and whoever    *)
(* starts again, a subtraction of times panics or wraps on no node whose    *)
(* clock is level with, or ahead of, those of the peers it holds.           *)
THEOREM DhtWrapNeedsSkew == Spec => WrapNeedsSkew
<1> DEFINE Skewed(n) ==
      /\ n \in panicked' \ panicked => \E p \in OtherPeers(n) : clock[n] < clock[p]
      /\ \A p \in Reported(n) :
           Ahead(n, peer_map[n][p].timestamp) => clock[n] < clock[p]
<1>1. ASSUME TypeOK, DhtInv, Next, NEW n \in Nodes
      PROVE  Skewed(n)
  <2>1. PeerMaps
    BY <1>1 DEF TypeOK, PeerMaps
  <2>2. \A p \in DOMAIN peer_map[n] : p \in Nodes /\ peer_map[n][p].timestamp \in Nat
    BY <2>1, HeldInfo
  <2>3. \A p \in Nodes : /\ clock[p] \in Nat
                         /\ this_peer[p].timestamp \in Nat
                         /\ this_peer[p].timestamp <= clock[p]
    BY <1>1, DhtAssumption DEF TypeOK, PeerInfo, DhtInv, RecordInv
  <2>4. ASSUME NEW p \in Reported(n), Ahead(n, peer_map[n][p].timestamp)
        PROVE  clock[n] < clock[p]
    <3>1. p \in DOMAIN peer_map[n]
      BY DEF Reported
    <3>2. peer_map[n][p].timestamp <= this_peer[p].timestamp
      BY <3>1, <1>1 DEF DhtInv, RecordInv
    <3> QED  BY <3>1, <3>2, <2>2, <2>3, <2>4 DEF Ahead
  <2>5. ASSUME n \in panicked' \ panicked
        PROVE  \E p \in OtherPeers(n) : clock[n] < clock[p]
    <3>1. PICK t \in Subtracted(n) : Ahead(n, t)
      BY <1>1, <2>5, PanicStep
    <3>2. t \in Nat
      BY <1>1, <2>2, GossipTypes, RequestTypes, PeerFields, DhtAssumption
      DEF Subtracted, OtherPeers, Waiting, TypeOK
    <3>3. ~(t <= clock[n])
      BY <3>1, <3>2, <2>3 DEF Ahead
    <3>4. PICK p \in OtherPeers(n) : t <= this_peer[p].timestamp
      BY <3>3, <1>1, SubtractedTimes
    <3>5. p \in Nodes
      BY <2>2 DEF OtherPeers
    <3> QED  BY <3>1, <3>2, <3>4, <3>5, <2>3 DEF Ahead
  <2> QED  BY <2>4, <2>5
<1>2. TypeOK /\ DhtInv /\ [Next]_vars => [\A n \in Nodes : Skewed(n)]_vars
  BY <1>1
<1> QED  BY <1>2, DhtInvariant, PTL DEF Spec, WrapNeedsSkew

-----------------------------------------------------------------------------
(* The maps a step leaves alone do not go back. *)
LEMMA ForwardPeers ==
    ASSUME TypeOK, UNCHANGED <<peer_map, timed_out_map>>,
           \A m \in Nodes, e \in Entries : entry_list[m][e] \subseteq entry_list'[m][e],
           NEW m \in Nodes
    PROVE  Forward(m)
<1>1. \A p \in DOMAIN peer_map[m] : peer_map[m][p].timestamp \in Nat
  BY HeldInfo DEF TypeOK, PeerMaps
<1> QED  BY <1>1 DEF Forward

(* News of a peer, added by add_peer, takes its record forward. *)
LEMMA ForwardNews ==
    ASSUME TypeOK, MapsInv, NEW n \in Nodes, NEW d \in PeerData,
           IsNews(n, d), AddPeer(n, d), entry_list' = entry_list, NEW m \in Nodes
    PROVE  Forward(m)
<1>1. PeerMaps
  BY DEF TypeOK, PeerMaps
<1>2. \A p \in DOMAIN peer_map[m] : peer_map[m][p].timestamp \in Nat
  BY <1>1, HeldInfo
<1>3. d.info.timestamp \in Nat
  BY PeerFields
<1>4. /\ \A k \in Nodes \ {n} :
           peer_map'[k] = peer_map[k] /\ timed_out_map'[k] = timed_out_map[k]
      /\ DOMAIN peer_map'[n] = DOMAIN peer_map[n] \cup {d.name}
      /\ peer_map'[n][d.name].timestamp = d.info.timestamp
      /\ \A p \in DOMAIN peer_map[n] \ {d.name} :
           peer_map'[n][p] = peer_map[n][p] /\ timed_out_map'[n][p] = timed_out_map[n][p]
      /\ d.name \in DOMAIN peer_map[n] =>
           \/ timed_out_map'[n][d.name] = timed_out_map[n][d.name]
           \/ YoungerThan(n, d.info.timestamp, TimeoutThreshold)
  BY <1>1, AddPeerEffect
<1>5. CASE m # n
  BY <1>2, <1>4, <1>5 DEF Forward
<1>6. CASE m = n
  <2>1. ASSUME NEW p \in DOMAIN peer_map[n]
        PROVE  /\ p \in DOMAIN peer_map'[n]
               /\ peer_map[n][p].timestamp <= peer_map'[n][p].timestamp
               /\ timed_out_map[n][p] =>
                    \/ timed_out_map'[n][p]
                    \/ /\ peer_map[n][p].timestamp < peer_map'[n][p].timestamp
                       /\ YoungerThan(n, peer_map'[n][p].timestamp, TimeoutThreshold)
    <3>1. CASE p = d.name
      <4>1. d.info.timestamp > peer_map[n][p].timestamp
        BY <3>1 DEF IsNews
      <4>2. /\ p \in DOMAIN peer_map'[n]
            /\ peer_map[n][p].timestamp < peer_map'[n][p].timestamp
            /\ peer_map[n][p].timestamp <= peer_map'[n][p].timestamp
        BY <3>1, <4>1, <1>2, <1>3, <1>4, <1>6
      <4>3. \/ timed_out_map'[n][p] = timed_out_map[n][p]
            \/ YoungerThan(n, peer_map'[n][p].timestamp, TimeoutThreshold)
        BY <3>1, <1>4
      <4> QED  BY <4>2, <4>3
    <3>2. CASE p # d.name
      BY <3>2, <1>2, <1>4, <1>6
    <3> QED  BY <3>1, <3>2
  <2> QED  BY <2>1, <1>6 DEF Forward
<1> QED  BY <1>5, <1>6

(* internal_process only marks. *)
LEMMA ForwardInternal ==
    ASSUME TypeOK, MapsInv, NEW n \in Nodes, InternalProcess(n), NEW m \in Nodes
    PROVE  Forward(m)
<1>1. /\ timed_out_map' = [timed_out_map EXCEPT ![n] =
             [p \in DOMAIN timed_out_map[n] |-> timed_out_map[n][p] \/ p \in Silent(n)]]
      /\ UNCHANGED <<peer_map, entry_list>>
  BY DEF InternalProcess, entryVars
<1>2. \A p \in DOMAIN peer_map[m] : timed_out_map[m][p] => timed_out_map'[m][p]
  BY <1>1 DEF TypeOK, MapsInv
<1>3. \A p \in DOMAIN peer_map[m] : peer_map[m][p].timestamp \in Nat
  BY HeldInfo DEF TypeOK, PeerMaps
<1> QED  BY <1>1, <1>2, <1>3 DEF Forward

(* A new process of n is not a step of a running one. *)
LEMMA ForwardRestart ==
    ASSUME TypeOK, NEW n \in Nodes, Restart(n), NEW m \in Nodes
    PROVE  Forward(m)
<1>1. CASE m = n
  <2>1. this_peer'[n].timestamp = clock[n] /\ clock[n] > this_peer[n].timestamp
    BY DEF Restart, TypeOK
  <2>2. this_peer[n].timestamp \in Nat /\ clock[n] \in Nat
    BY DhtAssumption DEF TypeOK, PeerInfo
  <2>3. this_peer'[n].timestamp # this_peer[n].timestamp
    BY <2>1, <2>2
  <2> QED  BY <1>1, <2>3 DEF Forward
<1>2. CASE m # n
  <2>1. /\ peer_map'[m] = peer_map[m]
        /\ timed_out_map'[m] = timed_out_map[m]
        /\ entry_list'[m] = entry_list[m]
    BY <1>2 DEF Restart, TypeOK
  <2>2. \A p \in DOMAIN peer_map[m] : peer_map[m][p].timestamp \in Nat
    BY HeldInfo DEF TypeOK, PeerMaps
  <2> QED  BY <2>1, <2>2 DEF Forward
<1> QED  BY <1>1, <1>2

(* Every action of a DHT goes forward. *)
LEMMA ForwardDht ==
    ASSUME TypeOK, DhtInv, NEW n \in Nodes, Dht(n), NEW m \in Nodes
    PROVE  Forward(m)
<1>t. MapsInv
  BY DEF DhtInv
<1>1. CASE HandleGossip(n)
  <2>1. PICK g \in gossip : \/ g.kind = "Peer" /\ HandlePeerGossip(n, g.peer)
                            \/ g.kind = "Entry" /\ HandleEntryGossip(n, g.data)
    BY <1>1 DEF HandleGossip
  <2>2. entry_list' = entry_list
    BY <1>1 DEF HandleGossip, entryVars
  <2>3. CASE g.kind = "Peer" /\ HandlePeerGossip(n, g.peer)
    <3>1. g.peer \in PeerData
      BY <2>3, GossipTypes DEF TypeOK
    <3>2. \/ IsNews(n, g.peer) /\ AddPeer(n, g.peer)
          \/ UNCHANGED <<peer_map, timed_out_map>>
      <4>1. HandlePeerGossip(n, g.peer)
        BY <2>3
      <4> QED  BY <4>1, Zenon DEF HandlePeerGossip
    <3> QED  BY <3>1, <3>2, <2>2, <1>t, ForwardNews, ForwardPeers
  <2>4. CASE g.kind = "Entry" /\ HandleEntryGossip(n, g.data)
    <3>1. UNCHANGED <<peer_map, timed_out_map>>
      BY <2>4 DEF HandleEntryGossip, peerVars
    <3> QED  BY <3>1, <2>2, ForwardPeers
  <2> QED  BY <2>1, <2>3, <2>4
<1>2. ASSUME NEW p \in Nodes, HoldPeer(n, p)
      PROVE  Forward(m)
  <2>1. PICK r \in requests[n] :
          /\ r.kind = "HoldPeer"
          /\ \/ IsNews(n, r.peer) /\ AddPeer(n, r.peer)
             \/ UNCHANGED <<peer_map, timed_out_map>>
    BY <1>2, Zenon DEF HoldPeer
  <2>2. entry_list' = entry_list
    BY <1>2 DEF HoldPeer, entryVars
  <2>3. r.peer \in PeerData
    BY <2>1, RequestTypes DEF TypeOK
  <2> QED  BY <2>1, <2>2, <2>3, <1>t, ForwardNews, ForwardPeers
<1>3. ASSUME NEW r, HoldStep(n, r)
      PROVE  Forward(m)
  <2>1. r.data \in EntryData
    BY <1>3, RequestTypes DEF TypeOK, HoldStep, AboutEntry
  <2>2. \A k \in Nodes, e \in Entries : entry_list[k][e] \subseteq entry_list'[k][e]
    BY <1>3, <2>1, HoldAndGossipEffect DEF HoldStep
  <2>3. UNCHANGED <<peer_map, timed_out_map>>
    BY <1>3 DEF HoldStep, peerVars
  <2> QED  BY <2>2, <2>3, ForwardPeers
<1>4. CASE HoldEntryAspectAddress(n)
  <2>1. PICK r \in requests[n] : HoldStep(n, r)
    BY <1>4 DEF HoldEntryAspectAddress, HoldStep, AboutEntry
  <2> QED  BY <2>1, <1>3
<1>5. CASE BroadcastEntry(n)
  <2>1. PICK r \in requests[n] : HoldStep(n, r)
    BY <1>5 DEF BroadcastEntry, HoldStep, AboutEntry
  <2> QED  BY <2>1, <1>3
<1>6. CASE InternalProcess(n)
  BY <1>6, <1>t, ForwardInternal
<1>7. CASE Overflow(n)
  BY <1>7, ForwardPeers DEF Overflow, peerVars, entryVars
<1> QED  BY <1>1, <1>2, <1>4, <1>5, <1>6, <1>7 DEF Dht

(* No action of an owner touches what its DHT holds, but a restart. *)
LEMMA ForwardOwner ==
    ASSUME TypeOK, NEW n \in Nodes, Owner(n), NEW m \in Nodes
    PROVE  Forward(m)
<1>1. CASE Restart(n)
  BY <1>1, ForwardRestart
<1>2. CASE ~Restart(n)
  <2>1. UNCHANGED <<peer_map, timed_out_map, entry_list>>
    BY <1>2 DEF Owner, Introduce, PublishEntry, HoldEntry, AuthorEntry, FetchEntry,
                StoreEntryAspect, UpdateAdvertise, peerVars, entryVars
  <2> QED  BY <2>1, ForwardPeers
<1> QED  BY <1>1, <1>2

(* THEOREM. A running node never goes back, whatever the network delays,     *)
(* repeats or reorders: no peer or aspect is forgotten, no timestamp        *)
(* decreases, and a peer reported as timed out comes back only through a    *)
(* newer timestamp that is not stale.                                       *)
THEOREM DhtMonotonic == Spec => Monotonic
<1>1. TypeOK /\ DhtInv /\ [Next]_vars => [\A n \in Nodes : Forward(n)]_vars
  <2> SUFFICES ASSUME TypeOK, DhtInv, Next
               PROVE  \A m \in Nodes : Forward(m)
    OBVIOUS
  <2> TAKE m \in Nodes
  <2>1. ASSUME NEW n \in Nodes, Tick(n)
        PROVE  Forward(m)
    <3>1. UNCHANGED <<peer_map, timed_out_map, entry_list>>
      BY <2>1 DEF Tick, peerVars, entryVars
    <3> QED  BY <3>1, ForwardPeers
  <2>2. ASSUME NEW n \in Nodes, Dht(n)
        PROVE  Forward(m)
    BY <2>2, ForwardDht
  <2>3. ASSUME NEW n \in Nodes, Owner(n)
        PROVE  Forward(m)
    BY <2>3, ForwardOwner
  <2> QED  BY <2>1, <2>2, <2>3 DEF Next
<1> QED  BY <1>1, DhtInvariant, PTL DEF Spec, Monotonic

-----------------------------------------------------------------------------
(* The maps of peers change by add_peer, internal_process and restarts only. *)
LEMMA PeersMove ==
    ASSUME TypeOK, Next
    PROVE  \/ UNCHANGED <<peer_map, timed_out_map>>
           \/ \E n \in Nodes, d \in PeerData : AddPeer(n, d)
           \/ \E n \in Nodes : InternalProcess(n)
           \/ \E n \in Nodes : Restart(n)
<1>1. ASSUME NEW n \in Nodes, Tick(n)
      PROVE  UNCHANGED <<peer_map, timed_out_map>>
  BY <1>1 DEF Tick, peerVars
<1>2. ASSUME NEW n \in Nodes, Owner(n), ~Restart(n)
      PROVE  UNCHANGED <<peer_map, timed_out_map>>
  BY <1>2 DEF Owner, Introduce, PublishEntry, HoldEntry, AuthorEntry, FetchEntry,
              StoreEntryAspect, UpdateAdvertise, peerVars
<1>3. ASSUME NEW n \in Nodes, HandleGossip(n)
      PROVE  UNCHANGED <<peer_map, timed_out_map>> \/ \E d \in PeerData : AddPeer(n, d)
  <2>1. PICK g \in gossip : \/ g.kind = "Peer" /\ HandlePeerGossip(n, g.peer)
                            \/ g.kind = "Entry" /\ HandleEntryGossip(n, g.data)
    BY <1>3 DEF HandleGossip
  <2>2. CASE g.kind = "Peer" /\ HandlePeerGossip(n, g.peer)
    <3>1. g.peer \in PeerData
      BY <2>2, GossipTypes DEF TypeOK
    <3>2. AddPeer(n, g.peer) \/ UNCHANGED <<peer_map, timed_out_map>>
      <4>1. HandlePeerGossip(n, g.peer)
        BY <2>2
      <4> QED  BY <4>1, Zenon DEF HandlePeerGossip
    <3> QED  BY <3>1, <3>2
  <2>3. CASE g.kind = "Entry" /\ HandleEntryGossip(n, g.data)
    BY <2>3 DEF HandleEntryGossip, peerVars
  <2> QED  BY <2>1, <2>2, <2>3
<1>4. ASSUME NEW n \in Nodes, NEW p \in Nodes, HoldPeer(n, p)
      PROVE  UNCHANGED <<peer_map, timed_out_map>> \/ \E d \in PeerData : AddPeer(n, d)
  <2>1. PICK r \in requests[n] :
          /\ r.kind = "HoldPeer"
          /\ AddPeer(n, r.peer) \/ UNCHANGED <<peer_map, timed_out_map>>
    BY <1>4, Zenon DEF HoldPeer
  <2>2. r.peer \in PeerData
    BY <2>1, RequestTypes DEF TypeOK
  <2> QED  BY <2>1, <2>2
<1>5. ASSUME NEW n \in Nodes,
             HoldEntryAspectAddress(n) \/ BroadcastEntry(n) \/ Overflow(n)
      PROVE  UNCHANGED <<peer_map, timed_out_map>>
  BY <1>5 DEF HoldEntryAspectAddress, BroadcastEntry, Overflow, peerVars
<1>6. ASSUME NEW n \in Nodes, Dht(n), ~InternalProcess(n)
      PROVE  UNCHANGED <<peer_map, timed_out_map>> \/ \E d \in PeerData : AddPeer(n, d)
  BY <1>6, <1>3, <1>4, <1>5 DEF Dht
<1> QED  BY <1>1, <1>2, <1>6 DEF Next

(* THEOREM. The maps of peers and of timeouts stay in step (the expect of   *)
(* internal_process holds), and no refreshed peer stays marked as timed out *)
(* unless the news is stale.                                                *)
THEOREM DhtTimeouts == Spec => TimeoutBookkeeping
<1> DEFINE Marked(n, p) ==
      \/ /\ p \in DOMAIN peer_map[n]
         /\ timed_out_map[n][p]
         /\ peer_map'[n][p].timestamp = peer_map[n][p].timestamp
      \/ Stale(n, peer_map'[n][p].timestamp)
<1>1. ASSUME TypeOK, DhtInv, TypeOK', DhtInv', Next,
             NEW m \in Nodes, NEW q \in DOMAIN peer_map'[m], timed_out_map'[m][q]
      PROVE  Marked(m, q)
  <2>p. PeerMaps /\ MapsInv
    BY <1>1 DEF TypeOK, PeerMaps, DhtInv
  <2>1. CASE UNCHANGED <<peer_map, timed_out_map>>
    BY <1>1, <2>1
  <2>2. ASSUME NEW n \in Nodes, NEW d \in PeerData, AddPeer(n, d)
        PROVE  Marked(m, q)
    <3>1. /\ \A k \in Nodes \ {n} :
               peer_map'[k] = peer_map[k] /\ timed_out_map'[k] = timed_out_map[k]
          /\ DOMAIN peer_map'[n] = DOMAIN peer_map[n] \cup {d.name}
          /\ peer_map'[n][d.name].timestamp = d.info.timestamp
          /\ \A p \in DOMAIN peer_map[n] \ {d.name} :
               peer_map'[n][p] = peer_map[n][p] /\ timed_out_map'[n][p] = timed_out_map[n][p]
          /\ \/ timed_out_map'[n][d.name] = FALSE
             \/ /\ d.name \in DOMAIN peer_map[n]
                /\ timed_out_map'[n][d.name] = timed_out_map[n][d.name]
                /\ ~YoungerThan(n, d.info.timestamp, TimeoutThreshold)
      BY <2>2, <2>p, AddPeerEffect
    <3>2. CASE m = n /\ q = d.name
      <4>1. ~YoungerThan(n, d.info.timestamp, TimeoutThreshold)
        BY <3>1, <3>2, <1>1
      <4>2. d.info.timestamp \in Nat /\ clock[n] \in Nat
        BY <1>1, PeerFields, DhtAssumption DEF TypeOK
      <4>3. Stale(n, d.info.timestamp)
        BY <4>1, <4>2, DhtAssumption DEF YoungerThan, Stale, Ahead
      <4> QED  BY <3>1, <3>2, <4>3
    <3>3. CASE ~(m = n /\ q = d.name)
      <4>1. /\ q \in DOMAIN peer_map[m]
            /\ peer_map'[m][q] = peer_map[m][q]
            /\ timed_out_map'[m][q] = timed_out_map[m][q]
        BY <3>1, <3>3, <1>1
      <4> QED  BY <4>1, <1>1
    <3> QED  BY <3>2, <3>3
  <2>3. ASSUME NEW n \in Nodes, InternalProcess(n)
        PROVE  Marked(m, q)
    <3>1. /\ timed_out_map' = [timed_out_map EXCEPT ![n] =
                 [p \in DOMAIN timed_out_map[n] |-> timed_out_map[n][p] \/ p \in Silent(n)]]
          /\ UNCHANGED peer_map
      BY <2>3 DEF InternalProcess
    <3>2. q \in DOMAIN peer_map[m] /\ q \in DOMAIN timed_out_map[m]
      BY <3>1, <1>1, <2>p DEF MapsInv
    <3>3. CASE timed_out_map[m][q]
      BY <3>1, <3>2, <3>3
    <3>4. CASE ~timed_out_map[m][q]
      <4>1. m = n /\ q \in Silent(n)
        BY <3>1, <3>2, <3>4, <1>1, <2>p DEF PeerMaps
      <4>2. OlderThan(m, peer_map[m][q].timestamp, TimeoutThreshold)
        BY <4>1 DEF Silent
      <4>3. peer_map[m][q].timestamp \in Nat /\ clock[m] \in Nat
        BY <1>1, <3>2, <2>p, HeldInfo, DhtAssumption DEF TypeOK
      <4>4. Stale(m, peer_map[m][q].timestamp)
        BY <4>2, <4>3, DhtAssumption DEF OlderThan, Stale, Ahead
      <4> QED  BY <4>4, <3>1
    <3> QED  BY <3>3, <3>4
  <2>4. ASSUME NEW n \in Nodes, Restart(n)
        PROVE  Marked(m, q)
    <3>1. /\ peer_map' = [peer_map EXCEPT ![n] = [p \in {} |-> this_peer[n]]]
          /\ timed_out_map' = [timed_out_map EXCEPT ![n] = [p \in {} |-> FALSE]]
      BY <2>4 DEF Restart
    <3>2. m # n /\ peer_map'[m] = peer_map[m] /\ timed_out_map'[m] = timed_out_map[m]
      BY <3>1, <1>1, <2>p DEF PeerMaps
    <3> QED  BY <3>2, <1>1
  <2> HIDE DEF Marked
  <2> QED  BY <1>1, <2>1, <2>2, <2>3, <2>4, PeersMove
<1>2. ASSUME MapsInv', NEW n \in Nodes
      PROVE  /\ DOMAIN timed_out_map'[n] = DOMAIN peer_map'[n]
             /\ \A p \in DOMAIN peer_map'[n] : timed_out_map'[n][p] => p # n
  BY <1>2 DEF MapsInv
<1>3. TypeOK /\ DhtInv /\ (TypeOK /\ DhtInv)' /\ [Next]_vars =>
        [\A n \in Nodes :
           /\ DOMAIN timed_out_map'[n] = DOMAIN peer_map'[n]
           /\ \A p \in DOMAIN peer_map'[n] :
                timed_out_map'[n][p] =>
                   /\ p # n
                   /\ \/ /\ p \in DOMAIN peer_map[n]
                         /\ timed_out_map[n][p]
                         /\ peer_map'[n][p].timestamp = peer_map[n][p].timestamp
                      \/ Stale(n, peer_map'[n][p].timestamp)]_vars
  BY <1>1, <1>2 DEF DhtInv
<1> QED  BY <1>3, DhtInvariant, PTL DEF Spec, TimeoutBookkeeping

(* THEOREM. While a node runs, add_peer never moves a peer it holds to      *)
(* another location.                                                        *)
THEOREM DhtLocationsStay == Spec => LocationsStay
<1> DEFINE Stays(n) ==
      this_peer'[n].timestamp = this_peer[n].timestamp =>
         \A p \in DOMAIN peer_map[n] : peer_map'[n][p].location = peer_map[n][p].location
<1>1. ASSUME TypeOK, DhtInv, Next, NEW m \in Nodes
      PROVE  Stays(m)
  <2>1. CASE UNCHANGED peer_map
    BY <2>1
  <2>i. ASSUME NEW n \in Nodes, InternalProcess(n)
        PROVE  UNCHANGED peer_map
    BY <2>i DEF InternalProcess
  <2>2. ASSUME NEW n \in Nodes, NEW d \in PeerData, AddPeer(n, d)
        PROVE  Stays(m)
    <3>1. PeerMaps /\ MapsInv
      BY <1>1 DEF TypeOK, PeerMaps, DhtInv
    <3>2. /\ \A k \in Nodes \ {n} : peer_map'[k] = peer_map[k]
          /\ \A p \in DOMAIN peer_map[n] \ {d.name} : peer_map'[n][p] = peer_map[n][p]
          /\ d.name \in DOMAIN peer_map[n] =>
               peer_map'[n][d.name].location = peer_map[n][d.name].location
      BY <2>2, <3>1, AddPeerEffect, Zenon
    <3>3. CASE m # n
      BY <3>2, <3>3
    <3>4. ASSUME NEW p \in DOMAIN peer_map[n]
          PROVE  peer_map'[n][p].location = peer_map[n][p].location
      <4>1. CASE p = d.name
        BY <3>2, <3>4, <4>1
      <4>2. CASE p # d.name
        BY <3>2, <3>4, <4>2
      <4> QED  BY <4>1, <4>2
    <3> QED  BY <3>3, <3>4
  <2>3. ASSUME NEW n \in Nodes, Restart(n)
        PROVE  Stays(m)
    <3>1. CASE m = n
      <4>1. this_peer'[n].timestamp = clock[n] /\ clock[n] > this_peer[n].timestamp
        BY <1>1, <2>3 DEF Restart, TypeOK
      <4>2. this_peer[n].timestamp \in Nat /\ clock[n] \in Nat
        BY <1>1, DhtAssumption DEF TypeOK, PeerInfo
      <4>3. this_peer'[n].timestamp # this_peer[n].timestamp
        BY <4>1, <4>2
      <4> QED  BY <3>1, <4>3
    <3>2. CASE m # n
      <4>1. peer_map'[m] = peer_map[m]
        BY <1>1, <2>3, <3>2 DEF Restart, TypeOK
      <4> QED  BY <4>1
    <3> QED  BY <3>1, <3>2
  <2> QED
    <3>1. \/ UNCHANGED peer_map
          \/ \E n \in Nodes, d \in PeerData : AddPeer(n, d)
          \/ \E n \in Nodes : Restart(n)
      BY <1>1, <2>i, PeersMove
    <3> HIDE DEF Stays
    <3> QED  BY <3>1, <2>1, <2>2, <2>3
<1>2. TypeOK /\ DhtInv /\ [Next]_vars => [\A n \in Nodes : Stays(n)]_vars
  BY <1>1
<1> QED  BY <1>2, DhtInvariant, PTL DEF Spec, LocationsStay

-----------------------------------------------------------------------------
(* Mdns: the hosts of a local network.                                      *)

-----------------------------------------------------------------------------
(* A packet.                                                                *)
LanMessage ==
    [questions : [NetworkIds -> Nat], answers : Answers, sections : Nat \ {0}]
LanPacket == [from : Hosts, msg : LanMessage]

(* A cache has at most two records of a url, and then a dead and a new one. *)
DeadAndNew(records) ==
    \A r, s \in records : r.url = s.url /\ r # s => {r.ttl, s.ttl} = {0, DEFAULT_TTL}

(* What discover() may return.                                              *)
Live(records) ==
    \A r, s \in records : r.ttl > 0 /\ (r.url = s.url => r = s)

(* Own records are new or released, which is what the wire carries.         *)
LanSocketInv ==
    /\ own \in [Hosts -> Answers]
    /\ socket \in [Hosts -> Seq(LanPacket)]

LanCacheInv ==
    /\ cache \in [Hosts -> MapRecord]
    /\ \A n \in Hosts, id \in NetworkIds : DeadAndNew(cache[n][id])

LanFlagsInv ==
    /\ phase \in [Hosts -> {"idle", "responder"}]
    /\ down \in [Hosts -> BOOLEAN]
    /\ result \in [Hosts -> {"none", "ok", "err"}]
    /\ calls \in 0 .. MaxCalls /\ queries \in 0 .. MaxQueries /\ faults \in 0 .. MaxFaults

LanReturnInv ==
    \A n \in Hosts : phase[n] = "idle" /\ result[n] = "ok" =>
        \A id \in NetworkIds : Live(cache[n][id])

LanInv == LanSocketInv /\ LanCacheInv /\ LanFlagsInv /\ LanReturnInv

-----------------------------------------------------------------------------
(* Finite sets, and what the assumption on the constants says of them.      *)
LEMMA ImageIsFinite ==
    ASSUME NEW S, IsFiniteSet(S), NEW f, DOMAIN f = S
    PROVE  IsFiniteSet({f[x] : x \in S})
<1> DEFINE T == {f[x] : x \in S}
<1> DEFINE g == [x \in S |-> f[x]]
<1>1. g \in [S -> T]
  OBVIOUS
<1>2. \A t \in T : \E x \in S : g[x] = t
  OBVIOUS
<1>3. g \in Surjection(S, T)
  BY <1>1, <1>2 DEF Surjection
<1> HIDE DEF g, T
<1>4. IsFiniteSet(T)
  BY <1>3, FS_Surjection
<1> QED
  BY <1>4 DEF T

LEMMA LanConstants ==
    /\ DEFAULT_TTL \in Nat /\ DEFAULT_TTL > 1
    /\ IsFiniteSet(NetworkIds) /\ IsFiniteSet(Urls)
    /\ OwnRecord \in [Hosts -> [networkid : NetworkIds, urls : SUBSET Urls]]
    /\ Inserts \subseteq [node : Hosts, networkid : NetworkIds, urls : SUBSET Urls]
    /\ READ_BUF_SIZE \in Nat \ {0}
    /\ Copies \in Nat /\ ReleaseCopies \in Nat /\ MaxCalls \in Nat
    /\ MaxQueries \in Nat /\ MaxFaults \in Nat /\ MaxSocket \in Nat
BY MdnsAssumption

(* Sets of records, and the sets of sections made of them, are finite.      *)
LEMMA RecordsAreFinite ==
    ASSUME NEW R \in SUBSET Record
    PROVE  IsFiniteSet(R)
<1> DEFINE f == [x \in Urls \X (0 .. DEFAULT_TTL) |-> [url |-> x[1], ttl |-> x[2]]]
<1>1. IsFiniteSet(Urls \X (0 .. DEFAULT_TTL))
  <2>1. IsFiniteSet(0 .. DEFAULT_TTL)
    <3>1. 0 \in Int /\ DEFAULT_TTL \in Int
      BY LanConstants
    <3> QED
      BY <3>1, FS_Interval, Zenon
  <2> QED
    BY <2>1, LanConstants, FS_Product, Zenon
<1>2. IsFiniteSet({f[x] : x \in Urls \X (0 .. DEFAULT_TTL)})
  <2>1. DOMAIN f = Urls \X (0 .. DEFAULT_TTL)
    OBVIOUS
  <2> HIDE DEF f
  <2> QED
    BY <1>1, <2>1, ImageIsFinite
<1>3. R \subseteq {f[x] : x \in Urls \X (0 .. DEFAULT_TTL)}
  <2>1. ASSUME NEW r \in R PROVE r \in {f[x] : x \in Urls \X (0 .. DEFAULT_TTL)}
    <3>1. r = [url |-> r.url, ttl |-> r.ttl] /\ r.url \in Urls /\ r.ttl \in 0 .. DEFAULT_TTL
      BY DEF Record
    <3>2. <<r.url, r.ttl>> \in Urls \X (0 .. DEFAULT_TTL) /\ f[<<r.url, r.ttl>>] = r
      BY <3>1
    <3> HIDE DEF f
    <3> QED
      BY <3>2
  <2> QED
    BY <2>1
<1> HIDE DEF f
<1> QED
  BY <1>2, <1>3, FS_Subset

LEMMA SectionsAreCounted ==
    ASSUME NEW mine \in MapRecord, NEW asked \in [NetworkIds -> Nat]
    PROVE  /\ Cardinality(Sections(mine, asked)) \in Nat
           /\ Cardinality(UNION {{id} \X mine[id] : id \in NetworkIds}) \in Nat
           /\ \A id \in NetworkIds : Cardinality(mine[id]) \in Nat
<1>1. \A id \in NetworkIds : IsFiniteSet(mine[id]) /\ IsFiniteSet({id})
  BY RecordsAreFinite, FS_Singleton DEF MapRecord
<1>2. \A id \in NetworkIds : IsFiniteSet(1 .. asked[id])
  BY FS_Interval
<1>3. IsFiniteSet(UNION {{id} \X ((1 .. asked[id]) \X mine[id]) : id \in NetworkIds})
  <2> DEFINE f == [id \in NetworkIds |-> {id} \X ((1 .. asked[id]) \X mine[id])]
  <2>1. \A id \in NetworkIds : IsFiniteSet(f[id])
    <3>1. ASSUME NEW id \in NetworkIds PROVE IsFiniteSet({id} \X ((1 .. asked[id]) \X mine[id]))
      BY <1>1, <1>2, FS_Product, Zenon
    <3> QED
      BY <3>1
  <2>2. DOMAIN f = NetworkIds /\ {f[id] : id \in NetworkIds}
                                   = {{id} \X ((1 .. asked[id]) \X mine[id]) : id \in NetworkIds}
    OBVIOUS
  <2> HIDE DEF f
  <2>3. IsFiniteSet({f[id] : id \in NetworkIds})
    BY <2>2, ImageIsFinite, LanConstants
  <2>4. \A T \in {f[id] : id \in NetworkIds} : IsFiniteSet(T)
    BY <2>1, Zenon
  <2> QED
    BY <2>2, <2>3, <2>4, FS_UNION, Zenon
<1>4. IsFiniteSet(UNION {{id} \X mine[id] : id \in NetworkIds})
  <2> DEFINE f == [id \in NetworkIds |-> {id} \X mine[id]]
  <2>1. \A id \in NetworkIds : IsFiniteSet(f[id])
    BY <1>1, FS_Product
  <2>2. DOMAIN f = NetworkIds
          /\ {f[id] : id \in NetworkIds} = {{id} \X mine[id] : id \in NetworkIds}
    OBVIOUS
  <2> HIDE DEF f
  <2>3. IsFiniteSet({f[id] : id \in NetworkIds})
    BY <2>2, ImageIsFinite, LanConstants
  <2>4. \A T \in {f[id] : id \in NetworkIds} : IsFiniteSet(T)
    BY <2>1, Zenon
  <2> QED
    BY <2>2, <2>3, <2>4, FS_UNION, Zenon
<1> QED
  BY <1>1, <1>3, <1>4, FS_CardinalityType DEF Sections

-----------------------------------------------------------------------------
(* The maps of records.                                                     *)

(* update() keeps every url, although it drops records.                     *)
LEMMA UpdateKeepsUrls ==
    ASSUME NEW cached \in SUBSET Record, NEW other \in SUBSET Record,
           DeadAndNew(cached), \A r \in other : r.ttl \in {0, DEFAULT_TTL}
    PROVE  UrlsOf(cached) \subseteq UrlsOf(UpdateRecords(cached, other))
<1> DEFINE all == cached \cup other
           OfUrl(url) == {r \in all : r.url = url}
           Lone(url) == ~ \E r \in cached, s \in other : r.url = url /\ s.url = url
           Kept(url) == IF Lone(url) /\ Cardinality(OfUrl(url)) = 1 THEN OfUrl(url)
                        ELSE {r \in OfUrl(url) : r.ttl \in {0, DEFAULT_TTL}}
<1>1. SUFFICES ASSUME NEW c \in cached
               PROVE  \E r \in UpdateRecords(cached, other) : r.url = c.url
  BY DEF UrlsOf
<1>2. UpdateRecords(cached, other) = UNION {Kept(url) : url \in UrlsOf(all)}
  BY DEF UpdateRecords
<1>3. \E r \in Kept(c.url) : r.url = c.url
  <2>1. CASE Lone(c.url) /\ Cardinality(OfUrl(c.url)) = 1
    BY <2>1
  <2>2. CASE ~ Lone(c.url)
    BY <2>2
  <2>3. CASE Lone(c.url) /\ Cardinality(OfUrl(c.url)) # 1
    <3>1. OfUrl(c.url) # {c}
      BY <2>3, FS_Singleton
    <3>2. PICK s \in OfUrl(c.url) : s # c
      BY <3>1
    <3>3. s \in cached
      BY <2>3, <3>2
    <3>4. c.ttl \in {0, DEFAULT_TTL}
      BY <3>2, <3>3 DEF DeadAndNew
    <3> QED
      BY <2>3, <3>4
  <2> QED
    BY <2>1, <2>2, <2>3
<1>4. c.url \in UrlsOf(all)
  BY DEF UrlsOf
<1> HIDE DEF Kept, all
<1> QED
  BY <1>2, <1>3, <1>4

LEMMA LiveIsDeadAndNew ==
    ASSUME NEW records, Live(records) PROVE DeadAndNew(records)
  BY DEF Live, DeadAndNew

(* Of several records of one url update() leaves a dead and a new one.      *)
LEMMA UpdateKeepsDeadAndNew ==
    ASSUME NEW cached \in SUBSET Record, NEW other \in SUBSET Record,
           \A r, s \in other : r.url = s.url => r = s
    PROVE  /\ UpdateRecords(cached, other) \in SUBSET Record
           /\ DeadAndNew(UpdateRecords(cached, other))
<1> DEFINE all == cached \cup other
           OfUrl(url) == {r \in all : r.url = url}
           Lone(url) == ~ \E r \in cached, s \in other : r.url = url /\ s.url = url
           Kept(url) == IF Lone(url) /\ Cardinality(OfUrl(url)) = 1 THEN OfUrl(url)
                        ELSE {r \in OfUrl(url) : r.ttl \in {0, DEFAULT_TTL}}
           updated == UpdateRecords(cached, other)
<1>1. CASE cached = {}
  BY <1>1 DEF UpdateRecords, DeadAndNew
<1>2. CASE cached # {}
  <2>1. updated = UNION {Kept(url) : url \in UrlsOf(all)}
    BY <1>2 DEF UpdateRecords
  <2>2. \A r \in updated : r \in Record /\ r \in Kept(r.url)
    <3>1. \A url : \A r \in Kept(url) : r \in Record /\ r.url = url
      OBVIOUS
    <3> HIDE DEF Kept, all
    <3>2. \A r \in updated : \E url : r \in Kept(url)
      BY <2>1, Zenon
    <3> QED
      BY <3>1, <3>2
  <2>3. ASSUME NEW r \in updated, NEW s \in updated, r.url = s.url, r # s
        PROVE  {r.ttl, s.ttl} = {0, DEFAULT_TTL}
    <3>1. r \in OfUrl(r.url) /\ s \in OfUrl(r.url)
      BY <2>2, <2>3
    <3>2. Cardinality(OfUrl(r.url)) # 1
      <4>1. OfUrl(r.url) \in SUBSET Record
        OBVIOUS
      <4>2. IsFiniteSet(OfUrl(r.url))
        BY <4>1, RecordsAreFinite
      <4> HIDE DEF OfUrl
      <4>3. ~ \E x : OfUrl(r.url) = {x}
        BY <2>3, <3>1
      <4> QED
        BY <4>2, <4>3, FS_Singleton
    <3>3. r.ttl \in {0, DEFAULT_TTL} /\ s.ttl \in {0, DEFAULT_TTL}
      BY <2>2, <2>3, <3>2
    <3>4. r.ttl # s.ttl
      <4>1. r \in Record /\ s \in Record
        BY <2>2
      <4> QED
        BY <2>3, <4>1 DEF Record
    <3> QED
      BY <3>3, <3>4
  <2> QED
    BY <2>2, <2>3 DEF DeadAndNew
<1> QED
  BY <1>1, <1>2

(* A packet that is parsed has one record per url, dead or new.             *)
LEMMA ParsedRecords ==
    ASSUME NEW packet \in LanPacket, NEW id \in NetworkIds
    PROVE  LET records == FromDnsMessage(packet.msg)[id]
           IN  /\ records \in SUBSET Record
               /\ \A r \in records : r.ttl \in {0, DEFAULT_TTL}
               /\ \A r, s \in records : r.url = s.url => r = s
<1> DEFINE answers == packet.msg.answers[id]
           records == {r \in answers : \A s \in answers : s.url = r.url => r.ttl <= s.ttl}
<1>1. answers \in SUBSET [url : Urls, ttl : {0, DEFAULT_TTL}]
  BY DEF LanPacket, LanMessage, Answers
<1>2. FromDnsMessage(packet.msg)[id] = records
  BY DEF FromDnsMessage
<1>3. \A r \in records : r \in Record /\ r.ttl \in {0, DEFAULT_TTL}
  BY <1>1, LanConstants DEF Record
<1>4. \A r, s \in records : r.url = s.url => r.ttl = s.ttl
  BY <1>1, LanConstants
<1>5. \A r, s \in records : r.url = s.url => r = s
  BY <1>1, <1>4
<1> QED
  BY <1>2, <1>3, <1>5

(* Ageing keeps one record of a url, and prunes the dead one.               *)
LEMMA AgedIsLive ==
    ASSUME LanCacheInv, NEW n \in Hosts, NEW id \in NetworkIds
    PROVE  /\ Aged(n)[id] \in SUBSET Record
           /\ Live(Aged(n)[id])
<1> DEFINE Older(s) == IF s.url \notin OwnUrls(n) /\ s.ttl > 0
                       THEN NewRecord(s.url, s.ttl - 1) ELSE s
<1>1. cache[n][id] \in SUBSET Record /\ DeadAndNew(cache[n][id])
  BY DEF LanCacheInv, MapRecord
<1>2. \A s \in Record : Older(s) \in Record /\ Older(s).url = s.url
                              /\ Older(s).ttl <= s.ttl /\ s.ttl \in 0 .. DEFAULT_TTL
                              /\ Older(s).ttl \in 0 .. DEFAULT_TTL
  BY LanConstants DEF Record, NewRecord
<1>3. \A r : r \in Aged(n)[id] <=> r.ttl # 0 /\ \E s \in cache[n][id] : r = Older(s)
  BY DEF Aged
<1> HIDE DEF Older
<1>4. \A r \in Aged(n)[id] : r \in Record /\ r.ttl > 0
  BY <1>1, <1>2, <1>3, LanConstants
<1>5. ASSUME NEW r \in Aged(n)[id], NEW s \in Aged(n)[id], r.url = s.url
      PROVE  r = s
  <2>1. PICK a \in cache[n][id] : r = Older(a) /\ r.ttl # 0
    BY <1>3
  <2>2. PICK b \in cache[n][id] : s = Older(b) /\ s.ttl # 0
    BY <1>3
  <2>3. a.url = b.url /\ a.ttl # 0 /\ b.ttl # 0
    BY <1>1, <1>2, <1>5, <2>1, <2>2, LanConstants
  <2>4. a = b
    BY <1>1, <2>3 DEF DeadAndNew
  <2> QED
    BY <2>1, <2>2, <2>4
<1> QED
  BY <1>4, <1>5 DEF Live

-----------------------------------------------------------------------------
(* What is sent.                                                            *)

LEMMA AnswersAreRecords ==
    Answers \subseteq MapRecord
BY LanConstants DEF Answers, MapRecord, Record

LEMMA RepeatedMessage ==
    ASSUME NEW msg, NEW k \in Nat, msg.questions \in [NetworkIds -> Nat],
           msg.answers \in Answers, msg.sections \in Nat,
           msg = DnsMessage(msg.questions, msg.answers, msg.sections)
    PROVE  Messages(msg, k) \in Seq(LanMessage)
<1>1. CASE msg.sections = 0
  BY <1>1 DEF Messages, IsEmpty
<1>2. CASE msg.sections # 0
  <2>1. msg \in LanMessage
    BY <1>2 DEF LanMessage, DnsMessage
  <2>2. [i \in 1 .. k |-> msg] \in Seq(LanMessage)
    BY <2>1
  <2> QED
    BY <1>2, <2>2 DEF Messages, IsEmpty
<1> QED
  BY <1>1, <1>2

LEMMA ResponsesAreMessages ==
    ASSUME NEW mine \in Answers, NEW asked \in [NetworkIds -> Nat],
           NEW k \in Nat
    PROVE  Messages(ResponseMessage(mine, asked), k) \in Seq(LanMessage)
<1> DEFINE answers == [id \in NetworkIds |-> IF asked[id] > 0 THEN mine[id] ELSE {}]
           sections == Cardinality(Sections(mine, asked))
           msg == DnsMessage(NoQuestions, answers, sections)
<1>1. answers \in Answers
  BY DEF Answers
<1>2. sections \in Nat
  BY AnswersAreRecords, SectionsAreCounted
<1>3. NoQuestions \in [NetworkIds -> Nat]
  BY DEF NoQuestions
<1>4. msg = ResponseMessage(mine, asked)
  BY DEF ResponseMessage
<1> HIDE DEF answers, sections
<1>5. msg.questions = NoQuestions /\ msg.answers = answers /\ msg.sections = sections
  BY DEF DnsMessage
<1> HIDE DEF msg
<1>6. msg = DnsMessage(msg.questions, msg.answers, msg.sections)
  BY <1>5 DEF msg
<1> QED
  BY <1>1, <1>2, <1>3, <1>4, <1>5, <1>6, RepeatedMessage

LEMMA AnnouncementsAreMessages ==
    ASSUME NEW mine \in Answers, NEW k \in Nat
    PROVE  Messages(Announcement(mine), k) \in Seq(LanMessage)
BY ResponsesAreMessages DEF Announcement

LEMMA QueriesAreMessages ==
    ASSUME LanSocketInv, NEW n \in Hosts, NEW k \in Nat
    PROVE  Messages(QueryMessage(n), k) \in Seq(LanMessage)
<1> DEFINE questions == [id \in NetworkIds |-> Cardinality(own[n][id])]
           sections == Cardinality(UNION {{id} \X own[n][id] : id \in NetworkIds})
           msg == DnsMessage(questions, EmptyMap, sections)
<1>1. own[n] \in MapRecord
  BY AnswersAreRecords DEF LanSocketInv
<1>2. PICK zero \in [NetworkIds -> Nat] : TRUE
  <2>1. [id \in NetworkIds |-> 0] \in [NetworkIds -> Nat]
    OBVIOUS
  <2> QED
    BY <2>1
<1>3. sections \in Nat /\ \A id \in NetworkIds : Cardinality(own[n][id]) \in Nat
  BY <1>1, <1>2, SectionsAreCounted, Zenon
<1>4. questions \in [NetworkIds -> Nat]
  BY <1>3
<1>5. EmptyMap \in Answers
  BY DEF EmptyMap, Answers
<1>6. msg = QueryMessage(n)
  BY DEF QueryMessage
<1> HIDE DEF questions, sections
<1>7. msg.questions = questions /\ msg.answers = EmptyMap /\ msg.sections = sections
  BY DEF DnsMessage
<1>8. msg = DnsMessage(msg.questions, msg.answers, msg.sections)
  BY <1>7
<1> HIDE DEF msg
<1> QED
  BY <1>3, <1>4, <1>5, <1>6, <1>7, <1>8, RepeatedMessage

LEMMA BufferedPackets ==
    ASSUME NEW queue \in Seq(LanPacket), NEW packets \in Seq(LanPacket)
    PROVE  Buffered(queue, packets) \in Seq(LanPacket)
<1> DEFINE room == MaxSocket - Len(queue)
           fits == IF Len(packets) < room THEN Len(packets) ELSE room
<1>1. fits \in Int /\ fits <= Len(packets)
  BY LanConstants
<1> HIDE DEF fits
<1>2. SubSeq(packets, 1, fits) \in Seq(LanPacket)
  BY <1>1
<1>3. queue \o SubSeq(packets, 1, fits) \in Seq(LanPacket)
  BY <1>2
<1> QED
  BY <1>3 DEF Buffered, fits

LEMMA BroadcastPackets ==
    ASSUME NEW n \in Hosts, NEW sockets \in [Hosts -> Seq(LanPacket)],
           NEW msgs \in Seq(LanMessage)
    PROVE  Broadcast(n, sockets, msgs) \in [Hosts -> Seq(LanPacket)]
<1> DEFINE packets == [i \in 1 .. Len(msgs) |-> Packet(n, msgs[i])]
<1>1. \A i \in 1 .. Len(msgs) : Packet(n, msgs[i]) \in LanPacket
  BY DEF Packet, LanPacket
<1>2. packets \in Seq(LanPacket)
  BY <1>1
<1> HIDE DEF packets
<1>3. \A m \in Hosts : Buffered(sockets[m], packets) \in Seq(LanPacket)
  BY <1>2, BufferedPackets
<1> QED
  BY <1>3 DEF Broadcast, packets

-----------------------------------------------------------------------------
(* The steps.                                                               *)

LEMMA LanStart ==
    ASSUME LanInit
    PROVE  LanInv
<1>1. LanSocketInv
  <2>1. \A n \in Hosts : OwnRecords(OwnRecord[n].urls) \in
                            SUBSET [url : Urls, ttl : {0, DEFAULT_TTL}]
    BY LanConstants DEF OwnRecords, NewRecord
  <2>2. own \in [Hosts -> Answers]
    BY <2>1, LanConstants DEF LanInit, EmptyMap, Answers
  <2>3. socket \in [Hosts -> Seq(LanPacket)]
    <3>1. <<>> \in Seq(LanPacket)
      OBVIOUS
    <3>2. socket = [n \in Hosts |-> <<>>]
      BY DEF LanInit
    <3> QED
      BY <3>1, <3>2
  <2> QED
    BY <2>2, <2>3 DEF LanSocketInv
<1>2. LanCacheInv
  BY DEF LanInit, LanCacheInv, DeadAndNew, EmptyMap, MapRecord
<1>3. LanFlagsInv
  BY LanConstants DEF LanInit, LanFlagsInv
<1>4. LanReturnInv
  BY DEF LanInit, LanReturnInv
<1> QED
  BY <1>1, <1>2, <1>3, <1>4 DEF LanInv

(* The owner's calls leave the cache alone, or flush it.                    *)
LEMMA LanCalls ==
    ASSUME LanInv, NEW n \in Hosts,
           \/ Advertise(n) \/ Release(n) \/ Flush(n) \/ InsertOwnRecord(n)
    PROVE  LanInv'
<1>1. LanSocketInv /\ LanCacheInv /\ LanFlagsInv /\ LanReturnInv
  BY DEF LanInv
<1>2. LanFlagsInv' /\ UNCHANGED <<phase, result>>
  <2>1. calls' \in 0 .. MaxCalls /\ UNCHANGED <<phase, down, result, queries, faults>>
    BY <1>1, LanConstants DEF LanFlagsInv, Advertise, Release, Flush,
                              InsertOwnRecord, Call
  <2> QED
    BY <1>1, <2>1 DEF LanFlagsInv
<1>3. CASE Advertise(n)
  <2>1. Messages(QueryMessage(n), Copies)
          \o Messages(Announcement(own[n]), Copies) \in Seq(LanMessage)
    <3>1. own[n] \in Answers
      BY <1>1 DEF LanSocketInv
    <3>2. /\ Messages(QueryMessage(n), Copies) \in Seq(LanMessage)
          /\ Messages(Announcement(own[n]), Copies) \in Seq(LanMessage)
      BY <1>1, <3>1, LanConstants, QueriesAreMessages, AnnouncementsAreMessages
    <3> QED
      BY <3>2
  <2>2. socket' \in [Hosts -> Seq(LanPacket)]
    BY <1>1, <1>3, <2>1, BroadcastPackets DEF Advertise, LanSocketInv
  <2> QED
    BY <1>1, <1>2, <1>3, <2>2
       DEF Advertise, LanInv, LanSocketInv, LanCacheInv, LanReturnInv
<1>4. CASE Release(n)
  <2>1. own' \in [Hosts -> Answers]
    BY <1>1, <1>4, LanConstants DEF Release, LanSocketInv, Answers, NewRecord
  <2>2. own'[n] \in Answers
    BY <2>1
  <2>3. Messages(Announcement(own'[n]), ReleaseCopies) \in Seq(LanMessage)
    BY <2>2, LanConstants, AnnouncementsAreMessages
  <2>4. socket' \in [Hosts -> Seq(LanPacket)]
    BY <1>1, <1>4, <2>3, BroadcastPackets DEF Release, LanSocketInv
  <2> QED
    BY <1>1, <1>2, <1>4, <2>1, <2>4
       DEF Release, LanInv, LanSocketInv, LanCacheInv, LanReturnInv
<1>5. CASE Flush(n)
  <2>1. /\ cache' \in [Hosts -> MapRecord]
        /\ \A m \in Hosts : cache'[m] = IF m = n THEN EmptyMap ELSE cache[m]
        /\ \A id \in NetworkIds : EmptyMap[id] = {}
    BY <1>1, <1>5 DEF Flush, EmptyMap, MapRecord, LanCacheInv
  <2>2. LanCacheInv'
    BY <1>1, <2>1 DEF LanCacheInv, DeadAndNew
  <2>3. LanReturnInv'
    BY <1>1, <1>2, <2>1 DEF LanReturnInv, Live
  <2> QED
    BY <1>1, <1>2, <1>5, <2>2, <2>3 DEF Flush, LanInv, LanSocketInv
<1>6. CASE InsertOwnRecord(n)
  <2>1. PICK i \in Inserts : own' = [own EXCEPT ![n][i.networkid] = OwnRecords(i.urls)]
    BY <1>6 DEF InsertOwnRecord
  <2>2. i.networkid \in NetworkIds /\ i.urls \in SUBSET Urls
    BY LanConstants
  <2>3. OwnRecords(i.urls) \in SUBSET [url : Urls, ttl : {0, DEFAULT_TTL}]
    BY <2>2 DEF OwnRecords, NewRecord
  <2>4. own' \in [Hosts -> Answers]
    BY <1>1, <2>1, <2>2, <2>3 DEF LanSocketInv, Answers
  <2> QED
    BY <1>1, <1>2, <1>6, <2>4
       DEF InsertOwnRecord, LanInv, LanSocketInv, LanCacheInv, LanReturnInv
<1> QED
  BY <1>3, <1>4, <1>5, <1>6

(* The network's faults leave records and results alone.                    *)
LEMMA LanFaults ==
    ASSUME LanInv, NEW n \in Hosts,
           \/ Lose(n) \/ Foreign(n) \/ InterfaceFails(n) \/ InterfaceRecovers(n)
    PROVE  LanInv'
<1>1. LanSocketInv /\ LanCacheInv /\ LanFlagsInv /\ LanReturnInv
  BY DEF LanInv
<1>2. UNCHANGED <<own, cache, phase, result, calls, queries>>
  BY DEF Lose, Foreign, InterfaceFails, InterfaceRecovers
<1>3. faults' \in 0 .. MaxFaults /\ down' \in [Hosts -> BOOLEAN]
  <2>1. faults \in 0 .. MaxFaults /\ down \in [Hosts -> BOOLEAN]
    BY <1>1 DEF LanFlagsInv
  <2>2. UNCHANGED faults \/ Fault
    BY DEF Lose, Foreign, InterfaceFails, InterfaceRecovers
  <2>3. faults' \in 0 .. MaxFaults
    BY <2>1, <2>2, LanConstants DEF Fault
  <2>4. \/ UNCHANGED down
        \/ down' = [down EXCEPT ![n] = TRUE]
        \/ down' = [down EXCEPT ![n] = FALSE]
    BY DEF Lose, Foreign, InterfaceFails, InterfaceRecovers
  <2>5. down' \in [Hosts -> BOOLEAN]
    BY <2>1, <2>4
  <2> QED
    BY <2>3, <2>5
<1>4. socket' \in [Hosts -> Seq(LanPacket)]
  <2>1. CASE Lose(n)
    <3>1. PICK i \in 1 .. Len(socket[n]) :
              socket' = [socket EXCEPT ![n] = RemoveAt(socket[n], i)]
      BY <1>1, <2>1 DEF Lose, LanSocketInv
    <3>2. socket[n] \in Seq(LanPacket)
      BY <1>1 DEF LanSocketInv
    <3>3. SubSeq(socket[n], 1, i - 1) \in Seq(LanPacket)
      BY <3>2
    <3>4. SubSeq(socket[n], i + 1, Len(socket[n])) \in Seq(LanPacket)
      BY <3>2
    <3>5. RemoveAt(socket[n], i) \in Seq(LanPacket)
      BY <3>3, <3>4 DEF RemoveAt
    <3> QED
      BY <1>1, <3>1, <3>5 DEF LanSocketInv
  <2>2. CASE Foreign(n)
    <3> DEFINE msg == DnsMessage(NoQuestions, EmptyMap, READ_BUF_SIZE + 1)
    <3>1. msg \in LanMessage
      BY LanConstants DEF DnsMessage, LanMessage, NoQuestions, EmptyMap, Answers
    <3> HIDE DEF msg
    <3>2. <<Packet(n, msg)>> \in Seq(LanPacket)
      BY <3>1 DEF Packet, LanPacket
    <3>3. Buffered(socket[n], <<Packet(n, msg)>>) \in Seq(LanPacket)
      BY <1>1, <3>2, BufferedPackets DEF LanSocketInv
    <3> QED
      BY <1>1, <2>2, <3>3 DEF Foreign, LanSocketInv, msg
  <2>3. CASE UNCHANGED socket
    BY <1>1, <2>3 DEF LanSocketInv
  <2> QED
    BY <2>1, <2>2, <2>3 DEF InterfaceFails, InterfaceRecovers
<1> QED
  BY <1>1, <1>2, <1>3, <1>4 DEF LanInv, LanSocketInv, LanCacheInv, LanFlagsInv, LanReturnInv

(* The answers of a packet change the cache of the node that reads it: it   *)
(* stays in order, and no url is forgotten.                                 *)
LEMMA AnswersKeepUrls ==
    ASSUME LanCacheInv, NEW n \in Hosts, NEW packet \in LanPacket,
           HandleAnswers(n, packet.msg)
    PROVE  /\ LanCacheInv'
           /\ \A m \in Hosts : m # n => cache'[m] = cache[m]
           /\ \A id \in NetworkIds : UrlsOf(cache[n][id]) \subseteq UrlsOf(cache'[n][id])
<1> DEFINE heard(id) == FromDnsMessage(packet.msg)[id]
<1>1. cache' = [cache EXCEPT ![n] = [id \in NetworkIds |->
                  IF id \in OwnNetworkIds(n) /\ heard(id) # {}
                  THEN UpdateRecords(cache[n][id], heard(id)) ELSE cache[n][id]]]
  BY DEF HandleAnswers
<1>2. \A id \in NetworkIds : heard(id) \in SUBSET Record
                               /\ (\A r \in heard(id) : r.ttl \in {0, DEFAULT_TTL})
                               /\ (\A r, s \in heard(id) : r.url = s.url => r = s)
  BY ParsedRecords
<1>3. cache \in [Hosts -> MapRecord]
        /\ \A m \in Hosts, id \in NetworkIds : DeadAndNew(cache[m][id])
  BY DEF LanCacheInv
<1> HIDE DEF heard
<1>4. \A id \in NetworkIds : cache[n][id] \in SUBSET Record
  BY <1>3 DEF MapRecord
<1>5. \A id \in NetworkIds :
        /\ UpdateRecords(cache[n][id], heard(id)) \in SUBSET Record
        /\ DeadAndNew(UpdateRecords(cache[n][id], heard(id)))
        /\ UrlsOf(cache[n][id]) \subseteq
              UrlsOf(UpdateRecords(cache[n][id], heard(id)))
  BY <1>2, <1>3, <1>4, UpdateKeepsUrls, UpdateKeepsDeadAndNew
<1>6. \A m \in Hosts : m # n => cache'[m] = cache[m]
  BY <1>1, <1>3
<1>7. \A id \in NetworkIds : cache'[n][id] = cache[n][id]
                               \/ cache'[n][id] = UpdateRecords(cache[n][id], heard(id))
  BY <1>1, <1>3
<1>8. cache' \in [Hosts -> MapRecord]
  BY <1>1, <1>3, <1>4, <1>5 DEF MapRecord
<1>9. \A m \in Hosts, id \in NetworkIds : DeadAndNew(cache'[m][id])
  BY <1>3, <1>5, <1>6, <1>7
<1>10. LanCacheInv'
  BY <1>8, <1>9 DEF LanCacheInv
<1> QED
  BY <1>5, <1>6, <1>7, <1>10

(* A packet that does not parse, or asks, leaves the cache alone.           *)
LEMMA LanResponder ==
    ASSUME LanInv, NEW n \in Hosts, Responder(n)
    PROVE  /\ LanInv'
           /\ \A id \in NetworkIds : UrlsOf(cache[n][id]) \subseteq UrlsOf(cache'[n][id])
<1> DEFINE packet == Head(socket[n])
           rest == [socket EXCEPT ![n] = Tail(socket[n])]
<1>1. LanSocketInv /\ LanCacheInv /\ LanFlagsInv /\ LanReturnInv
  BY DEF LanInv
<1>2. packet \in LanPacket /\ rest \in [Hosts -> Seq(LanPacket)]
  <2>1. socket[n] \in Seq(LanPacket) /\ socket[n] # <<>>
    BY <1>1 DEF LanSocketInv, Responder
  <2>2. Tail(socket[n]) \in Seq(LanPacket) /\ Head(socket[n]) \in LanPacket
    BY <2>1
  <2> QED
    BY <1>1, <2>2 DEF LanSocketInv
<1>3. phase[n] = "responder" /\ UNCHANGED <<own, down, calls, queries, faults>>
  BY DEF Responder
<1>4. \/ Fails(n) /\ socket' = rest /\ UNCHANGED cache
      \/ HandleAnswers(n, packet.msg) /\ socket' = rest
      \/ HandleQuestions(n, packet.from, packet.msg, rest)
  BY DEF Responder
<1> HIDE DEF packet, rest
<1>5. LanFlagsInv' /\ (Fails(n) \/ UNCHANGED <<phase, result>>)
  <2>1. Fails(n) \/ UNCHANGED <<phase, result>>
    BY <1>4 DEF HandleAnswers, HandleQuestions
  <2> QED
    BY <1>1, <1>3, <2>1 DEF LanFlagsInv, Fails
<1>6. socket' \in [Hosts -> Seq(LanPacket)]
  <2>1. CASE socket' = rest
    BY <1>2, <2>1
  <2>2. CASE HandleQuestions(n, packet.from, packet.msg, rest) /\ socket' # rest
    <3> DEFINE response == ResponseMessage(own[n], packet.msg.questions)
               reply(direct) == [i \in 1 .. Len(Messages(response, direct)) |->
                                    Packet(n, response)]
               asker(direct) == [rest EXCEPT ![packet.from] =
                                    Buffered(rest[packet.from], reply(direct))]
    <3>1. own[n] \in Answers /\ packet.from \in Hosts
            /\ packet.msg.questions \in [NetworkIds -> Nat]
      BY <1>1, <1>2 DEF LanSocketInv, LanPacket, LanMessage
    <3>2. \A k \in Nat : Messages(response, k) \in Seq(LanMessage)
      BY <3>1, ResponsesAreMessages
    <3>3. PICK direct \in {0, 1} :
              socket' = Broadcast(n, asker(direct), Messages(response, 1))
      BY <1>2, <2>2, <3>1 DEF HandleQuestions
    <3>4. reply(direct) \in Seq(LanPacket)
      <4>1. CASE Messages(response, direct) = <<>>
        <5>1. Len(Messages(response, direct)) = 0
          BY <4>1
        <5> HIDE DEF response
        <5>2. reply(direct) = <<>>
          BY <5>1
        <5> QED
          BY <5>2
      <4>2. CASE Messages(response, direct) # <<>>
        <5>1. response \in LanMessage
          <6>1. Messages(response, direct) = [i \in 1 .. direct |-> response]
            BY <4>2 DEF Messages
          <6> HIDE DEF response
          <6>5. direct \in Nat
            BY <3>3
          <6>2. Messages(response, direct) \in Seq(LanMessage)
            BY <3>2, <6>5, Zenon
          <6>3. direct # 0
            BY <4>2, <6>1
          <6>4. 1 \in 1 .. direct
            BY <3>3, <6>3
          <6> QED
            BY <6>1, <6>2, <6>4
        <5> HIDE DEF response
        <5>2. Packet(n, response) \in LanPacket
          BY <5>1 DEF Packet, LanPacket
        <5>3. Len(Messages(response, direct)) \in Nat
          BY <3>2, <3>3
        <5> QED
          BY <5>2, <5>3
      <4> QED
        BY <4>1, <4>2
    <3> HIDE DEF reply
    <3>5. asker(direct) \in [Hosts -> Seq(LanPacket)]
      <4>1. Buffered(rest[packet.from], reply(direct)) \in Seq(LanPacket)
        BY <1>2, <3>1, <3>4, BufferedPackets
      <4> QED
        BY <1>2, <4>1
    <3> HIDE DEF asker, response
    <3> QED
      BY <3>2, <3>3, <3>5, BroadcastPackets
  <2> QED
    BY <1>4, <2>1, <2>2
<1>7. /\ LanCacheInv'
      /\ \A m \in Hosts : m # n => cache'[m] = cache[m]
      /\ \A id \in NetworkIds : UrlsOf(cache[n][id]) \subseteq UrlsOf(cache'[n][id])
  <2>1. CASE UNCHANGED cache
    <3>1. LanCacheInv'
      BY <1>1, <2>1 DEF LanCacheInv
    <3> QED
      BY <2>1, <3>1
  <2>2. CASE HandleAnswers(n, packet.msg)
    BY <1>1, <1>2, <2>2, AnswersKeepUrls
  <2> QED
    BY <1>4, <2>1, <2>2 DEF HandleQuestions
<1>8. LanReturnInv'
  <2>1. ASSUME NEW m \in Hosts, phase'[m] = "idle", result'[m] = "ok" PROVE m # n
    BY <1>1, <1>3, <1>5, <2>1 DEF LanFlagsInv, Fails
  <2>2. \A m \in Hosts : m # n => phase'[m] = phase[m] /\ result'[m] = result[m]
    BY <1>1, <1>5 DEF LanFlagsInv, Fails
  <2> QED
    BY <1>1, <1>7, <2>1, <2>2 DEF LanReturnInv
<1>9. LanSocketInv'
  BY <1>1, <1>3, <1>6 DEF LanSocketInv
<1> QED
  BY <1>5, <1>7, <1>8, <1>9 DEF LanInv

(* discover() begins, and ends with an aged cache or an error.              *)
LEMMA LanDiscover ==
    ASSUME LanInv, NEW n \in Hosts,
           StartDiscover(n) \/ \E due \in BOOLEAN : FinishDiscover(n, due)
    PROVE  LanInv'
<1>1. LanSocketInv /\ LanCacheInv /\ LanFlagsInv /\ LanReturnInv
  BY DEF LanInv
<1>2. CASE StartDiscover(n)
  <2>1. phase' = [phase EXCEPT ![n] = "responder"]
          /\ UNCHANGED <<own, cache, socket, down, result, calls, queries, faults>>
    BY <1>2 DEF StartDiscover
  <2>2. LanFlagsInv'
    BY <1>1, <2>1 DEF LanFlagsInv
  <2>3. \A m \in Hosts : phase'[m] = "idle" => phase[m] = "idle"
    BY <1>1, <2>1 DEF LanFlagsInv
  <2> QED
    BY <1>1, <2>1, <2>2, <2>3 DEF LanInv, LanSocketInv, LanCacheInv, LanReturnInv
<1>3. ASSUME NEW due \in BOOLEAN, FinishDiscover(n, due) PROVE LanInv'
  <2> DEFINE query == Messages(QueryMessage(n), IF due THEN Copies ELSE 0)
  <2>1. /\ UNCHANGED <<own, down, calls>>
        /\ queries' \in 0 .. MaxQueries
        /\ faults' \in 0 .. MaxFaults
    <3>1. queries \in 0 .. MaxQueries /\ faults \in 0 .. MaxFaults
      BY <1>1 DEF LanFlagsInv
    <3>2. UNCHANGED <<own, down, calls>> /\ (due => queries < MaxQueries)
            /\ queries' = IF due THEN queries + 1 ELSE queries
      BY <1>3 DEF FinishDiscover
    <3>3. UNCHANGED faults \/ Fault
      BY <1>3 DEF FinishDiscover
    <3>4. queries' \in 0 .. MaxQueries
      BY <3>1, <3>2, LanConstants
    <3>5. faults' \in 0 .. MaxFaults
      BY <3>1, <3>3, LanConstants DEF Fault
    <3> QED
      BY <3>2, <3>4, <3>5
  <2>2. \/ Fails(n) /\ UNCHANGED <<cache, socket>>
        \/ /\ socket' = Broadcast(n, socket, query)
           /\ cache' = [cache EXCEPT ![n] = Aged(n)]
           /\ phase' = [phase EXCEPT ![n] = "idle"]
           /\ result' = [result EXCEPT ![n] = "ok"]
    BY <1>3 DEF FinishDiscover
  <2>3. query \in Seq(LanMessage)
    <3>1. (IF due THEN Copies ELSE 0) \in Nat
      BY LanConstants
    <3> QED
      BY <1>1, <3>1, QueriesAreMessages
  <2> HIDE DEF query
  <2>4. LanSocketInv'
    <3>1. socket \in [Hosts -> Seq(LanPacket)]
      BY <1>1 DEF LanSocketInv
    <3>2. Broadcast(n, socket, query) \in [Hosts -> Seq(LanPacket)]
      BY <2>3, <3>1, BroadcastPackets
    <3>3. socket' \in [Hosts -> Seq(LanPacket)]
      BY <2>2, <3>1, <3>2, Zenon
    <3> QED
      BY <1>1, <2>1, <3>3 DEF LanSocketInv
  <2>5. LanFlagsInv'
    BY <1>1, <2>1, <2>2 DEF LanFlagsInv, Fails
  <2>6. CASE Fails(n) /\ UNCHANGED <<cache, socket>>
    <3>1. \A m \in Hosts : m # n => phase'[m] = phase[m] /\ result'[m] = result[m]
      BY <1>1, <2>6 DEF LanFlagsInv, Fails
    <3>2. result'[n] # "ok"
      BY <1>1, <2>6 DEF LanFlagsInv, Fails
    <3>3. LanReturnInv'
      BY <1>1, <2>6, <3>1, <3>2 DEF LanReturnInv
    <3> QED
      BY <1>1, <2>4, <2>5, <2>6, <3>3 DEF LanInv, LanCacheInv
  <2>7. CASE /\ cache' = [cache EXCEPT ![n] = Aged(n)]
             /\ phase' = [phase EXCEPT ![n] = "idle"]
             /\ result' = [result EXCEPT ![n] = "ok"]
    <3>1. \A m \in Hosts : m # n => cache'[m] = cache[m] /\ phase'[m] = phase[m]
                                      /\ result'[m] = result[m]
      BY <1>1, <2>7 DEF LanFlagsInv, LanCacheInv
    <3>2. cache'[n] = Aged(n)
      BY <1>1, <2>7 DEF LanCacheInv
    <3>3. \A id \in NetworkIds : Aged(n)[id] \in SUBSET Record /\ Live(Aged(n)[id])
      BY <1>1, AgedIsLive
    <3>4. LanReturnInv'
      BY <1>1, <3>1, <3>2, <3>3 DEF LanReturnInv
    <3>5. Aged(n) \in MapRecord
      <4>1. Aged(n) = [id \in NetworkIds |-> Aged(n)[id]]
        BY DEF Aged
      <4> QED
        BY <3>3, <4>1 DEF MapRecord
    <3>6. LanCacheInv'
      <4>1. cache' \in [Hosts -> MapRecord]
        BY <1>1, <2>7, <3>5 DEF LanCacheInv
      <4>2. \A m \in Hosts, id \in NetworkIds : DeadAndNew(cache'[m][id])
        <5>1. \A id \in NetworkIds : DeadAndNew(cache'[n][id])
          BY <3>2, <3>3, LiveIsDeadAndNew
        <5>2. \A m \in Hosts, id \in NetworkIds : m # n => DeadAndNew(cache'[m][id])
          BY <1>1, <3>1 DEF LanCacheInv
        <5> QED
          BY <5>1, <5>2
      <4> QED
        BY <4>1, <4>2 DEF LanCacheInv
    <3> QED
      BY <2>4, <2>5, <3>4, <3>6 DEF LanInv
  <2> QED
    BY <2>2, <2>6, <2>7
<1> QED
  BY <1>2, <1>3

LEMMA LanStep ==
    ASSUME LanInv, [LanNext]_lanVars
    PROVE  LanInv'
<1>1. CASE UNCHANGED lanVars
  BY <1>1 DEF lanVars, LanInv, LanSocketInv, LanCacheInv, LanFlagsInv, LanReturnInv
<1>2. CASE LanNext
  <2>1. PICK n \in Hosts :
           \/ Advertise(n) \/ Release(n) \/ Flush(n) \/ InsertOwnRecord(n)
           \/ Discover(n)
           \/ Lose(n) \/ Foreign(n) \/ InterfaceFails(n) \/ InterfaceRecovers(n)
    BY <1>2, Zenon DEF LanNext
  <2>2. CASE Discover(n)
    BY <2>2, LanResponder, LanDiscover DEF Discover
  <2> QED
    BY <2>1, <2>2, LanCalls, LanFaults
<1> QED
  BY <1>1, <1>2

LEMMA LanTypes ==
    ASSUME LanInv
    PROVE  ReturnedUrlsAreLive
<1>1. LanSocketInv /\ LanCacheInv /\ LanFlagsInv /\ LanReturnInv
  BY DEF LanInv
<1>2. own \in [Hosts -> MapRecord]
  BY <1>1, AnswersAreRecords DEF LanSocketInv
<1>3. \A n \in Hosts : \A i \in 1 .. Len(socket[n]) :
          /\ socket[n][i].from \in Hosts
          /\ socket[n][i].msg.questions \in [NetworkIds -> Nat]
          /\ socket[n][i].msg.answers \in Answers
          /\ socket[n][i].msg.sections \in Nat \ {0}
  <2>1. \A n \in Hosts : \A i \in 1 .. Len(socket[n]) : socket[n][i] \in LanPacket
    BY <1>1 DEF LanSocketInv
  <2> QED
    BY <2>1 DEF LanPacket, LanMessage
<1>4. LanTypeOK
  BY <1>1, <1>2, <1>3 DEF LanTypeOK, LanCacheInv, LanFlagsInv
<1> QED
  BY <1>1, <1>4 DEF ReturnedUrlsAreLive, LanReturnInv, Live

LEMMA LanInvariant == LanSpec => []LanInv
<1>1. LanInit => LanInv
  BY LanStart
<1>2. LanInv /\ [LanNext]_lanVars => LanInv'
  BY LanStep
<1> QED
  BY <1>1, <1>2, PTL DEF LanSpec

(* THEOREM. What a successful discover() returns names each url once and    *)
(* only living ones, for any hosts, networks, urls and times to live, and   *)
(* whatever the network does to packets.                                    *)
THEOREM LanReturns == LanSpec => []ReturnedUrlsAreLive
<1>1. LanInv => ReturnedUrlsAreLive
  BY LanTypes
<1> QED
  BY <1>1, LanInvariant, PTL

(* THEOREM. No packet makes a host forget a url: of the records of one url  *)
(* that update() meets one is at the start or the end of its life, so it    *)
(* stays.                                                                   *)
THEOREM LanRemembers == LanSpec => ReceivingNeverForgets
<1>1. LanInv /\ [LanNext]_lanVars =>
        [\A n \in Hosts : Responder(n) =>
           \A id \in NetworkIds :
              UrlsOf(cache[n][id]) \subseteq UrlsOf(cache'[n][id])]_lanVars
  BY LanResponder
<1> QED
  BY <1>1, LanInvariant, PTL DEF LanSpec, ReceivingNeverForgets

=============================================================================
