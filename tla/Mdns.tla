-------------------------------- MODULE Mdns --------------------------------
(***************************************************************************)
(* The mDNS discovery of lib3h (crates/mdns): every node answers, over UDP *)
(* multicast, for the records it owns and caches the records the others    *)
(* announce, with a time to live that each call of discover() counts down. *)
(*                                                                         *)
(* discover() is not atomic: `responder` empties the socket one packet at  *)
(* a time while packets keep arriving, and any `?` on the way out skips    *)
(* the ageing of the cache.  UDP may lose packets and an interface may be  *)
(* down, in which case every send of the node fails.                       *)
(*                                                                         *)
(* What every specification has carries the prefix Lan here, so that a     *)
(* module can extend both this one and MirrorDht.                          *)
(***************************************************************************)
EXTENDS Naturals, FiniteSets, Sequences, SequencesExt

CONSTANTS
    Hosts,            \* the hosts of the LAN, one MulticastDns each
    NetworkIds,       \* the names of the networks
    Urls,             \* the urls that records lead to
    OwnRecord,        \* the networkid and urls each builder is given
    Inserts,          \* the (node, networkid, urls) of later insert_own_record
    DEFAULT_TTL,      \* 255 in the code
    READ_BUF_SIZE,    \* the sections that fit in the read buffer
    Copies,           \* how often a query or an announcement is sent (3)
    ReleaseCopies,    \* how often a release is sent (4)
    MaxCalls,         \* bound: the calls of the owner besides discover()
    MaxQueries,       \* bound: the query intervals that pass
    MaxFaults,        \* bound: lost and foreign packets, failures to receive and
                      \* of the interface
    MaxSocket         \* bound: the packets a socket buffers; more are dropped

ASSUME MdnsAssumption ==
    /\ IsFiniteSet(NetworkIds) /\ IsFiniteSet(Urls)
    /\ DEFAULT_TTL \in Nat /\ DEFAULT_TTL > 1
    /\ READ_BUF_SIZE \in Nat \ {0}
    /\ {Copies, ReleaseCopies, MaxCalls, MaxQueries, MaxFaults, MaxSocket} \subseteq Nat
    /\ OwnRecord \in [Hosts -> [networkid : NetworkIds, urls : SUBSET Urls]]
    /\ Inserts \subseteq [node : Hosts, networkid : NetworkIds, urls : SUBSET Urls]
    /\ \A n \in Hosts : OwnRecord[n].urls # {}
    /\ \A i \in Inserts : i.urls # {}

VARIABLES
    own,       \* own_map_record: node -> networkid -> set of records
    cache,     \* map_record: the lookup table of the neighbours
    socket,    \* the packets waiting at recv_socket
    phase,     \* "idle", or "responder" inside discover()
    down,      \* the node's interface refuses to send
    result,    \* what the last discover() returned: "none", "ok", "err"
    calls,     \* calls made by the owners, for MaxCalls
    queries,   \* query intervals that passed, for MaxQueries
    faults     \* faults that happened, for MaxFaults

lanVars == <<own, cache, socket, phase, down, result, calls, queries, faults>>

-----------------------------------------------------------------------------
(* Records and maps of records.                                            *)

Record == [url : Urls, ttl : 0 .. DEFAULT_TTL]

\* A MapRecord: no key is the empty set, which every use here treats alike.
MapRecord == [NetworkIds -> SUBSET Record]

NewRecord(url, ttl) == [url |-> url, ttl |-> ttl]

EmptyMap == [id \in NetworkIds |-> {}]

\* own_record of the builder and insert_own_record: the records of the
\* networkid are replaced by fresh ones.
OwnRecords(urls) == {NewRecord(url, DEFAULT_TTL) : url \in urls}

UrlsOf(records) == {r.url : r \in records}

OwnUrls(n) == UNION {UrlsOf(own[n][id]) : id \in NetworkIds}

\* The keys of own_map_record: every key that is inserted comes with a url.
OwnNetworkIds(n) == {id \in NetworkIds : own[n][id] # {}}

\* Mutant: a dead record gives way like any other.
UpdateRecords_DropsDead(cached, other) ==
    LET all == cached \cup other
        OfUrl(url) == {r \in all : r.url = url}
    IN  IF cached = {} THEN other
        ELSE UNION {IF UrlsOf(cached) \cap UrlsOf(other) \cap {url} = {} THEN OfUrl(url)
                    ELSE {r \in OfUrl(url) : r.ttl = DEFAULT_TTL} : url \in UrlsOf(all)}

\* MapRecord::update for one networkid.  Among several records of one url the
\* first in sort order stays when its ttl is 0 and the last stays when its ttl
\* is 255: both, one or none of them.
UpdateRecords(cached, other) ==
    LET all == cached \cup other
        OfUrl(url) == {r \in all : r.url = url}
        Lone(url) == ~ \E r \in cached, s \in other : r.url = url /\ s.url = url
    IN  IF cached = {} THEN other
        ELSE UNION {IF Lone(url) /\ Cardinality(OfUrl(url)) = 1 THEN OfUrl(url)
                    ELSE {r \in OfUrl(url) : r.ttl \in {0, DEFAULT_TTL}}
                      : url \in UrlsOf(all)}

-----------------------------------------------------------------------------
(* DNS messages.  On the wire a message is a header with the two counts and *)
(* that many sections; what a packet carries and how many sections it has   *)
(* is all that tells packets apart.                                         *)

DnsMessage(questions, answers, sections) ==
    [questions |-> questions, answers |-> answers, sections |-> sections]

NoQuestions == [id \in NetworkIds |-> 0]

\* recv_from cuts a packet that is longer than the buffer, and from_raw reads as
\* many sections as the header counts and fails at the end of the bytes.
FromRawFails(msg) == msg.sections > READ_BUF_SIZE

\* MapRecord::from_dns_message: sorted, and of one url only the record with the
\* least ttl is kept.
FromDnsMessage(msg) ==
    [id \in NetworkIds |->
        {r \in msg.answers[id] : \A s \in msg.answers[id] : s.url = r.url => r.ttl <= s.ttl}]

\* to_dns_response_message: for every time a network is asked for, an answer for
\* every record of it.
Sections(mine, asked) ==
    UNION {{id} \X ((1 .. asked[id]) \X mine[id]) : id \in NetworkIds}

ResponseMessage(mine, asked) ==
    DnsMessage(NoQuestions,
               [id \in NetworkIds |-> IF asked[id] > 0 THEN mine[id] ELSE {}],
               Cardinality(Sections(mine, asked)))

\* announcing and release: the response about every own network.
Announcement(mine) == ResponseMessage(mine, [id \in NetworkIds |-> 1])

\* build_query_message: a question for every own record, naming its network.
QueryMessage(n) ==
    DnsMessage([id \in NetworkIds |-> Cardinality(own[n][id])], EmptyMap,
               Cardinality(UNION {{id} \X own[n][id] : id \in NetworkIds}))

IsEmpty(msg) == msg.sections = 0

-----------------------------------------------------------------------------
(* UDP: a full socket buffer drops what arrives (modelled from its use).   *)

Packet(from, msg) == [from |-> from, msg |-> msg]

Buffered(queue, packets) ==
    LET room == MaxSocket - Len(queue)
    IN  queue \o SubSeq(packets, 1, IF Len(packets) < room THEN Len(packets) ELSE room)

\* broadcast_message: every member of the group gets the packets, the sender
\* too, for multicast loops back.
Broadcast(n, sockets, msgs) ==
    [m \in Hosts |-> Buffered(sockets[m], [i \in 1 .. Len(msgs) |-> Packet(n, msgs[i])])]

\* A message without sections is None in the code and is not sent.
Messages(msg, k) == IF IsEmpty(msg) THEN << >> ELSE [i \in 1 .. k |-> msg]

-----------------------------------------------------------------------------
LanInit ==
    /\ own = [n \in Hosts |->
                [EmptyMap EXCEPT ![OwnRecord[n].networkid] = OwnRecords(OwnRecord[n].urls)]]
    /\ cache = [n \in Hosts |-> EmptyMap]
    /\ socket = [n \in Hosts |-> << >>]
    /\ phase = [n \in Hosts |-> "idle"]
    /\ down = [n \in Hosts |-> FALSE]
    /\ result = [n \in Hosts |-> "none"]
    /\ calls = 0
    /\ queries = 0
    /\ faults = 0

\* An owner's call, between two calls of discover().
Call(n) ==
    /\ phase[n] = "idle"
    /\ calls < MaxCalls
    /\ calls' = calls + 1

\* advertise: a query and an announcement of every own record.  When the
\* interface is down the query's `?` returns before the announcement.
Advertise(n) ==
    /\ Call(n)
    /\ socket' = IF down[n] THEN socket
                 ELSE Broadcast(n, socket, Messages(QueryMessage(n), Copies)
                                           \o Messages(Announcement(own[n]), Copies))
    /\ UNCHANGED <<own, cache, phase, down, result, queries, faults>>

\* release: the own records get ttl 0, whether or not the others can be told.
Release(n) ==
    /\ Call(n)
    /\ own' = [own EXCEPT ![n] = [id \in NetworkIds |-> {NewRecord(r.url, 0) : r \in own[n][id]}]]
    /\ socket' = IF down[n] THEN socket
                 ELSE Broadcast(n, socket, Messages(Announcement(own'[n]), ReleaseCopies))
    /\ UNCHANGED <<cache, phase, down, result, queries, faults>>

\* flush: forget every neighbour.
Flush(n) ==
    /\ Call(n)
    /\ cache' = [cache EXCEPT ![n] = EmptyMap]
    /\ UNCHANGED <<own, socket, phase, down, result, queries, faults>>

\* insert_own_record replaces the urls of one networkid.
InsertOwnRecord(n) ==
    /\ Call(n)
    /\ \E i \in Inserts :
          /\ i.node = n
          /\ own' = [own EXCEPT ![n][i.networkid] = OwnRecords(i.urls)]
    /\ UNCHANGED <<cache, socket, phase, down, result, queries, faults>>

\* discover() is called.
StartDiscover(n) ==
    /\ phase[n] = "idle"
    /\ phase' = [phase EXCEPT ![n] = "responder"]
    /\ UNCHANGED <<own, cache, socket, down, result, calls, queries, faults>>

\* discover() returns through a `?`: no ageing, no pruning.
Fails(n) ==
    /\ phase' = [phase EXCEPT ![n] = "idle"]
    /\ result' = [result EXCEPT ![n] = "err"]

\* The answers of a packet, for the networks of this node only.
HandleAnswers(n, msg) ==
    /\ cache' = [cache EXCEPT ![n] = [id \in NetworkIds |->
                    IF id \in OwnNetworkIds(n) /\ FromDnsMessage(msg)[id] # {}
                    THEN UpdateRecords(cache[n][id], FromDnsMessage(msg)[id])
                    ELSE cache[n][id]]]
    /\ UNCHANGED <<phase, result>>

\* The questions of a packet: the response goes to the asking socket, where it
\* may not arrive, and to everyone.
HandleQuestions(n, from, msg, sockets) ==
    LET response == ResponseMessage(own[n], msg.questions)
    IN  /\ UNCHANGED cache
        /\ IF ~ IsEmpty(response) /\ down[n]
           THEN Fails(n) /\ socket' = sockets
           ELSE /\ UNCHANGED <<phase, result>>
                /\ \E direct \in {0, 1} :
                     socket' = Broadcast(n, [sockets EXCEPT ![from] =
                                   Buffered(@, [i \in 1 .. Len(Messages(response, direct)) |->
                                                  Packet(n, response)])],
                                 Messages(response, 1))

\* One turn of the loop of `responder`.
Responder(n) ==
    /\ phase[n] = "responder"
    /\ socket[n] # << >>
    /\ LET msg == Head(socket[n]).msg
           rest == [socket EXCEPT ![n] = Tail(@)]
       IN  \/ /\ FromRawFails(msg)
              /\ Fails(n)
              /\ socket' = rest
              /\ UNCHANGED cache
           \/ /\ ~ FromRawFails(msg) /\ msg.answers # EmptyMap
              /\ HandleAnswers(n, msg)
              /\ socket' = rest
           \/ /\ ~ FromRawFails(msg) /\ msg.answers = EmptyMap
              /\ HandleQuestions(n, Head(socket[n]).from, msg, rest)
    /\ UNCHANGED <<own, down, calls, queries, faults>>

\* Mutant: the cache is pruned before it ages.
Aged_PrunesFirst(n) ==
    [id \in NetworkIds |->
        {IF s.url \notin OwnUrls(n) /\ s.ttl > 0 THEN NewRecord(s.url, s.ttl - 1) ELSE s
            : s \in {r \in cache[n][id] : r.ttl # 0}}]

\* Mutant: only a release ends a record.
Aged_Never(n) == [id \in NetworkIds |-> {r \in cache[n][id] : r.ttl # 0}]

\* update_ttl and prune_cache.
Aged(n) ==
    [id \in NetworkIds |->
        {r \in {IF s.url \notin OwnUrls(n) /\ s.ttl > 0 THEN NewRecord(s.url, s.ttl - 1) ELSE s
                  : s \in cache[n][id]} : r.ttl # 0}]

Fault == faults < MaxFaults /\ faults' = faults + 1

\* The socket is empty, or an empty datagram or an error of recv_from ends the
\* loop of `responder` before what waits: query when the interval is over
\* (`due`), then age and prune the cache and return the urls.  A query that
\* cannot be sent returns first.
FinishDiscover(n, due) ==
    /\ phase[n] = "responder"
    /\ IF socket[n] = << >> THEN UNCHANGED faults ELSE Fault
    /\ due => queries < MaxQueries
    /\ queries' = IF due THEN queries + 1 ELSE queries
    /\ LET query == Messages(QueryMessage(n), IF due THEN Copies ELSE 0)
       IN  \/ /\ query # << >> /\ down[n]
              /\ Fails(n)
              /\ UNCHANGED <<cache, socket>>
           \/ /\ ~ (query # << >> /\ down[n])
              /\ socket' = Broadcast(n, socket, query)
              /\ cache' = [cache EXCEPT ![n] = Aged(n)]
              /\ phase' = [phase EXCEPT ![n] = "idle"]
              /\ result' = [result EXCEPT ![n] = "ok"]
    /\ UNCHANGED <<own, down, calls>>

-----------------------------------------------------------------------------
(* The network's other faults.                                             *)

Lose(n) ==
    /\ Fault
    /\ \E i \in 1 .. Len(socket[n]) :
          socket' = [socket EXCEPT ![n] = RemoveAt(@, i)]
    /\ UNCHANGED <<own, cache, phase, down, result, calls, queries>>

\* Another program's packet, which does not parse.
Foreign(n) ==
    /\ Fault
    /\ socket' = [socket EXCEPT ![n] =
          Buffered(@, <<Packet(n, DnsMessage(NoQuestions, EmptyMap, READ_BUF_SIZE + 1))>>)]
    /\ UNCHANGED <<own, cache, phase, down, result, calls, queries>>

InterfaceFails(n) ==
    /\ Fault
    /\ ~ down[n]
    /\ down' = [down EXCEPT ![n] = TRUE]
    /\ UNCHANGED <<own, cache, socket, phase, result, calls, queries>>

InterfaceRecovers(n) ==
    /\ down[n]
    /\ down' = [down EXCEPT ![n] = FALSE]
    /\ UNCHANGED <<own, cache, socket, phase, result, calls, queries, faults>>

\* A step of the node's discover().
Discover(n) ==
    \/ StartDiscover(n)
    \/ Responder(n)
    \/ \E due \in BOOLEAN : FinishDiscover(n, due)

LanNext ==
    \E n \in Hosts :
        \/ Advertise(n) \/ Release(n) \/ Flush(n) \/ InsertOwnRecord(n)
        \/ Discover(n)
        \/ Lose(n) \/ Foreign(n) \/ InterfaceFails(n) \/ InterfaceRecovers(n)

LanSpec == LanInit /\ [][LanNext]_lanVars

\* The owner keeps calling discover(), each call goes on, and an interface that
\* failed comes back.  Nothing is assumed of the delivery of packets.
LanFairness ==
    \A n \in Hosts :
        /\ WF_lanVars(Discover(n))
        /\ WF_lanVars(InterfaceRecovers(n))

LanFairSpec == LanSpec /\ LanFairness

-----------------------------------------------------------------------------
(* Properties.                                                             *)

\* What a record on the wire can be.
Answers == [NetworkIds -> SUBSET [url : Urls, ttl : {0, DEFAULT_TTL}]]

\* Type correctness of the two maps of records, the socket and the flags: what
\* is on the wire is 255 or 0, whatever the caches have counted down to.
LanTypeOK ==
    /\ own \in [Hosts -> MapRecord]
    /\ cache \in [Hosts -> MapRecord]
    /\ \A n \in Hosts : \A i \in 1 .. Len(socket[n]) :
          /\ socket[n][i].from \in Hosts
          /\ socket[n][i].msg.questions \in [NetworkIds -> Nat]
          /\ socket[n][i].msg.answers \in Answers
          /\ socket[n][i].msg.sections \in Nat \ {0}
    /\ phase \in [Hosts -> {"idle", "responder"}]
    /\ down \in [Hosts -> BOOLEAN]
    /\ result \in [Hosts -> {"none", "ok", "err"}]
    /\ calls \in 0 .. MaxCalls
    /\ queries \in 0 .. MaxQueries
    /\ faults \in 0 .. MaxFaults

\* What a successful discover() returns names each url once and only urls that
\* are still alive, although `update` may keep two records of one url, one of
\* them dead, until the cache is pruned (record.rs:66-81, lib.rs:258-264).  No
\* sequence of calls and packets leaves the types.
ReturnedUrlsAreLive ==
    /\ LanTypeOK
    /\ \A n \in Hosts : phase[n] = "idle" /\ result[n] = "ok" =>
         \A id \in NetworkIds : \A r, s \in cache[n][id] :
             r.ttl > 0 /\ (r.url = s.url => r = s)

\* Receiving a packet never makes a node forget a url: `update` drops all the
\* records of a url when none is at 0 or 255, which must not happen to a record
\* in the middle of its life (record.rs:70-81).
ReceivingNeverForgets ==
    [][\A n \in Hosts : Responder(n) =>
          \A id \in NetworkIds : UrlsOf(cache[n][id]) \subseteq UrlsOf(cache'[n][id])]_lanVars

Announced(u) == \E n \in Hosts, id \in NetworkIds : NewRecord(u, DEFAULT_TTL) \in own[n][id]

\* The owners call a bounded number of times, so that what they announce comes
\* to rest; then a url that nobody announces as alive, because its owner
\* released or replaced it, is at last no living record of any node but its
\* owner: counting down the ttl makes up for lost, failed and overtaken
\* releases (lib.rs:258-276, 445-463).
ReleasedIsForgotten ==
    <>[](\A u \in Urls, n \in Hosts :
            Announced(u) \/ u \in OwnUrls(n)
              \/ \A id \in NetworkIds : ~ \E r \in cache[n][id] : r.url = u /\ r.ttl > 0)

=============================================================================
