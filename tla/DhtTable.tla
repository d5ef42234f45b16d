------------------------------ MODULE DhtTable ------------------------------
(***************************************************************************)
(* What the DHT node knows and answers (dht/state.rs): the routing table   *)
(* (dht/routing.rs, dht/id.rs), the peer store (dht/peers.rs) and the      *)
(* announce tokens (dht/token.rs).                                         *)
(*                                                                         *)
(* A 160-bit id is a number below 2^IdBits.  A secret, drawn at random, is *)
(* named by when it was drawn: 2t, or 2t + 1 for the second of a tick.     *)
(* Time is a clock of whole ticks that never runs backwards.               *)
(***************************************************************************)
EXTENDS Integers, Sequences, FiniteSets, SequencesExt, Bitwise

CONSTANTS
    IdBits, LocalId, NodeIds,   \* ids: their width, ours, those of others
    Ips, V6,                    \* addresses, those of them that are IPv6
    Movers,                     \* the ids that may be met at an IPv6 address
    BucketSize, FailureLimit,
    RotationInterval, Ttl, PruneInterval, PeerLimit,
    Uptime,                     \* what the monotonic clock had counted at clock 0
    Swarms,                     \* the info hashes peers are announced for
    MaxTime,                    \* bound of the clock
    Traffics                    \* the mixes of messages the node may meet

Contact == {c \in [id : NodeIds \cup {LocalId}, ip : Ips] : c.ip \in V6 => c.id \in Movers}
NoReply == [kind |-> "none", target |-> LocalId, at |-> 0, nodes |-> <<>>, values |-> {}]

VARIABLES
    buckets,    \* RoutingTable.buckets, of [contact, failures]
    store,      \* PeerStore.peers: per swarm, when each peer was announced
    lastPruned,
    current, previous, rotatedAt,   \* TokenManager
    clock, traffic,
    held,       \* the token a client keeps: it, the ip it went to, when
    reply       \* the answer just given, if any

tokenVars == <<current, previous, rotatedAt>>
storeVars == <<store, lastPruned>>
tableVars == <<buckets, storeVars, tokenVars, clock, traffic, held, reply>>

\* The variables have the types of DhtState's fields, and no instant lies in
\* the future (dht/state.rs, DhtState).
TableTypeOK ==
    /\ DOMAIN buckets = 0..IdBits - 1
    /\ \A b \in DOMAIN buckets : \A i \in DOMAIN buckets[b] :
         buckets[b][i] \in [contact : Contact, failures : Nat]
    /\ DOMAIN store \subseteq Swarms
    /\ \A s \in DOMAIN store : \A p \in DOMAIN store[s] : store[s][p] \in 0..clock
    /\ {rotatedAt, lastPruned} \subseteq 0..clock
    /\ {current, previous} \subseteq 0..2 * clock + 1

TableInit ==
    /\ buckets = [b \in 0..IdBits - 1 |-> <<>>]
    /\ store = <<>> /\ lastPruned = 0
    /\ current = 0 /\ previous = 1 /\ rotatedAt = 0
    /\ clock = 0 /\ traffic \in Traffics /\ held = {} /\ reply = NoReply

-----------------------------------------------------------------------------
(* The routing table.                                                       *)

distance(a, b) == a ^^ b

NoBucket == -1
\* The position of the highest bit set; the local id has no bucket.
bucket_index(d) == IF d = 0 THEN NoBucket
                   ELSE CHOOSE b \in 0..IdBits - 1 : 2^b <= d /\ d < 2^(b + 1)
BucketOf(id) == bucket_index(distance(LocalId, id))

Fresh(c) == [contact |-> c, failures |-> 0]

\* An insert that drops the oldest entry of a full bucket.
InsertEvicting(table, c) ==
    LET b == BucketOf(c.id)
        others == SelectSeq(table[b], LAMBDA e : e.contact.id # c.id)
        room == IF Len(others) < BucketSize THEN others ELSE Tail(others)
    IN IF b = NoBucket THEN table ELSE [table EXCEPT ![b] = Append(room, Fresh(c))]

\* A known id moves to the back with its new address; a newcomer to a full
\* bucket replaces the first entry that has failed, if there is one.
Insert(table, c) ==
    LET b == BucketOf(c.id)
        known == {i \in DOMAIN table[b] : table[b][i].contact.id = c.id}
        failed == {i \in DOMAIN table[b] : table[b][i].failures > 0}
        PushBack(kept) == [table EXCEPT ![b] = Append(kept, Fresh(c))]
    IN IF b = NoBucket THEN table
       ELSE IF known # {} THEN PushBack(RemoveAt(table[b], Min(known)))
       ELSE IF Len(table[b]) < BucketSize THEN PushBack(table[b])
       ELSE IF failed # {} THEN PushBack(RemoveAt(table[b], Min(failed)))
       ELSE table

\* A failed query: the contact goes at the FailureLimit-th in a row.
RecordFailure(table, id) ==
    LET b == BucketOf(id)
        known == {i \in DOMAIN table[b] : table[b][i].contact.id = id}
        i == Min(known)
    IN IF b = NoBucket \/ known = {} THEN table
       ELSE IF table[b][i].failures + 1 >= FailureLimit
            THEN [table EXCEPT ![b] = RemoveAt(@, i)]
            ELSE [table EXCEPT ![b][i].failures = @ + 1]

Known(table) == UNION {{e.contact : e \in ToSet(table[b])} : b \in DOMAIN table}

closest(table, target, limit) ==
    LET sorted == SetToSortSeq(Known(table), LAMBDA c, d :
                      distance(target, c.id) < distance(target, d.id))
    IN SubSeq(sorted, 1, Min({limit, Len(sorted)}))

KnownV6(table) == {c \in Known(table) : c.ip \in V6}

\* The compact form has room for IPv4 only: other contacts are left out.
encode_nodes(contacts) == SelectSeq(contacts, LAMBDA c : c.ip \notin V6)
encode_peers(peers) == {p \in peers : p.ip \notin V6}

-----------------------------------------------------------------------------
(* Tokens: two secrets, the older of which still verifies.                  *)

\* A rotation that keeps the old secret however old it is.
RotatedOnce ==
    IF clock - rotatedAt < RotationInterval
    THEN [current |-> current, previous |-> previous, at |-> rotatedAt]
    ELSE [current |-> 2 * clock, previous |-> current, at |-> clock]
\* rotate_if_needed at this moment, as the secrets it leaves.
Rotated ==
    LET elapsed == clock - rotatedAt IN
    IF elapsed < RotationInterval
    THEN [current |-> current, previous |-> previous, at |-> rotatedAt]
    ELSE IF elapsed < 2 * RotationInterval
    THEN [current |-> 2 * clock, previous |-> current, at |-> clock]
    ELSE [current |-> 2 * clock + 1, previous |-> 2 * clock, at |-> clock]

RotateIfNeeded ==
    /\ current' = Rotated.current /\ previous' = Rotated.previous
    /\ rotatedAt' = Rotated.at

\* A token is the hash of a secret and an address.
Token(secret, ip) == [secret |-> secret, ip |-> ip]
generate(ip) == Token(Rotated.current, ip)
verify(token, ip) ==
    token \in {Token(Rotated.current, ip), Token(Rotated.previous, ip)}

-----------------------------------------------------------------------------
(* The peer store.                                                          *)

\* An instant before the clock's own origin cannot be named (checked_sub fails):
\* the cutoff is then this moment, and every earlier record has expired.
expiration_cutoff == IF clock + Uptime >= Ttl THEN clock - Ttl ELSE clock

Unexpired(peers) ==
    [p \in {q \in DOMAIN peers : peers[q] >= expiration_cutoff} |-> peers[p]]

prune(swarms) ==
    [s \in {t \in DOMAIN swarms : DOMAIN Unexpired(swarms[t]) # {}} |->
        Unexpired(swarms[s])]

PruneDue == clock - lastPruned >= PruneInterval
PruneIfDue == IF PruneDue THEN prune(store) ELSE store

\* PeerStore::get: what is expired of this swarm is dropped, due or not.
get(swarm) == IF swarm \in DOMAIN PruneIfDue THEN Unexpired(PruneIfDue[swarm]) ELSE <<>>

AfterGet(swarm) ==
    [s \in {t \in DOMAIN PruneIfDue : t = swarm => DOMAIN get(t) # {}} |->
        IF s = swarm THEN get(s) ELSE PruneIfDue[s]]

Announced(swarm, peer) ==
    LET old == PruneIfDue
        peers == IF swarm \in DOMAIN old THEN old[swarm] ELSE <<>>
    IN [s \in DOMAIN old \cup {swarm} |->
          IF s # swarm THEN old[s]
          ELSE [p \in DOMAIN peers \cup {peer} |->
                   IF p = peer THEN clock ELSE peers[p]]]

-----------------------------------------------------------------------------
(* One action per kind of message; handle_query first learns its sender.    *)

Learn(c) == buckets' = Insert(buckets, c)
Answer(kind, target, nodes, values) ==
    reply' = [kind |-> kind, target |-> target, at |-> clock, nodes |-> nodes,
              values |-> values]

Ping(c) ==
    /\ Learn(c) /\ Answer("pong", LocalId, <<>>, {})
    /\ UNCHANGED <<storeVars, tokenVars, clock, held>>

FindNode(c, target) ==
    /\ Learn(c)
    /\ Answer("nodes", target, encode_nodes(closest(buckets', target, BucketSize)), {})
    /\ UNCHANGED <<storeVars, tokenVars, clock, held>>

GetPeers(c, swarm) ==
    /\ Learn(c)
    /\ store' = AfterGet(swarm)
    /\ lastPruned' = IF PruneDue THEN clock ELSE lastPruned
    /\ \E peers \in SUBSET DOMAIN get(swarm) :   \* any PeerLimit of them
         /\ Cardinality(peers) = Min({PeerLimit, Cardinality(DOMAIN get(swarm))})
         /\ Answer("peers", swarm,
                   IF peers = {} THEN encode_nodes(closest(buckets', swarm, BucketSize))
                   ELSE <<>>, encode_peers(peers))
    /\ RotateIfNeeded
    /\ held' \in {held, {[token |-> generate(c.ip), ip |-> c.ip, at |-> clock]}}
    /\ UNCHANGED clock

\* A bad token is refused before the endpoint is looked at.
AnnouncePeer(c, swarm, token, port) ==
    /\ Learn(c) /\ RotateIfNeeded
    /\ IF verify(token, c.ip) /\ port # 0
       THEN /\ store' = Announced(swarm, [ip |-> c.ip, port |-> port])
            /\ lastPruned' = IF PruneDue THEN clock ELSE lastPruned
            /\ Answer("announced", swarm, <<>>, {})
       ELSE /\ UNCHANGED storeVars /\ Answer("error", swarm, <<>>, {})
    /\ UNCHANGED <<clock, held>>

\* learn_response: the node that answered, then the nodes it named.
LearnResponse(c, nodes) ==
    /\ buckets' = FoldLeft(Insert, Insert(buckets, c), nodes)
    /\ reply' = NoReply /\ UNCHANGED <<storeVars, tokenVars, clock, held>>

\* A lookup reports a node that did not answer.
QueryFailed(id) ==
    /\ buckets' = RecordFailure(buckets, id)
    /\ reply' = NoReply /\ UNCHANGED <<storeVars, tokenVars, clock, held>>

Tick ==
    /\ clock < MaxTime /\ clock' = clock + 1
    /\ reply' = NoReply /\ UNCHANGED <<buckets, storeVars, tokenVars, held>>

Client == {c \in Contact : c.id \in Movers}

TableNext ==
    /\ UNCHANGED traffic
    /\ \/ "ping" \in traffic /\ \E c \in Contact : Ping(c)
       \/ "find" \in traffic /\ \E c \in Contact, t \in NodeIds : FindNode(c, t)
       \/ "get" \in traffic /\ \E c \in Client, s \in Swarms : GetPeers(c, s)
       \/ "announce" \in traffic /\ \E c \in Client, s \in Swarms, t \in held, p \in {0, 1} :
             AnnouncePeer(c, s, t.token, p)
       \/ "learn" \in traffic /\ \E c, n \in Contact : LearnResponse(c, <<n>>)
       \/ "fail" \in traffic /\ \E id \in NodeIds \cup {LocalId} : QueryFailed(id)
       \/ "tick" \in traffic /\ Tick

TableSpec == TableInit /\ [][TableNext]_tableVars

-----------------------------------------------------------------------------
\* The shape every caller of the routing table relies on: an entry is in the
\* bucket of its distance, once, never the local id; no bucket overflows,
\* whatever mix of queries, responses and failures; who failed FailureLimit
\* times in a row is gone.
BucketsSound ==
    \A b \in DOMAIN buckets :
        /\ Len(buckets[b]) <= BucketSize
        /\ \A i, j \in DOMAIN buckets[b] :
             /\ BucketOf(buckets[b][i].contact.id) = b
             /\ buckets[b][i].failures < FailureLimit
             /\ i # j => buckets[b][i].contact.id # buckets[b][j].contact.id

\* A contact that has not failed is never pushed out: newcomers replace only
\* entries with a failure, and one failure alone removes nobody.
LiveContactsStay ==
    [][\A b \in DOMAIN buckets : \A e \in ToSet(buckets[b]) :
          e.failures = 0 => \E f \in ToSet(buckets'[b]) :
                               f.contact.id = e.contact.id]_tableVars

\* find_node, and get_peers of a swarm without peers, answer the closest
\* contacts: an IPv4 contact that was left out has BucketSize others nearer to
\* the target, be they IPv4 (named) or IPv6 (not encoded).
ClosestNamed ==
    [][(\/ reply'.kind = "nodes"
        \/ reply'.kind = "peers" /\ reply'.target \notin DOMAIN store')
       => \A d \in Known(buckets') \ KnownV6(buckets') :
             d \notin ToSet(reply'.nodes) =>
                Cardinality({e \in Known(buckets') : distance(reply'.target, e.id)
                                < distance(reply'.target, d.id)}) >= BucketSize
      ]_tableVars

\* A token is good for one rotation interval at least and for less than three,
\* for the address it was given to and no other: however rarely the node is
\* asked anything, and although secrets rotate only when it is.
TokenWindow ==
    \A t \in held :
        /\ clock - t.at < RotationInterval => verify(t.token, t.ip)
        /\ clock - t.at >= 3 * RotationInterval => ~verify(t.token, t.ip)
        /\ \A ip \in Ips \ {t.ip} : ~verify(t.token, ip)

\* get_peers names nobody whose announcement is older than the ttl.
PeersFresh ==
    \A p \in reply.values :
        /\ p \in DOMAIN store[reply.target]
        /\ store[reply.target][p] >= reply.at - Ttl

\* A record younger than the ttl stays, whatever is asked; while the monotonic
\* clock itself is younger than the ttl nothing is promised (dht/peers.rs,
\* expiration_cutoff).
RecordsStay ==
    [][\A s \in DOMAIN store : \A p \in DOMAIN store[s] :
          clock + Uptime >= Ttl /\ store[s][p] >= clock - Ttl =>
             s \in DOMAIN store' /\ p \in DOMAIN store'[s]]_tableVars

\* The store is bounded by what was announced lately: right after any access
\* no record, of any swarm, is older than the ttl and one prune interval.
StoreBounded ==
    reply.kind \in {"peers", "announced"} =>
        \A s \in DOMAIN store : \A p \in DOMAIN store[s] :
            store[s][p] >= reply.at - Ttl - PruneInterval

\* What the node remembers is bounded and fresh, whatever it is asked and
\* however seldom (dht/state.rs).
TableSound == TableTypeOK /\ BucketsSound /\ TokenWindow /\ PeersFresh /\ StoreBounded

\* What a step may do to the routing table and to the peer store, and what it
\* may answer (dht/routing.rs, insert and closest; dht/peers.rs, get and prune).
TableSteps == LiveContactsStay /\ ClosestNamed /\ RecordsStay
=============================================================================
