----------------------------- MODULE DhtLookup -----------------------------
(***************************************************************************)
(* One get_peers lookup and the announcement after it (dht/lookup.rs,      *)
(* dht/announce.rs) over the shared KRPC transport (dht/transport.rs,      *)
(* dht/transaction.rs).  The lookup may be aborted at any moment and       *)
(* started again; the transaction table outlives it.                       *)
(*                                                                         *)
(* Contacts are numbered by their distance to the info hash, 1 being the   *)
(* closest.  Which of the Replies a node answers with is not ours to say.  *)
(***************************************************************************)
EXTENDS Integers, Sequences, FiniteSets, SequencesExt

CONSTANTS
    Nodes,              \* their distances: a set of numbers
    Addr,               \* Addr[c]: the endpoint of a contact
    Peers,              \* peers a node may answer with
    Concurrency, LookupPeerLimit, LookupBucketSize,
    IdSpace,            \* transaction ids are numbers modulo IdSpace
    Replies,            \* what nodes may answer get_peers with
    LookupFaults        \* bounds, one pair of which a behaviour is held to: on
                        \* lookups aborted, on old datagrams when a round starts

Addrs == {Addr[c] : c \in Nodes}

VARIABLES
    stage,          \* idle, lookup or announce
    candidates,     \* contacts, nearest first once they are sorted
    queried,        \* endpoints already queried
    found, tokens, failed,      \* peers, who returned a token, who failed
    asking,         \* queries awaited: contact -> transaction id
    answers,        \* answers and errors of this round
    transactions,   \* TransactionTable.pending: id -> endpoint
    next_id,
    network,        \* queries sent: [id, addr]
    orphans,        \* ids whose query was aborted while it waited
    faults          \* the bounds of this behaviour, aborts counting down

lookupState == <<candidates, queried, found, tokens, failed>>
wire == <<transactions, next_id, network>>
lookupVars == <<stage, lookupState, asking, answers, wire, orphans, faults>>

Response == [nodes : SUBSET Nodes, peers : SUBSET Peers, token : BOOLEAN, ok : {TRUE}]
ASSUME RepliesAssumption == Replies \subseteq Response
Failure == [nodes |-> {}, peers |-> {}, token |-> FALSE, ok |-> FALSE]

\* The variables have the types of lookup_peers' locals and of the transaction
\* table, whose ids stay 16-bit (dht/transaction.rs, next_id).
LookupTypeOK ==
    /\ stage \in {"idle", "lookup", "announce"}
    /\ candidates \in Seq(Nodes) /\ queried \subseteq Addrs
    /\ found \subseteq Peers /\ tokens \subseteq Nodes /\ failed \subseteq Nodes
    /\ DOMAIN asking \subseteq Nodes
    /\ \A c \in DOMAIN asking : asking[c] \in 0..IdSpace - 1
    /\ DOMAIN transactions \subseteq 0..IdSpace - 1
    /\ \A i \in DOMAIN transactions : transactions[i] \in Addrs
    /\ next_id \in 0..IdSpace - 1

LookupInit ==
    /\ stage = "idle" /\ candidates = <<>> /\ queried = {} /\ found = {}
    /\ tokens = {} /\ failed = {} /\ asking = <<>> /\ answers = <<>>
    /\ transactions = <<>> /\ next_id = IdSpace - 1 /\ network = {} /\ orphans = {}
    /\ faults \in LookupFaults

-----------------------------------------------------------------------------
(* The transaction table and the transport.                                 *)

\* begin for each of the contacts, in turn: the next free id, wrapping round.
\* (The loop of begin ends only if an id is free.)
FreeIds == (0..IdSpace - 1) \ DOMAIN transactions
Ahead(i) == (i - next_id + IdSpace) % IdSpace
IdsFor(n) == SubSeq(SetToSortSeq(FreeIds, LAMBDA i, j : Ahead(i) < Ahead(j)), 1, n)

Query(batch) ==
    LET ids == IdsFor(Len(batch))
        new == ToSet(ids)
        At(i) == CHOOSE k \in DOMAIN ids : ids[k] = i
    IN /\ Len(batch) <= Cardinality(FreeIds) /\ Cardinality(network) <= faults.stale
       /\ asking' = [c \in ToSet(batch) |-> ids[CHOOSE k \in DOMAIN batch : batch[k] = c]]
       /\ transactions' = [i \in DOMAIN transactions \cup new |->
                         IF i \in new THEN Addr[batch[At(i)]] ELSE transactions[i]]
       /\ network' = network \cup {[id |-> ids[k], addr |-> Addr[batch[k]]] :
                                      k \in DOMAIN batch}
       /\ next_id' = IF batch = <<>> THEN next_id ELSE (Last(ids) + 1) % IdSpace

Cancel(i) == transactions' = [j \in DOMAIN transactions \ {i} |-> transactions[j]]

\* The query of c is over, with this answer.
QueryDone(c, a) ==
    /\ asking' = [d \in DOMAIN asking \ {c} |-> asking[d]]
    /\ answers' = [d \in DOMAIN answers \cup {c} |-> IF d = c THEN a ELSE answers[d]]

-----------------------------------------------------------------------------
(* The lookup.                                                              *)

\* Candidates whose endpoints are not compared.
RetainedDuplicates(cs) ==
    LET sorted == SetToSortSeq(ToSet(cs), <)
    IN SubSeq(sorted, 1, Min({LookupBucketSize, Len(sorted)}))
\* Sort by distance, keep the first contact of each endpoint, keep K.
Retained(cs) ==
    LET sorted == SetToSortSeq(ToSet(cs), <)
        firsts == SelectSeq(sorted, LAMBDA c :
                      \A d \in ToSet(cs) : d < c => Addr[d] # Addr[c])
    IN SubSeq(firsts, 1, Min({LookupBucketSize, Len(firsts)}))

Unqueried(cs, asked) == SelectSeq(cs, LAMBDA c : Addr[c] \notin asked)
Batch(cs, asked) ==
    SubSeq(Unqueried(cs, asked), 1, Min({Concurrency, Len(Unqueried(cs, asked))}))

\* announce_peer to every node that returned a token (buffer_unordered: here
\* all at once; the port is known).
Announce(holders) ==
    /\ stage' = "announce"
    /\ Query(SetToSortSeq(holders, <))

\* The head of the loop: choose the next batch and send it, or finish.
Round(cs, asked, peers, holders) ==
    /\ candidates' = Retained(cs)
    /\ answers' = <<>>
    /\ IF Batch(candidates', asked) = <<>> \/ Cardinality(peers) >= LookupPeerLimit
       THEN Announce(holders) /\ queried' = asked
       ELSE /\ stage' = "lookup"
            /\ Query(Batch(candidates', asked))
            /\ queried' = asked \cup {Addr[c] : c \in ToSet(Batch(candidates', asked))}

\* A lookup starts from the closest contacts of the routing table.
BeginLookup(seeds) ==
    /\ stage = "idle"
    /\ found' = {} /\ tokens' = {} /\ failed' = {}
    /\ Round(SetToSeq(seeds), {}, {}, {})
    /\ UNCHANGED <<orphans, faults>>

\* All queries of the round are over: take their answers in.
RoundEnds ==
    /\ stage = "lookup" /\ asking = <<>>
    /\ LET good == {c \in DOMAIN answers : answers[c].ok} IN
         /\ failed' = failed \cup (DOMAIN answers \ good)
         /\ tokens' = tokens \cup {c \in good : answers[c].token}
         /\ found' = found \cup UNION {answers[c].peers : c \in good}
         /\ Round(candidates \o SetToSeq(UNION {answers[c].nodes : c \in good}),
                  queried, found', tokens')
    /\ UNCHANGED <<orphans, faults>>

\* The announcement task is over.
AnnouncementEnds ==
    /\ stage = "announce" /\ asking = <<>>
    /\ stage' = "idle" /\ candidates' = <<>> /\ queried' = {} /\ answers' = <<>>
    /\ found' = {} /\ tokens' = {} /\ failed' = {}
    /\ UNCHANGED <<asking, wire, orphans, faults>>

-----------------------------------------------------------------------------
(* The network.                                                             *)

\* A datagram from a queried endpoint: complete checks id and source, and the
\* query that still waits gets the answer.  It may come twice.
Receive(q, from, a) ==
    /\ network' \in {network, network \ {q}}
    /\ IF q.id \in DOMAIN transactions /\ transactions[q.id] = from
       THEN /\ Cancel(q.id)
            /\ IF \E c \in DOMAIN asking : asking[c] = q.id
               THEN QueryDone(CHOOSE c \in DOMAIN asking : asking[c] = q.id, a)
               ELSE UNCHANGED <<asking, answers>>
            /\ orphans' = orphans \ {q.id}
       ELSE UNCHANGED <<transactions, asking, answers, orphans>>
    /\ UNCHANGED <<stage, lookupState, next_id, faults>>

Lose(q) ==
    /\ network' = network \ {q}
    /\ UNCHANGED <<stage, lookupState, asking, answers, transactions, next_id, orphans,
                   faults>>

\* A timeout that leaves the transaction.
QueryFailsPending(c) ==
    /\ QueryDone(c, Failure)
    /\ UNCHANGED <<stage, lookupState, transactions, next_id, network, orphans, faults>>
\* query_timeout passes, or the datagram could not be sent.
QueryFails(c) ==
    /\ QueryDone(c, Failure) /\ Cancel(asking[c])
    /\ UNCHANGED <<stage, lookupState, next_id, network, orphans, faults>>

\* The task is aborted: its queries wait no more, their transactions stay.
Abort ==
    /\ stage # "idle" /\ stage' = "idle"
    /\ faults.aborts > 0 /\ faults' = [faults EXCEPT !.aborts = @ - 1]
    /\ orphans' = orphans \cup {asking[c] : c \in DOMAIN asking}
    /\ asking' = <<>> /\ answers' = <<>> /\ candidates' = <<>> /\ queried' = {}
    /\ found' = {} /\ tokens' = {} /\ failed' = {}
    /\ UNCHANGED wire

Pong == [nodes |-> {}, peers |-> {}, token |-> FALSE, ok |-> TRUE]
SomeAnswer == (IF stage = "lookup" THEN Replies ELSE {Pong}) \cup {Failure}

LookupNext ==
    \/ \E seeds \in SUBSET Nodes \ {{}} : BeginLookup(seeds)
    \/ RoundEnds \/ AnnouncementEnds \/ Abort
    \/ \E q \in network : Lose(q)
    \/ \E q \in network, from \in Addrs, a \in SomeAnswer : Receive(q, from, a)
    \/ \E c \in DOMAIN asking : QueryFails(c)

LookupSpec == LookupInit /\ [][LookupNext]_lookupVars

\* Every query is answered or times out, the task runs, and no datagram stays
\* on its way for ever.
LookupFairness ==
    /\ WF_lookupVars(RoundEnds \/ AnnouncementEnds)
    /\ WF_lookupVars(\E q \in network : Lose(q))
    /\ WF_lookupVars(\E c \in DOMAIN asking : QueryFails(c))

-----------------------------------------------------------------------------
\* A transaction is in the table exactly while its query waits, to the endpoint
\* it was sent to; the only others belong to queries that were aborted, which
\* nothing cancels.
PendingOwned ==
    /\ DOMAIN transactions = {asking[c] : c \in DOMAIN asking} \cup orphans
    /\ \A c \in DOMAIN asking : transactions[asking[c]] = Addr[c]
    /\ \A c, d \in DOMAIN asking : c # d => asking[c] # asking[d]

\* No endpoint is queried twice in one lookup, whatever contacts the nodes
\* name and however often.
QueriedOnce ==
    [][stage' = "lookup" /\ asking # asking' /\ asking = <<>> =>
          \A c \in DOMAIN asking' :
             /\ stage = "lookup" => Addr[c] \notin queried
             /\ \A d \in DOMAIN asking' \ {c} : Addr[d] # Addr[c]]_lookupVars

\* A lookup that ends short of the peer limit has exhausted the neighbourhood:
\* each of the K nearest endpoints it heard of was queried.
NeighbourhoodExhausted ==
    stage = "announce" /\ Cardinality(found) < LookupPeerLimit =>
        \A i \in DOMAIN candidates : Addr[candidates[i]] \in queried

\* We announce only to nodes that answered this lookup with a token.
AnnouncedWithToken ==
    stage = "announce" => DOMAIN asking \cup DOMAIN answers \subseteq tokens
                          /\ \A c \in tokens : Addr[c] \in queried

\* Every lookup comes to an end, although nodes may name each other for ever.
LookupEnds == stage # "idle" ~> stage = "idle"

\* A lookup leaves no transaction behind, looks everywhere it should and
\* announces only where it may (dht/lookup.rs, dht/announce.rs).
LookupSound == LookupTypeOK /\ PendingOwned /\ NeighbourhoodExhausted /\ AnnouncedWithToken

\* A lookup asks nobody twice, and so comes to an end.
LookupGoesOn == QueriedOnce /\ LookupEnds
=============================================================================
