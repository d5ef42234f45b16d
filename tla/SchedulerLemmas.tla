---------------------------- MODULE SchedulerLemmas ----------------------------
(***************************************************************************)
(* What the methods of the piece scheduler keep and change, for every       *)
(* number of peers, pieces and blocks: the lemmas that TorrentProofs and    *)
(* PieceFlowProofs share.                                                   *)
(***************************************************************************)
EXTENDS PieceScheduler, FiniteSetTheorems, TLAPS

-----------------------------------------------------------------------------
(* Slots and cardinalities *)

\* The slots are a finite interval of naturals.
LEMMA SlotsFinite == /\ TotalSlots \in Nat \ {0}
                     /\ Slot \subseteq Nat
                     /\ IsFiniteSet(Slot)
<1>1. /\ NumPieces - 1 \in Nat /\ BlocksPerPiece \in Nat \ {0}
      /\ LastBlocks \in Nat \ {0}
  BY SchedulerConstants
<1>2. (NumPieces - 1) * BlocksPerPiece \in Nat
  BY <1>1
<1>3. TotalSlots \in Nat \ {0}
  BY <1>1, <1>2 DEF TotalSlots
<1>4. IsFiniteSet(0..(TotalSlots - 1))
  BY <1>3, FS_Interval
<1> QED
  BY <1>3, <1>4 DEF Slot

\* Any set of slots is finite and has a natural number of members.
LEMMA SlotSetFinite ==
  ASSUME NEW S \in SUBSET Slot
  PROVE  IsFiniteSet(S) /\ Cardinality(S) \in Nat
BY SlotsFinite, FS_Subset, FS_CardinalityType, Zenon

\* A nonempty set of naturals has a least element.
LEMMA LeastNatural ==
  ASSUME NEW T \in SUBSET Nat, T # {}
  PROVE  \E m \in T : \A n \in T : m <= n
<1> DEFINE R == OpToRel(<, Nat)
<1>1. IsWellFoundedOn(R, Nat)
  BY NatLessThanWellFounded, Zenon
<1>2. \A n, m \in Nat : n < m => <<n, m>> \in R
  BY Zenon DEF OpToRel
<1> HIDE DEF R
<1>3. PICK m \in T : \A n \in T : ~(<<n, m>> \in R)
  BY <1>1, WFMin, Zenon
<1>4. \A n \in T : ~(n < m)
  BY <1>2, <1>3, Zenon
<1> QED
  BY <1>4

-----------------------------------------------------------------------------
(* The helpers of the scheduler *)

\* The loop that advances next_piece stops at the first piece from n on that
\* is not complete, or at the end.
LEMMA FirstIncompleteStops ==
  ASSUME NEW count \in Nat, NEW done, NEW n \in 0..count,
         \A i \in done : i < count
  PROVE  LET m == FirstIncomplete(done, n, count)
         IN  /\ m \in n..count
             /\ m \notin done
             /\ \A k \in n..(m - 1) : k \in done
<1> DEFINE T == {m \in n..count : m = count \/ m \notin done}
<1>1. T \in SUBSET Nat /\ T # {}
  <2>1. count \in T
    OBVIOUS
  <2> QED
    BY <2>1
<1>2. PICK m \in T : \A k \in T : m <= k
  BY <1>1, LeastNatural, Zenon
<1>3. \A k \in n..(m - 1) : k \in done
  <2> TAKE k \in n..(m - 1)
  <2>1. k \in n..count /\ k # count /\ ~(m <= k)
    BY <1>2
  <2> QED
    BY Zenon, <2>1, <1>2
<1>4. \E q \in n..count : /\ q = count \/ q \notin done
                         /\ \A k \in n..(q - 1) : k \in done
  BY Zenon, <1>2, <1>3
<1>5. count \notin done
  OBVIOUS
<1> QED
  BY Zenon, <1>4, <1>5 DEF FirstIncomplete

\* Distinct requestable slots have distinct places in the request order, all
\* of them below the number of slots.
LEMMA RankInjective ==
  ASSUME NEW s, SchedulerType(s), NEW p \in Peer
  PROVE  \A x \in Requestable(s, p) :
           /\ Rank(s, p, x) \in Int
           /\ Rank(s, p, x) < TotalSlots
           /\ \A y \in Requestable(s, p) :
                x # y => Rank(s, p, x) # Rank(s, p, y)
<1>1. FirstSlot(s) \in Nat
  BY SchedulerConstants DEF FirstSlot, SchedulerType, SchedulerRecord
<1>2. Cursor(s, p) \in Nat
  BY Zenon, <1>1, SlotsFinite DEF Cursor, SchedulerType, SchedulerRecord
<1>3. \A x \in Requestable(s, p) :
        x \in Nat /\ x < TotalSlots /\ FirstSlot(s) <= x
  BY SlotsFinite DEF Requestable, Slot
<1> QED
  BY <1>1, <1>2, <1>3, SlotsFinite DEF Rank

\* requests_for_peer returns requestable blocks only, and at most `limit`.
LEMMA RequestsWithinLimit ==
  ASSUME NEW s, SchedulerType(s), NEW p \in Peer, NEW limit \in Nat
  PROVE  /\ RequestsForPeer(s, p, limit) \subseteq Requestable(s, p)
         /\ Cardinality(RequestsForPeer(s, p, limit)) <= limit
<1> DEFINE Req == RequestsForPeer(s, p, limit)
           f == [x \in Req |-> Cardinality(Before(s, p, x))]
<1>1. Req \subseteq Requestable(s, p)
  BY Zenon DEF RequestsForPeer
<1>2. Requestable(s, p) \subseteq Slot
  BY Zenon DEF Requestable
<1>3. \A x \in Req : /\ Before(s, p, x) \in SUBSET Slot
                     /\ IsFiniteSet(Before(s, p, x))
                     /\ Cardinality(Before(s, p, x)) \in Nat
                     /\ Cardinality(Before(s, p, x)) < limit
  BY Zenon, <1>1, <1>2, SlotSetFinite DEF Before, RequestsForPeer
<1>4. \A x, y \in Req : Rank(s, p, x) < Rank(s, p, y) => f[x] # f[y]
  <2> SUFFICES ASSUME NEW x \in Req, NEW y \in Req,
                      Rank(s, p, x) < Rank(s, p, y)
               PROVE  Cardinality(Before(s, p, x)) # Cardinality(Before(s, p, y))
    BY Zenon
  <2>1. Before(s, p, x) \in SUBSET Before(s, p, y)
    BY <1>1, RankInjective DEF Before
  <2>2. x \in Before(s, p, y) /\ x \notin Before(s, p, x)
    BY <1>1, RankInjective DEF Before
  <2> QED
    BY Zenon, <2>1, <2>2, <1>3, FS_Subset
<1>5. \A x, y \in Req : x # y => f[x] # f[y]
  <2> SUFFICES ASSUME NEW x \in Req, NEW y \in Req, x # y
               PROVE  f[x] # f[y]
    BY Zenon
  <2>1. \/ Rank(s, p, x) < Rank(s, p, y)
        \/ Rank(s, p, y) < Rank(s, p, x)
    BY <1>1, RankInjective
  <2> QED
    BY Zenon, <2>1, <1>4
<1>6. f \in Injection(Req, 0..(limit - 1))
  BY <1>3, <1>5 DEF Injection, IsInjective
<1>7. IsFiniteSet(0..(limit - 1)) /\ Cardinality(0..(limit - 1)) = limit
  BY FS_Interval
<1> QED
  BY <1>1, <1>6, <1>7, FS_Injection

-----------------------------------------------------------------------------
(* Every method keeps a consistent scheduler consistent *)

\* PieceScheduler::new builds a consistent scheduler, with or without pieces.
LEMMA NewConsistent ==
  ASSUME NEW count \in {0, NumPieces}
  PROVE  Consistent(New(count))
<1>1. \A p \in Peer : InFlightSlots(New(count), p) = {}
  BY Zenon, SchedulerConstants DEF InFlightSlots, New
<1>2. SchedulerType(New(count))
  BY SchedulerConstants, SlotsFinite DEF SchedulerType, SchedulerRecord, New, Piece
<1>3. ExactCounters(New(count))
  BY <1>1, FS_EmptySet, Zenon DEF ExactCounters, New
<1> QED
  BY <1>2, <1>3 DEF Consistent, DoneNotInFlight, PrefixCounted, New

\* Dropping a piece's blocks (remove_piece_blocks) keeps consistency.
LEMMA RemovePieceBlocksConsistent ==
  ASSUME NEW s, Consistent(s), NEW i \in Piece
  PROVE  Consistent(RemovePieceBlocks(s, i))
<1> DEFINE t == RemovePieceBlocks(s, i)
<1>1. SchedulerType(t)
  BY Zenon DEF Consistent, SchedulerType, SchedulerRecord, RemovePieceBlocks
<1>2. t.in_flight = s.in_flight /\ t.in_flight_per_peer = s.in_flight_per_peer
  BY Zenon DEF RemovePieceBlocks, Consistent, SchedulerType, SchedulerRecord
<1>3. ExactCounters(t)
  BY Zenon, <1>2 DEF Consistent, ExactCounters, InFlightSlots
<1>4. DoneNotInFlight(t)
  BY Zenon DEF Consistent, SchedulerType, SchedulerRecord, DoneNotInFlight, RemovePieceBlocks
<1>5. PrefixCounted(t)
  BY Zenon DEF Consistent, SchedulerType, SchedulerRecord, PrefixCounted, RemovePieceBlocks
<1> QED
  BY Zenon, <1>1, <1>3, <1>4, <1>5 DEF Consistent

\* Marking a piece none of whose blocks is on request (mark_piece_complete)
\* keeps consistency.
LEMMA MarkPieceCompleteConsistent ==
  ASSUME NEW s, Consistent(s), NEW i \in Piece,
         \A x \in BlocksOf(i) : s.in_flight[x] = NoPeer
  PROVE  Consistent(MarkPieceComplete(s, i))
<1> DEFINE t == MarkPieceComplete(s, i)
           done == IF i < s.piece_count THEN s.completed_pieces \cup {i}
                                        ELSE s.completed_pieces
           m == FirstIncomplete(done, s.next_piece, s.piece_count)
<1>1. /\ s.piece_count \in Nat /\ s.next_piece \in 0..s.piece_count
      /\ \A k \in done : k < s.piece_count
  BY SchedulerConstants DEF Consistent, SchedulerType, SchedulerRecord
<1>2. /\ m \in s.next_piece..s.piece_count
      /\ m \notin done
      /\ \A k \in s.next_piece..(m - 1) : k \in done
  <2> HIDE DEF done
  <2> QED
    BY Zenon, <1>1, FirstIncompleteStops
<1>3. t = [s EXCEPT !.completed_blocks = @ \ BlocksOf(i),
                    !.completed_pieces = done,
                    !.next_piece = m]
  BY Zenon DEF MarkPieceComplete
<1>4. done \in SUBSET Piece
  BY Zenon DEF Consistent, SchedulerType, SchedulerRecord
<1> HIDE DEF t, m
<1>5. /\ t.piece_count = s.piece_count
      /\ t.completed_pieces = done
      /\ t.completed_blocks = s.completed_blocks \ BlocksOf(i)
      /\ t.in_flight = s.in_flight
      /\ t.in_flight_per_peer = s.in_flight_per_peer
      /\ t.next_piece = m
  BY Zenon, <1>3 DEF Consistent, SchedulerType, SchedulerRecord
<1>6. SchedulerType(t)
  <2>1. m \in Nat
    BY <1>1, <1>2
  <2>2. t \in SchedulerRecord
    BY <2>1, <1>3, <1>4, Zenon DEF Consistent, SchedulerType, SchedulerRecord
  <2> QED
    BY <2>2, <1>1, <1>2, <1>5 DEF SchedulerType
<1>7. ExactCounters(t)
  BY Zenon, <1>5 DEF Consistent, ExactCounters, InFlightSlots
<1>8. DoneNotInFlight(t)
  BY Zenon, <1>5 DEF Consistent, DoneNotInFlight, BlocksOf
<1>9. PrefixCounted(t)
  <2>1. \A k \in 0..(m - 1) : k \in done
    BY <1>1, <1>2 DEF Consistent, PrefixCounted
  <2> QED
    BY Zenon, <2>1, <1>2, <1>5 DEF PrefixCounted
<1> QED
  BY Zenon, <1>6, <1>7, <1>8, <1>9 DEF Consistent, t

\* Forgetting a request and decrementing its peer's counter
\* (remove_in_flight, decrement_in_flight) keeps consistency.
LEMMA RemoveInFlightConsistent ==
  ASSUME NEW s, Consistent(s), NEW x \in Slot
  PROVE  /\ Consistent(RemoveInFlight(s, x))
         /\ RemoveInFlight(s, x).in_flight[x] = NoPeer
         /\ RemoveInFlight(s, x).completed_blocks = s.completed_blocks
<1>1. CASE s.in_flight[x] = NoPeer
  BY Zenon, <1>1 DEF RemoveInFlight
<1>2. CASE s.in_flight[x] # NoPeer
  <2> DEFINE q == s.in_flight[x]
             t == RemoveInFlight(s, x)
             counters == Decremented(s.in_flight_per_peer, q)
  <2>1. /\ q \in Peer
        /\ s.in_flight_per_peer \in [Peer -> Nat]
        /\ s.in_flight \in [Slot -> Peer \cup {NoPeer}]
    BY Zenon, <1>2 DEF Consistent, SchedulerType, SchedulerRecord
  <2>2. t = [s EXCEPT !.in_flight[x] = NoPeer, !.in_flight_per_peer = counters]
    BY Zenon, <1>2 DEF RemoveInFlight
  <2>3. counters \in [Peer -> Nat]
    BY <2>1 DEF Decremented
  <2> HIDE DEF t, counters
  <2>4. /\ t.in_flight = [s.in_flight EXCEPT ![x] = NoPeer]
        /\ t.in_flight_per_peer = counters
        /\ t.completed_blocks = s.completed_blocks
        /\ t.completed_pieces = s.completed_pieces
        /\ t.next_piece = s.next_piece
        /\ t.piece_count = s.piece_count
        /\ t \in SchedulerRecord
    BY <2>1, <2>2, <2>3, Zenon DEF Consistent, SchedulerType, SchedulerRecord
  <2>5. SchedulerType(t)
    BY Zenon, <2>4 DEF Consistent, SchedulerType
  <2>6. ASSUME NEW p \in Peer
        PROVE  counters[p] = Cardinality(InFlightSlots(t, p))
    <3>1. s.in_flight_per_peer[p] = Cardinality(InFlightSlots(s, p))
      BY Zenon DEF Consistent, ExactCounters
    <3>2. InFlightSlots(s, p) \in SUBSET Slot
      BY Zenon DEF InFlightSlots
    <3>3. /\ IsFiniteSet(InFlightSlots(s, p))
          /\ Cardinality(InFlightSlots(s, p)) \in Nat
      BY Zenon, <3>2, SlotSetFinite
    <3>4. CASE p = q
      <4>1. InFlightSlots(t, p) = InFlightSlots(s, p) \ {x}
        BY Zenon, <2>1, <2>4, <3>4, SchedulerConstants DEF InFlightSlots
      <4>2. x \in InFlightSlots(s, p)
        BY Zenon, <3>4 DEF InFlightSlots
      <4>3. Cardinality(InFlightSlots(t, p)) = Cardinality(InFlightSlots(s, p)) - 1
        BY <4>1, <4>2, <3>3, FS_RemoveElement, ZenonT(30)
      <4>4. Cardinality(InFlightSlots(s, p)) # 0
        BY Zenon, <4>2, <3>3, FS_EmptySet
      <4> QED
        BY <4>3, <4>4, <3>1, <3>3, <3>4, <2>1 DEF Decremented, counters
    <3>5. CASE p # q
      <4>1. InFlightSlots(t, p) = InFlightSlots(s, p)
        BY Zenon, <2>1, <2>4, <3>5, SchedulerConstants DEF InFlightSlots
      <4> QED
        BY Zenon, <4>1, <3>1, <3>5, <2>1 DEF Decremented, counters
    <3> QED
      BY Zenon, <3>4, <3>5
  <2>7. ExactCounters(t)
    BY Zenon, <2>4, <2>6 DEF ExactCounters
  <2>8. DoneNotInFlight(t)
    BY Zenon, <2>1, <2>4 DEF Consistent, DoneNotInFlight
  <2>9. PrefixCounted(t)
    BY Zenon, <2>4 DEF Consistent, PrefixCounted
  <2> QED
    BY Zenon, <2>1, <2>4, <2>5, <2>7, <2>8, <2>9 DEF Consistent, t
<1> QED
  BY Zenon, <1>1, <1>2

\* A stored block is marked and its request, whoever it was assigned to, is
\* forgotten (mark_block_complete): consistency is kept.
LEMMA MarkBlockCompleteConsistent ==
  ASSUME NEW s, Consistent(s), NEW x \in Slot
  PROVE  Consistent(MarkBlockComplete(s, x))
<1> DEFINE r == RemoveInFlight(s, x)
           t == MarkBlockComplete(s, x)
<1>1. Consistent(r) /\ r.in_flight[x] = NoPeer
  BY Zenon, RemoveInFlightConsistent
<1>2. t = [r EXCEPT !.completed_blocks = @ \cup {x}]
  BY Zenon DEF MarkBlockComplete
<1> HIDE DEF r, t
<1>3. /\ t.completed_blocks = r.completed_blocks \cup {x}
      /\ t.in_flight = r.in_flight
      /\ t.in_flight_per_peer = r.in_flight_per_peer
      /\ t.completed_pieces = r.completed_pieces
      /\ t.next_piece = r.next_piece
      /\ t.piece_count = r.piece_count
      /\ t \in SchedulerRecord
  BY Zenon, <1>1, <1>2 DEF Consistent, SchedulerType, SchedulerRecord
<1>4. SchedulerType(t)
  BY Zenon, <1>1, <1>3 DEF Consistent, SchedulerType
<1>5. ExactCounters(t)
  BY <1>1, <1>3 DEF Consistent, ExactCounters, InFlightSlots
<1>6. DoneNotInFlight(t)
  BY Zenon, <1>1, <1>3 DEF Consistent, DoneNotInFlight
<1>7. PrefixCounted(t)
  BY Zenon, <1>1, <1>3 DEF Consistent, PrefixCounted
<1> QED
  BY Zenon, <1>4, <1>5, <1>6, <1>7 DEF Consistent, t

\* A request a peer could not accept (release_peer_request).
LEMMA ReleasePeerRequestConsistent ==
  ASSUME NEW s, Consistent(s), NEW p \in Peer, NEW x \in Slot
  PROVE  Consistent(ReleasePeerRequest(s, p, x))
BY Zenon, RemoveInFlightConsistent DEF ReleasePeerRequest

\* Learning what a peer has (update_peer_availability).
LEMMA UpdatePeerAvailabilityConsistent ==
  ASSUME NEW s, Consistent(s), NEW p \in Peer, NEW pieces \in SUBSET Piece
  PROVE  Consistent(UpdatePeerAvailability(s, p, pieces))
<1> DEFINE t == UpdatePeerAvailability(s, p, pieces)
<1>1. /\ t.completed_blocks = s.completed_blocks
      /\ t.in_flight = s.in_flight
      /\ t.in_flight_per_peer = s.in_flight_per_peer
      /\ t.completed_pieces = s.completed_pieces
      /\ t.next_piece = s.next_piece
      /\ t.piece_count = s.piece_count
      /\ t \in SchedulerRecord
  BY Zenon DEF Consistent, SchedulerType, SchedulerRecord, UpdatePeerAvailability
<1> HIDE DEF t
<1>2. SchedulerType(t)
  BY Zenon, <1>1 DEF Consistent, SchedulerType
<1>3. ExactCounters(t)
  BY Zenon, <1>1 DEF Consistent, ExactCounters, InFlightSlots
<1>4. DoneNotInFlight(t) /\ PrefixCounted(t)
  BY Zenon, <1>1 DEF Consistent, DoneNotInFlight, PrefixCounted
<1> QED
  BY Zenon, <1>2, <1>3, <1>4 DEF Consistent, t

\* A peer that leaves gives its requests back (peer_disconnected).
LEMMA PeerDisconnectedConsistent ==
  ASSUME NEW s, Consistent(s), NEW p \in Peer
  PROVE  Consistent(PeerDisconnected(s, p))
<1> DEFINE t == PeerDisconnected(s, p)
           kept == [x \in Slot |-> IF s.in_flight[x] = p THEN NoPeer
                                                         ELSE s.in_flight[x]]
<1>1. kept \in [Slot -> Peer \cup {NoPeer}]
  BY Zenon DEF Consistent, SchedulerType, SchedulerRecord
<1>2. t = [s EXCEPT !.in_flight = kept,
                    !.in_flight_per_peer[p] = 0,
                    !.peer_availability[p] = {},
                    !.request_cursors[p] = 0]
  BY Zenon DEF PeerDisconnected
<1> HIDE DEF t, kept
<1>3. /\ t.completed_blocks = s.completed_blocks
      /\ t.in_flight = kept
      /\ t.in_flight_per_peer = [s.in_flight_per_peer EXCEPT ![p] = 0]
      /\ t.completed_pieces = s.completed_pieces
      /\ t.next_piece = s.next_piece
      /\ t.piece_count = s.piece_count
      /\ t \in SchedulerRecord
  <2>1. 0 \in Nat /\ {} \in SUBSET Piece
    BY Zenon
  <2> QED
    BY <1>1, <1>2, <2>1, Zenon DEF Consistent, SchedulerType, SchedulerRecord
<1>4. SchedulerType(t)
  BY Zenon, <1>3 DEF Consistent, SchedulerType
<1>5. ASSUME NEW q \in Peer
      PROVE  t.in_flight_per_peer[q] = Cardinality(InFlightSlots(t, q))
  <2>0. s.in_flight_per_peer \in [Peer -> Nat]
    BY Zenon DEF Consistent, SchedulerType, SchedulerRecord
  <2>1. CASE q = p
    <3>1. InFlightSlots(t, q) = {}
      BY Zenon, <1>3, <2>1, SchedulerConstants DEF InFlightSlots, kept
    <3> QED
      BY Zenon, <3>1, <2>0, <2>1, <1>3, FS_EmptySet
  <2>2. CASE q # p
    <3>1. InFlightSlots(t, q) = InFlightSlots(s, q)
      BY Zenon, <1>3, <2>2, SchedulerConstants DEF InFlightSlots, kept
    <3> QED
      BY Zenon, <3>1, <2>0, <2>2, <1>3 DEF Consistent, ExactCounters
  <2> QED
    BY Zenon, <2>1, <2>2
<1>6. DoneNotInFlight(t)
  BY Zenon, <1>3 DEF Consistent, DoneNotInFlight, kept
<1>7. PrefixCounted(t)
  BY Zenon, <1>3 DEF Consistent, PrefixCounted
<1> QED
  BY Zenon, <1>4, <1>5, <1>6, <1>7 DEF Consistent, ExactCounters, t

\* Requests that timed out are given back and the counters rebuilt
\* (release_stale_requests), whichever requests these are.
LEMMA ReleaseStaleRequestsConsistent ==
  ASSUME NEW s, Consistent(s), NEW stale \in SUBSET Slot
  PROVE  Consistent(ReleaseStaleRequests(s, stale))
<1> DEFINE t == ReleaseStaleRequests(s, stale)
           kept == [x \in Slot |-> IF x \in stale THEN NoPeer
                                                  ELSE s.in_flight[x]]
           counters == [p \in Peer |-> Cardinality({x \in Slot : kept[x] = p})]
<1>1. kept \in [Slot -> Peer \cup {NoPeer}]
  BY Zenon DEF Consistent, SchedulerType, SchedulerRecord
<1>2. counters \in [Peer -> Nat]
  <2>1. \A p \in Peer : {x \in Slot : kept[x] = p} \in SUBSET Slot
    BY Zenon
  <2> HIDE DEF kept
  <2> QED
    BY Zenon, <2>1, SlotSetFinite
<1>3. t = [s EXCEPT !.in_flight = kept, !.in_flight_per_peer = counters]
  BY Zenon DEF ReleaseStaleRequests
<1> HIDE DEF t, kept, counters
<1>4. /\ t.completed_blocks = s.completed_blocks
      /\ t.in_flight = kept
      /\ t.in_flight_per_peer = counters
      /\ t.completed_pieces = s.completed_pieces
      /\ t.next_piece = s.next_piece
      /\ t.piece_count = s.piece_count
      /\ t \in SchedulerRecord
  BY <1>1, <1>2, <1>3, Zenon DEF Consistent, SchedulerType, SchedulerRecord
<1>5. SchedulerType(t)
  BY Zenon, <1>4 DEF Consistent, SchedulerType
<1>6. ExactCounters(t)
  BY <1>4 DEF ExactCounters, InFlightSlots, counters
<1>7. DoneNotInFlight(t)
  BY Zenon, <1>4 DEF Consistent, DoneNotInFlight, kept
<1>8. PrefixCounted(t)
  BY Zenon, <1>4 DEF Consistent, PrefixCounted
<1> QED
  BY Zenon, <1>5, <1>6, <1>7, <1>8 DEF Consistent, t

\* Assigning requestable blocks to a peer (the loop of requests_for_peer)
\* keeps consistency and raises the peer's counter by their number.
LEMMA WithRequestsConsistent ==
  ASSUME NEW s, Consistent(s), NEW p \in Peer,
         NEW new \in SUBSET Requestable(s, p)
  PROVE  /\ Consistent(WithRequests(s, p, new))
         /\ WithRequests(s, p, new).in_flight_per_peer =
              [s.in_flight_per_peer EXCEPT ![p] = @ + Cardinality(new)]
<1> USE DEF Consistent
<1>0. /\ s.in_flight_per_peer \in [Peer -> Nat]
      /\ s.in_flight \in [Slot -> Peer \cup {NoPeer}]
      /\ s \in SchedulerRecord
  BY Zenon DEF SchedulerType, SchedulerRecord
<1>1. new \in SUBSET Slot /\ \A x \in new : s.in_flight[x] = NoPeer
  BY Zenon DEF Requestable
<1>2. IsFiniteSet(new) /\ Cardinality(new) \in Nat
  BY Zenon, <1>1, SlotSetFinite
<1>3. CASE new = {}
  <2>1. WithRequests(s, p, new) = s /\ Cardinality(new) = 0
    BY Zenon, <1>3, FS_EmptySet DEF WithRequests
  <2>2. s.in_flight_per_peer
          = [s.in_flight_per_peer EXCEPT ![p] = @ + Cardinality(new)]
    BY <2>1, <1>0
  <2> QED
    BY Zenon, <2>1, <2>2
<1>4. CASE new # {}
  <2> DEFINE t == WithRequests(s, p, new)
             last == CHOOSE x \in new :
                       \A y \in new : Rank(s, p, y) <= Rank(s, p, x)
             cursor == IF last + 1 < TotalSlots THEN last + 1 ELSE FirstSlot(s)
             assigned == [x \in Slot |-> IF x \in new THEN p ELSE s.in_flight[x]]
             grown == [s.in_flight_per_peer EXCEPT ![p] = @ + Cardinality(new)]
  <2>1. last \in new
    <3> DEFINE T == {TotalSlots - Rank(s, p, x) : x \in new}
    <3>1. T \in SUBSET Nat /\ T # {}
      BY <1>4, RankInjective, SlotsFinite
    <3>2. PICK m \in T : \A n \in T : m <= n
      BY <3>1, LeastNatural, Zenon
    <3>3. PICK x \in new : m = TotalSlots - Rank(s, p, x)
      BY Zenon, <3>2
    <3>4. ASSUME NEW y \in new PROVE Rank(s, p, y) <= Rank(s, p, x)
      <4>1. TotalSlots - Rank(s, p, y) \in T
        BY Zenon
      <4>2. TotalSlots - Rank(s, p, x) <= TotalSlots - Rank(s, p, y)
        BY Zenon, <4>1, <3>2, <3>3
      <4>3. Rank(s, p, x) \in Int /\ Rank(s, p, y) \in Int /\ TotalSlots \in Int
        BY RankInjective, SlotsFinite
      <4> QED
        BY <4>2, <4>3
    <3> QED
      BY Zenon, <3>4
  <2>2. cursor \in Nat
    <3>1. FirstSlot(s) \in Nat
      BY SchedulerConstants DEF FirstSlot, SchedulerType, SchedulerRecord
    <3> HIDE DEF last
    <3>2. last \in Nat
      BY Zenon, <2>1, <1>1, SlotsFinite
    <3> QED
      BY <3>1, <3>2
  <2>3. assigned \in [Slot -> Peer \cup {NoPeer}]
    BY Zenon, <1>0
  <2>4. grown \in [Peer -> Nat]
    BY <1>0, <1>2
  <2>5. t = [s EXCEPT !.in_flight = assigned,
                      !.in_flight_per_peer[p] = @ + Cardinality(new),
                      !.request_cursors[p] = cursor]
    BY Zenon, <1>4 DEF WithRequests
  <2> HIDE DEF t, last, cursor, assigned
  <2>6. /\ t.completed_blocks = s.completed_blocks
        /\ t.in_flight = assigned
        /\ t.in_flight_per_peer = grown
        /\ t.completed_pieces = s.completed_pieces
        /\ t.next_piece = s.next_piece
        /\ t.piece_count = s.piece_count
    BY <1>0, <2>5, Zenon DEF SchedulerRecord
  <2>7. t \in SchedulerRecord
    <3>1. t = [s EXCEPT !.in_flight = assigned,
                        !.in_flight_per_peer = grown,
                        !.request_cursors[p] = cursor]
      BY <1>0, <2>5, Zenon DEF SchedulerRecord
    <3> HIDE DEF grown
    <3> QED
      BY <1>0, <2>2, <2>3, <2>4, <3>1, Zenon DEF SchedulerRecord
  <2>8. SchedulerType(t)
    BY Zenon, <2>6, <2>7 DEF SchedulerType
  <2>9. ASSUME NEW q \in Peer
        PROVE  grown[q] = Cardinality(InFlightSlots(t, q))
    <3>1. /\ InFlightSlots(s, q) \in SUBSET Slot
          /\ s.in_flight_per_peer[q] = Cardinality(InFlightSlots(s, q))
      BY Zenon DEF InFlightSlots, ExactCounters
    <3>2. /\ IsFiniteSet(InFlightSlots(s, q))
          /\ Cardinality(InFlightSlots(s, q)) \in Nat
      BY Zenon, <3>1, SlotSetFinite
    <3>3. CASE q = p
      <4>1. InFlightSlots(t, q) = InFlightSlots(s, q) \cup new
        BY Zenon, <1>1, <2>6, <3>3 DEF InFlightSlots, assigned
      <4>2. InFlightSlots(s, q) \cap new = {}
        BY Zenon, <1>1, SchedulerConstants DEF InFlightSlots
      <4>3. Cardinality(InFlightSlots(t, q))
              = Cardinality(InFlightSlots(s, q)) + Cardinality(new)
        BY <4>1, <4>2, <3>2, <1>2, FS_Union, FS_EmptySet
      <4> QED
        BY Zenon, <4>3, <3>1, <3>3, <1>0
    <3>4. CASE q # p
      <4>1. InFlightSlots(t, q) = InFlightSlots(s, q)
        BY Zenon, <1>1, <2>6, <3>4, SchedulerConstants DEF InFlightSlots, assigned
      <4> QED
        BY Zenon, <4>1, <3>1, <3>4, <1>0
    <3> QED
      BY Zenon, <3>3, <3>4
  <2>10. ExactCounters(t)
    BY Zenon, <2>6, <2>9 DEF ExactCounters
  <2>11. DoneNotInFlight(t)
    BY Zenon, <2>6 DEF DoneNotInFlight, Requestable, assigned
  <2>12. PrefixCounted(t)
    BY Zenon, <2>6 DEF PrefixCounted
  <2> QED
    BY Zenon, <2>6, <2>8, <2>10, <2>11, <2>12 DEF t
<1> QED
  BY Zenon, <1>3, <1>4

-----------------------------------------------------------------------------
(* What each method changes *)

\* Requests are only given back: what every method but requests_for_peer does
\* to in_flight.
GivesBack(s, t) == \A x \in Slot : t.in_flight[x] \in {NoPeer, s.in_flight[x]}

\* No piece is marked.
SamePieces(s, t) == /\ t.piece_count = s.piece_count
                    /\ t.completed_pieces = s.completed_pieces

\* A peer's requests, once given back, are no more than before.
LEMMA GivesBackShrinks ==
  ASSUME NEW s, NEW t, GivesBack(s, t), NEW p \in Peer
  PROVE  /\ Cardinality(InFlightSlots(s, p)) \in Nat
         /\ Cardinality(InFlightSlots(t, p)) \in Nat
         /\ Cardinality(InFlightSlots(t, p)) <= Cardinality(InFlightSlots(s, p))
<1>1. /\ InFlightSlots(t, p) \in SUBSET InFlightSlots(s, p)
      /\ InFlightSlots(s, p) \in SUBSET Slot
      /\ InFlightSlots(t, p) \in SUBSET Slot
  BY Zenon, SchedulerConstants DEF InFlightSlots, GivesBack
<1>2. /\ IsFiniteSet(InFlightSlots(s, p))
      /\ Cardinality(InFlightSlots(s, p)) \in Nat
      /\ Cardinality(InFlightSlots(t, p)) \in Nat
  BY Zenon, <1>1, SlotSetFinite
<1> QED
  BY Zenon, <1>1, <1>2, FS_Subset

\* remove_in_flight gives back one request and touches no block or piece.
LEMMA RemoveInFlightEffect ==
  ASSUME NEW s \in SchedulerRecord, NEW x \in Slot
  PROVE  LET t == RemoveInFlight(s, x)
         IN  /\ \A y \in Slot :
                  t.in_flight[y] = IF y = x THEN NoPeer ELSE s.in_flight[y]
             /\ t.completed_blocks = s.completed_blocks
             /\ SamePieces(s, t)
<1>1. CASE s.in_flight[x] = NoPeer
  BY <1>1, Zenon DEF RemoveInFlight, SamePieces
<1>2. CASE s.in_flight[x] # NoPeer
  <2> DEFINE c == Decremented(s.in_flight_per_peer, s.in_flight[x])
             t == [s EXCEPT !.in_flight[x] = NoPeer, !.in_flight_per_peer = c]
  <2>1. RemoveInFlight(s, x) = t
    BY <1>2, Zenon DEF RemoveInFlight
  <2>2. /\ t.in_flight = [s.in_flight EXCEPT ![x] = NoPeer]
        /\ t.completed_blocks = s.completed_blocks
        /\ SamePieces(s, t)
    BY Zenon DEF SchedulerRecord, SamePieces
  <2>3. s.in_flight \in [Slot -> Peer \cup {NoPeer}]
    BY Zenon DEF SchedulerRecord
  <2> QED
    BY <2>1, <2>2, <2>3, Zenon
<1> QED
  BY Zenon, <1>1, <1>2

\* mark_block_complete gives back the request for the block and marks it.
LEMMA MarkBlockCompleteEffect ==
  ASSUME NEW s, Consistent(s), NEW x \in Slot
  PROVE  LET t == MarkBlockComplete(s, x)
         IN  /\ \A y \in Slot :
                  t.in_flight[y] = IF y = x THEN NoPeer ELSE s.in_flight[y]
             /\ t.completed_blocks = s.completed_blocks \cup {x}
             /\ SamePieces(s, t)
<1> DEFINE r == RemoveInFlight(s, x)
           t == [r EXCEPT !.completed_blocks = @ \cup {x}]
<1>1. s \in SchedulerRecord
  BY Zenon DEF Consistent, SchedulerType
<1>2. r \in SchedulerRecord
  BY Zenon, RemoveInFlightConsistent DEF Consistent, SchedulerType
<1>3. /\ \A y \in Slot : r.in_flight[y] = IF y = x THEN NoPeer ELSE s.in_flight[y]
      /\ r.completed_blocks = s.completed_blocks
      /\ SamePieces(s, r)
  BY Zenon, <1>1, RemoveInFlightEffect
<1> HIDE DEF r
<1>4. /\ t.in_flight = r.in_flight
      /\ t.completed_blocks = r.completed_blocks \cup {x}
      /\ SamePieces(r, t)
  BY <1>2, Zenon DEF SchedulerRecord, SamePieces
<1>5. MarkBlockComplete(s, x) = t
  BY Zenon DEF MarkBlockComplete, r
<1> QED
  BY <1>3, <1>4, <1>5, Zenon DEF SamePieces

\* remove_piece_blocks forgets the stored blocks of one piece.
LEMMA RemovePieceBlocksEffect ==
  ASSUME NEW s \in SchedulerRecord, NEW i \in Piece
  PROVE  LET t == RemovePieceBlocks(s, i)
         IN  /\ t.in_flight = s.in_flight
             /\ t.completed_blocks = s.completed_blocks \ BlocksOf(i)
             /\ SamePieces(s, t)
BY Zenon DEF RemovePieceBlocks, SchedulerRecord, SamePieces

\* mark_piece_complete adds the piece, if the scheduler knows of it.
LEMMA MarkPieceCompleteEffect ==
  ASSUME NEW s \in SchedulerRecord, NEW i \in Piece
  PROVE  LET t == MarkPieceComplete(s, i)
         IN  /\ t.in_flight = s.in_flight
             /\ t.piece_count = s.piece_count
             /\ t.completed_pieces = IF i < s.piece_count
                                     THEN s.completed_pieces \cup {i}
                                     ELSE s.completed_pieces
BY Zenon DEF MarkPieceComplete, SchedulerRecord

\* release_peer_request gives back a request of the peer that rejects it.
LEMMA ReleasePeerRequestEffect ==
  ASSUME NEW s \in SchedulerRecord, NEW p \in Peer, NEW x \in Slot
  PROVE  LET t == ReleasePeerRequest(s, p, x)
         IN  /\ \A y \in Slot :
                  t.in_flight[y] = IF y = x /\ s.in_flight[x] = p
                                   THEN NoPeer ELSE s.in_flight[y]
             /\ SamePieces(s, t)
BY RemoveInFlightEffect, Zenon DEF ReleasePeerRequest, SamePieces

\* update_peer_availability touches no request.
LEMMA UpdatePeerAvailabilityEffect ==
  ASSUME NEW s \in SchedulerRecord, NEW p \in Peer, NEW ps \in SUBSET Piece
  PROVE  LET t == UpdatePeerAvailability(s, p, ps)
         IN  t.in_flight = s.in_flight /\ SamePieces(s, t)
BY Zenon DEF UpdatePeerAvailability, SchedulerRecord, SamePieces

\* peer_disconnected gives back every request of the peer.
LEMMA PeerDisconnectedEffect ==
  ASSUME NEW s \in SchedulerRecord, NEW p \in Peer
  PROVE  LET t == PeerDisconnected(s, p)
         IN  /\ \A y \in Slot :
                  t.in_flight[y] = IF s.in_flight[y] = p
                                   THEN NoPeer ELSE s.in_flight[y]
             /\ SamePieces(s, t)
BY Zenon DEF PeerDisconnected, SchedulerRecord, SamePieces

\* release_stale_requests gives back the stale requests.
LEMMA ReleaseStaleRequestsEffect ==
  ASSUME NEW s \in SchedulerRecord, NEW stale \in SUBSET Slot
  PROVE  LET t == ReleaseStaleRequests(s, stale)
         IN  /\ \A y \in Slot :
                  t.in_flight[y] = IF y \in stale THEN NoPeer ELSE s.in_flight[y]
             /\ SamePieces(s, t)
BY Zenon DEF ReleaseStaleRequests, SchedulerRecord, SamePieces

\* requests_for_peer assigns the new requests to the peer.
LEMMA WithRequestsEffect ==
  ASSUME NEW s \in SchedulerRecord, NEW p \in Peer, NEW new \in SUBSET Slot
  PROVE  LET t == WithRequests(s, p, new)
         IN  /\ \A y \in Slot :
                  t.in_flight[y] = IF y \in new THEN p ELSE s.in_flight[y]
             /\ SamePieces(s, t)
BY Zenon DEF WithRequests, SchedulerRecord, SamePieces

=============================================================================
