---------------------------- MODULE PieceScheduler ----------------------------
(***************************************************************************)
(* The block scheduler of a torrent (pieces/piece_scheduler.rs): which      *)
(* blocks are done, which are requested, from whom, and what a peer is      *)
(* asked for next.                                                          *)
(*                                                                         *)
(* A scheduler is one record, as the code's is one struct, and every method *)
(* that changes it is an operator from a record to a record, so that the    *)
(* torrent actor's handlers (module PieceFlow) can call several of them in  *)
(* one step. A block is named by its slot, piece_index * blocks_per_piece + *)
(* block_index, the number requests_for_peer iterates over. In a hash map   *)
(* an absent entry and its default value are told apart nowhere in the      *)
(* code, so an absent counter or cursor is 0 and absent availability is {}. *)
(***************************************************************************)
EXTENDS Integers, FiniteSets

CONSTANTS
  Peer,            \* the peer ids
  NoPeer,          \* "no request": the None of in_flight
  NumPieces,       \* piece_count of the info dict
  BlocksPerPiece,  \* piece_length.div_ceil(BLOCK_SIZE)
  LastBlocks       \* last_piece_len.div_ceil(BLOCK_SIZE)

ASSUME SchedulerConstants ==
  /\ IsFiniteSet(Peer) /\ NoPeer \notin Peer
  /\ NumPieces \in Nat \ {0}
  /\ BlocksPerPiece \in Nat \ {0}
  /\ LastBlocks \in 1..BlocksPerPiece

Piece == 0..(NumPieces - 1)

TotalSlots == (NumPieces - 1) * BlocksPerPiece + LastBlocks

Slot == 0..(TotalSlots - 1)

PieceOf(x) == x \div BlocksPerPiece

BlocksOf(i) == {x \in Slot : PieceOf(x) = i}

\* PieceScheduler::new. A magnet torrent calls it with 0 pieces.
New(piece_count) ==
  [ piece_count        |-> piece_count,
    completed_pieces   |-> {},
    completed_blocks   |-> {},
    in_flight          |-> [x \in Slot |-> NoPeer],
    in_flight_per_peer |-> [p \in Peer |-> 0],
    peer_availability  |-> [p \in Peer |-> {}],
    request_cursors    |-> [p \in Peer |-> 0],
    next_piece         |-> 0 ]

-----------------------------------------------------------------------------
(* Queries *)

InFlightSlots(s, p) == {x \in Slot : s.in_flight[x] = p}

IsDuplicateBlock(s, x) == x \in s.completed_blocks

IsPieceComplete(s, i) == BlocksOf(i) \subseteq s.completed_blocks

FirstSlot(s) == s.next_piece * BlocksPerPiece

RequestableTwice(s, p) ==
  {x \in Slot : /\ s.piece_count # 0
                /\ FirstSlot(s) <= x
                /\ PieceOf(x) \notin s.completed_pieces
                /\ PieceOf(x) \in s.peer_availability[p]
                /\ x \notin s.completed_blocks}

\* What the loop of requests_for_peer does not skip.
Requestable(s, p) ==
  {x \in Slot : /\ s.piece_count # 0
                /\ FirstSlot(s) <= x
                /\ PieceOf(x) \notin s.completed_pieces
                /\ PieceOf(x) \in s.peer_availability[p]
                /\ s.in_flight[x] = NoPeer
                /\ x \notin s.completed_blocks}

\* The cursor the loop starts from, clamped to the slots still of interest.
Cursor(s, p) ==
  CASE s.next_piece = s.piece_count -> TotalSlots
    [] s.request_cursors[p] < FirstSlot(s) -> FirstSlot(s)
    [] s.request_cursors[p] > TotalSlots -> TotalSlots
    [] OTHER -> s.request_cursors[p]

\* The place of slot x in the order (cursor..total).chain(first..cursor).
Rank(s, p, x) ==
  IF x >= Cursor(s, p)
  THEN x - Cursor(s, p)
  ELSE x - FirstSlot(s) + (TotalSlots - Cursor(s, p))

Before(s, p, x) == {y \in Requestable(s, p) : Rank(s, p, y) < Rank(s, p, x)}

\* The blocks requests_for_peer returns: the first `limit` requestable ones.
RequestsForPeer(s, p, limit) ==
  {x \in Requestable(s, p) : Cardinality(Before(s, p, x)) < limit}

-----------------------------------------------------------------------------
(* Methods that change the scheduler *)

\* The first piece from n on that is not complete, or the piece count.
FirstIncomplete(done, n, count) ==
  CHOOSE m \in n..count : /\ m = count \/ m \notin done
                          /\ \A k \in n..(m - 1) : k \in done

MarkPieceComplete(s, i) ==
  LET done == IF i < s.piece_count THEN s.completed_pieces \cup {i}
                                   ELSE s.completed_pieces
  IN  [s EXCEPT !.completed_blocks = @ \ BlocksOf(i),
                !.completed_pieces = done,
                !.next_piece = FirstIncomplete(done, @, s.piece_count)]

RestorePieceBlocks(s, i, blocks) ==
  [s EXCEPT !.completed_blocks = (@ \ BlocksOf(i)) \cup blocks]

RemovePieceBlocks(s, i) == [s EXCEPT !.completed_blocks = @ \ BlocksOf(i)]

\* decrement_in_flight: saturating, and a counter at 0 is removed.
Decremented(counters, p) ==
  [counters EXCEPT ![p] = IF @ > 0 THEN @ - 1 ELSE 0]

RemoveInFlightUncounted(s, x) == [s EXCEPT !.in_flight[x] = NoPeer]

RemoveInFlight(s, x) ==
  IF s.in_flight[x] = NoPeer THEN s
  ELSE [s EXCEPT !.in_flight[x] = NoPeer,
                 !.in_flight_per_peer = Decremented(@, s.in_flight[x])]

\* The peer mark_block_complete returns is s.in_flight[x].
MarkBlockComplete(s, x) ==
  [RemoveInFlight(s, x) EXCEPT !.completed_blocks = @ \cup {x}]

\* requests_for_peer: the loop's effect when the chosen blocks are `new`.
WithRequests(s, p, new) ==
  IF new = {} THEN s ELSE
  LET last == CHOOSE x \in new : \A y \in new : Rank(s, p, y) <= Rank(s, p, x)
  IN  [s EXCEPT !.in_flight = [x \in Slot |-> IF x \in new THEN p ELSE @[x]],
                !.in_flight_per_peer[p] = @ + Cardinality(new),
                !.request_cursors[p] = IF last + 1 < TotalSlots
                                       THEN last + 1 ELSE FirstSlot(s)]

UpdatePeerAvailability(s, p, pieces) ==
  [s EXCEPT !.peer_availability[p] = pieces]

PeerDisconnected(s, p) ==
  [s EXCEPT !.in_flight = [x \in Slot |-> IF @[x] = p THEN NoPeer ELSE @[x]],
            !.in_flight_per_peer[p] = 0,
            !.peer_availability[p] = {},
            !.request_cursors[p] = 0]

\* The counters are rebuilt from the requests that are kept. Which requests
\* are stale depends on the clock: any set of them may be.
ReleaseStaleRequests(s, stale) ==
  LET kept == [x \in Slot |-> IF x \in stale THEN NoPeer ELSE s.in_flight[x]]
  IN  [s EXCEPT !.in_flight = kept,
                !.in_flight_per_peer =
                   [p \in Peer |-> Cardinality({x \in Slot : kept[x] = p})]]

ReleasePeerRequest(s, p, x) ==
  IF s.in_flight[x] = p THEN RemoveInFlight(s, x) ELSE s

-----------------------------------------------------------------------------
(* What every method keeps of a scheduler s *)

SchedulerRecord ==
  [ piece_count        : {0, NumPieces},
    completed_pieces   : SUBSET Piece,
    completed_blocks   : SUBSET Slot,
    in_flight          : [Slot -> Peer \cup {NoPeer}],
    in_flight_per_peer : [Peer -> Nat],
    peer_availability  : [Peer -> SUBSET Piece],
    request_cursors    : [Peer -> Nat],
    next_piece         : Nat ]

SchedulerType(s) ==
  /\ s \in SchedulerRecord
  /\ \A i \in s.completed_pieces : i < s.piece_count
  /\ s.next_piece <= s.piece_count

ExactCounters(s) ==
  \A p \in Peer : s.in_flight_per_peer[p] = Cardinality(InFlightSlots(s, p))

DoneNotInFlight(s) ==
  \A x \in Slot : s.in_flight[x] # NoPeer =>
    /\ x \notin s.completed_blocks
    /\ PieceOf(x) \notin s.completed_pieces

PrefixCounted(s) ==
  /\ s.next_piece \notin s.completed_pieces
  /\ \A k \in 0..(s.next_piece - 1) : k \in s.completed_pieces

Consistent(s) ==
  /\ SchedulerType(s)
  /\ ExactCounters(s)
  /\ DoneNotInFlight(s)
  /\ PrefixCounted(s)

=============================================================================
