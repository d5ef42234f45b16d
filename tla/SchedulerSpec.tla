----------------------------- MODULE SchedulerSpec -----------------------------
(***************************************************************************)
(* The piece scheduler as a state machine of its own: one action per method *)
(* of PieceScheduler, called with the arguments the torrent actor can call  *)
(* it with and in the circumstances in which it does. What holds here holds *)
(* in every handler of the torrent actor, whatever order they run in.       *)
(***************************************************************************)
EXTENDS PieceScheduler

CONSTANTS
  MaxInFlight,   \* settings.torrent.max_in_flight_per_peer
  InitialWindow  \* settings.torrent.initial_peer_request_window

ASSUME WindowConstant == {MaxInFlight, InitialWindow} \subseteq Nat

Window == IF InitialWindow > MaxInFlight THEN InitialWindow ELSE MaxInFlight

VARIABLE sched

\* The scheduler restore_snapshot builds: every complete piece marked on a
\* new scheduler, then the partial blocks of the others.
Restored(done, blocks) ==
  [New(NumPieces) EXCEPT
     !.completed_pieces = done,
     !.completed_blocks = blocks,
     !.next_piece = FirstIncomplete(done, 0, NumPieces)]

Init == sched = New(NumPieces)

Restore(done, blocks) ==
  /\ \A x \in blocks : PieceOf(x) \notin done
  /\ sched' = Restored(done, blocks)

PeerReady(p, pieces) == sched' = UpdatePeerAvailability(sched, p, pieces)

\* A Have of the peer sets a bit of the shared availability in place.
PeerHave(p, i) ==
  sched' = UpdatePeerAvailability(sched, p, sched.peer_availability[p] \cup {i})

\* fill_peer_request_window_to: ask for what the window has room for; at the
\* start that is the initial window, afterwards the limit per peer.
Fill(p, target_size) ==
  LET room == target_size - sched.in_flight_per_peer[p]
  IN  /\ room > 0
      /\ sched' = WithRequests(sched, p, RequestsForPeer(sched, p, room))

\* A block that is_duplicate_block does not know is stored and marked; it may
\* belong to any piece and be assigned to any peer or to none.
BlockStored(x) ==
  /\ ~IsDuplicateBlock(sched, x)
  /\ sched' = MarkBlockComplete(sched, x)

PieceVerified(i) ==
  /\ IsPieceComplete(sched, i)
  /\ sched' = MarkPieceComplete(RemovePieceBlocks(sched, i), i)

PieceRejected(i) ==
  /\ IsPieceComplete(sched, i)
  /\ sched' = RemovePieceBlocks(sched, i)

RequestRejected(p, x) == sched' = ReleasePeerRequest(sched, p, x)

Disconnect(p) == sched' = PeerDisconnected(sched, p)

Stale(stale) == sched' = ReleaseStaleRequests(sched, stale)

Next ==
  \/ \E done \in SUBSET Piece, blocks \in SUBSET Slot : Restore(done, blocks)
  \/ \E p \in Peer :
       \/ \E pieces \in SUBSET Piece : PeerReady(p, pieces)
       \/ \E i \in Piece : PeerHave(p, i)
       \/ \E target_size \in {MaxInFlight, InitialWindow} : Fill(p, target_size)
       \/ \E x \in Slot : RequestRejected(p, x)
       \/ Disconnect(p)
  \/ \E x \in Slot : BlockStored(x)
  \/ \E i \in Piece : PieceVerified(i) \/ PieceRejected(i)
  \/ \E stale \in SUBSET Slot : Stale(stale)

Spec == Init /\ [][Next]_sched

-----------------------------------------------------------------------------
(* Properties *)

\* The scheduler's fields have the types of the struct, and next_piece and
\* the completed pieces stay within the piece count.
TypeOK == SchedulerType(sched)

\* The counter that bounds a peer's window (in_flight_per_peer) is always the
\* number of blocks recorded as requested from it, through assignment,
\* completion by another peer, rejection, expiry and disconnection.
CountersExact == ExactCounters(sched)

\* A peer is never asked for more than the larger of its two windows
\* (initial_peer_request_window and max_in_flight_per_peer).
WindowBounded ==
  \A p \in Peer : Cardinality(InFlightSlots(sched, p)) <= Window

\* No block is on request that is already stored or whose piece is verified:
\* nothing is downloaded again while it is in hand.
NothingDoneInFlight == DoneNotInFlight(sched)

\* next_piece, which decides that the download is finished and where the
\* request loop starts, is the length of the completed prefix.
NextPieceIsPrefix == PrefixCounted(sched)

\* A block on request from one peer is never handed to another without being
\* released in between.
RequestsExclusive ==
  [][\A x \in Slot :
       \/ sched.in_flight[x] = NoPeer
       \/ sched'.in_flight[x] \in {NoPeer, sched.in_flight[x]}]_sched

\* What the torrent actor relies on between two calls, of whatever methods in
\* whatever order: exact counters, bounded windows, no request for what is in
\* hand, and a next_piece that is the completed prefix.
SchedulerSound ==
  TypeOK /\ CountersExact /\ WindowBounded /\ NothingDoneInFlight /\ NextPieceIsPrefix
=============================================================================
