------------------------------ MODULE RequestLoop ------------------------------
(***************************************************************************)
(* The loop of PieceScheduler::requests_for_peer as it is written, slot by  *)
(* slot from the cursor to the end and round from the first slot of         *)
(* interest, compared with the closed form the other modules use            *)
(* (RequestsForPeer and WithRequests) in every state of SchedulerSpec.      *)
(***************************************************************************)
EXTENDS SchedulerSpec, Sequences

\* a..(b-1) as a sequence.
Span(a, b) == IF a < b THEN [k \in 1..(b - a) |-> a + k - 1] ELSE <<>>

\* What the body does with a slot it does not skip.
Assigned(s, p, slot) ==
  [s EXCEPT !.in_flight[slot] = p,
            !.in_flight_per_peer[p] = @ + 1,
            !.request_cursors[p] = IF slot + 1 < TotalSlots THEN slot + 1
                                                            ELSE FirstSlot(s)]

Skipped(s, p, slot) ==
  \/ PieceOf(slot) \in s.completed_pieces
  \/ PieceOf(slot) \notin s.peer_availability[p]
  \/ s.in_flight[slot] # NoPeer
  \/ slot \in s.completed_blocks

RECURSIVE Loop(_, _, _, _, _)
Loop(s, p, limit, slots, requests) ==
  IF slots = <<>> \/ Len(requests) >= limit
  THEN [sched |-> s, requests |-> requests]
  ELSE IF Skipped(s, p, Head(slots))
  THEN Loop(s, p, limit, Tail(slots), requests)
  ELSE Loop(Assigned(s, p, Head(slots)), p, limit, Tail(slots),
            Append(requests, Head(slots)))

SlotOrderNoWrap(s, p) == Span(Cursor(s, p), TotalSlots)

\* (cursor..total_slots).chain(first_slot..cursor)
SlotOrder(s, p) ==
  Span(Cursor(s, p), TotalSlots) \o Span(FirstSlot(s), Cursor(s, p))

\* requests_for_peer.
LoopRequests(s, p, limit) ==
  IF s.piece_count = 0 THEN [sched |-> s, requests |-> <<>>]
  ELSE Loop(s, p, limit, SlotOrder(s, p), <<>>)

\* Whatever is done, requested and available, and wherever the cursor is, the
\* loop asks for exactly the first `limit` blocks the peer can be asked for in
\* cursor order, and leaves the scheduler as WithRequests says: no block is
\* skipped at the wrap-around, none is asked for twice, and a limit larger
\* than what is left ends the loop.
LoopTakesFirstRequestable ==
  \A p \in Peer, limit \in 0..(TotalSlots + 1) :
    LET loop == LoopRequests(sched, p, limit)
        asked == RequestsForPeer(sched, p, limit)
    IN  /\ {loop.requests[k] : k \in DOMAIN loop.requests} = asked
        /\ Len(loop.requests) = Cardinality(asked)
        /\ \A j, k \in DOMAIN loop.requests : j < k =>
             Rank(sched, p, loop.requests[j]) < Rank(sched, p, loop.requests[k])
        /\ loop.sched = WithRequests(sched, p, asked)

=============================================================================
