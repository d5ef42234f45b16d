---------------------------- MODULE PieceFlowProofs ----------------------------
(***************************************************************************)
(* The download of blocks, for every number of peers, pieces and blocks,    *)
(* every window and every mailbox size, whatever happens to peers and       *)
(* requests: the scheduler stays consistent through every handler.          *)
(***************************************************************************)
EXTENDS PieceFlow, SchedulerLemmas

-----------------------------------------------------------------------------
(* Mailboxes *)

\* One message more at the end, the first one gone, several more.
LEMMA AppendFacts ==
  ASSUME NEW S, NEW s \in Seq(S), NEW m \in S
  PROVE  /\ Append(s, m) \in Seq(S) /\ Append(s, m) = s \o <<m>>
         /\ Len(Append(s, m)) = Len(s) + 1
         /\ \A i \in 1..Len(s) : Append(s, m)[i] = s[i]
         /\ Append(s, m)[Len(s) + 1] = m
OBVIOUS

LEMMA TailFacts ==
  ASSUME NEW S, NEW s \in Seq(S), s # <<>>
  PROVE  /\ Len(s) \in Nat \ {0} /\ Head(s) \in S
         /\ Tail(s) \in Seq(S) /\ Len(Tail(s)) = Len(s) - 1
         /\ \A i \in 1..Len(Tail(s)) : Tail(s)[i] = s[i + 1]
OBVIOUS

LEMMA ConcatFacts ==
  ASSUME NEW S, NEW s \in Seq(S), NEW r \in Seq(S)
  PROVE  /\ s \o r \in Seq(S) /\ Len(s \o r) = Len(s) + Len(r)
         /\ \A i \in 1..(Len(s) + Len(r)) :
              (s \o r)[i] = IF i <= Len(s) THEN s[i] ELSE r[i - Len(s)]
OBVIOUS

LEMMA EmptyFacts ==
  ASSUME NEW S
  PROVE  /\ <<>> \in Seq(S) /\ Len(<<>>) = 0
         /\ \A s \in Seq(S) : s # <<>> => Len(s) \in Nat \ {0}
OBVIOUS

LEMMA SubsetFacts ==
  ASSUME NEW S, NEW R, R \subseteq S
  PROVE  Seq(R) \subseteq Seq(S)
OBVIOUS

-----------------------------------------------------------------------------
(* The order of new requests *)

\* The requests of S that come before x.
Earlier(s, p, S, x) == {y \in S : Rank(s, p, y) < Rank(s, p, x)}

\* The requestable blocks of a set are told apart by how many of the set come
\* before them.
LEMMA PlacesDiffer ==
  ASSUME NEW s, SchedulerType(s), NEW p \in Peer,
         NEW S \in SUBSET Requestable(s, p)
  PROVE  /\ S \in SUBSET Slot /\ IsFiniteSet(S) /\ Cardinality(S) \in Nat
         /\ \A x \in S : Cardinality(Earlier(s, p, S, x)) \in 0..(Cardinality(S) - 1)
         /\ \A x, y \in S : x # y =>
              Cardinality(Earlier(s, p, S, x)) # Cardinality(Earlier(s, p, S, y))
<1>1. S \in SUBSET Slot
  BY Zenon DEF Requestable
<1>2. IsFiniteSet(S) /\ Cardinality(S) \in Nat
  BY Zenon, <1>1, SlotSetFinite
<1>3. \A x \in S : /\ Earlier(s, p, S, x) \in SUBSET S
                   /\ Earlier(s, p, S, x) \in SUBSET Slot
                   /\ x \notin Earlier(s, p, S, x)
  BY <1>1, RankInjective DEF Earlier
<1>4. \A x \in S : /\ IsFiniteSet(Earlier(s, p, S, x))
                   /\ Cardinality(Earlier(s, p, S, x)) \in Nat
  BY Zenon, <1>3, SlotSetFinite
<1>5. \A x \in S : Cardinality(Earlier(s, p, S, x)) \in 0..(Cardinality(S) - 1)
  <2> SUFFICES ASSUME NEW x \in S
               PROVE  Cardinality(Earlier(s, p, S, x)) \in 0..(Cardinality(S) - 1)
    BY Zenon
  <2>1. /\ Cardinality(Earlier(s, p, S, x)) <= Cardinality(S)
        /\ Cardinality(Earlier(s, p, S, x)) # Cardinality(S)
    BY Zenon, <1>2, <1>3, FS_Subset
  <2> QED
    BY <2>1, <1>2, <1>4
<1>6. ASSUME NEW x \in S, NEW y \in S, Rank(s, p, x) < Rank(s, p, y)
      PROVE  Cardinality(Earlier(s, p, S, x)) # Cardinality(Earlier(s, p, S, y))
  <2>1. Earlier(s, p, S, x) \in SUBSET Earlier(s, p, S, y)
    BY <1>6, RankInjective DEF Earlier
  <2>2. x \in Earlier(s, p, S, y) /\ x \notin Earlier(s, p, S, x)
    BY Zenon, <1>3, <1>6 DEF Earlier
  <2> QED
    BY Zenon, <2>1, <2>2, <1>4, FS_Subset
<1>7. ASSUME NEW x \in S, NEW y \in S, x # y
      PROVE  Cardinality(Earlier(s, p, S, x)) # Cardinality(Earlier(s, p, S, y))
  <2>1. \/ Rank(s, p, x) < Rank(s, p, y)
        \/ Rank(s, p, y) < Rank(s, p, x)
    BY <1>7, RankInjective
  <2> QED
    BY Zenon, <2>1, <1>6
<1> QED
  BY Zenon, <1>1, <1>2, <1>5, <1>7

\* A mailbox with room for n takes at most n of the new requests.
LEMMA AcceptedFits ==
  ASSUME NEW s, SchedulerType(s), NEW p \in Peer,
         NEW new \in SUBSET Requestable(s, p), NEW n \in Nat
  PROVE  /\ Accepted(s, p, new, n) \in SUBSET new
         /\ Cardinality(Accepted(s, p, new, n)) <= n
<1> DEFINE A == Accepted(s, p, new, n)
           f == [x \in A |-> Cardinality(Earlier(s, p, new, x))]
<1>1. A \in SUBSET new /\ \A x \in A : Cardinality(Earlier(s, p, new, x)) < n
  BY Zenon DEF Accepted, Earlier
<1>2. f \in Injection(A, 0..(n - 1))
  <2>0. /\ Cardinality(new) \in Nat
        /\ \A x \in new : Cardinality(Earlier(s, p, new, x)) \in 0..(Cardinality(new) - 1)
        /\ \A x, y \in new : x # y =>
             Cardinality(Earlier(s, p, new, x)) # Cardinality(Earlier(s, p, new, y))
    BY Zenon, PlacesDiffer
  <2>1. /\ \A x \in A : Cardinality(Earlier(s, p, new, x)) \in Nat
        /\ \A x, y \in A : x # y =>
             Cardinality(Earlier(s, p, new, x)) # Cardinality(Earlier(s, p, new, y))
    BY <1>1, <2>0
  <2> QED
    BY <1>1, <2>1 DEF Injection, IsInjective
<1>3. IsFiniteSet(0..(n - 1)) /\ Cardinality(0..(n - 1)) = n
  BY FS_Interval
<1> QED
  BY <1>1, <1>2, <1>3, FS_Injection

\* The messages sent for a set of new requests: one NeedPiece for each.
LEMMA InOrderSends ==
  ASSUME NEW s, SchedulerType(s), NEW p \in Peer,
         NEW S \in SUBSET Requestable(s, p)
  PROVE  LET q == InOrder(s, p, S)
         IN  /\ q \in Seq({NeedPiece(x) : x \in S})
             /\ Len(q) = Cardinality(S)
             /\ \A x \in S : \E k \in 1..Len(q) : q[k] = NeedPiece(x)
             /\ \A j, k \in 1..Len(q) : j # k => q[j].slot # q[k].slot
<1> DEFINE n == Cardinality(S)
           e(x) == Cardinality(Earlier(s, p, S, x))
           f == [x \in S |-> e(x)]
           at(k) == CHOOSE x \in S : e(x) = k - 1
           q == InOrder(s, p, S)
<1>1. /\ IsFiniteSet(S) /\ n \in Nat
      /\ \A x \in S : e(x) \in 0..(n - 1)
      /\ \A x, y \in S : x # y => e(x) # e(y)
  BY Zenon, PlacesDiffer
<1>2. q = [k \in 1..n |-> NeedPiece(at(k))]
  BY Zenon DEF InOrder, Earlier
<1> HIDE DEF n, e, q
<1>3. f \in Injection(S, 0..(n - 1))
  BY Zenon, <1>1 DEF Injection, IsInjective
<1>4. IsFiniteSet(0..(n - 1)) /\ Cardinality(0..(n - 1)) = n
  BY <1>1, FS_Interval
<1>5. f \in Surjection(S, 0..(n - 1))
  BY Zenon, <1>3, <1>4, FS_Injection DEF n
<1>6. \A k \in 1..n : \E x \in S : e(x) = k - 1
  <2> SUFFICES ASSUME NEW k \in 1..n PROVE \E x \in S : e(x) = k - 1
    BY Zenon
  <2>1. k - 1 \in 0..(n - 1)
    BY <1>1
  <2> QED
    BY <2>1, <1>5, Zenon DEF Surjection
<1>7. \A k \in 1..n : at(k) \in S /\ e(at(k)) = k - 1
  BY Zenon, <1>6
<1> HIDE DEF at
<1>8. \A x \in S : e(x) + 1 \in 1..n /\ at(e(x) + 1) = x
  <2> SUFFICES ASSUME NEW x \in S PROVE e(x) + 1 \in 1..n /\ at(e(x) + 1) = x
    BY Zenon
  <2>1. e(x) + 1 \in 1..n /\ e(x) + 1 - 1 = e(x)
    BY <1>1
  <2> QED
    BY <2>1, <1>1, <1>7
<1>9. q \in Seq({NeedPiece(x) : x \in S}) /\ Len(q) = n
  BY <1>1, <1>2, <1>7
<1>10. \A x \in S : \E k \in 1..Len(q) : q[k] = NeedPiece(x)
  BY <1>2, <1>8, <1>9, Zenon
<1>11. \A k \in 1..n : q[k].slot = at(k)
  BY Zenon, <1>2 DEF NeedPiece
<1>12. \A j, k \in 1..n : j # k => at(j) # at(k)
  BY <1>7
<1> QED
  BY Zenon, <1>9, <1>10, <1>11, <1>12 DEF n, q

\* release_peer_request for requests of one peer keeps the scheduler
\* consistent.
LEMMA ReleaseAllConsistent ==
  ASSUME NEW s, Consistent(s), NEW p \in Peer,
         NEW lost \in SUBSET InFlightSlots(s, p)
  PROVE  LET t == ReleaseAll(s, p, lost)
         IN  /\ Consistent(t)
             /\ \A y \in Slot :
                  t.in_flight[y] = IF y \in lost THEN NoPeer ELSE s.in_flight[y]
             /\ SamePieces(s, t)
<1> DEFINE t == ReleaseAll(s, p, lost)
           kept == [x \in Slot |-> IF x \in lost THEN NoPeer ELSE s.in_flight[x]]
           c == [s.in_flight_per_peer EXCEPT ![p] = @ - Cardinality(lost)]
<1>0. s \in SchedulerRecord
  BY Zenon DEF Consistent, SchedulerType
<1>1. /\ s.in_flight \in [Slot -> Peer \cup {NoPeer}]
      /\ s.in_flight_per_peer \in [Peer -> Nat]
  BY <1>0, Zenon DEF SchedulerRecord
<1>2. /\ InFlightSlots(s, p) \in SUBSET Slot /\ lost \in SUBSET Slot
      /\ IsFiniteSet(InFlightSlots(s, p))
      /\ Cardinality(InFlightSlots(s, p)) \in Nat
      /\ Cardinality(lost) \in Nat
  BY Zenon, SlotSetFinite DEF InFlightSlots
<1>3. /\ Cardinality(lost) <= Cardinality(InFlightSlots(s, p))
      /\ Cardinality(InFlightSlots(s, p) \ lost)
           = Cardinality(InFlightSlots(s, p)) - Cardinality(lost)
  <2>1. InFlightSlots(s, p) \cap lost = lost
    BY Zenon
  <2>2. Cardinality(lost) <= Cardinality(InFlightSlots(s, p))
    BY Zenon, <1>2, FS_Subset
  <2>3. Cardinality(InFlightSlots(s, p) \ lost)
          = Cardinality(InFlightSlots(s, p)) - Cardinality(InFlightSlots(s, p) \cap lost)
    BY <1>2, FS_Difference, Zenon
  <2> QED
    BY Zenon, <2>1, <2>2, <2>3
<1>4. s.in_flight_per_peer[p] = Cardinality(InFlightSlots(s, p))
  BY Zenon DEF Consistent, ExactCounters
<1>5. kept \in [Slot -> Peer \cup {NoPeer}] /\ c \in [Peer -> Nat]
  BY <1>1, <1>2, <1>3, <1>4
<1>6. t = [s EXCEPT !.in_flight = kept, !.in_flight_per_peer = c]
  BY <1>0, Zenon DEF ReleaseAll, SchedulerRecord
<1> HIDE DEF t
<1>7. /\ t.in_flight = kept /\ t.in_flight_per_peer = c
      /\ t.completed_blocks = s.completed_blocks
      /\ t.next_piece = s.next_piece
      /\ SamePieces(s, t)
  BY <1>0, <1>6, Zenon DEF SchedulerRecord, SamePieces
<1> HIDE DEF kept, c
<1>8. t \in SchedulerRecord
  BY <1>0, <1>5, <1>6, Zenon DEF SchedulerRecord
<1>9. SchedulerType(t)
  BY Zenon, <1>7, <1>8 DEF SchedulerType, Consistent, SamePieces
<1>10. ASSUME NEW q \in Peer
       PROVE  t.in_flight_per_peer[q] = Cardinality(InFlightSlots(t, q))
  <2>1. CASE q = p
    <3>1. InFlightSlots(t, p) = InFlightSlots(s, p) \ lost
      BY Zenon, <1>7, SchedulerConstants DEF InFlightSlots, kept
    <3>2. t.in_flight_per_peer[p] = s.in_flight_per_peer[p] - Cardinality(lost)
      BY Zenon, <1>1, <1>7 DEF c
    <3> QED
      BY Zenon, <2>1, <3>1, <3>2, <1>3, <1>4
  <2>2. CASE q # p
    <3>1. InFlightSlots(t, q) = InFlightSlots(s, q)
      BY Zenon, <2>2, <1>7, SchedulerConstants DEF InFlightSlots, kept
    <3>2. t.in_flight_per_peer[q] = s.in_flight_per_peer[q]
      BY Zenon, <2>2, <1>1, <1>7 DEF c
    <3> QED
      BY Zenon, <3>1, <3>2 DEF Consistent, ExactCounters
  <2> QED
    BY Zenon, <2>1, <2>2
<1>11. DoneNotInFlight(t) /\ PrefixCounted(t)
  BY Zenon, <1>7 DEF Consistent, DoneNotInFlight, PrefixCounted, SamePieces, kept
<1> QED
  BY Zenon, <1>7, <1>9, <1>10, <1>11 DEF Consistent, ExactCounters, kept, t

\* What t has, compared with s, when of the requests `new` of p those in
\* `sent` were sent and the others were given back.
Filled(s, p, new, sent, t) ==
  /\ Consistent(t)
  /\ \A y \in Slot : t.in_flight[y] = IF y \in sent THEN p ELSE s.in_flight[y]
  /\ Cardinality(InFlightSlots(t, p)) <= s.in_flight_per_peer[p] + Cardinality(new)
  /\ \A q \in Peer : q # p => InFlightSlots(t, q) = InFlightSlots(s, q)
  /\ SamePieces(s, t)

\* fill_peer_request_window_to: of the new requests those that were sent are
\* in flight afterwards, and counted.
LEMMA FillEffect ==
  ASSUME NEW s, Consistent(s), NEW p \in Peer,
         NEW new \in SUBSET Requestable(s, p), NEW sent \in SUBSET new
  PROVE  Filled(s, p, new, sent,
                ReleaseAll(WithRequests(s, p, new), p, new \ sent))
<1> DEFINE w == WithRequests(s, p, new)
           t == ReleaseAll(w, p, new \ sent)
<1>0. s \in SchedulerRecord /\ s.in_flight_per_peer \in [Peer -> Nat]
  BY Zenon DEF Consistent, SchedulerType, SchedulerRecord
<1>1. /\ Consistent(w)
      /\ w.in_flight_per_peer = [s.in_flight_per_peer EXCEPT ![p] = @ + Cardinality(new)]
  BY WithRequestsConsistent
<1>2. new \in SUBSET Slot /\ \A y \in new : s.in_flight[y] = NoPeer
  BY Zenon DEF Requestable
<1>3. /\ \A y \in Slot : w.in_flight[y] = IF y \in new THEN p ELSE s.in_flight[y]
      /\ SamePieces(s, w)
  BY Zenon, <1>0, <1>2, WithRequestsEffect
<1> HIDE DEF w
<1>4. new \ sent \in SUBSET InFlightSlots(w, p)
  BY Zenon, <1>2, <1>3 DEF InFlightSlots
<1>5. /\ Consistent(t)
      /\ \A y \in Slot : t.in_flight[y] = IF y \in new \ sent THEN NoPeer
                                                              ELSE w.in_flight[y]
      /\ SamePieces(w, t)
  BY Zenon, <1>1, <1>4, ReleaseAllConsistent
<1> HIDE DEF t
<1>6. \A y \in Slot : t.in_flight[y] = IF y \in sent THEN p ELSE s.in_flight[y]
  BY Zenon, <1>2, <1>3, <1>5
<1>7. GivesBack(w, t)
  BY Zenon, <1>5 DEF GivesBack
<1>8. Cardinality(InFlightSlots(w, p)) = s.in_flight_per_peer[p] + Cardinality(new)
  BY Zenon, <1>0, <1>1 DEF Consistent, ExactCounters
<1>9. Cardinality(InFlightSlots(t, p)) <= s.in_flight_per_peer[p] + Cardinality(new)
  BY Zenon, <1>7, <1>8, GivesBackShrinks
<1>10. \A q \in Peer : q # p => InFlightSlots(t, q) = InFlightSlots(s, q)
  BY Zenon, <1>2, <1>6, SchedulerConstants DEF InFlightSlots
<1>11. SamePieces(s, t)
  BY Zenon, <1>3, <1>5 DEF SamePieces
<1> QED
  BY <1>5, <1>6, <1>9, <1>10, <1>11, Zenon DEF t, w, Filled

-----------------------------------------------------------------------------
(* Types, and the scheduler through every handler *)

\* The blocks that can be asked for: a scheduler made for a magnet link knows
\* of no pieces and asks for none.
Requested == IF PieceCount = 0 THEN {} ELSE Slot

PeerMessage == [type : {"NeedPiece", "CancelPiece"}, slot : Requested]

TorrentMessage ==
  [type : {"IncomingPiece"}, peer : Peer, slot : Requested,
   content : {"good", "bad"}]
    \cup [type : {"PeerRejectedRequest"}, peer : Peer, slot : Requested]
    \cup [type : {"PeerReady"}, peer : Peer, pieces : SUBSET Piece]
    \cup [type : {"KillPeer"}, peer : Peer]

\* The messages that settle a request.
Answers == {"IncomingPiece", "PeerRejectedRequest"}

TodoStep ==
  [op : {"fill"}, left : SUBSET Peer, window : {MaxInFlight, InitialWindow}]
    \cup [op : {"forget"}, left : SUBSET Peer, window : {0}]
    \cup [op : {"expire"}, left : SUBSET Slot, window : {0}]

\* Steps of a handler, which forget only peers that do not run.
TodoFor(q, running) ==
  /\ q \in Seq(TodoStep)
  /\ \A k \in 1..Len(q) : q[k].op = "forget" => q[k].left \cap running = {}

FieldsOK ==
  /\ state \in {"Added", "Downloading", "Paused", "Seeding"}
  /\ disk \in [Slot -> {"none", "good", "bad"}]
  /\ peers \subseteq Peer /\ alive \subseteq peers
  /\ pieces \in [Peer -> SUBSET Piece]
  /\ pending \in [Peer -> SUBSET Requested]
  /\ dying \in [Peer -> Nat]

MailOK == /\ mail \in [Peer -> Seq(PeerMessage)]
          /\ \A p \in Peer : Len(mail[p]) <= PeerMailbox

InboxOK == inbox \in Seq(TorrentMessage) /\ Len(inbox) <= TorrentMailbox

TodoOK == TodoFor(todo, alive)

BooksOK == /\ SchedulerConsistent
           /\ sched.piece_count = PieceCount
           /\ SeedingIsComplete

FlowInv == FieldsOK /\ MailOK /\ InboxOK /\ TodoOK /\ BooksOK

\* A block belongs to a piece of the torrent.
LEMMA PieceOfSlot == \A x \in Slot : PieceOf(x) \in Piece
<1> SUFFICES ASSUME NEW x \in Slot PROVE PieceOf(x) \in Piece
  BY Zenon
<1> DEFINE B == BlocksPerPiece
           q == x \div B
<1>1. /\ B \in Nat \ {0} /\ NumPieces \in Nat \ {0} /\ LastBlocks \in 1..B
      /\ x \in Nat /\ x < (NumPieces - 1) * B + LastBlocks
  BY SchedulerConstants, SlotsFinite DEF Slot, TotalSlots
<1>2. q \in Nat /\ q * B <= x
  BY <1>1
<1>3. (NumPieces - 1) * B \in Nat /\ (NumPieces - 1) * B + B = NumPieces * B
  BY <1>1
<1>4. x < NumPieces * B
  BY <1>1, <1>3
<1>5. q < NumPieces
  <2> SUFFICES ASSUME q >= NumPieces PROVE FALSE
    BY <1>1, <1>2
  <2>1. q * B >= NumPieces * B
    BY <1>1, <1>2
  <2> QED
    BY <2>1, <1>1, <1>2, <1>4
<1> QED
  BY <1>1, <1>2, <1>5 DEF PieceOf, Piece

\* What a message can be.
LEMMA MessageFields ==
  ASSUME NEW m \in TorrentMessage
  PROVE  /\ m.peer \in Peer
         /\ m.type \in {"IncomingPiece", "PeerRejectedRequest"} =>
              m.slot \in Requested
         /\ m.type = "IncomingPiece" => m.content \in {"good", "bad"}
         /\ m.type = "PeerReady" => m.pieces \in SUBSET Piece
BY Zenon DEF TorrentMessage

\* Each constructor builds a message of its kind.
LEMMA MessagesTyped ==
  ASSUME NEW p \in Peer
  PROVE  /\ \A x \in Requested :
              /\ NeedPiece(x) \in PeerMessage /\ CancelPiece(x) \in PeerMessage
              /\ PeerRejectedRequest(p, x) \in TorrentMessage
              /\ \A c \in {"good", "bad"} : IncomingPiece(p, x, c) \in TorrentMessage
         /\ \A ps \in SUBSET Piece : PeerReady(p, ps) \in TorrentMessage
         /\ KillPeer(p) \in TorrentMessage
BY Zenon DEF PeerMessage, TorrentMessage, NeedPiece, CancelPiece, PeerRejectedRequest,
       IncomingPiece, PeerReady, KillPeer

\* The steps the handlers leave to be done.
LEMMA TodoSteps ==
  ASSUME NEW running
  PROVE  /\ TodoFor(<<>>, running)
         /\ \A ps \in SUBSET Peer, w \in {MaxInFlight, InitialWindow} :
              TodoFor(Due(FillStep(ps, w)), running)
         /\ \A s : TodoFor(Due(ExpireStep(s)), running)
         /\ \A ps \in SUBSET Peer :
              ps \cap running = {} => TodoFor(Due(ForgetStep(ps)), running)
         /\ \A p \in Peer : TodoFor(Refill(p), running)
<1>1. ASSUME NEW st \in TodoStep, st.op = "forget" => st.left \cap running = {}
      PROVE  TodoFor(<<st>>, running)
  BY <1>1 DEF TodoFor
<1>2. TodoFor(<<>>, running)
  BY DEF TodoFor
<1>3. ASSUME NEW ps \in SUBSET Peer, NEW w \in {MaxInFlight, InitialWindow}
      PROVE  FillStep(ps, w) \in TodoStep /\ FillStep(ps, w).op = "fill"
  BY Zenon DEF FillStep, TodoStep
<1>4. ASSUME NEW s
      PROVE  ExpireStep(s) \in TodoStep /\ ExpireStep(s).op = "expire"
  BY Zenon DEF ExpireStep, TodoStep
<1>5. ASSUME NEW ps \in SUBSET Peer
      PROVE  /\ ForgetStep(ps) \in TodoStep
             /\ ForgetStep(ps).left = ps
  BY Zenon DEF ForgetStep, TodoStep
<1>6. ASSUME NEW ps \in SUBSET Peer, NEW w \in {MaxInFlight, InitialWindow}
      PROVE  TodoFor(Due(FillStep(ps, w)), running)
  BY Zenon, <1>1, <1>2, <1>3 DEF Due
<1>7. ASSUME NEW s
      PROVE  TodoFor(Due(ExpireStep(s)), running)
  BY Zenon, <1>1, <1>2, <1>4 DEF Due
<1>8. ASSUME NEW ps \in SUBSET Peer, ps \cap running = {}
      PROVE  TodoFor(Due(ForgetStep(ps)), running)
  BY Zenon, <1>1, <1>2, <1>5, <1>8 DEF Due
<1>9. ASSUME NEW p \in Peer
      PROVE  TodoFor(Refill(p), running)
  <2>1. {p} \in SUBSET Peer
    BY Zenon
  <2> QED
    BY Zenon, <2>1, <1>1, <1>3 DEF Refill
<1> QED
  BY Zenon, <1>2, <1>6, <1>7, <1>8, <1>9

\* Steps after steps.
LEMMA TodoConcat ==
  ASSUME NEW running, NEW q, NEW r, TodoFor(q, running), TodoFor(r, running)
  PROVE  TodoFor(q \o r, running)
<1>1. q \in Seq(TodoStep) /\ r \in Seq(TodoStep) /\ Len(q) \in Nat /\ Len(r) \in Nat
  BY DEF TodoFor
<1>2. /\ q \o r \in Seq(TodoStep)
      /\ Len(q \o r) = Len(q) + Len(r)
      /\ \A i \in 1..(Len(q) + Len(r)) :
           (q \o r)[i] = IF i <= Len(q) THEN q[i] ELSE r[i - Len(q)]
  BY Zenon, <1>1, ConcatFacts
<1>3. ASSUME NEW k \in 1..Len(q \o r), (q \o r)[k].op = "forget"
      PROVE  (q \o r)[k].left \cap running = {}
  <2>1. CASE k <= Len(q)
    BY <2>1, <1>1, <1>2, <1>3 DEF TodoFor
  <2>2. CASE k > Len(q)
    <3>1. k - Len(q) \in 1..Len(r) /\ (q \o r)[k] = r[k - Len(q)]
      BY <2>2, <1>1, <1>2
    <3> QED
      BY Zenon, <3>1, <1>3 DEF TodoFor
  <2> QED
    BY <2>1, <2>2, <1>1
<1> QED
  BY Zenon, <1>2, <1>3 DEF TodoFor

\* rechoke_peers.
LEMMA TodoRechoke ==
  ASSUME NEW running, NEW s, NEW ps \in SUBSET Peer
  PROVE  TodoFor(RechokeSteps(s, ps), running)
BY TodoSteps, TodoConcat, Zenon DEF RechokeSteps

\* Finishing the first step, in whole or for one peer.
LEMMA TodoProceeds ==
  ASSUME NEW running, TodoFor(todo, running), todo # <<>>
  PROVE  /\ Head(todo) \in TodoStep
         /\ Head(todo).op = "forget" => Head(todo).left \cap running = {}
         /\ TodoFor(Tail(todo), running)
         /\ \A p : Finished(p) => TodoFor(todo', running)
<1>1. /\ Head(todo) \in TodoStep /\ Tail(todo) \in Seq(TodoStep)
      /\ Len(Tail(todo)) = Len(todo) - 1 /\ Len(todo) \in Nat \ {0}
      /\ \A i \in 1..Len(Tail(todo)) : Tail(todo)[i] = todo[i + 1]
      /\ Head(todo) = todo[1]
  BY TailFacts, EmptyFacts DEF TodoFor
<1>2. Head(todo).op = "forget" => Head(todo).left \cap running = {}
  BY <1>1 DEF TodoFor
<1>3. TodoFor(Tail(todo), running)
  <2> SUFFICES ASSUME NEW k \in 1..Len(Tail(todo)), Tail(todo)[k].op = "forget"
               PROVE  Tail(todo)[k].left \cap running = {}
    BY Zenon, <1>1 DEF TodoFor
  <2>1. k + 1 \in 1..Len(todo) /\ Tail(todo)[k] = todo[k + 1]
    BY <1>1
  <2> QED
    BY Zenon, <2>1 DEF TodoFor
<1>4. ASSUME NEW p, Finished(p) PROVE TodoFor(todo', running)
  <2> DEFINE h == Head(todo)
             left == h.left \ {p}
             st == [h EXCEPT !.left = left]
  <2>1. \/ todo' = Tail(todo)
        \/ todo' = <<st>> \o Tail(todo)
    BY <1>4, Zenon DEF Finished
  <2>2. st \in TodoStep /\ st.op = h.op /\ st.left = left
    <3>1. CASE h \in [op : {"fill"}, left : SUBSET Peer,
                      window : {MaxInFlight, InitialWindow}]
      BY <3>1, Zenon DEF TodoStep
    <3>2. CASE h \in [op : {"forget"}, left : SUBSET Peer, window : {0}]
      BY <3>2, Zenon DEF TodoStep
    <3>3. CASE h \in [op : {"expire"}, left : SUBSET Slot, window : {0}]
      BY <3>3, Zenon DEF TodoStep
    <3> QED
      BY <3>1, <3>2, <3>3, <1>1, Zenon DEF TodoStep
  <2> HIDE DEF st
  <2>3. TodoFor(<<st>>, running)
    BY <2>2, <1>2 DEF TodoFor
  <2> QED
    BY <2>1, <2>3, <1>3, TodoConcat, Zenon
<1> QED
  BY Zenon, <1>1, <1>2, <1>3, <1>4

\* Taking a message, and adding one.
LEMMA InboxSteps ==
  ASSUME InboxOK
  PROVE  /\ \A type : Take(type) => /\ Head(inbox) \in TorrentMessage
                                    /\ Head(inbox).type = type
                                    /\ todo = <<>>
                                    /\ InboxOK'
         /\ \A m \in TorrentMessage : Tell(m) => InboxOK'
<1>0. TorrentMailbox \in Nat /\ Len(inbox) \in Nat
  BY FlowConstants DEF InboxOK
<1>1. ASSUME NEW type, Take(type)
      PROVE  /\ Head(inbox) \in TorrentMessage /\ Head(inbox).type = type
             /\ todo = <<>> /\ InboxOK'
  BY <1>0, <1>1, TailFacts DEF Take, InboxOK, Idle
<1>2. ASSUME NEW m \in TorrentMessage, Tell(m)
      PROVE  InboxOK'
  BY <1>0, <1>2, AppendFacts DEF Tell, InboxOK
<1> QED
  BY Zenon, <1>1, <1>2

\* One message more, or one less, in a peer's mailbox.
LEMMA MailSteps ==
  ASSUME MailOK, NEW p \in Peer
  PROVE  /\ mail[p] \in Seq(PeerMessage) /\ Len(mail[p]) \in Nat
         /\ \A m \in PeerMessage :
              mail' \in {mail, TrySent(p, m)} => MailOK'
         /\ \A type : TakeMail(p, type) => /\ Head(mail[p]) \in PeerMessage
                                           /\ Head(mail[p]).type = type
                                           /\ MailOK'
<1>0. /\ PeerMailbox \in Nat
      /\ mail[p] \in Seq(PeerMessage) /\ Len(mail[p]) \in Nat
  BY FlowConstants DEF MailOK
<1>1. ASSUME NEW q \in Seq(PeerMessage), Len(q) <= PeerMailbox,
             mail' = [mail EXCEPT ![p] = q]
      PROVE  MailOK'
  BY Zenon, <1>1 DEF MailOK
<1>2. ASSUME NEW m \in PeerMessage, mail' \in {mail, TrySent(p, m)}
      PROVE  MailOK'
  <2>1. CASE mail' = mail
    BY Zenon, <2>1 DEF MailOK
  <2>2. CASE /\ Len(mail[p]) < PeerMailbox
             /\ mail' = [mail EXCEPT ![p] = Append(mail[p], m)]
    <3>1. /\ Append(mail[p], m) \in Seq(PeerMessage)
          /\ Len(Append(mail[p], m)) = Len(mail[p]) + 1
      BY <1>0, AppendFacts
    <3>2. Len(Append(mail[p], m)) <= PeerMailbox
      BY <3>1, <2>2, <1>0
    <3> QED
      BY <3>1, <3>2, <2>2, <1>1, Zenon
  <2> QED
    BY Zenon, <1>2, <2>1, <2>2 DEF TrySent
<1>3. ASSUME NEW type, TakeMail(p, type)
      PROVE  /\ Head(mail[p]) \in PeerMessage /\ Head(mail[p]).type = type
             /\ MailOK'
  <2>1. /\ Head(mail[p]) \in PeerMessage /\ Tail(mail[p]) \in Seq(PeerMessage)
        /\ Len(Tail(mail[p])) = Len(mail[p]) - 1
    BY Zenon, <1>0, <1>3, TailFacts DEF TakeMail
  <2>2. mail' = [mail EXCEPT ![p] = Tail(mail[p])]
    BY Zenon, <1>3 DEF TakeMail
  <2>3. Len(mail[p]) <= PeerMailbox
    BY Zenon DEF MailOK
  <2>4. Len(Tail(mail[p])) <= PeerMailbox
    BY <2>1, <2>3, <1>0
  <2>5. MailOK'
    BY <2>1, <2>2, <2>4, <1>1, Zenon
  <2> QED
    BY Zenon, <2>1, <2>5, <1>3 DEF TakeMail
<1> QED
  BY Zenon, <1>0, <1>2, <1>3

\* The scheduler gives requests back and no piece is marked.
LEMMA BooksGiveBack ==
  ASSUME BooksOK, Consistent(sched'), GivesBack(sched, sched'),
         SamePieces(sched, sched'), bitfield' = bitfield,
         state' = "Seeding" => bitfield = Piece
  PROVE  BooksOK'
<1>1. Window \in Nat
  BY Zenon, FlowConstants DEF Window
<1>2. \A p \in Peer : Cardinality(InFlightSlots(sched', p)) <= Window
  BY <1>1, GivesBackShrinks DEF BooksOK, SchedulerConsistent
<1> QED
  BY Zenon, <1>2 DEF BooksOK, SchedulerConsistent, SamePieces, SeedingIsComplete, Window

\* The scheduler is left alone.
LEMMA BooksUnchanged ==
  ASSUME BooksOK, sched' = sched, bitfield' = bitfield,
         state' = "Seeding" => bitfield = Piece
  PROVE  BooksOK'
BY Zenon DEF BooksOK, SchedulerConsistent, SeedingIsComplete, Window

-----------------------------------------------------------------------------
(* The steps of the torrent *)

\* What fill_peer_request_window_to does when it has requests `new` to make: a
\* NeedPiece for each of `sent`, queued in order.
RequestsSent(p, new, sent, queued) ==
  /\ p \in peers /\ new \subseteq Requestable(sched, p) /\ sent \subseteq new
  /\ Filled(sched, p, new, sent, sched')
  /\ sched.in_flight_per_peer[p] + Cardinality(new) <= Window
  /\ mail' = [mail EXCEPT ![p] = mail[p] \o queued]
  /\ Len(mail[p]) + Len(queued) <= PeerMailbox
  /\ queued \in Seq({NeedPiece(x) : x \in sent})
  /\ \A x \in sent : \E k \in 1..Len(queued) : queued[k] = NeedPiece(x)
  /\ \A j, k \in 1..Len(queued) : j # k => queued[j].slot # queued[k].slot

\* The two outcomes of fill_peer_request_window_to.
LEMMA FillCases ==
  ASSUME FlowInv, NEW p \in Peer, FillPeer(p)
  PROVE  \/ UNCHANGED <<sched, mail>>
         \/ \E new \in SUBSET Slot : \E sent \in SUBSET new :
              \E queued : RequestsSent(p, new, sent, queued)
<1> DEFINE h == Head(todo)
           room == AvailableSlots(p, h.window)
           new == RequestsForPeer(sched, p, room)
<1>1. h.window \in {MaxInFlight, InitialWindow}
  BY Zenon, TodoProceeds DEF FillPeer, FlowInv, TodoOK, TodoStep
<1>2. SUFFICES ASSUME room > 0, p \in peers, NEW n \in Room(p),
                      sched' = ReleaseAll(WithRequests(sched, p, new), p,
                                          new \ Accepted(sched, p, new, n)),
                      mail' = [mail EXCEPT ![p] = @ \o InOrder(sched, p,
                                                        Accepted(sched, p, new, n))]
               PROVE  \E new_ \in SUBSET Slot : \E sent \in SUBSET new_ :
                        \E queued : RequestsSent(p, new_, sent, queued)
  BY Zenon DEF FillPeer
<1> DEFINE sent == Accepted(sched, p, new, n)
           queued == InOrder(sched, p, sent)
<1>3. /\ Consistent(sched) /\ SchedulerType(sched)
      /\ sched.in_flight_per_peer \in [Peer -> Nat]
  BY Zenon DEF FlowInv, BooksOK, SchedulerConsistent, Consistent, SchedulerType,
         SchedulerRecord
<1>4. /\ h.window \in Nat /\ h.window <= Window /\ Window \in Nat
      /\ room = h.window - sched.in_flight_per_peer[p]
  BY <1>1, FlowConstants, SMTT(30) DEF Window, AvailableSlots
<1>5. room \in Nat
  BY <1>2, <1>3, <1>4
<1> HIDE DEF room
<1>6. new \in SUBSET Requestable(sched, p) /\ Cardinality(new) <= room
  BY Zenon, <1>3, <1>5, RequestsWithinLimit
<1>7. new \in SUBSET Slot /\ Cardinality(new) \in Nat
  BY Zenon, <1>6, SlotSetFinite DEF Requestable
<1> HIDE DEF new
<1>8. sched.in_flight_per_peer[p] + Cardinality(new) <= Window
  BY <1>3, <1>4, <1>6, <1>7 DEF room
<1>9. n \in Nat /\ Len(mail[p]) + n <= PeerMailbox /\ Len(mail[p]) \in Nat
  BY MailSteps, FlowConstants DEF FlowInv, MailOK, Room
<1>10. sent \in SUBSET new /\ Cardinality(sent) <= n
  BY <1>3, <1>6, <1>9, AcceptedFits, Zenon
<1> HIDE DEF sent
<1>11. sent \in SUBSET Requestable(sched, p) /\ Cardinality(sent) \in Nat
  BY Zenon, <1>6, <1>7, <1>10, SlotSetFinite
<1>12. /\ queued \in Seq({NeedPiece(x) : x \in sent})
       /\ Len(queued) = Cardinality(sent)
       /\ \A x \in sent : \E k \in 1..Len(queued) : queued[k] = NeedPiece(x)
       /\ \A j, k \in 1..Len(queued) : j # k => queued[j].slot # queued[k].slot
  BY <1>3, <1>11, InOrderSends, Zenon
<1>13. mail' = [mail EXCEPT ![p] = mail[p] \o queued]
  BY Zenon, <1>2 DEF sent
<1> HIDE DEF queued
<1>14. Len(mail[p]) + Len(queued) <= PeerMailbox
  BY <1>9, <1>10, <1>11, <1>12, FlowConstants
<1>15. sched' = ReleaseAll(WithRequests(sched, p, new), p, new \ sent)
  BY <1>2, Zenon DEF sent, new
<1>16. Filled(sched, p, new, sent, sched')
  BY <1>3, <1>6, <1>10, <1>15, FillEffect, Zenon
<1>17. RequestsSent(p, new, sent, queued)
  BY <1>2, <1>6, <1>8, <1>10, <1>12, <1>13, <1>14, <1>16, ZenonT(30) DEF RequestsSent
<1> QED
  BY <1>7, <1>10, <1>17, Zenon

\* The mailbox after requests were queued.
LEMMA QueuedTyped ==
  ASSUME FlowInv, NEW p \in Peer, NEW new, NEW sent, NEW queued,
         RequestsSent(p, new, sent, queued)
  PROVE  /\ sent \subseteq Requested
         /\ mail[p] \in Seq(PeerMessage) /\ queued \in Seq(PeerMessage)
         /\ MailOK'
<1>1. sched.piece_count = PieceCount
  BY Zenon DEF FlowInv, BooksOK
<1>2. \A x \in sent : x \in Requested
  BY Zenon, <1>1 DEF RequestsSent, Requestable, Requested
<1>3. {NeedPiece(x) : x \in sent} \subseteq PeerMessage
  BY Zenon, <1>2, MessagesTyped
<1>4. mail[p] \in Seq(PeerMessage) /\ queued \in Seq(PeerMessage)
  BY Zenon, <1>3, MailSteps, SubsetFacts DEF RequestsSent, FlowInv
<1>5. /\ mail[p] \o queued \in Seq(PeerMessage)
      /\ Len(mail[p] \o queued) = Len(mail[p]) + Len(queued)
  BY Zenon, <1>4, ConcatFacts
<1>6. MailOK'
  BY Zenon, <1>5 DEF RequestsSent, FlowInv, MailOK
<1> QED
  BY Zenon, <1>2, <1>4, <1>6

\* fill_peer_request_window_to keeps the invariant.
LEMMA FlowFillPeer ==
  ASSUME FlowInv, NEW p \in Peer, FillPeer(p)
  PROVE  FlowInv'
<1>1. TodoFor(todo', alive)
  BY TodoProceeds, Zenon DEF FillPeer, FlowInv, TodoOK
<1>2. FieldsOK' /\ InboxOK' /\ TodoOK'
  BY Zenon, <1>1 DEF FillPeer, FlowInv, FieldsOK, InboxOK, TodoOK
<1>3. CASE UNCHANGED <<sched, mail>>
  BY Zenon, <1>2, <1>3, BooksUnchanged
  DEF FillPeer, FlowInv, MailOK, BooksOK, SeedingIsComplete
<1>4. ASSUME NEW new \in SUBSET Slot, NEW sent \in SUBSET new, NEW queued,
             RequestsSent(p, new, sent, queued)
      PROVE  FlowInv'
  <2>1. Filled(sched, p, new, sent, sched')
    BY Zenon, <1>4 DEF RequestsSent
  <2>2. Cardinality(InFlightSlots(sched', p)) <= Window
    <3>1. /\ Cardinality(new) \in Nat /\ Cardinality(InFlightSlots(sched', p)) \in Nat
          /\ sched.in_flight_per_peer[p] \in Nat /\ Window \in Nat
      BY Zenon, SlotSetFinite, FlowConstants
      DEF InFlightSlots, Window, FlowInv, BooksOK, SchedulerConsistent, Consistent,
          SchedulerType, SchedulerRecord
    <3> QED
      BY <3>1, <2>1, <1>4 DEF Filled, RequestsSent
  <2>3. \A q \in Peer : Cardinality(InFlightSlots(sched', q)) <= Window
    BY Zenon, <2>1, <2>2 DEF Filled, FlowInv, BooksOK, SchedulerConsistent
  <2>4. state' = state /\ bitfield' = bitfield
    BY Zenon DEF FillPeer
  <2>5. BooksOK'
    BY Zenon, <2>1, <2>3, <2>4
    DEF Filled, FlowInv, BooksOK, SchedulerConsistent, SamePieces, SeedingIsComplete,
        Window
  <2> QED
    BY Zenon, <1>2, <1>4, <2>5, QueuedTyped DEF FlowInv
<1> QED
  BY Zenon, <1>3, <1>4, FillCases

\* broadcast_to_peers_best_effort keeps the invariant.
LEMMA FlowForgetPeer ==
  ASSUME FlowInv, NEW p \in Peer, ForgetPeer(p)
  PROVE  FlowInv'
<1>0. /\ Head(todo).left \cap alive = {} /\ p \in Head(todo).left
      /\ TodoFor(todo', alive)
  BY Zenon, TodoProceeds DEF ForgetPeer, FlowInv, TodoOK
<1>1. FieldsOK' /\ InboxOK' /\ TodoOK' /\ MailOK'
  BY Zenon, <1>0 DEF ForgetPeer, peerVars, FlowInv, FieldsOK, InboxOK, TodoOK, MailOK
<1>2. Consistent(sched) /\ sched \in SchedulerRecord
  BY Zenon DEF FlowInv, BooksOK, SchedulerConsistent, Consistent, SchedulerType
<1>3. /\ Consistent(sched') /\ GivesBack(sched, sched') /\ SamePieces(sched, sched')
  BY Zenon, <1>2, PeerDisconnectedConsistent, PeerDisconnectedEffect DEF ForgetPeer, GivesBack
<1>4. BooksOK'
  BY Zenon, <1>3, BooksGiveBack DEF ForgetPeer, FlowInv, BooksOK, SeedingIsComplete
<1> QED
  BY <1>1, <1>4, Zenon DEF FlowInv

\* release_stale_requests keeps the invariant.
LEMMA FlowExpireRequests ==
  ASSUME FlowInv, ExpireRequests
  PROVE  FlowInv'
<1>0. /\ Head(todo) \in TodoStep /\ Head(todo).op = "expire"
      /\ TodoFor(Tail(todo), alive)
  BY Zenon, TodoProceeds DEF ExpireRequests, FlowInv, TodoOK
<1>1. FieldsOK' /\ InboxOK' /\ TodoOK' /\ MailOK'
  BY Zenon, <1>0 DEF ExpireRequests, peerVars, FlowInv, FieldsOK, InboxOK, TodoOK, MailOK
<1>2. Consistent(sched) /\ sched \in SchedulerRecord
  BY Zenon DEF FlowInv, BooksOK, SchedulerConsistent, Consistent, SchedulerType
<1>3. Head(todo).left \in SUBSET Slot
  BY Zenon, <1>0 DEF TodoStep
<1>4. PICK stale \in SUBSET Slot : sched' = ReleaseStaleRequests(sched, stale)
  BY Zenon, <1>3 DEF ExpireRequests
<1>5. /\ Consistent(sched') /\ GivesBack(sched, sched') /\ SamePieces(sched, sched')
  BY <1>2, <1>4, ReleaseStaleRequestsConsistent, ReleaseStaleRequestsEffect, SMTT(30) DEF GivesBack
<1>6. BooksOK'
  BY Zenon, <1>5, BooksGiveBack DEF ExpireRequests, FlowInv, BooksOK, SeedingIsComplete
<1> QED
  BY Zenon, <1>1, <1>6 DEF FlowInv

\* What handle_incoming_piece does with a block x of peer p that is not a
\* duplicate: the request for it is settled whoever it was assigned to, and the
\* piece is marked only when the hash of what storage holds agrees.
BlockStored(p, x, content) ==
  /\ x \notin sched.completed_blocks
  /\ disk' = [disk EXCEPT ![x] = content]
  /\ \/ mail' = mail
     \/ /\ sched.in_flight[x] \in peers \ {p}
        /\ mail' = TrySent(sched.in_flight[x], CancelPiece(x))
  /\ Consistent(sched')
  /\ \A y \in Slot : sched'.in_flight[y] = IF y = x THEN NoPeer ELSE sched.in_flight[y]
  /\ sched'.piece_count = sched.piece_count
  /\ bitfield' = sched'.completed_pieces
  /\ \A running : (peers \ alive) \cap running = {} => TodoFor(todo', running)
  /\ \/ bitfield' = bitfield /\ state' = state /\ completed' = completed
     \/ /\ Verified(PieceOf(x)) /\ bitfield' = bitfield \cup {PieceOf(x)}
        /\ \/ state' = state /\ completed' = completed
           \/ /\ bitfield' = Piece /\ state' = "Seeding"
              /\ completed' \in {completed, completed + 1}

\* The two outcomes of handle_incoming_piece.
LEMMA IncomingCases ==
  ASSUME FlowInv, HandleIncomingPiece
  PROVE  LET m == Head(inbox)
         IN  /\ m.peer \in Peer /\ m.slot \in Requested /\ m.content \in {"good", "bad"}
             /\ m.type = "IncomingPiece" /\ todo = <<>> /\ inbox # <<>>
             /\ inbox' = Tail(inbox) /\ InboxOK'
             /\ \/ /\ IsDuplicateBlock(sched, m.slot) \/ May("write")
                   /\ UNCHANGED <<state, sched, bitfield, disk, completed, todo, mail>>
                \/ BlockStored(m.peer, m.slot, m.content)
<1> DEFINE m == Head(inbox)
           p == m.peer
           x == m.slot
           i == PieceOf(x)
           stored == MarkBlockComplete(sched, x)
           removed == RemovePieceBlocks(stored, i)
           marked == MarkPieceComplete(removed, i)
<1>1. Take("IncomingPiece")
  BY Zenon DEF HandleIncomingPiece
<1>2. /\ m \in TorrentMessage /\ m.type = "IncomingPiece" /\ todo = <<>>
      /\ inbox # <<>> /\ inbox' = Tail(inbox) /\ InboxOK'
  BY Zenon, <1>1, InboxSteps DEF FlowInv, Take
<1>3. p \in Peer /\ x \in Requested /\ m.content \in {"good", "bad"}
  BY Zenon, <1>2, MessageFields
<1>4. x \in Slot /\ i \in Piece /\ PieceCount = NumPieces
  BY Zenon, <1>3, PieceOfSlot, FlowConstants DEF Requested
<1> HIDE DEF m, i
<1>5. /\ Consistent(sched) /\ sched.piece_count = PieceCount
      /\ bitfield = sched.completed_pieces
  BY Zenon DEF FlowInv, BooksOK, SchedulerConsistent
<1>6. /\ Consistent(stored) /\ stored \in SchedulerRecord
      /\ \A y \in Slot : stored.in_flight[y] = IF y = x THEN NoPeer ELSE sched.in_flight[y]
      /\ stored.completed_blocks = sched.completed_blocks \cup {x}
      /\ SamePieces(sched, stored)
  BY <1>4, <1>5, MarkBlockCompleteConsistent, MarkBlockCompleteEffect, SMTT(30)
  DEF Consistent, SchedulerType
<1> HIDE DEF stored
<1>7. /\ Consistent(removed) /\ removed \in SchedulerRecord
      /\ removed.in_flight = stored.in_flight /\ SamePieces(stored, removed)
  BY Zenon, <1>4, <1>6, RemovePieceBlocksConsistent, RemovePieceBlocksEffect
  DEF Consistent, SchedulerType
<1> HIDE DEF removed
<1>8. peers \subseteq Peer /\ \A running : TodoFor(Refill(p), running)
  BY <1>3, TodoSteps, ZenonT(30) DEF FlowInv, FieldsOK
<1>9. SUFFICES ASSUME ~ /\ IsDuplicateBlock(sched, x) \/ May("write")
                        /\ UNCHANGED <<state, sched, bitfield, disk, completed, todo,
                                       mail>>
               PROVE  BlockStored(p, x, m.content)
  BY <1>2, <1>3, Zenon DEF m
<1>10. /\ ~IsDuplicateBlock(sched, x)
       /\ disk' = [disk EXCEPT ![x] = m.content]
       /\ \/ mail' = IF sched.in_flight[x] \in peers \ {p}
                     THEN TrySent(sched.in_flight[x], CancelPiece(x)) ELSE mail
          \/ UNCHANGED mail
       /\ IF IsPieceComplete(stored, i)
          THEN PieceCompleted(p, i, stored)
          ELSE /\ sched' = stored
               /\ todo' = Refill(p)
               /\ UNCHANGED <<state, bitfield, completed>>
  BY <1>9, Zenon DEF HandleIncomingPiece, m, stored, i
<1>11. /\ x \notin sched.completed_blocks
       /\ disk' = [disk EXCEPT ![x] = m.content]
       /\ \/ mail' = mail
          \/ /\ sched.in_flight[x] \in peers \ {p}
             /\ mail' = TrySent(sched.in_flight[x], CancelPiece(x))
  BY <1>10, Zenon DEF IsDuplicateBlock
<1>12. ASSUME sched' \in {stored, removed}, todo' = Refill(p),
              UNCHANGED <<state, bitfield, completed>>
       PROVE  BlockStored(p, x, m.content)
  BY <1>5, <1>6, <1>7, <1>8, <1>11, <1>12 DEF BlockStored, SamePieces
<1>13. ASSUME IsPieceComplete(stored, i), Verified(i), sched' = marked,
              bitfield' = bitfield \cup {i},
              state' = IF DownloadFinished(marked) THEN "Seeding" ELSE state,
              completed' = IF DownloadFinished(marked) /\ completed < 2
                           THEN completed + 1 ELSE completed,
              todo' = Due(ForgetStep(peers \ alive)) \o
                      (IF DownloadFinished(marked) THEN RechokeSteps(marked, peers)
                       ELSE Refill(p))
       PROVE  BlockStored(p, x, m.content)
  <2>1. \A y \in BlocksOf(i) : removed.in_flight[y] = NoPeer
    BY <1>6, <1>7, <1>13, Zenon DEF IsPieceComplete, BlocksOf, Consistent, DoneNotInFlight
  <2>2. /\ Consistent(marked) /\ marked.in_flight = removed.in_flight
        /\ marked.piece_count = removed.piece_count
        /\ marked.completed_pieces = IF i < removed.piece_count
                                     THEN removed.completed_pieces \cup {i}
                                     ELSE removed.completed_pieces
    BY <2>1, <1>4, <1>7, MarkPieceCompleteConsistent, MarkPieceCompleteEffect, Zenon
  <2> HIDE DEF marked
  <2>3. /\ marked.piece_count = sched.piece_count
        /\ marked.completed_pieces = bitfield \cup {i}
        /\ \A y \in Slot : marked.in_flight[y] = IF y = x THEN NoPeer ELSE sched.in_flight[y]
    <3>1. i < NumPieces
      BY <1>4, SchedulerConstants DEF Piece
    <3> QED
      BY <3>1, <2>2, <1>4, <1>5, <1>6, <1>7 DEF SamePieces
  <2>4. ASSUME NEW running, (peers \ alive) \cap running = {}
        PROVE  TodoFor(todo', running)
    <3>1. TodoFor(Due(ForgetStep(peers \ alive)), running)
      <4>1. peers \ alive \in SUBSET Peer
        BY Zenon, <1>8
      <4> QED
        BY <2>4, <4>1, TodoSteps, Zenon
    <3>2. TodoFor(RechokeSteps(marked, peers), running)
      BY Zenon, <1>8, TodoRechoke
    <3> QED
      BY <3>1, <3>2, <1>8, <1>13, TodoConcat, Zenon
  <2>5. DownloadFinished(marked) => bitfield' = Piece
    <3>1. SUFFICES ASSUME DownloadFinished(marked) PROVE Piece = bitfield \cup {i}
      BY Zenon, <1>13
    <3>2. /\ marked.next_piece \in Nat /\ marked.next_piece >= NumPieces
          /\ \A k \in 0..(marked.next_piece - 1) : k \in marked.completed_pieces
          /\ marked.completed_pieces \subseteq Piece
      BY Zenon, <2>2, <3>1
      DEF DownloadFinished, Consistent, SchedulerType, SchedulerRecord, PrefixCounted
    <3>3. \A k \in Piece : k \in marked.completed_pieces
      BY <3>2, SchedulerConstants, SMTT(30) DEF Piece
    <3> QED
      BY Zenon, <3>2, <3>3, <2>3
  <2>6. /\ Consistent(sched') /\ sched'.piece_count = sched.piece_count
        /\ \A y \in Slot : sched'.in_flight[y] = IF y = x THEN NoPeer ELSE sched.in_flight[y]
        /\ bitfield' = sched'.completed_pieces
    BY Zenon, <2>2, <2>3, <1>13
  <2>7. \/ state' = state /\ completed' = completed
        \/ /\ bitfield' = Piece /\ state' = "Seeding"
           /\ completed' \in {completed, completed + 1}
    BY Zenon, <2>5, <1>13
  <2> QED
    BY <2>4, <2>6, <2>7, <1>11, <1>13, ZenonT(30) DEF BlockStored, i
<1>14. CASE IsPieceComplete(stored, i)
  <2>1. PieceCompleted(p, i, stored)
    BY Zenon, <1>10, <1>14
  <2>2. \/ sched' = removed /\ todo' = Refill(p) /\ UNCHANGED <<state, bitfield, completed>>
        \/ /\ Verified(i) /\ sched' = marked
           /\ bitfield' = bitfield \cup {i}
           /\ state' = (IF DownloadFinished(marked) THEN "Seeding" ELSE state)
           /\ completed' = (IF DownloadFinished(marked) /\ completed < 2
                            THEN completed + 1 ELSE completed)
           /\ todo' = Due(ForgetStep(peers \ alive)) \o
                      (IF DownloadFinished(marked) THEN RechokeSteps(marked, peers)
                       ELSE Refill(p))
    BY <2>1, Zenon DEF PieceCompleted, removed
  <2> QED
    BY <2>2, <1>12, <1>13, <1>14, Zenon
<1>15. CASE ~IsPieceComplete(stored, i)
  BY <1>10, <1>12, <1>15, Zenon
<1> QED
  BY Zenon, <1>14, <1>15

\* handle_incoming_piece keeps the invariant.
LEMMA FlowIncomingPiece ==
  ASSUME FlowInv, HandleIncomingPiece
  PROVE  FlowInv'
<1> DEFINE m == Head(inbox)
<1>1. /\ m.peer \in Peer /\ m.slot \in Requested /\ m.content \in {"good", "bad"}
      /\ InboxOK'
      /\ \/ UNCHANGED <<state, sched, bitfield, disk, completed, todo, mail>>
         \/ BlockStored(m.peer, m.slot, m.content)
  BY Zenon, IncomingCases
<1>2. UNCHANGED <<peers, expired, alive, pieces, pending, dying, connects>>
  BY Zenon DEF HandleIncomingPiece
<1>3. CASE UNCHANGED <<state, sched, bitfield, disk, completed, todo, mail>>
  BY Zenon, <1>1, <1>2, <1>3, BooksUnchanged
  DEF FlowInv, FieldsOK, MailOK, TodoOK, BooksOK, SeedingIsComplete
<1>4. CASE BlockStored(m.peer, m.slot, m.content)
  <2> DEFINE p == m.peer
             x == m.slot
  <2>0. x \in Slot
    BY Zenon, <1>1 DEF Requested
  <2> HIDE DEF m
  <2>1. FieldsOK'
    <3>1. disk' \in [Slot -> {"none", "good", "bad"}]
      BY <1>1, <1>4, <2>0, ZenonT(30) DEF BlockStored, FlowInv, FieldsOK
    <3>2. state' \in {state, "Seeding"}
      BY <1>4, ZenonT(30) DEF BlockStored
    <3> QED
      BY <3>1, <3>2, <1>2, Zenon DEF FlowInv, FieldsOK
  <2>2. MailOK'
    <3>1. CancelPiece(x) \in PeerMessage /\ peers \subseteq Peer
      BY Zenon, <1>1, MessagesTyped DEF FlowInv, FieldsOK
    <3>2. CASE mail' = mail
      BY Zenon, <3>2 DEF FlowInv, MailOK
    <3>3. CASE /\ sched.in_flight[x] \in peers
               /\ mail' = TrySent(sched.in_flight[x], CancelPiece(x))
      <4>1. sched.in_flight[x] \in Peer /\ MailOK
        BY Zenon, <3>1, <3>3 DEF FlowInv
      <4>2. mail' \in {mail, TrySent(sched.in_flight[x], CancelPiece(x))}
        BY <3>3, Zenon
      <4> QED
        BY <4>1, <4>2, <3>1, MailSteps, Zenon
    <3> QED
      BY Zenon, <3>2, <3>3, <1>4 DEF BlockStored
  <2>3. TodoOK'
    <3>1. (peers \ alive) \cap alive = {}
      BY Zenon
    <3> QED
      BY Zenon, <3>1, <1>2, <1>4 DEF BlockStored, TodoOK
  <2>4. BooksOK'
    <3>1. GivesBack(sched, sched') /\ Consistent(sched')
      BY Zenon, <1>4 DEF BlockStored, GivesBack
    <3>2. Window \in Nat
      BY Zenon, FlowConstants DEF Window
    <3>3. \A q \in Peer : Cardinality(InFlightSlots(sched', q)) <= Window
      BY <3>1, <3>2, GivesBackShrinks, SMTT(30) DEF FlowInv, BooksOK, SchedulerConsistent
    <3>4. SeedingIsComplete'
      <4>1. bitfield \subseteq Piece
        BY Zenon DEF FlowInv, BooksOK, SchedulerConsistent, Consistent, SchedulerType, SchedulerRecord
      <4>2. PieceOf(x) \in Piece
        BY Zenon, <2>0, PieceOfSlot
      <4> QED
        BY Zenon, <4>1, <4>2, <1>4
        DEF BlockStored, FlowInv, BooksOK, SeedingIsComplete
    <3> QED
      BY <3>1, <3>3, <3>4, <1>4, ZenonT(30)
      DEF BlockStored, FlowInv, BooksOK, SchedulerConsistent, Window
  <2> QED
    BY Zenon, <1>1, <2>1, <2>2, <2>3, <2>4 DEF FlowInv
<1> QED
  BY Zenon, <1>1, <1>3, <1>4

\* peer_rejected_request keeps the invariant.
LEMMA FlowPeerRejectedRequest ==
  ASSUME FlowInv, HandlePeerRejectedRequest
  PROVE  FlowInv'
<1> DEFINE m == Head(inbox)
<1>1. /\ m \in TorrentMessage /\ m.type = "PeerRejectedRequest" /\ InboxOK'
  BY Zenon, InboxSteps DEF FlowInv, HandlePeerRejectedRequest
<1>2. m.peer \in Peer /\ m.slot \in Slot
  BY Zenon, <1>1, MessageFields DEF Requested
<1>3. /\ sched' = ReleasePeerRequest(sched, m.peer, m.slot) /\ todo' = Refill(m.peer)
      /\ UNCHANGED <<state, bitfield, disk, peers, completed, expired, peerVars>>
  BY Zenon DEF HandlePeerRejectedRequest
<1> HIDE DEF m
<1>4. Consistent(sched) /\ sched \in SchedulerRecord
  BY Zenon DEF FlowInv, BooksOK, SchedulerConsistent, Consistent, SchedulerType
<1>5. /\ Consistent(sched') /\ GivesBack(sched, sched') /\ SamePieces(sched, sched')
  BY <1>2, <1>3, <1>4, ReleasePeerRequestConsistent, ReleasePeerRequestEffect, SMTT(30) DEF GivesBack
<1>6. BooksOK'
  BY Zenon, <1>3, <1>5, BooksGiveBack DEF FlowInv, BooksOK, SeedingIsComplete
<1>7. TodoOK'
  BY <1>2, <1>3, TodoSteps, Zenon DEF TodoOK, peerVars
<1> QED
  BY Zenon, <1>1, <1>3, <1>6, <1>7 DEF FlowInv, FieldsOK, MailOK, peerVars

\* peer_ready keeps the invariant.
LEMMA FlowPeerReady ==
  ASSUME FlowInv, HandlePeerReady
  PROVE  FlowInv'
<1> DEFINE m == Head(inbox)
<1>1. /\ m \in TorrentMessage /\ m.type = "PeerReady" /\ InboxOK'
  BY Zenon, InboxSteps DEF FlowInv, HandlePeerReady
<1>2. m.peer \in Peer /\ m.pieces \in SUBSET Piece
  BY Zenon, <1>1, MessageFields
<1>3. /\ sched' = UpdatePeerAvailability(sched, m.peer, m.pieces)
      /\ todo' \in {Refill(m.peer), <<>>}
      /\ UNCHANGED <<state, bitfield, disk, peers, completed, expired, peerVars>>
  BY Zenon DEF HandlePeerReady
<1> HIDE DEF m
<1>4. Consistent(sched) /\ sched \in SchedulerRecord
  BY Zenon DEF FlowInv, BooksOK, SchedulerConsistent, Consistent, SchedulerType
<1>5. /\ Consistent(sched') /\ GivesBack(sched, sched') /\ SamePieces(sched, sched')
  BY <1>2, <1>3, <1>4, UpdatePeerAvailabilityConsistent, UpdatePeerAvailabilityEffect, Zenon
  DEF GivesBack
<1>6. BooksOK'
  BY <1>3, <1>5, BooksGiveBack, Zenon DEF FlowInv, BooksOK, SeedingIsComplete
<1>7. TodoOK'
  BY <1>2, <1>3, TodoSteps, Zenon DEF TodoOK, peerVars
<1> QED
  BY Zenon, <1>1, <1>3, <1>6, <1>7 DEF FlowInv, FieldsOK, MailOK, peerVars

\* An actor that stops leaves fields and mailboxes well formed.
LEMMA FlowStopped ==
  ASSUME FlowInv, NEW p \in Peer, NEW n \in Nat, Stopped(p, n)
  PROVE  /\ MailOK' /\ alive' \subseteq alive
         /\ pieces' \in [Peer -> SUBSET Piece] /\ pending' \in [Peer -> SUBSET Requested]
         /\ dying' \in [Peer -> Nat]
<1>1. PeerMailbox \in Nat /\ <<>> \in Seq(PeerMessage) /\ Len(<<>>) = 0
  BY FlowConstants
<1>2. MailOK'
  BY <1>1 DEF Stopped, FlowInv, MailOK
<1> QED
  BY <1>2 DEF Stopped, FlowInv, FieldsOK

\* remove_peer keeps all but the mailbox of the torrent, which its callers
\* look after.
LEMMA FlowRemovePeer ==
  ASSUME FlowInv, NEW p \in Peer, RemovePeer(p)
  PROVE  FieldsOK' /\ MailOK' /\ BooksOK' /\ peers' \in SUBSET Peer
<1>1. /\ sched' = PeerDisconnected(sched, p)
      /\ peers' = peers \ {p}
      /\ UNCHANGED <<state, bitfield, disk, completed, expired, connects>>
      /\ \/ p \in peers \cap alive /\ Stopped(p, 1)
         \/ p \notin peers \cap alive /\ UNCHANGED <<alive, mail, pending, pieces, dying>>
  BY Zenon DEF RemovePeer
<1>2. Consistent(sched) /\ sched \in SchedulerRecord
  BY Zenon DEF FlowInv, BooksOK, SchedulerConsistent, Consistent, SchedulerType
<1>3. /\ Consistent(sched') /\ GivesBack(sched, sched') /\ SamePieces(sched, sched')
  BY <1>1, <1>2, PeerDisconnectedConsistent, PeerDisconnectedEffect, Zenon DEF GivesBack
<1>4. BooksOK'
  BY Zenon, <1>1, <1>3, BooksGiveBack DEF FlowInv, BooksOK, SeedingIsComplete
<1>5. alive' \subseteq peers'
  BY Zenon, <1>1 DEF Stopped, FlowInv, FieldsOK
<1>6. /\ MailOK' /\ pieces' \in [Peer -> SUBSET Piece]
      /\ pending' \in [Peer -> SUBSET Requested] /\ dying' \in [Peer -> Nat]
  BY <1>1, FlowStopped, Zenon DEF FlowInv, FieldsOK, MailOK
<1> QED
  BY Zenon, <1>1, <1>4, <1>5, <1>6 DEF FlowInv, FieldsOK

\* kill_peer and disconnect_peer keep the invariant.
LEMMA FlowRemovals ==
  ASSUME FlowInv, HandleKillPeer \/ \E p \in Peer : DisconnectPeer(p)
  PROVE  FlowInv'
<1>1. CASE HandleKillPeer
  <2>1. /\ Head(inbox) \in TorrentMessage /\ InboxOK'
    BY Zenon, <1>1, InboxSteps DEF FlowInv, HandleKillPeer
  <2>2. Head(inbox).peer \in Peer
    BY Zenon, <2>1, MessageFields
  <2>3. FieldsOK' /\ MailOK' /\ BooksOK' /\ peers' \in SUBSET Peer
    BY Zenon, <2>2, <1>1, FlowRemovePeer DEF HandleKillPeer
  <2>4. todo' = Due(FillStep(peers', MaxInFlight))
    BY Zenon, <1>1 DEF HandleKillPeer
  <2>5. TodoOK'
    BY <2>3, <2>4, TodoSteps, Zenon DEF TodoOK
  <2> QED
    BY Zenon, <2>1, <2>3, <2>5 DEF FlowInv
<1>2. ASSUME NEW p \in Peer, DisconnectPeer(p)
      PROVE  FlowInv'
  <2>1. FieldsOK' /\ MailOK' /\ BooksOK' /\ peers' \in SUBSET Peer
    BY Zenon, <1>2, FlowRemovePeer DEF DisconnectPeer
  <2>2. /\ todo' \in {Due(FillStep(peers', MaxInFlight)), <<>>} /\ inbox' = inbox
    BY <1>2, Zenon DEF DisconnectPeer
  <2>3. TodoOK'
    BY <2>1, <2>2, TodoSteps, Zenon DEF TodoOK
  <2> QED
    BY Zenon, <2>1, <2>2, <2>3 DEF FlowInv, InboxOK
<1> QED
  BY Zenon, <1>1, <1>2

\* start, stop_transfer, the rechoke timer and peer_connected keep it.
LEMMA FlowCommands ==
  ASSUME FlowInv, Start \/ Pause \/ Rechoke \/ \E p \in Peer : PeerConnected(p)
  PROVE  FlowInv'
<1>0. /\ peers \in SUBSET Peer /\ alive \in SUBSET peers /\ TodoFor(todo, alive)
  BY Zenon DEF FlowInv, FieldsOK, TodoOK
<1>1. CASE Start
  <2>1. TodoOK'
    <3>1. TodoFor(Due(FillStep(peers, InitialWindow)), alive)
      BY Zenon, <1>0, TodoSteps
    <3>2. TodoFor(RechokeSteps(sched, peers), alive)
      BY Zenon, <1>0, TodoRechoke
    <3>3. /\ todo' = Due(FillStep(peers, InitialWindow)) \o RechokeSteps(sched, peers)
          /\ alive' = alive
      BY Zenon, <1>1 DEF Start, peerVars
    <3> QED
      BY <3>1, <3>2, <3>3, TodoConcat, Zenon DEF TodoOK
  <2>2. BooksOK'
    BY <1>1, BooksUnchanged, Zenon DEF Start, FlowInv
  <2> QED
    BY Zenon, <1>1, <2>1, <2>2 DEF Start, peerVars, FlowInv, FieldsOK, MailOK, InboxOK
<1>2. CASE Pause
  <2>1. BooksOK'
    BY Zenon, <1>2, BooksUnchanged DEF Pause, FlowInv
  <2>2. peers' \in SUBSET Peer /\ alive \subseteq peers'
    BY <1>0, <1>2, Zenon DEF Pause
  <2> QED
    BY <1>2, <2>1, <2>2, Zenon
    DEF Pause, peerVars, FlowInv, FieldsOK, MailOK, InboxOK, TodoOK, TodoFor
<1>3. CASE Rechoke
  <2>1. BooksOK'
    BY Zenon, <1>3, BooksUnchanged DEF Rechoke, FlowInv, BooksOK, SeedingIsComplete
  <2>2. TodoOK'
    BY <1>0, <1>3, TodoRechoke, Zenon DEF Rechoke, peerVars, TodoOK
  <2> QED
    BY Zenon, <1>3, <2>1, <2>2 DEF Rechoke, peerVars, FlowInv, FieldsOK, MailOK, InboxOK
<1>4. ASSUME NEW p \in Peer, PeerConnected(p)
      PROVE  FlowInv'
  <2>1. BooksOK'
    BY Zenon, <1>4, BooksUnchanged DEF PeerConnected, FlowInv, BooksOK, SeedingIsComplete
  <2>2. TodoOK'
    BY Zenon, <1>4, TodoSteps DEF PeerConnected, Idle, TodoOK
  <2> QED
    BY Zenon, <1>4, <2>1, <2>2 DEF PeerConnected, FlowInv, FieldsOK, MailOK, InboxOK
<1> QED
  BY Zenon, <1>1, <1>2, <1>3, <1>4

-----------------------------------------------------------------------------
(* The steps of the peer actors *)

\* Nothing of the torrent changes in a step of a peer.
LEMMA FlowPeerStep ==
  ASSUME FlowInv, UNCHANGED torrentVars, FieldsOK', MailOK', InboxOK',
         alive' \subseteq alive
  PROVE  FlowInv'
<1>1. BooksOK'
  BY BooksUnchanged, Zenon DEF torrentVars, FlowInv, BooksOK, SeedingIsComplete
<1>2. TodoOK'
  BY Zenon DEF torrentVars, FlowInv, TodoOK, TodoFor
<1> QED
  BY Zenon, <1>1, <1>2 DEF FlowInv

\* Every step of a peer actor keeps the invariant.
LEMMA FlowPeers ==
  ASSUME FlowInv, NEW p \in Peer, PeerStep(p)
  PROVE  FlowInv'
<1>0. InboxOK /\ MailOK /\ FieldsOK
  BY Zenon DEF FlowInv
<1>1. CASE HandleNeedPiece(p)
  <2> DEFINE x == Head(mail[p]).slot
  <2>1. /\ Head(mail[p]) \in PeerMessage /\ MailOK'
    BY Zenon, <1>0, <1>1, MailSteps DEF HandleNeedPiece
  <2>2. x \in Requested
    BY Zenon, <2>1 DEF PeerMessage
  <2>3. /\ UNCHANGED <<torrentVars, alive, pieces, dying, connects>>
        /\ \/ RejectPieceRequest(p, x) /\ UNCHANGED pending
           \/ pending' = [pending EXCEPT ![p] = @ \cup {x}] /\ UNCHANGED inbox
    BY <1>1, Zenon DEF HandleNeedPiece
  <2> HIDE DEF x
  <2>4. FieldsOK'
    BY <1>0, <2>2, <2>3, Zenon DEF FieldsOK, torrentVars
  <2>5. InboxOK'
    BY Zenon, <1>0, <2>2, <2>3, InboxSteps, MessagesTyped DEF InboxOK, RejectPieceRequest
  <2> QED
    BY <2>1, <2>3, <2>4, <2>5, FlowPeerStep, Zenon
<1>2. CASE HandleCancelPiece(p)
  <2>1. MailOK'
    BY Zenon, <1>0, <1>2, MailSteps DEF HandleCancelPiece
  <2>2. FieldsOK' /\ InboxOK'
    BY Zenon, <1>0, <1>2 DEF HandleCancelPiece, FieldsOK, InboxOK, torrentVars
  <2> QED
    BY Zenon, <1>2, <2>1, <2>2, FlowPeerStep DEF HandleCancelPiece
<1>3. ASSUME NEW x \in Slot, NEW content \in {"good", "bad"}, RecvPiece(p, x, content)
      PROVE  FlowInv'
  <2>1. x \in Requested
    BY Zenon, <1>0, <1>3 DEF RecvPiece, FieldsOK
  <2>2. InboxOK'
    BY <1>0, <1>3, <2>1, InboxSteps, MessagesTyped, Zenon DEF RecvPiece
  <2>3. FieldsOK' /\ MailOK'
    BY Zenon, <1>0, <1>3 DEF RecvPiece, FieldsOK, MailOK, torrentVars
  <2> QED
    BY Zenon, <1>3, <2>2, <2>3, FlowPeerStep DEF RecvPiece
<1>4. ASSUME NEW x \in Slot, RecvCancel(p, x)
      PROVE  FlowInv'
  <2>1. FieldsOK' /\ MailOK' /\ InboxOK'
    BY Zenon, <1>0, <1>4 DEF RecvCancel, FieldsOK, MailOK, InboxOK, torrentVars
  <2> QED
    BY <1>4, <2>1, FlowPeerStep, Zenon DEF RecvCancel
<1>5. CASE RecvBitfield(p)
  <2>1. Has[p] \in SUBSET Piece
    BY FlowConstants, Zenon
  <2>2. InboxOK'
    BY <1>0, <1>5, <2>1, InboxSteps, MessagesTyped, ZenonT(30) DEF RecvBitfield
  <2>3. FieldsOK' /\ MailOK'
    BY Zenon, <1>0, <1>5, <2>1 DEF RecvBitfield, FieldsOK, MailOK, torrentVars
  <2> QED
    BY Zenon, <1>5, <2>2, <2>3, FlowPeerStep DEF RecvBitfield
<1>6. CASE NotifyReady(p)
  <2>1. InboxOK'
    BY Zenon, <1>0, <1>6, InboxSteps, MessagesTyped DEF NotifyReady, FieldsOK
  <2>2. FieldsOK' /\ MailOK' /\ UNCHANGED torrentVars /\ alive' = alive
    BY Zenon, <1>0, <1>6 DEF NotifyReady, FieldsOK, MailOK, torrentVars, peerVars
  <2> QED
    BY Zenon, <2>1, <2>2, FlowPeerStep
<1>7. ASSUME NEW n \in {1, 2}, PeerStops(p, n)
      PROVE  FlowInv'
  <2>1. n \in Nat /\ Stopped(p, n) /\ UNCHANGED <<torrentVars, inbox, connects>>
    BY <1>7 DEF PeerStops
  <2>2. /\ MailOK' /\ alive' \subseteq alive
        /\ pieces' \in [Peer -> SUBSET Piece] /\ pending' \in [Peer -> SUBSET Requested]
        /\ dying' \in [Peer -> Nat]
    BY Zenon, <2>1, FlowStopped
  <2>3. FieldsOK' /\ InboxOK'
    BY Zenon, <1>0, <2>1, <2>2 DEF FieldsOK, InboxOK, torrentVars
  <2> QED
    BY Zenon, <2>1, <2>2, <2>3, FlowPeerStep
<1>8. CASE NotifyStopped(p)
  <2>1. InboxOK'
    BY Zenon, <1>0, <1>8, InboxSteps, MessagesTyped DEF NotifyStopped
  <2>2. dying' \in [Peer -> Nat]
    BY <1>0, <1>8 DEF NotifyStopped, FieldsOK
  <2>3. FieldsOK' /\ MailOK'
    BY Zenon, <1>0, <1>8, <2>2 DEF NotifyStopped, FieldsOK, MailOK, torrentVars
  <2> QED
    BY Zenon, <1>8, <2>1, <2>3, FlowPeerStep DEF NotifyStopped
<1> QED
  BY <1>1, <1>2, <1>3, <1>4, <1>5, <1>6, <1>7, <1>8, Zenon DEF PeerStep

-----------------------------------------------------------------------------

\* A torrent starts in a state that satisfies the invariant.
LEMMA FlowInit == Init => FlowInv
<1> SUFFICES ASSUME Init PROVE FlowInv
  BY Zenon
<1>1. sched = New(PieceCount) /\ PieceCount \in {0, NumPieces}
  BY Zenon, FlowConstants DEF Init
<1>2. Consistent(sched)
  BY Zenon, <1>1, NewConsistent
<1>3. /\ sched.piece_count = PieceCount /\ sched.completed_pieces = {}
      /\ \A x \in Slot : sched.in_flight[x] = NoPeer
  BY Zenon, <1>1 DEF New
<1>4. \A p \in Peer : InFlightSlots(sched, p) = {}
  BY Zenon, <1>3, SchedulerConstants DEF InFlightSlots
<1>5. BooksOK
  <2>1. Window \in Nat /\ Cardinality({}) = 0
    BY Zenon, FlowConstants, FS_EmptySet DEF Window
  <2>2. \A p \in Peer : Cardinality(InFlightSlots(sched, p)) = 0
    BY <1>4, <2>1, Zenon
  <2>3. \A p \in Peer : Cardinality(InFlightSlots(sched, p)) <= Window
    BY <2>1, <2>2
  <2>4. bitfield = sched.completed_pieces /\ state # "Seeding"
    BY Zenon, <1>3 DEF Init
  <2> QED
    BY Zenon, <1>2, <1>3, <2>3, <2>4 DEF BooksOK, SchedulerConsistent, SeedingIsComplete
<1>6. TodoOK
  BY Zenon, TodoSteps DEF Init, TodoOK
<1>7. MailOK /\ InboxOK
  <2>1. PeerMailbox \in Nat /\ TorrentMailbox \in Nat
    BY Zenon, FlowConstants
  <2> QED
    BY <2>1 DEF Init, MailOK, InboxOK
<1>8. FieldsOK
  BY Zenon DEF Init, FieldsOK
<1> QED
  BY Zenon, <1>5, <1>6, <1>7, <1>8 DEF FlowInv

\* Every step of torrent and peers keeps the invariant.
LEMMA FlowNext == FlowInv /\ [Next]_vars => FlowInv'
<1> SUFFICES ASSUME FlowInv, [Next]_vars PROVE FlowInv'
  BY Zenon
<1>1. CASE Continue
  BY Zenon, <1>1, FlowFillPeer, FlowForgetPeer, FlowExpireRequests DEF Continue
<1>2. CASE HandleMessage
  BY Zenon, <1>2, FlowIncomingPiece, FlowPeerRejectedRequest, FlowPeerReady, FlowRemovals
  DEF HandleMessage
<1>3. CASE Start \/ Pause \/ Rechoke
  BY Zenon, <1>3, FlowCommands
<1>4. CASE \E p \in Peer : PeerConnected(p) \/ DisconnectPeer(p) \/ PeerStep(p)
  BY <1>4, FlowCommands, FlowRemovals, FlowPeers, Zenon
<1>5. CASE UNCHANGED vars
  BY <1>5, Zenon DEF vars, torrentVars, peerVars, FlowInv, FieldsOK, MailOK, InboxOK, TodoOK,
              TodoFor, BooksOK, SchedulerConsistent, SeedingIsComplete, Window
<1> QED
  BY Zenon, <1>1, <1>2, <1>3, <1>4, <1>5 DEF Next

\* The invariant is more than the types of the fields.
LEMMA FlowTypes == FlowInv => TypeOK
BY Zenon DEF FlowInv, FieldsOK, MailOK, InboxOK, BooksOK, SchedulerConsistent, Consistent,
       SchedulerType, SchedulerRecord, TypeOK, Requested

\* Through every handler, whatever peers, timers and callers do, the
\* scheduler's counters are exact, nothing in hand is on request, no peer is
\* asked for more than its window, and the bitfield sent to peers is what the
\* scheduler holds to be verified (torrent/piece_flow.rs, swarm.rs).
THEOREM FlowConsistent == Spec => [](TypeOK /\ SchedulerConsistent)
<1>1. FlowInv => TypeOK /\ SchedulerConsistent
  BY Zenon, FlowTypes DEF FlowInv, BooksOK
<1> QED
  BY FlowInit, FlowNext, <1>1, PTL DEF Spec

\* A torrent that seeds has every piece (piece_completed, start).
THEOREM FlowSeedingIsComplete == Spec => []SeedingIsComplete
<1>1. FlowInv => SeedingIsComplete
  BY Zenon DEF FlowInv, BooksOK
<1> QED
  BY FlowInit, FlowNext, <1>1, PTL DEF Spec

=============================================================================
