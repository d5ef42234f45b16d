-------------------------------- MODULE Choking --------------------------------
(***************************************************************************)
(* Who may download from us: the choking scheduler (torrent/choking.rs), the *)
(* rechoke that applies its decisions (choking_flow.rs), and the SetChoked   *)
(* handler of the peer actors (peer/actor.rs).                               *)
(*                                                                         *)
(* A rechoke asks every peer for its statistics and waits for each answer at *)
(* most peer_stats_timeout. Peer mailboxes are FIFO, so a peer that answers  *)
(* has handled every SetChoked sent to it before.                            *)
(***************************************************************************)
EXTENDS Integers, FiniteSets, Sequences

CONSTANTS
  Leecher,     \* peer ids: numbers, since ties are broken by id
  UploadSlots, \* settings.torrent.upload_slots
  Rounds,      \* settings.torrent.optimistic_unchoke_rounds
  Rate,        \* transfer rates
  IndexSpan,   \* number of values of the usize optimistic_index (2^64)
  Envs         \* the sets of things that may happen in a behaviour, of
               \* "rates", "interest", "timeout" and "fail"

ASSUME ChokingConstants ==
  /\ IsFiniteSet(Leecher) /\ Leecher \subseteq Nat
  /\ {UploadSlots, Rounds} \subseteq Nat
  /\ Rate \subseteq Nat
  /\ IndexSpan \in Nat \ {0}
  /\ Envs \subseteq SUBSET {"rates", "interest", "timeout", "fail"}

VARIABLES
  env,        \* what may happen in this behaviour
  active,     \* TorrentActor.state.is_transfer_active()
  index,      \* ChokingScheduler.optimistic_index
  rounds,     \* ChokingScheduler.rounds_since_optimistic_rotation
  interested, \* peers that are interested in us
  rate,       \* download_rate (or upload_rate, when seeding) of each peer
  choking,    \* peers we choke: PeerState.client_choking
  orders,     \* SetChoked messages in each peer's mailbox
  consulted,  \* peers that answered the last rechoke
  broken      \* peers whose stream failed to send the last Choke or Unchoke

chokingVars == <<env, active, index, rounds, interested, rate, choking, orders,
                 consulted, broken>>

-----------------------------------------------------------------------------
(* select_unchoked_peers, for the set c of candidates *)

\* The order of candidates.sort_by: faster first, then by id.
Precedes(q, p) == rate[q] > rate[p] \/ (rate[q] = rate[p] /\ q < p)

Position(c, p) == Cardinality({q \in c : Precedes(q, p)})

ReserveOptimisticSlot(c) == UploadSlots > 0 /\ Cardinality(c) > UploadSlots

RegularSlots(c) ==
  IF ReserveOptimisticSlot(c) THEN UploadSlots - 1 ELSE UploadSlots

OptimisticFirst(c) ==
  {p \in c : /\ ReserveOptimisticSlot(c)
             /\ Position(c, p) = RegularSlots(c)}

\* optimistic_candidates[optimistic_index % optimistic_candidates.len()]
Optimistic(c) ==
  {p \in c : /\ ReserveOptimisticSlot(c)
             /\ Position(c, p) = RegularSlots(c) +
                                 (index % (Cardinality(c) - RegularSlots(c)))}

Unchoked(c) ==
  {p \in c : Position(c, p) < RegularSlots(c)} \cup Optimistic(c)

-----------------------------------------------------------------------------
(* Actions *)

\* decide: rotate the optimistic slot every optimistic_unchoke_rounds rounds,
\* and start again whenever there is no optimistic slot.
Rotate(c) ==
  IF Optimistic(c) = {} THEN rounds' = 0 /\ index' = 0
  ELSE IF rounds + 1 >= Rounds
  THEN rounds' = 0 /\ index' = (index + 1) % IndexSpan
  ELSE rounds' = rounds + 1 /\ UNCHANGED index

ChokeMessagesUnchokeOnly(p, unchoked) ==
  IF p \in choking /\ p \in unchoked THEN <<FALSE>> ELSE <<>>

\* What each peer that answered is sent: SetChoked when its state differs.
ChokeMessages(p, unchoked) ==
  IF (p \in choking) = (p \notin unchoked) THEN <<>> ELSE <<p \notin unchoked>>

\* rechoke_peers of an active torrent, given the peers whose statistics came
\* in time.
RechokePeers(answered) ==
  LET c == interested \cap answered
  IN  /\ \A p \in answered : orders[p] = <<>>
      /\ answered = Leecher \/ "timeout" \in env
      /\ consulted' = answered
      /\ orders' = [p \in Leecher |-> IF p \in answered
                                 THEN ChokeMessages(p, Unchoked(c))
                                 ELSE orders[p]]
      /\ Rotate(c)
      /\ UNCHANGED <<env, interested, rate, choking, broken>>

\* The Rechoke message of the timer.
RechokeTimer(answered) == active /\ RechokePeers(answered) /\ UNCHANGED active

\* start, whose last step is a rechoke.
Start(answered) == ~active /\ active' = TRUE /\ RechokePeers(answered)

\* stop_transfer tells every peer to choke, waiting for room in its mailbox.
\* Bound: two messages in a mailbox.
Pause ==
  /\ active /\ active' = FALSE
  /\ \A p \in Leecher : Len(orders[p]) < 2
  /\ orders' = [p \in Leecher |-> Append(orders[p], TRUE)]
  /\ UNCHANGED <<env, index, rounds, interested, rate, choking, consulted, broken>>

\* set_choked of peer p. The state changes only if the message could be sent.
HandleSetChoked(p) ==
  /\ orders[p] # <<>>
  /\ orders' = [orders EXCEPT ![p] = Tail(@)]
  /\ \/ /\ choking' = IF Head(orders[p]) THEN choking \cup {p} ELSE choking \ {p}
        /\ broken' = broken \ {p}
     \/ /\ "fail" \in env /\ Head(orders[p]) # (p \in choking)
        /\ broken' = broken \cup {p}
        /\ UNCHANGED choking
  /\ UNCHANGED <<env, active, index, rounds, interested, rate, consulted>>

InterestChanges(p) ==
  /\ "interest" \in env
  /\ interested' = IF p \in interested THEN interested \ {p}
                                       ELSE interested \cup {p}
  /\ UNCHANGED <<env, active, index, rounds, rate, choking, orders, consulted,
                 broken>>

RateChanges(p, r) ==
  /\ "rates" \in env
  /\ rate' = [rate EXCEPT ![p] = r]
  /\ UNCHANGED <<env, active, index, rounds, interested, choking, orders, consulted,
                 broken>>

ChokingInit ==
  /\ env \in Envs
  /\ active = FALSE
  /\ index = 0 /\ rounds = 0
  /\ interested \in SUBSET Leecher
  /\ rate \in [Leecher -> Rate]
  /\ choking = Leecher
  /\ orders = [p \in Leecher |-> <<>>]
  /\ consulted = {} /\ broken = {}

ChokingNext ==
  \/ \E answered \in SUBSET Leecher : RechokeTimer(answered) \/ Start(answered)
  \/ Pause
  \/ \E p \in Leecher : \/ HandleSetChoked(p)
                        \/ InterestChanges(p)
                        \/ \E r \in Rate : RateChanges(p, r)

ChokingSpec == ChokingInit /\ [][ChokingNext]_chokingVars

\* Timers fire and peers handle their mail, so that they answer in time.
ChokingFairness ==
  /\ \A p \in Leecher : WF_chokingVars(HandleSetChoked(p))
  /\ SF_chokingVars(\E answered \in SUBSET Leecher : RechokeTimer(answered))

-----------------------------------------------------------------------------
(* Properties *)

\* What a peer's choke state will be once it has handled its mail.
WillChoke(p) ==
  IF orders[p] = <<>> THEN p \in choking ELSE orders[p][Len(orders[p])]

\* The variables have the types of the fields they model.
ChokingTypeOK ==
  /\ active \in BOOLEAN
  /\ index \in 0..(IndexSpan - 1) /\ rounds \in Nat
  /\ (rounds = 0 \/ rounds < Rounds)
  /\ interested \subseteq Leecher /\ choking \subseteq Leecher /\ consulted \subseteq Leecher
  /\ \A p \in Leecher : orders[p] \in Seq(BOOLEAN) /\ Len(orders[p]) <= 2

\* Of the peers the last rechoke heard from, no more than upload_slots are
\* left unchoked, however choke state, interest and statistics change around
\* it. (A peer whose statistics come too late, or whose stream failed, keeps
\* its slot on top of these.)
SlotsRespected ==
  Cardinality({p \in consulted \ broken : ~WillChoke(p)}) <= UploadSlots

\* Whatever the candidates and the rotation, all slots are used, the fastest
\* peers have them, and at most one peer is preferred to a faster one.
FastestFirst ==
  \A c \in SUBSET Leecher :
    LET unchoked == Unchoked(c)
    IN  /\ Cardinality(unchoked) =
             IF Cardinality(c) < UploadSlots THEN Cardinality(c)
                                             ELSE UploadSlots
        /\ Cardinality({p \in unchoked :
             \E q \in c \ unchoked : rate[q] > rate[p]}) <= 1

\* A paused torrent uploads to nobody, once its peers have handled their mail.
PausedChokesAll == ~active => \A p \in Leecher \ broken : WillChoke(p)

\* While rates and interest stay the same, every interested peer is unchoked
\* again and again: the optimistic slot goes round all of them.
EveryoneGetsATurn ==
  env = {} /\ UploadSlots > 0 /\ <>[]active =>
    \A p \in Leecher : p \in interested => []<>(p \notin choking)

\* After every rechoke, late statistics, failing streams and pauses included,
\* the slots are given to the right peers and to no more (choking_flow.rs,
\* rechoke_peers).
ChokingSound == ChokingTypeOK /\ SlotsRespected /\ FastestFirst /\ PausedChokesAll
=============================================================================
