---------------------------- MODULE TorrentProofs ----------------------------
(***************************************************************************)
(* Proofs about two parts of the torrent actor.                             *)
(* SchedulerSpec: every method of the piece scheduler keeps a scheduler     *)
(* consistent, for every number of peers, pieces and blocks and every       *)
(* window.  TorrentLifecycle, for any bounds and settings: a torrent that   *)
(* transfers has its metadata and one rechoke on its way, and it seeds only *)
(* once it is complete.                                                     *)
(***************************************************************************)
EXTENDS SchedulerSpec, SchedulerLemmas, TorrentLifecycle

-----------------------------------------------------------------------------
(* The piece scheduler *)

\* The scheduler rebuilt from a snapshot is consistent.
LEMMA RestoredConsistent ==
  ASSUME NEW done \in SUBSET Piece, NEW blocks \in SUBSET Slot
  PROVE  Consistent(Restored(done, blocks))
<1> DEFINE s == New(NumPieces)
           m == FirstIncomplete(done, 0, NumPieces)
           t == Restored(done, blocks)
<1>1. Consistent(s)
  BY Zenon, NewConsistent
<1>2. NumPieces \in Nat /\ \A i \in done : i < NumPieces
  BY SchedulerConstants DEF Piece
<1>3. /\ m \in 0..NumPieces
      /\ m \notin done
      /\ \A k \in 0..(m - 1) : k \in done
  BY <1>2, FirstIncompleteStops
<1>4. m \in Nat
  BY <1>2, <1>3
<1>5. t = [s EXCEPT !.completed_pieces = done,
                    !.completed_blocks = blocks,
                    !.next_piece = m]
  BY Zenon DEF Restored
<1>6. s.piece_count = NumPieces /\ s.in_flight = [x \in Slot |-> NoPeer]
  BY Zenon DEF New
<1> HIDE DEF t, s, m
<1>7. /\ t.completed_blocks = blocks
      /\ t.in_flight = s.in_flight
      /\ t.in_flight_per_peer = s.in_flight_per_peer
      /\ t.completed_pieces = done
      /\ t.next_piece = m
      /\ t.piece_count = NumPieces
      /\ t \in SchedulerRecord
  BY <1>1, <1>4, <1>5, <1>6, Zenon DEF Consistent, SchedulerType, SchedulerRecord
<1>8. SchedulerType(t)
  BY <1>2, <1>3, <1>7 DEF SchedulerType
<1>9. ExactCounters(t)
  BY Zenon, <1>1, <1>7 DEF Consistent, ExactCounters, InFlightSlots
<1>10. DoneNotInFlight(t) /\ PrefixCounted(t)
  BY Zenon, <1>3, <1>6, <1>7 DEF DoneNotInFlight, PrefixCounted
<1> QED
  BY Zenon, <1>8, <1>9, <1>10 DEF Consistent, t

-----------------------------------------------------------------------------
(* The specification *)

\* A step that only gives requests back cannot overfill a window.
LEMMA GivesBackBounded ==
  ASSUME WindowBounded, GivesBack(sched, sched')
  PROVE  WindowBounded'
BY GivesBackShrinks, WindowConstant DEF WindowBounded, Window

\* Forgetting one request only gives requests back.
LEMMA RemoveInFlightGivesBack ==
  ASSUME NEW s, Consistent(s), NEW x \in Slot
  PROVE  /\ GivesBack(s, RemoveInFlight(s, x))
         /\ GivesBack(s, MarkBlockComplete(s, x))
BY RemoveInFlightEffect, MarkBlockCompleteEffect
DEF GivesBack, Consistent, SchedulerType

\* The inductive invariant: a consistent scheduler that respects the window.
SchedulerInv == Consistent(sched) /\ WindowBounded

\* What one step of the specification does: it keeps the invariant and hands
\* no requested block to another peer.
LEMMA StepKeepsScheduler ==
  ASSUME SchedulerInv, Next
  PROVE  /\ SchedulerInv'
         /\ \A x \in Slot : \/ sched.in_flight[x] = NoPeer
                            \/ sched'.in_flight[x] \in {NoPeer, sched.in_flight[x]}
<1> DEFINE Goal == /\ Consistent(sched')
                   /\ WindowBounded'
                   /\ \A x \in Slot :
                        \/ sched.in_flight[x] = NoPeer
                        \/ sched'.in_flight[x] \in {NoPeer, sched.in_flight[x]}
<1>0. Consistent(sched) /\ sched \in SchedulerRecord
  BY Zenon DEF SchedulerInv, Consistent, SchedulerType
<1>A. ASSUME Consistent(sched'), GivesBack(sched, sched')
      PROVE  Goal
  BY Zenon, <1>A, GivesBackBounded DEF SchedulerInv, GivesBack
<1>1. ASSUME NEW done \in SUBSET Piece, NEW blocks \in SUBSET Slot,
             Restore(done, blocks)
      PROVE  Goal
  <2>1. Consistent(sched')
    BY Zenon, <1>1, RestoredConsistent DEF Restore
  <2>2. sched'.in_flight = [x \in Slot |-> NoPeer]
    BY <1>1, Zenon DEF Restore, Restored, New
  <2> QED
    BY Zenon, <2>1, <2>2, <1>A DEF GivesBack
<1>2. ASSUME NEW p \in Peer, NEW pieces \in SUBSET Piece,
             sched' = UpdatePeerAvailability(sched, p, pieces)
      PROVE  Goal
  <2>1. Consistent(sched')
    BY Zenon, <1>0, <1>2, UpdatePeerAvailabilityConsistent
  <2>2. sched'.in_flight = sched.in_flight
    BY <1>0, <1>2, Zenon DEF UpdatePeerAvailability, SchedulerRecord
  <2> QED
    BY Zenon, <2>1, <2>2, <1>A DEF GivesBack
<1>3. ASSUME NEW p \in Peer, NEW i \in Piece, PeerHave(p, i)
      PROVE  Goal
  <2>1. sched.peer_availability[p] \cup {i} \in SUBSET Piece
    BY Zenon, <1>0 DEF SchedulerRecord
  <2> QED
    BY Zenon, <2>1, <1>2, <1>3 DEF PeerHave
<1>4. ASSUME NEW p \in Peer, NEW w \in {MaxInFlight, InitialWindow}, Fill(p, w)
      PROVE  Goal
  <2> DEFINE room == w - sched.in_flight_per_peer[p]
             new == RequestsForPeer(sched, p, room)
  <2>1. /\ sched.in_flight_per_peer \in [Peer -> Nat]
        /\ room \in Nat /\ w \in Nat /\ w <= Window /\ Window \in Nat
        /\ sched' = WithRequests(sched, p, new)
    BY <1>0, <1>4, WindowConstant DEF Fill, SchedulerRecord, Window
  <2> HIDE DEF room
  <2>2. new \in SUBSET Requestable(sched, p) /\ Cardinality(new) <= room
    BY Zenon, <1>0, <2>1, RequestsWithinLimit DEF Consistent
  <2> HIDE DEF new
  <2>3. /\ Consistent(sched')
        /\ sched'.in_flight_per_peer =
             [sched.in_flight_per_peer EXCEPT ![p] = @ + Cardinality(new)]
    BY <1>0, <2>1, <2>2, WithRequestsConsistent
  <2>4. Cardinality(new) \in Nat
    BY Zenon, <2>2, SlotSetFinite DEF Requestable
  <2>5. \A q \in Peer : sched'.in_flight_per_peer[q] <= Window
    <3>1. \A q \in Peer : sched.in_flight_per_peer[q] <= Window
      BY Zenon, <1>0 DEF SchedulerInv, WindowBounded, Consistent, ExactCounters
    <3> QED
      BY <3>1, <2>1, <2>2, <2>3, <2>4 DEF room
  <2>6. WindowBounded'
    BY Zenon, <2>3, <2>5 DEF WindowBounded, Consistent, ExactCounters
  <2>7. \A x \in new : sched.in_flight[x] = NoPeer
    BY Zenon, <2>2 DEF Requestable
  <2>8. \A x \in Slot : x \notin new => sched'.in_flight[x] = sched.in_flight[x]
    BY <1>0, <2>1, Zenon DEF WithRequests, SchedulerRecord
  <2> QED
    BY Zenon, <2>3, <2>6, <2>7, <2>8
<1>5. ASSUME NEW x \in Slot, BlockStored(x)
      PROVE  Goal
  BY Zenon, <1>0, <1>5, <1>A, MarkBlockCompleteConsistent, RemoveInFlightGivesBack
  DEF BlockStored
<1>6. ASSUME NEW i \in Piece, IsPieceComplete(sched, i)
      PROVE  /\ Consistent(RemovePieceBlocks(sched, i))
             /\ RemovePieceBlocks(sched, i).in_flight = sched.in_flight
             /\ \A x \in BlocksOf(i) : sched.in_flight[x] = NoPeer
  <2>1. RemovePieceBlocks(sched, i).in_flight = sched.in_flight
    BY <1>0, Zenon DEF RemovePieceBlocks, SchedulerRecord
  <2>2. \A x \in BlocksOf(i) : sched.in_flight[x] = NoPeer
    BY Zenon, <1>0, <1>6 DEF IsPieceComplete, BlocksOf, Consistent, DoneNotInFlight
  <2> QED
    BY Zenon, <1>0, <2>1, <2>2, RemovePieceBlocksConsistent
<1>7. ASSUME NEW i \in Piece, PieceVerified(i)
      PROVE  Goal
  <2> DEFINE r == RemovePieceBlocks(sched, i)
  <2>1. /\ Consistent(r) /\ r.in_flight = sched.in_flight
        /\ \A x \in BlocksOf(i) : r.in_flight[x] = NoPeer
        /\ sched' = MarkPieceComplete(r, i)
    BY Zenon, <1>6, <1>7 DEF PieceVerified
  <2> HIDE DEF r
  <2>2. Consistent(sched')
    BY Zenon, <2>1, MarkPieceCompleteConsistent
  <2>3. sched'.in_flight = r.in_flight
    BY <2>1, Zenon DEF MarkPieceComplete, Consistent, SchedulerType, SchedulerRecord
  <2> QED
    BY Zenon, <2>1, <2>2, <2>3, <1>A DEF GivesBack
<1>8. ASSUME NEW i \in Piece, PieceRejected(i)
      PROVE  Goal
  BY Zenon, <1>6, <1>8, <1>A DEF PieceRejected, GivesBack
<1>9. ASSUME NEW p \in Peer, NEW x \in Slot, RequestRejected(p, x)
      PROVE  Goal
  <2>1. Consistent(sched')
    BY Zenon, <1>0, <1>9, ReleasePeerRequestConsistent DEF RequestRejected
  <2>2. GivesBack(sched, sched')
    BY Zenon, <1>0, <1>9, RemoveInFlightGivesBack
    DEF RequestRejected, ReleasePeerRequest, GivesBack
  <2> QED
    BY Zenon, <2>1, <2>2, <1>A
<1>10. ASSUME NEW p \in Peer, Disconnect(p)
       PROVE  Goal
  <2>1. Consistent(sched')
    BY Zenon, <1>0, <1>10, PeerDisconnectedConsistent DEF Disconnect
  <2>2. GivesBack(sched, sched')
    BY <1>0, <1>10, Zenon
    DEF Disconnect, PeerDisconnected, GivesBack, SchedulerRecord
  <2> QED
    BY Zenon, <2>1, <2>2, <1>A
<1>11. ASSUME NEW stale \in SUBSET Slot, Stale(stale)
       PROVE  Goal
  <2>1. Consistent(sched')
    BY Zenon, <1>0, <1>11, ReleaseStaleRequestsConsistent DEF Stale
  <2>2. GivesBack(sched, sched')
    BY <1>0, <1>11, Zenon
    DEF Stale, ReleaseStaleRequests, GivesBack, SchedulerRecord
  <2> QED
    BY Zenon, <2>1, <2>2, <1>A
<1> HIDE DEF Goal
<1>12. Goal
  BY Zenon, <1>1, <1>2, <1>3, <1>4, <1>5, <1>7, <1>8, <1>9, <1>10, <1>11
  DEF Next, PeerReady
<1> QED
  BY Zenon, <1>12 DEF Goal, SchedulerInv

\* The scheduler is always consistent and never exceeds a window: exact
\* counters, nothing requested that is done, next_piece the completed prefix.
THEOREM SchedulerAlwaysConsistent == Spec => []SchedulerInv
<1>1. Init => SchedulerInv
  <2> SUFFICES ASSUME Init PROVE SchedulerInv
    BY Zenon
  <2>1. Consistent(sched)
    BY Zenon, NewConsistent DEF Init
  <2>2. \A p \in Peer : sched.in_flight_per_peer[p] = 0
    BY Zenon DEF Init, New
  <2> QED
    BY <2>1, <2>2, WindowConstant
    DEF SchedulerInv, WindowBounded, Window, Consistent, ExactCounters
<1>2. SchedulerInv /\ [Next]_sched => SchedulerInv'
  <2>1. ASSUME SchedulerInv, UNCHANGED sched PROVE SchedulerInv'
    BY Zenon, <2>1 DEF SchedulerInv, WindowBounded
  <2> QED
    BY Zenon, <2>1, StepKeepsScheduler
<1> QED
  BY <1>1, <1>2, PTL DEF Spec

\* Type correctness of the scheduler, with next_piece and the completed pieces
\* within the piece count.
THEOREM TypeCorrect == Spec => []TypeOK
<1>1. SchedulerInv => TypeOK
  BY Zenon DEF SchedulerInv, Consistent, TypeOK
<1> QED
  BY <1>1, SchedulerAlwaysConsistent, PTL

\* in_flight_per_peer always equals the number of blocks on request from the
\* peer, for any number of peers and blocks.
THEOREM CountersAlwaysExact == Spec => []CountersExact
<1>1. SchedulerInv => CountersExact
  BY Zenon DEF SchedulerInv, Consistent, CountersExact
<1> QED
  BY <1>1, SchedulerAlwaysConsistent, PTL

\* No peer is ever asked for more than max_in_flight_per_peer blocks.
THEOREM WindowAlwaysBounded == Spec => []WindowBounded
<1>1. SchedulerInv => WindowBounded
  BY Zenon DEF SchedulerInv
<1> QED
  BY <1>1, SchedulerAlwaysConsistent, PTL

\* A block that is stored, or whose piece is verified, is never on request.
THEOREM NothingDoneIsRequested == Spec => []NothingDoneInFlight
<1>1. SchedulerInv => NothingDoneInFlight
  BY Zenon DEF SchedulerInv, Consistent, NothingDoneInFlight
<1> QED
  BY <1>1, SchedulerAlwaysConsistent, PTL

\* next_piece is always the length of the completed prefix, so the download is
\* declared finished exactly when every piece is complete.
THEOREM PrefixAlwaysCounted == Spec => []NextPieceIsPrefix
<1>1. SchedulerInv => NextPieceIsPrefix
  BY Zenon DEF SchedulerInv, Consistent, NextPieceIsPrefix
<1> QED
  BY <1>1, SchedulerAlwaysConsistent, PTL

\* No step hands a block on request from one peer to another peer.
THEOREM RequestsAlwaysExclusive == Spec => RequestsExclusive
<1> DEFINE Step == \A x \in Slot :
                     \/ sched.in_flight[x] = NoPeer
                     \/ sched'.in_flight[x] \in {NoPeer, sched.in_flight[x]}
<1>1. SchedulerInv /\ [Next]_sched => [Step]_sched
  BY Zenon, StepKeepsScheduler
<1>2. Spec => [][Step]_sched
  BY <1>1, SchedulerAlwaysConsistent, PTL DEF Spec
<1> QED
  BY Zenon, <1>2 DEF RequestsExclusive

\* The scheduler keeps every promise the torrent actor relies on between calls.
THEOREM SchedulerAlwaysSound == Spec => []SchedulerSound
<1>1. TypeOK /\ CountersExact /\ WindowBounded /\ NothingDoneInFlight /\ NextPieceIsPrefix
        => SchedulerSound
  BY Zenon DEF SchedulerSound
<1> QED
  BY <1>1, TypeCorrect, CountersAlwaysExact, WindowAlwaysBounded, NothingDoneIsRequested,
     PrefixAlwaysCounted, PTL

-----------------------------------------------------------------------------
(* The lifecycle *)

\* At most one timer is armed, and it is the one next_rechoke can abort.
TimersKnown ==
  /\ handle = {} \/ \E t \in Timer : handle = {t}
  /\ armed \subseteq handle
  /\ ~Transferring => armed = {}

\* Blocks are requested, and the bitfield has a length, only with metadata.
MetadataFirst ==
  /\ requested => info
  /\ info => bits # "unknown"

\* A torrent that is down has left its transfer state.
DownIsInactive == phase = "down" => ~Transferring

LifecycleInv ==
  /\ LifecycleTypeOK
  /\ TimersKnown
  /\ RechokeDue
  /\ SeedingIsComplete
  /\ MetadataFirst
  /\ DownIsInactive

-----------------------------------------------------------------------------

\* What the shared methods do to the variables the invariant speaks of, when
\* metadata, bitfield and queued rechokes stay as they are.
MethodEffect ==
  /\ state' \in TorrentState
  /\ hooks' \in 0..MaxHooks
  /\ requested' \in BOOLEAN
  /\ armed' \subseteq Timer /\ handle' \subseteq Timer
  /\ IsTransferActive(state') => info /\ bits # "unknown"
  /\ TimersKnown'
  /\ RechokeDue'
  /\ SeedingIsComplete'
  /\ requested' => info

\* schedule_next_rechoke leaves exactly the timer it arms, whether or not the
\* previous one has fired.
LEMMA ScheduleArmsOne ==
  ASSUME TimersKnown, ScheduleNextRechoke
  PROVE  \E t \in Timer : armed' = {t} /\ handle' = {t}
BY Zenon DEF TimersKnown, ScheduleNextRechoke

\* start keeps the invariant, also when it is refused, deferred or fails.
LEMMA StartKeeps ==
  ASSUME LifecycleInv, NEW enough \in Nat, NEW waiting \in 0..MaxHooks,
         DoStart(enough, waiting), UNCHANGED <<info, bits, rechokes>>
  PROVE  MethodEffect
<1> USE DEF LifecycleInv, LifecycleTypeOK, MethodEffect, TimersKnown, RechokeDue,
            SeedingIsComplete, MetadataFirst, Transferring, IsTransferActive,
            TorrentState
<1>0. info \in BOOLEAN /\ requested \in BOOLEAN /\ 0 \in 0..MaxHooks
  BY LifecycleConstants
<1>1. CASE ~CanStart(state)
  BY Zenon, <1>0, <1>1 DEF DoStart, timerVars
<1>2. CASE CanStart(state)
  <2>1. ~Transferring
    BY Zenon, <1>2 DEF CanStart, CanBecomeReady
  <2>2. hooks' = 0
    BY Zenon, <1>2 DEF DoStart
  <2>3. CASE /\ state' \in {"ResolvingMetadata", "Failed"}
             /\ UNCHANGED <<requested, timerVars>>
    BY Zenon, <1>0, <2>1, <2>2, <2>3 DEF timerVars
  <2>4. CASE /\ info
             /\ state' = IF IsFull THEN "Seeding" ELSE "Downloading"
             /\ FillWindows(state', enough)
             /\ ScheduleNextRechoke
    <3>1. PICK t \in Timer : armed' = {t} /\ handle' = {t}
      BY Zenon, <2>4, ScheduleArmsOne
    <3>2. requested' \in BOOLEAN /\ (requested' => info)
      BY <1>0, <2>4, Zenon DEF FillWindows, IsReady
    <3>3. state' = "Seeding" => bits = "complete"
      BY Zenon, <2>4 DEF IsFull
    <3>4. info /\ bits # "unknown"
      BY Zenon, <2>4
    <3>5. state' \in {"Seeding", "Downloading"}
      BY Zenon, <2>4
    <3> QED
      BY Zenon, <1>0, <2>2, <3>1, <3>2, <3>3, <3>4, <3>5
  <2> QED
    BY Zenon, <1>2, <2>3, <2>4 DEF DoStart
<1> QED
  BY Zenon, <1>1, <1>2

\* autostart keeps the invariant.
LEMMA AutostartKeeps ==
  ASSUME LifecycleInv, NEW auto, NEW enough \in Nat, NEW waiting \in 0..MaxHooks,
         DoAutostart(auto, enough, waiting), UNCHANGED <<info, bits, rechokes>>
  PROVE  MethodEffect
<1>0. info \in BOOLEAN /\ requested \in BOOLEAN /\ 0 \in 0..MaxHooks
  BY LifecycleConstants DEF LifecycleInv, LifecycleTypeOK
<1>1. CASE DoStart(enough, waiting)
  BY Zenon, <1>1, StartKeeps
<1>2. CASE hooks' = waiting /\ UNCHANGED <<state, requested, timerVars>>
  BY Zenon, <1>0, <1>2
  DEF LifecycleInv, LifecycleTypeOK, MethodEffect, TimersKnown, RechokeDue, SeedingIsComplete,
      MetadataFirst, Transferring, timerVars
<1>3. CASE /\ CanBecomeReady(state)
           /\ state' = "Ready" /\ hooks' = 0
           /\ UNCHANGED <<requested, timerVars>>
  BY Zenon, <1>0, <1>3
  DEF LifecycleInv, LifecycleTypeOK, MethodEffect, TimersKnown, RechokeDue, SeedingIsComplete,
      MetadataFirst, Transferring, IsTransferActive, CanBecomeReady,
      TorrentState, timerVars
<1> QED
  BY Zenon, <1>1, <1>2, <1>3 DEF DoAutostart

\* A step in which a shared method ran and the rest of the types is kept keeps
\* the invariant.
LEMMA EffectKeepsLifecycle ==
  ASSUME LifecycleInv, MethodEffect, phase' = "next" \/ phase' = "recv",
         UNCHANGED <<magnet, info, bits, peers, rechokes>>,
         autostart' \in BOOLEAN, sufficient' \in Nat
  PROVE  LifecycleInv'
<1>1. {magnet, info, autostart, requested}' \subseteq BOOLEAN
  BY Zenon DEF LifecycleInv, LifecycleTypeOK, MethodEffect
<1>2. LifecycleTypeOK'
  BY Zenon, <1>1 DEF LifecycleInv, LifecycleTypeOK, MethodEffect
<1>3. MetadataFirst' /\ DownIsInactive'
  BY Zenon DEF LifecycleInv, MethodEffect, MetadataFirst, DownIsInactive
<1> QED
  BY Zenon, <1>2, <1>3 DEF LifecycleInv, MethodEffect

\* The messages that change the settings or try to start the torrent.
LEMMA CommandsKeepLifecycle ==
  ASSUME LifecycleInv,
         \/ BeforeRecv \/ SetStateDownloading \/ ReadyHook
         \/ \E auto \in BOOLEAN : SetAutoStart(auto)
         \/ \E n \in 0..MaxPeers : SetSufficientPeers(n)
  PROVE  LifecycleInv'
<1>0. /\ autostart \in BOOLEAN /\ sufficient \in Nat
      /\ hooks \in 0..MaxHooks /\ MaxHooks \in Nat /\ MaxPeers \in Nat
  BY Zenon, LifecycleConstants DEF LifecycleInv, LifecycleTypeOK
<1>1. CASE BeforeRecv
  <2>1. MethodEffect
    BY Zenon, <1>0, <1>1, AutostartKeeps DEF BeforeRecv
  <2> QED
    BY Zenon, <1>0, <1>1, <2>1, EffectKeepsLifecycle DEF BeforeRecv
<1>2. CASE SetStateDownloading
  <2>1. MethodEffect
    BY Zenon, <1>0, <1>2, StartKeeps DEF SetStateDownloading
  <2> QED
    BY Zenon, <1>0, <1>2, <2>1, EffectKeepsLifecycle DEF SetStateDownloading, Recv
<1>3. CASE ReadyHook
  <2>1. CASE DoAutostart(autostart, sufficient, hooks + 1)
    <3>1. hooks + 1 \in 0..MaxHooks
      BY <1>0, <1>3 DEF ReadyHook
    <3> QED
      BY Zenon, <1>0, <1>3, <2>1, <3>1, AutostartKeeps, EffectKeepsLifecycle
      DEF ReadyHook, Recv
  <2>2. CASE UNCHANGED <<state, requested, hooks, timerVars>>
    BY Zenon, <1>3, <2>2
    DEF ReadyHook, Recv, timerVars, LifecycleInv, LifecycleTypeOK, TimersKnown, RechokeDue,
        SeedingIsComplete, MetadataFirst, DownIsInactive, Transferring
  <2> QED
    BY Zenon, <1>3, <2>1, <2>2 DEF ReadyHook
<1>4. ASSUME NEW auto \in BOOLEAN, SetAutoStart(auto) PROVE LifecycleInv'
  <2>1. MethodEffect
    BY Zenon, <1>0, <1>4, AutostartKeeps DEF SetAutoStart
  <2> QED
    BY Zenon, <1>0, <1>4, <2>1, EffectKeepsLifecycle DEF SetAutoStart, Recv
<1>5. ASSUME NEW n \in 0..MaxPeers, SetSufficientPeers(n) PROVE LifecycleInv'
  <2>1. n \in Nat
    BY <1>0
  <2>2. MethodEffect
    BY Zenon, <1>0, <1>5, <2>1, AutostartKeeps DEF SetSufficientPeers
  <2> QED
    BY Zenon, <1>0, <1>5, <2>1, <2>2, EffectKeepsLifecycle DEF SetSufficientPeers, Recv
<1> QED
  BY Zenon, <1>1, <1>2, <1>3, <1>4, <1>5

\* Pausing, stopping and a panic abort the timer next_rechoke names.
LEMMA StopsKeepLifecycle ==
  ASSUME LifecycleInv, SetStatePaused \/ Stop \/ Crash
  PROVE  LifecycleInv'
<1> USE DEF LifecycleInv, LifecycleTypeOK, TimersKnown, RechokeDue, SeedingIsComplete,
            MetadataFirst, DownIsInactive, Transferring, IsTransferActive,
            TorrentState
<1>0. MaxHooks \in Nat /\ MaxPeers \in Nat
  BY Zenon, LifecycleConstants
<1>1. CASE SetStatePaused
  <2>1. peers' \in 0..MaxPeers
    BY <1>0, <1>1 DEF SetStatePaused
  <2>2. state' = "Paused" /\ armed' = {} /\ handle' \in {handle, {}}
    BY Zenon, <1>1 DEF SetStatePaused, StopTransfer, timerVars
  <2> QED
    BY Zenon, <1>1, <2>1, <2>2 DEF SetStatePaused, Recv
<1>2. CASE Stop
  BY Zenon, <1>2 DEF Stop
<1>3. CASE Crash
  BY <1>0, <1>3 DEF Crash
<1> QED
  BY Zenon, <1>1, <1>2, <1>3

\* What happens to the torrent without a command.
LEMMA EventsKeepLifecycle ==
  ASSUME LifecycleInv,
         \/ InfoBytes \/ PeerConnected \/ HandlePeerReady \/ PeerGone \/ LastPiece
         \/ Rechoke \/ Restart \/ \E t \in Timer : TimerFires(t)
  PROVE  LifecycleInv'
<1> USE DEF LifecycleInv, LifecycleTypeOK, TimersKnown, RechokeDue, SeedingIsComplete,
            MetadataFirst, DownIsInactive, Transferring, IsTransferActive,
            TorrentState, Recv
<1>0. /\ {MaxHooks, MaxPeers, MaxRechokes, InitSufficient} \subseteq Nat
      /\ InitAutostart \in BOOLEAN
  BY Zenon, LifecycleConstants
<1>1. CASE InfoBytes
  <2>1. peers' \in 0..MaxPeers
    BY <1>0, <1>1 DEF InfoBytes
  <2>2. ~Transferring /\ ~Transferring' /\ state' \in TorrentState
    BY Zenon, <1>1 DEF InfoBytes
  <2> QED
    BY Zenon, <1>1, <2>1, <2>2 DEF InfoBytes, timerVars
<1>2. CASE PeerConnected
  BY <1>0, <1>2 DEF PeerConnected, timerVars
<1>3. CASE PeerGone
  BY <1>0, <1>3 DEF PeerGone, timerVars
<1>4. CASE HandlePeerReady
  <2>1. requested' \in BOOLEAN /\ (requested' => info)
    BY Zenon, <1>4 DEF HandlePeerReady, FillWindows, IsReady
  <2> QED
    BY Zenon, <1>4, <2>1 DEF HandlePeerReady, timerVars
<1>5. CASE LastPiece
  <2>1. PICK t \in Timer : armed' = {t} /\ handle' = {t}
    BY Zenon, <1>5, ScheduleArmsOne DEF LastPiece
  <2> QED
    BY Zenon, <1>5, <2>1 DEF LastPiece
<1>6. CASE Rechoke
  <2>1. requested' \in BOOLEAN /\ (requested' => info)
    BY Zenon, <1>6 DEF Rechoke, FillWindows, IsReady
  <2>2. rechokes' \in 0..MaxRechokes
    BY <1>0, <1>6 DEF Rechoke
  <2>3. CASE Transferring
    <3>1. PICK t \in Timer : armed' = {t} /\ handle' = {t}
      BY Zenon, <1>6, <2>3, ScheduleArmsOne DEF Rechoke
    <3>2. LifecycleTypeOK'
      BY Zenon, <1>6, <2>1, <2>2, <3>1 DEF Rechoke
    <3>3. TimersKnown' /\ RechokeDue'
      BY Zenon, <1>6, <2>3, <3>1 DEF Rechoke
    <3> QED
      BY Zenon, <1>6, <2>1, <3>2, <3>3 DEF Rechoke
  <2>4. CASE ~Transferring
    BY Zenon, <1>6, <2>1, <2>2, <2>4 DEF Rechoke, timerVars
  <2> QED
    BY Zenon, <2>3, <2>4
<1>7. CASE Restart
  BY <1>0, <1>7, Zenon DEF Restart, timerVars
<1>8. ASSUME NEW t \in Timer, TimerFires(t) PROVE LifecycleInv'
  <2>1. rechokes' \in 0..MaxRechokes /\ rechokes' > 0
    BY <1>0, <1>8 DEF TimerFires
  <2> QED
    BY Zenon, <1>8, <2>1 DEF TimerFires
<1> QED
  BY Zenon, <1>1, <1>2, <1>3, <1>4, <1>5, <1>6, <1>7, <1>8

\* Every handler, the timer and the supervisor keep the inductive invariant:
\* types, the one timer, the rechoke due, metadata before transfer.
THEOREM LifecycleAlwaysConsistent == LifecycleSpec => []LifecycleInv
<1>1. LifecycleInit => LifecycleInv
  <2> SUFFICES ASSUME LifecycleInit PROVE LifecycleInv
    BY Zenon
  <2>1. {magnet, info, autostart, requested} \subseteq BOOLEAN
    BY LifecycleConstants, Zenon DEF LifecycleInit
  <2>2. ~Transferring /\ state \in TorrentState
    BY Zenon DEF LifecycleInit, Transferring, IsTransferActive, TorrentState
  <2>3. LifecycleTypeOK
    BY <2>1, <2>2, LifecycleConstants DEF LifecycleInit, LifecycleTypeOK, Transferring
  <2>4. info => bits # "unknown"
    BY <2>1, Zenon DEF LifecycleInit
  <2> QED
    BY Zenon, <2>2, <2>3, <2>4
    DEF LifecycleInit, LifecycleInv, TimersKnown, RechokeDue, SeedingIsComplete, Transferring,
        IsTransferActive, MetadataFirst, DownIsInactive
<1>2. LifecycleInv /\ [LifecycleNext]_lifecycleVars => LifecycleInv'
  <2>1. ASSUME LifecycleInv, UNCHANGED lifecycleVars PROVE LifecycleInv'
    BY Zenon, <2>1
    DEF lifecycleVars, LifecycleInv, LifecycleTypeOK, TimersKnown, RechokeDue, SeedingIsComplete,
        MetadataFirst, DownIsInactive, Transferring
  <2>2. ASSUME LifecycleInv, LifecycleNext PROVE LifecycleInv'
    BY Zenon, <2>1, <2>2, CommandsKeepLifecycle, StopsKeepLifecycle, EventsKeepLifecycle
    DEF LifecycleNext, Command, Event, Stopped
  <2> QED
    BY Zenon, <2>1, <2>2
<1> QED
  BY <1>1, <1>2, PTL DEF LifecycleSpec

\* A torrent that transfers has metadata and a bitfield of known length, and
\* the actor's fields keep their types.
THEOREM LifecycleTypeCorrect == LifecycleSpec => []LifecycleTypeOK
<1>1. LifecycleInv => LifecycleTypeOK
  BY Zenon DEF LifecycleInv
<1> QED
  BY <1>1, LifecycleAlwaysConsistent, PTL

\* There is never a second rechoke timer, and none once the transfer stops.
THEOREM NeverTwoTimers == LifecycleSpec => []OneTimer
<1>1. LifecycleInv => OneTimer
  <2> SUFFICES ASSUME LifecycleInv PROVE OneTimer
    BY Zenon
  <2>1. CASE handle = {}
    BY <2>1, FS_EmptySet DEF LifecycleInv, TimersKnown, OneTimer
  <2>2. ASSUME NEW t \in Timer, handle = {t} PROVE OneTimer
    <3>1. Cardinality({t}) = 1
      BY Zenon, FS_Singleton
    <3> QED
      BY <2>2, <3>1 DEF LifecycleInv, TimersKnown, OneTimer
  <2> QED
    BY Zenon, <2>1, <2>2 DEF LifecycleInv, TimersKnown
<1> QED
  BY <1>1, LifecycleAlwaysConsistent, PTL

\* A torrent that transfers always has its next rechoke on its way.
THEOREM RechokeAlwaysDue == LifecycleSpec => []RechokeDue
<1>1. LifecycleInv => RechokeDue
  BY Zenon DEF LifecycleInv
<1> QED
  BY <1>1, LifecycleAlwaysConsistent, PTL

\* A torrent seeds only once every piece is there, also when it started as a
\* magnet torrent with an empty bitfield.
THEOREM OnlyCompleteTorrentsSeed == LifecycleSpec => []SeedingIsComplete
<1>1. LifecycleInv => SeedingIsComplete
  BY Zenon DEF LifecycleInv
<1> QED
  BY <1>1, LifecycleAlwaysConsistent, PTL

\* The torrent actor's state, metadata, timer and mailbox agree in every state.
THEOREM LifecycleAlwaysSound == LifecycleSpec => []LifecycleSound
<1>1. LifecycleTypeOK /\ RechokeDue /\ OneTimer /\ SeedingIsComplete => LifecycleSound
  BY Zenon DEF LifecycleSound
<1> QED
  BY <1>1, LifecycleTypeCorrect, NeverTwoTimers, RechokeAlwaysDue,
     OnlyCompleteTorrentsSeed, PTL

==============================================================================
