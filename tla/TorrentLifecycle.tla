---------------------------- MODULE TorrentLifecycle ----------------------------
(***************************************************************************)
(* The lifecycle of a torrent actor (torrent/state.rs, actor.rs, and the     *)
(* commands of messages.rs that change its state): automatic and requested   *)
(* starts, pausing, the arrival of the metadata of a magnet torrent, the     *)
(* hooks of poll_ready, the rechoke timer, and a supervised restart after a  *)
(* panic.                                                                    *)
(*                                                                         *)
(* Before every receive the actor's `next` tries to start the torrent: phase *)
(* "next" is before that attempt, "recv" is waiting for a message, "down" is *)
(* between a panic and the restart. A handler runs in one step: it does not  *)
(* give way to another message, and nothing else changes these variables     *)
(* except the timer. Transfers are module PieceFlow; here only that the last *)
(* piece may arrive.                                                         *)
(***************************************************************************)
EXTENDS Integers, FiniteSets

CONSTANTS
  MaxPeers,    \* bound: registered peers
  MaxHooks,    \* bound: callers waiting in poll_ready
  MaxRechokes, \* bound: Rechoke messages in the mailbox
  MaxCrashes,  \* bound: supervised restarts
  InitAutostart, InitSufficient, \* the settings the actor is spawned with
  Timer        \* names for rechoke timers

ASSUME LifecycleConstants ==
  /\ InitAutostart \in BOOLEAN
  /\ {InitSufficient, MaxPeers, MaxHooks, MaxRechokes, MaxCrashes} \subseteq Nat
  /\ IsFiniteSet(Timer) /\ Cardinality(Timer) >= 3

VARIABLES
  magnet,     \* the torrent was added from a magnet URI
  phase,      \* where the actor's message loop is
  state,      \* TorrentActor.state
  info,       \* info_dict() is available
  autostart,  \* TorrentActor.autostart
  sufficient, \* TorrentActor.sufficient_peers
  peers,      \* TorrentActor.peers.len()
  bits,       \* the bitfield: "unknown" (empty), "missing" or "complete"
  requested,  \* blocks have been requested, so that some may still arrive
  hooks,      \* TorrentActor.ready_hook.len()
  armed,      \* timers that will still send Rechoke
  handle,     \* TorrentActor.next_rechoke: a set of at most one timer
  rechokes,   \* Rechoke messages in the mailbox
  crashes

lifecycleVars == <<magnet, phase, state, info, autostart, sufficient, peers, bits,
          requested, hooks, armed, handle, rechokes, crashes>>
timerVars == <<armed, handle>>

TorrentState == {"Added", "ResolvingMetadata", "Ready", "Downloading", "Paused",
                 "Seeding", "Restarting", "Stopped", "Failed"}

IsTransferActive(s) == s \in {"Downloading", "Seeding"}
CanBecomeReady(s) == s \in {"Added", "ResolvingMetadata", "Ready"}
CanStart(s) == CanBecomeReady(s) \/ s = "Paused"

Transferring == IsTransferActive(state)

IsReady(enough) == info /\ peers >= enough

\* is_full: all bits are ones, as those of an empty bitfield are.
IsFull == bits # "missing"

-----------------------------------------------------------------------------
(* Methods the handlers share *)

ScheduleWithoutAbort ==
  \E t \in Timer \ armed : armed' = armed \cup {t} /\ handle' = {t}

\* schedule_next_rechoke in an active state: the previous timer is aborted
\* and a new one armed, by the scheduler actor or, when that fails, locally.
ScheduleNextRechoke ==
  \E t \in Timer \ armed : armed' = (armed \ handle) \cup {t} /\ handle' = {t}

\* The fills at the end of a handler request blocks, if the torrent downloads,
\* is ready and some peer has one to offer. The scheduler of a magnet torrent
\* has no pieces to request (PieceFlow's run on magnet torrents).
FillWindows(s, enough) ==
  requested' \in {requested,
                  requested \/ (/\ s = "Downloading" /\ ~magnet
                                /\ IsReady(enough) /\ peers > 0)}

\* start, with `waiting` callers in poll_ready. They are told before anything
\* else; preparing storage (pre_start) may fail.
DoStart(enough, waiting) ==
  IF ~CanStart(state)
  THEN hooks' = waiting /\ UNCHANGED <<state, requested, timerVars>>
  ELSE /\ hooks' = 0
       /\ \/ /\ ~info
             /\ state' = "ResolvingMetadata"
             /\ UNCHANGED <<requested, timerVars>>
          \/ /\ info
             /\ state' = "Failed"
             /\ UNCHANGED <<requested, timerVars>>
          \/ /\ info
             /\ state' = IF IsFull THEN "Seeding" ELSE "Downloading"
             /\ FillWindows(state', enough)
             /\ ScheduleNextRechoke

\* autostart.
DoAutostart(auto, enough, waiting) ==
  IF ~(IsReady(enough) /\ CanBecomeReady(state))
  THEN hooks' = waiting /\ UNCHANGED <<state, requested, timerVars>>
  ELSE IF auto THEN DoStart(enough, waiting)
  ELSE state' = "Ready" /\ hooks' = 0 /\ UNCHANGED <<requested, timerVars>>

\* Every message leads back to `next`.
Recv == phase = "recv" /\ phase' = "next"

BeforeRecvIdle ==
  /\ phase = "next" /\ phase' = "recv"
  /\ UNCHANGED <<magnet, state, info, autostart, sufficient, peers, bits,
                 requested, hooks, timerVars, rechokes, crashes>>

\* `next`, up to the receive.
BeforeRecv ==
  /\ phase = "next" /\ phase' = "recv"
  /\ DoAutostart(autostart, sufficient, hooks)
  /\ UNCHANGED <<magnet, info, autostart, sufficient, peers, bits, rechokes,
                 crashes>>

-----------------------------------------------------------------------------
(* Messages *)

SetStateDownloading ==
  /\ Recv
  /\ DoStart(sufficient, hooks)
  /\ UNCHANGED <<magnet, info, autostart, sufficient, peers, bits, rechokes,
                 crashes>>

\* stop_transfer, up to the broadcast.
StopTransfer ==
  /\ state' = "Paused"
  /\ armed' = armed \ handle
  /\ handle' = {}

\* set_state(Paused). The broadcast to the peers of an active torrent drops
\* the dead ones.
SetStatePaused ==
  /\ Recv
  /\ IF state = "Paused" THEN UNCHANGED <<state, timerVars>> ELSE StopTransfer
  /\ \E n \in 0..peers :
       /\ n = peers \/ IsTransferActive(state)
       /\ peers' = n
  /\ UNCHANGED <<magnet, info, autostart, sufficient, bits, requested, hooks,
                 rechokes, crashes>>

SetAutoStart(auto) ==
  /\ Recv
  /\ autostart' = auto
  /\ DoAutostart(auto, sufficient, hooks)
  /\ UNCHANGED <<magnet, info, sufficient, peers, bits, rechokes, crashes>>

SetSufficientPeers(n) ==
  /\ Recv
  /\ sufficient' = n
  /\ DoAutostart(autostart, n, hooks)
  /\ UNCHANGED <<magnet, info, autostart, peers, bits, rechokes, crashes>>

\* ready_hook: answered at once, or kept while an autostart is tried.
ReadyHook ==
  /\ Recv /\ hooks < MaxHooks
  /\ IF \/ state = "Ready" \/ IsTransferActive(state)
        \/ IsReady(sufficient) /\ CanBecomeReady(state) /\ ~autostart
     THEN UNCHANGED <<state, requested, hooks, timerVars>>
     ELSE DoAutostart(autostart, sufficient, hooks + 1)
  /\ UNCHANGED <<magnet, info, autostart, sufficient, peers, bits, rechokes,
                 crashes>>

\* info_bytes with the right hash. The bitfield is now known, all zeros. The
\* broadcast of HaveInfoDict drops dead peers.
InfoBytes ==
  /\ Recv /\ ~info
  /\ info' = TRUE
  /\ bits' = "missing"
  /\ state' = IF state = "ResolvingMetadata" THEN "Added" ELSE state
  /\ \E n \in 0..peers : peers' = n
  /\ UNCHANGED <<magnet, autostart, sufficient, requested, hooks, timerVars,
                 rechokes, crashes>>

PeerConnected ==
  /\ Recv /\ peers < MaxPeers
  /\ peers' = peers + 1
  /\ UNCHANGED <<magnet, state, info, autostart, sufficient, bits, requested,
                 hooks, timerVars, rechokes, crashes>>

\* kill_peer and disconnect_peer.
PeerGone ==
  /\ Recv /\ peers > 0
  /\ peers' = peers - 1
  /\ UNCHANGED <<magnet, state, info, autostart, sufficient, bits, requested,
                 hooks, timerVars, rechokes, crashes>>

\* piece_completed for the last piece, in whatever state its block arrives.
LastPiece ==
  /\ Recv /\ requested
  /\ bits' = "complete"
  /\ state' = "Seeding"
  /\ ScheduleNextRechoke
  /\ UNCHANGED <<magnet, info, autostart, sufficient, peers, requested, hooks,
                 rechokes, crashes>>

\* rechoke: what the timer sent.
Rechoke ==
  /\ Recv /\ rechokes > 0
  /\ rechokes' = rechokes - 1
  /\ FillWindows(state, sufficient)
  /\ IF Transferring THEN ScheduleNextRechoke ELSE UNCHANGED timerVars
  /\ UNCHANGED <<magnet, state, info, autostart, sufficient, peers, bits,
                 hooks, crashes>>

\* peer_ready.
HandlePeerReady ==
  /\ Recv /\ peers > 0
  /\ FillWindows(state, sufficient)
  /\ UNCHANGED <<magnet, state, info, autostart, sufficient, peers, bits,
                 hooks, timerVars, rechokes, crashes>>

-----------------------------------------------------------------------------
(* The timer, and supervision *)

TimerFires(t) ==
  /\ t \in armed /\ rechokes < MaxRechokes
  /\ armed' = armed \ {t}
  /\ rechokes' = rechokes + 1
  /\ UNCHANGED <<magnet, phase, state, info, autostart, sufficient, peers,
                 bits, requested, hooks, handle, crashes>>

\* A handler panics: on_stop runs with an abnormal reason.
Crash ==
  /\ phase = "recv" /\ crashes < MaxCrashes
  /\ phase' = "down"
  /\ state' = "Restarting"
  /\ peers' = 0 /\ hooks' = 0
  /\ armed' = armed \ handle /\ handle' = {}
  /\ crashes' = crashes + 1
  /\ UNCHANGED <<magnet, info, autostart, sufficient, bits, requested,
                 rechokes>>

\* on_start with the arguments of the first start: what was downloaded and
\* configured since is gone. The mailbox, and what is in it, survives.
Restart ==
  /\ phase = "down" /\ phase' = "next"
  /\ state' = IF magnet THEN "ResolvingMetadata" ELSE "Added"
  /\ info' = ~magnet
  /\ bits' = IF magnet THEN "unknown" ELSE "missing"
  /\ autostart' = InitAutostart /\ sufficient' = InitSufficient
  /\ requested' = FALSE
  /\ UNCHANGED <<magnet, peers, hooks, timerVars, rechokes, crashes>>

\* on_stop with a normal reason: the engine removes the torrent.
Stop ==
  /\ phase = "recv" /\ phase' = "stopped"
  /\ state' = "Stopped"
  /\ armed' = armed \ handle /\ handle' = {}
  /\ UNCHANGED <<magnet, info, autostart, sufficient, peers, bits, requested,
                 hooks, rechokes, crashes>>

Stopped == phase = "stopped" /\ UNCHANGED lifecycleVars

-----------------------------------------------------------------------------

LifecycleInit ==
  /\ magnet \in BOOLEAN
  /\ phase = "next"
  /\ state = IF magnet THEN "ResolvingMetadata" ELSE "Added"
  /\ info = ~magnet
  /\ autostart = InitAutostart /\ sufficient = InitSufficient
  /\ peers = 0 /\ hooks = 0 /\ rechokes = 0 /\ crashes = 0
  /\ bits = IF magnet THEN "unknown" ELSE "missing"
  /\ requested = FALSE
  /\ armed = {} /\ handle = {}

Command ==
  \/ SetStateDownloading
  \/ SetStatePaused
  \/ \E auto \in BOOLEAN : SetAutoStart(auto)
  \/ \E n \in 0..MaxPeers : SetSufficientPeers(n)
  \/ ReadyHook
  \/ Stop

Event ==
  \/ InfoBytes
  \/ PeerConnected
  \/ HandlePeerReady
  \/ PeerGone
  \/ LastPiece
  \/ Crash

LifecycleNext ==
  \/ BeforeRecv
  \/ Command
  \/ Event
  \/ Rechoke
  \/ \E t \in Timer : TimerFires(t)
  \/ Restart
  \/ Stopped

LifecycleSpec == LifecycleInit /\ [][LifecycleNext]_lifecycleVars

\* The actor's loop runs, a restart happens, timers fire, and a Rechoke that
\* is in the FIFO mailbox is reached whatever else arrives.
LifecycleFairness ==
  /\ WF_lifecycleVars(BeforeRecv) /\ WF_lifecycleVars(Restart)
  /\ SF_lifecycleVars(Rechoke)
  /\ WF_lifecycleVars(\E t \in Timer : TimerFires(t))

-----------------------------------------------------------------------------
(* Properties *)

\* The variables have the types of the fields they model.
LifecycleTypeOK ==
  /\ phase \in {"next", "recv", "down", "stopped"}
  /\ state \in TorrentState
  /\ {magnet, info, autostart, requested} \subseteq BOOLEAN
  /\ sufficient \in Nat /\ peers \in 0..MaxPeers
  /\ bits \in {"unknown", "missing", "complete"}
  /\ hooks \in 0..MaxHooks /\ rechokes \in 0..MaxRechokes
  /\ armed \subseteq Timer /\ handle \subseteq Timer
  /\ IsTransferActive(state) => info /\ bits # "unknown"

\* While a torrent transfers, the next rechoke is always on its way: it is the
\* only thing that expires unanswered requests and refills idle peers.
RechokeDue == Transferring => armed # {} \/ rechokes > 0

\* There is never a second timer, whatever the order of timer, queued Rechoke,
\* pause and start, and none is left when the torrent is not transferring.
OneTimer ==
  /\ armed \subseteq handle /\ Cardinality(handle) <= 1
  /\ ~Transferring => armed = {}

\* A torrent seeds only once every piece is there.
SeedingIsComplete == state = "Seeding" => bits = "complete"

\* Rechokes go on for as long as the torrent transfers.
RechokesGoOn == <>[]Transferring => []<>(rechokes > 0)

\* A torrent that could start by itself does not stay where it is.
AutostartHappens ==
  (autostart /\ IsReady(sufficient) /\ CanBecomeReady(state))
    ~> (~autostart \/ ~IsReady(sufficient) \/ ~CanBecomeReady(state))

\* Whatever the order of commands, timers, metadata, panics and restarts, a
\* torrent that transfers has its metadata and exactly one rechoke ahead of it,
\* and one that seeds has every piece (torrent/actor.rs, start and
\* schedule_next_rechoke).
LifecycleSound == LifecycleTypeOK /\ RechokeDue /\ OneTimer /\ SeedingIsComplete

\* A torrent does not come to rest: it starts when it can, and while it
\* transfers it goes on to rechoke (torrent/actor.rs, next).
LifecycleGoesOn == RechokesGoOn /\ AutostartHappens
=============================================================================
