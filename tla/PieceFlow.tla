------------------------------- MODULE PieceFlow -------------------------------
(***************************************************************************)
(* How blocks are downloaded: the torrent actor's piece handlers            *)
(* (torrent/piece_flow.rs, choking_flow.rs, messages.rs, swarm.rs) together *)
(* with the peer actors that carry its requests (peer/actor.rs).            *)
(*                                                                         *)
(* The torrent takes one message at a time from a bounded FIFO mailbox. A   *)
(* handler that goes through its peers in hash-map order is split into one  *)
(* step per peer: `todo` holds what the running handler still has to do,    *)
(* and no other message is taken until it is empty. Peer actors run in      *)
(* between. Commands of the caller and timer ticks are taken when the       *)
(* torrent is idle. Upload, choking and tracker traffic are left out.       *)
(***************************************************************************)
EXTENDS PieceScheduler, Sequences

CONSTANTS
  Has,            \* the pieces each remote peer announces in its Bitfield
  MaxInFlight,    \* settings.torrent.max_in_flight_per_peer
  InitialWindow,  \* settings.torrent.initial_peer_request_window
  SufficientPeers,\* settings.torrent.sufficient_peers
  TorrentMailbox, \* capacity of the torrent's mailbox
  PeerMailbox,    \* settings.torrent.peer_mailbox_size
  MaxConnects,    \* bound: connections made in a behaviour
  MaxExpired,     \* bound: rechokes that find stale requests
  PieceCount,     \* piece_count the scheduler was built with (magnet: 0)
  Env             \* which of EnvEvents may happen

EnvEvents ==
  { "expire",     \* a request grows older than peer_request_timeout
    "pause",      \* the caller pauses the torrent
    "disconnect", \* the caller disconnects a peer
    "stop",       \* a peer actor stops by itself: closed stream, idle timeout
    "send",       \* a peer's stream fails to send a request
    "busy",       \* other messages occupy a peer's mailbox
    "cancel",     \* the remote sends a Cancel for a block we wait for
    "write",      \* storing a block fails
    "commit",     \* the piece manager fails to take a verified piece
    "corrupt" }   \* a remote sends a block with wrong content

ASSUME FlowConstants ==
  /\ Has \in [Peer -> SUBSET Piece]
  /\ {MaxInFlight, InitialWindow, SufficientPeers, MaxConnects,
      MaxExpired} \subseteq Nat
  /\ {TorrentMailbox, PeerMailbox} \subseteq Nat \ {0}
  /\ PieceCount \in {0, NumPieces}
  /\ Env \subseteq EnvEvents

VARIABLES
  state,      \* TorrentActor.state, without the states that precede a start
  sched,      \* TorrentActor.piece_scheduler
  bitfield,   \* TorrentActor.bitfield, as the set of its ones
  disk,       \* what storage holds for each block
  peers,      \* keys of TorrentActor.peers
  completed,  \* Completed announces made to the trackers, capped at 2
  todo,       \* steps the running torrent handler has left
  inbox,      \* the torrent's mailbox
  alive,      \* ids whose peer actor is running
  pieces,     \* PeerActor.pieces
  mail,       \* the peer actors' mailboxes
  pending,    \* PeerActor.pending_block_requests
  dying,      \* KillPeer messages stopped actors still have to send, per id
  connects,   \* connections made so far
  expired     \* rechokes so far that found stale requests

torrentVars == <<state, sched, bitfield, disk, peers, completed, todo,
                 expired>>
peerVars == <<alive, pieces, mail, pending, dying, connects>>
vars == <<torrentVars, inbox, peerVars>>

May(event) == event \in Env

Idle == todo = <<>>

-----------------------------------------------------------------------------
(* Messages *)

NeedPiece(x) == [type |-> "NeedPiece", slot |-> x]
CancelPiece(x) == [type |-> "CancelPiece", slot |-> x]

IncomingPiece(p, x, content) ==
  [type |-> "IncomingPiece", peer |-> p, slot |-> x, content |-> content]
PeerRejectedRequest(p, x) ==
  [type |-> "PeerRejectedRequest", peer |-> p, slot |-> x]
PeerReady(p, ps) == [type |-> "PeerReady", peer |-> p, pieces |-> ps]
KillPeer(p) == [type |-> "KillPeer", peer |-> p]

\* A peer's tell to the torrent waits while the torrent's mailbox is full.
Tell(m) == /\ Len(inbox) < TorrentMailbox
           /\ inbox' = Append(inbox, m)

InInbox(m) == \E k \in DOMAIN inbox : inbox[k] = m

\* try_send of one message to a peer: lost when the actor is dead or full.
TrySent(p, m) ==
  IF p \in alive /\ Len(mail[p]) < PeerMailbox
  THEN [mail EXCEPT ![p] = Append(@, m)] ELSE mail

-----------------------------------------------------------------------------
(* The steps of a torrent handler *)

FillStep(ps, window) == [op |-> "fill", left |-> ps, window |-> window]
ForgetStep(ps) == [op |-> "forget", left |-> ps, window |-> 0]
ExpireStep(s) ==
  [op |-> "expire", window |-> 0,
   left |-> {x \in Slot : s.in_flight[x] # NoPeer}]

\* A step that has nothing left is not taken.
Due(st) == IF st.left = {} THEN <<>> ELSE <<st>>

RefillForgotten(p) == <<>>

\* fill_peer_request_window for the peer whose message was handled.
Refill(p) == <<FillStep({p}, MaxInFlight)>>

\* rechoke_peers: release stale requests, then fill_all_peer_request_windows.
\* Requests the running handler itself makes are too young to be stale.
RechokeSteps(s, ps) == Due(ExpireStep(s)) \o Due(FillStep(ps, MaxInFlight))

Finished(p) ==
  LET left == Head(todo).left \ {p}
  IN  todo' = IF left = {} THEN Tail(todo)
              ELSE <<[Head(todo) EXCEPT !.left = left]>> \o Tail(todo)

IsReady == Cardinality(peers) >= SufficientPeers

\* The requests of `new` that fit in a mailbox with room for n, in order.
Accepted(s, p, new, n) ==
  {x \in new : Cardinality({y \in new : Rank(s, p, y) < Rank(s, p, x)}) < n}

InOrder(s, p, set) ==
  [k \in 1..Cardinality(set) |->
     NeedPiece(CHOOSE x \in set :
       Cardinality({y \in set : Rank(s, p, y) < Rank(s, p, x)}) = k - 1)]

ReleaseAllUncounted(s, p, lost) ==
  [s EXCEPT !.in_flight = [x \in Slot |-> IF x \in lost THEN NoPeer ELSE @[x]]]

\* release_peer_request for every request whose try_send failed.
ReleaseAll(s, p, lost) ==
  [s EXCEPT !.in_flight = [x \in Slot |-> IF x \in lost THEN NoPeer ELSE @[x]],
            !.in_flight_per_peer[p] = @ - Cardinality(lost)]

\* Room for NeedPiece messages in the mailbox of p.
Room(p) ==
  LET free == IF p \in alive /\ Len(mail[p]) < PeerMailbox
              THEN PeerMailbox - Len(mail[p]) ELSE 0
  IN  IF May("busy") THEN 0..free ELSE {free}

\* available_slots: what the window has room for.
AvailableSlots(p, target_size) == target_size - sched.in_flight_per_peer[p]

\* fill_peer_request_window_to for one peer.
FillPeer(p) ==
  /\ todo # <<>> /\ Head(todo).op = "fill" /\ p \in Head(todo).left
  /\ LET room == AvailableSlots(p, Head(todo).window)
         new == RequestsForPeer(sched, p, room)
     IN  IF state = "Downloading" /\ IsReady /\ p \in peers /\ room > 0
         THEN \E n \in Room(p) :
                LET sent == Accepted(sched, p, new, n)
                IN  /\ sched' = ReleaseAll(WithRequests(sched, p, new), p,
                                           new \ sent)
                    /\ mail' = [mail EXCEPT
                                  ![p] = @ \o InOrder(sched, p, sent)]
         ELSE UNCHANGED <<sched, mail>>
  /\ Finished(p)
  /\ UNCHANGED <<state, bitfield, disk, peers, completed, expired, inbox,
                 alive, pieces, pending, dying, connects>>

\* broadcast_to_peers_best_effort drops the peers it finds dead.
ForgetPeer(p) ==
  /\ todo # <<>> /\ Head(todo).op = "forget" /\ p \in Head(todo).left
  /\ peers' = peers \ {p}
  /\ sched' = PeerDisconnected(sched, p)
  /\ Finished(p)
  /\ UNCHANGED <<state, bitfield, disk, completed, expired, inbox, peerVars>>

\* release_stale_requests: any set of older requests may have grown stale.
ExpireRequests ==
  /\ todo # <<>> /\ Head(todo).op = "expire"
  /\ \E stale \in SUBSET Head(todo).left :
       /\ stale = {} \/ (May("expire") /\ expired < MaxExpired)
       /\ sched' = ReleaseStaleRequests(sched, stale)
       /\ expired' = IF stale = {} THEN expired ELSE expired + 1
  /\ todo' = Tail(todo)
  /\ UNCHANGED <<state, bitfield, disk, peers, completed, inbox, peerVars>>

-----------------------------------------------------------------------------
(* The torrent's message handlers *)

Take(type) == /\ Idle /\ inbox # <<>> /\ Head(inbox).type = type
              /\ inbox' = Tail(inbox)

VerifiedUnchecked(i) == TRUE

\* The hash check of validate_and_commit_piece, on what storage now holds.
Verified(i) == \A y \in BlocksOf(i) : disk'[y] = "good"

FinishedEarly(s) == s.next_piece + 1 >= NumPieces

DownloadFinished(s) == s.next_piece >= NumPieces

\* piece_completed, once every block of piece i is stored. The piece manager
\* is asked to take the piece only when its hash matches.
PieceCompleted(p, i, s) ==
  LET removed == RemovePieceBlocks(s, i)
      marked == MarkPieceComplete(removed, i)
      finished == DownloadFinished(marked)
  IN  \/ /\ ~Verified(i) \/ May("commit")
         /\ sched' = removed
         /\ todo' = Refill(p)
         /\ UNCHANGED <<state, bitfield, completed>>
      \/ /\ Verified(i)
         /\ sched' = marked
         /\ bitfield' = bitfield \cup {i}
         /\ state' = IF finished THEN "Seeding" ELSE state
         /\ completed' = IF finished /\ completed < 2 THEN completed + 1
                                                      ELSE completed
         /\ todo' = Due(ForgetStep(peers \ alive)) \o
                    (IF finished THEN RechokeSteps(marked, peers)
                     ELSE Refill(p))

\* handle_incoming_piece.
HandleIncomingPiece ==
  /\ Take("IncomingPiece")
  /\ LET p == Head(inbox).peer
         x == Head(inbox).slot
         assigned == sched.in_flight[x]
         stored == MarkBlockComplete(sched, x)
     IN  \/ /\ IsDuplicateBlock(sched, x) \/ May("write")
            /\ UNCHANGED <<state, sched, bitfield, disk, completed, todo,
                           mail>>
         \/ /\ ~IsDuplicateBlock(sched, x)
            /\ disk' = [disk EXCEPT ![x] = Head(inbox).content]
            /\ \/ mail' = IF assigned \in peers \ {p}
                          THEN TrySent(assigned, CancelPiece(x)) ELSE mail
               \/ May("busy") /\ UNCHANGED mail
            /\ IF IsPieceComplete(stored, PieceOf(x))
               THEN PieceCompleted(p, PieceOf(x), stored)
               ELSE /\ sched' = stored
                    /\ todo' = Refill(p)
                    /\ UNCHANGED <<state, bitfield, completed>>
  /\ UNCHANGED <<peers, expired, alive, pieces, pending, dying, connects>>

\* peer_rejected_request.
HandlePeerRejectedRequest ==
  /\ Take("PeerRejectedRequest")
  /\ LET p == Head(inbox).peer
     IN  /\ sched' = ReleasePeerRequest(sched, p, Head(inbox).slot)
         /\ todo' = Refill(p)
  /\ UNCHANGED <<state, bitfield, disk, peers, completed, expired, peerVars>>

\* peer_ready. The availability is recorded whether or not the peer is known.
HandlePeerReady ==
  /\ Take("PeerReady")
  /\ LET p == Head(inbox).peer
     IN  /\ sched' = UpdatePeerAvailability(sched, p, Head(inbox).pieces)
         /\ todo' = IF p \in peers \cap alive
                    THEN Refill(p) ELSE <<>>
  /\ UNCHANGED <<state, bitfield, disk, peers, completed, expired, peerVars>>

\* An actor that stops drops its mailbox and its requests, and its on_stop
\* tells the torrent KillPeer; n messages when the idle check told it before.
Stopped(p, n) ==
  /\ alive' = alive \ {p}
  /\ mail' = [mail EXCEPT ![p] = <<>>]
  /\ pending' = [pending EXCEPT ![p] = {}]
  /\ pieces' = [pieces EXCEPT ![p] = {}]
  /\ dying' = [dying EXCEPT ![p] = @ + n]

RemovePeerKeepingRequests(p) ==
  /\ UNCHANGED sched
  /\ peers' = peers \ {p}
  /\ IF p \in peers \cap alive THEN Stopped(p, 1)
     ELSE UNCHANGED <<alive, mail, pending, pieces, dying>>
  /\ UNCHANGED <<state, bitfield, disk, completed, expired, connects>>

\* remove_peer: the actor registered under the id, if there is one, is killed.
RemovePeer(p) ==
  /\ sched' = PeerDisconnected(sched, p)
  /\ peers' = peers \ {p}
  /\ IF p \in peers \cap alive THEN Stopped(p, 1)
     ELSE UNCHANGED <<alive, mail, pending, pieces, dying>>
  /\ UNCHANGED <<state, bitfield, disk, completed, expired, connects>>

\* kill_peer.
HandleKillPeer ==
  /\ Take("KillPeer")
  /\ RemovePeer(Head(inbox).peer)
  /\ todo' = Due(FillStep(peers', MaxInFlight))

-----------------------------------------------------------------------------
(* Commands of the caller and the rechoke timer *)

\* disconnect_peer: an id that is not registered is an error, after the
\* scheduler has dropped it.
DisconnectPeer(p) ==
  /\ May("disconnect") /\ Idle
  /\ RemovePeer(p)
  /\ todo' = IF p \in peers THEN Due(FillStep(peers', MaxInFlight))
                            ELSE <<>>
  /\ UNCHANGED inbox

\* start, called by the caller or by autostart.
Start ==
  /\ Idle /\ state \in {"Added", "Paused"}
  /\ state' = IF bitfield = Piece THEN "Seeding" ELSE "Downloading"
  /\ todo' = Due(FillStep(peers, InitialWindow)) \o RechokeSteps(sched, peers)
  /\ UNCHANGED <<sched, bitfield, disk, peers, completed, expired, inbox,
                 peerVars>>

\* stop_transfer. An active torrent broadcasts SetChoked, and the broadcast
\* drops the peers it finds dead, without telling the scheduler.
Pause ==
  /\ May("pause") /\ Idle /\ state # "Paused"
  /\ state' = "Paused"
  /\ peers' = IF state \in {"Downloading", "Seeding"} THEN peers \cap alive
                                                      ELSE peers
  /\ UNCHANGED <<sched, bitfield, disk, completed, expired, todo, inbox,
                 peerVars>>

\* The Rechoke message of the timer.
Rechoke ==
  /\ Idle /\ state \in {"Downloading", "Seeding"}
  /\ todo' = RechokeSteps(sched, peers)
  /\ UNCHANGED <<state, sched, bitfield, disk, peers, completed, expired,
                 inbox, peerVars>>

\* peer_connected: insert_peer refuses an id that is registered.
PeerConnected(p) ==
  /\ Idle /\ p \notin peers /\ connects < MaxConnects
  /\ peers' = peers \cup {p}
  /\ alive' = alive \cup {p}
  /\ connects' = connects + 1
  /\ UNCHANGED <<state, sched, bitfield, disk, completed, expired, todo,
                 inbox, pieces, mail, pending, dying>>

-----------------------------------------------------------------------------
(* The peer actors and their remotes *)

TakeMail(p, type) ==
  /\ p \in alive /\ mail[p] # <<>> /\ Head(mail[p]).type = type
  /\ mail' = [mail EXCEPT ![p] = Tail(@)]

RejectPieceRequest(p, x) == Tell(PeerRejectedRequest(p, x))

\* need_piece. A request is pending whether it is sent or, while the remote
\* chokes us, only queued.
HandleNeedPiece(p) ==
  /\ TakeMail(p, "NeedPiece")
  /\ LET x == Head(mail[p]).slot
     IN  \/ /\ PieceOf(x) \notin pieces[p] \/ May("send")
            /\ RejectPieceRequest(p, x)
            /\ UNCHANGED pending
         \/ /\ PieceOf(x) \in pieces[p]
            /\ pending' = [pending EXCEPT ![p] = @ \cup {x}]
            /\ UNCHANGED inbox
  /\ UNCHANGED <<torrentVars, alive, pieces, dying, connects>>

\* cancel_piece.
HandleCancelPiece(p) ==
  /\ TakeMail(p, "CancelPiece")
  /\ pending' = [pending EXCEPT ![p] = @ \ {Head(mail[p]).slot}]
  /\ UNCHANGED <<torrentVars, inbox, alive, pieces, dying, connects>>

\* The remote's Piece message. One that is not pending is ignored.
RecvPiece(p, x, content) ==
  /\ p \in alive /\ x \in pending[p]
  /\ content = "good" \/ May("corrupt")
  /\ pending' = [pending EXCEPT ![p] = @ \ {x}]
  /\ Tell(IncomingPiece(p, x, content))
  /\ UNCHANGED <<torrentVars, alive, pieces, mail, dying, connects>>

\* The remote's Cancel message.
RecvCancel(p, x) ==
  /\ May("cancel") /\ p \in alive /\ x \in pending[p]
  /\ pending' = [pending EXCEPT ![p] = @ \ {x}]
  /\ UNCHANGED <<torrentVars, inbox, alive, pieces, mail, dying, connects>>

\* The remote's Bitfield message.
RecvBitfield(p) ==
  /\ p \in alive /\ pieces[p] # Has[p]
  /\ pieces' = [pieces EXCEPT ![p] = Has[p]]
  /\ Tell(PeerReady(p, Has[p]))
  /\ UNCHANGED <<torrentVars, alive, mail, pending, dying, connects>>

\* notify_ready of on_start and of an Unchoke. Bound: when nothing is waiting.
NotifyReady(p) ==
  /\ p \in alive /\ inbox = <<>>
  /\ Tell(PeerReady(p, pieces[p]))
  /\ UNCHANGED <<torrentVars, peerVars>>

\* The stream closes (n = 1), or the peer was silent for too long (n = 2).
PeerStops(p, n) ==
  /\ May("stop") /\ p \in alive
  /\ Stopped(p, n)
  /\ UNCHANGED <<torrentVars, inbox, connects>>

\* on_stop, and the idle check before it.
NotifyStopped(p) ==
  /\ dying[p] > 0
  /\ Tell(KillPeer(p))
  /\ dying' = [dying EXCEPT ![p] = @ - 1]
  /\ UNCHANGED <<torrentVars, alive, pieces, mail, pending, connects>>

-----------------------------------------------------------------------------

Init ==
  /\ state = "Added"
  /\ sched = New(PieceCount)
  /\ bitfield = {}
  /\ disk = [x \in Slot |-> "none"]
  /\ peers = {} /\ alive = {}
  /\ completed = 0 /\ expired = 0
  /\ todo = <<>> /\ inbox = <<>>
  /\ pieces = [p \in Peer |-> {}]
  /\ mail = [p \in Peer |-> <<>>]
  /\ pending = [p \in Peer |-> {}]
  /\ dying = [p \in Peer |-> 0]
  /\ connects = 0

\* Finish what the running handler has left.
Continue == \/ \E p \in Peer : FillPeer(p) \/ ForgetPeer(p)
            \/ ExpireRequests

HandleMessage ==
  \/ HandleIncomingPiece
  \/ HandlePeerRejectedRequest
  \/ HandlePeerReady
  \/ HandleKillPeer

PeerStep(p) ==
  \/ HandleNeedPiece(p)
  \/ HandleCancelPiece(p)
  \/ \E x \in Slot, content \in {"good", "bad"} : RecvPiece(p, x, content)
  \/ \E x \in Slot : RecvCancel(p, x)
  \/ RecvBitfield(p)
  \/ NotifyReady(p)
  \/ \E n \in {1, 2} : PeerStops(p, n)
  \/ NotifyStopped(p)

Next ==
  \/ Continue
  \/ HandleMessage
  \/ Start
  \/ Pause
  \/ Rechoke
  \/ \E p \in Peer : PeerConnected(p) \/ DisconnectPeer(p) \/ PeerStep(p)

Spec == Init /\ [][Next]_vars

-----------------------------------------------------------------------------
(* Fairness: every actor with something to do is scheduled, and remotes       *)
(* answer. Strong fairness for what the torrent takes between handlers: its   *)
(* mailbox is FIFO, so a message, once there, is reached whatever else        *)
(* arrives. The rechoke timer is not needed and not assumed to fire.          *)

Fairness ==
  /\ WF_vars(Continue)
  /\ SF_vars(HandleMessage)
  /\ SF_vars(Start)
  /\ SF_vars(\E p \in Peer : PeerConnected(p))
  /\ \A p \in Peer :
       /\ WF_vars(HandleNeedPiece(p) \/ HandleCancelPiece(p))
       /\ WF_vars(RecvBitfield(p))
       /\ WF_vars(\E x \in Slot : RecvPiece(p, x, "good"))

FairSpec == Spec /\ Fairness

-----------------------------------------------------------------------------
(* Properties *)

Window == IF InitialWindow > MaxInFlight THEN InitialWindow ELSE MaxInFlight

KillOnTheWay(p) == dying[p] > 0 \/ InInbox(KillPeer(p))

\* The variables have the types of the fields they model.
TypeOK ==
  /\ state \in {"Added", "Downloading", "Paused", "Seeding"}
  /\ SchedulerType(sched)
  /\ bitfield \subseteq Piece
  /\ disk \in [Slot -> {"none", "good", "bad"}]
  /\ peers \subseteq Peer /\ alive \subseteq peers
  /\ pending \in [Peer -> SUBSET Slot]
  /\ \A p \in Peer : Len(mail[p]) <= PeerMailbox
  /\ Len(inbox) <= TorrentMailbox

\* Through every handler the scheduler's counters are exact, nothing in hand
\* is on request, no peer is asked for more than its window, and the bitfield
\* sent to peers says what the scheduler holds to be verified.
SchedulerConsistent ==
  /\ Consistent(sched)
  /\ \A p \in Peer : Cardinality(InFlightSlots(sched, p)) <= Window
  /\ bitfield = sched.completed_pieces

\* No request is lost: a block on request from a running peer is waiting in
\* its mailbox (as the last message about that block), pending at the remote,
\* or answered by a message on its way to the torrent, unless the peer is
\* about to be removed. Nothing waits for the request timeout without cause.
RequestsBacked ==
  \A x \in Slot : LET p == sched.in_flight[x] IN
    p \in alive => \/ KillOnTheWay(p)
                   \/ LET about == {k \in DOMAIN mail[p] : mail[p][k].slot = x}
                      IN  IF about # {}
                          THEN \E k \in about :
                                 /\ mail[p][k].type = "NeedPiece"
                                 /\ \A j \in about : j <= k
                          ELSE \/ x \in pending[p]
                               \/ \E k \in DOMAIN inbox :
                                    /\ inbox[k].type \in {"IncomingPiece",
                                                          "PeerRejectedRequest"}
                                    /\ inbox[k].peer = p
                                    /\ inbox[k].slot = x

\* Blocks on request from a peer that is not registered, and registered peers
\* that have stopped, are always about to be cleaned up: broadcast_to_peers
\* drops a dead peer without telling the scheduler, and only the KillPeer that
\* follows frees its blocks.
NoOrphans ==
  /\ \A x \in Slot : sched.in_flight[x] \in Peer \ peers
                       => KillOnTheWay(sched.in_flight[x])
  /\ \A p \in peers \ alive : KillOnTheWay(p)

\* A torrent that seeds has every piece.
SeedingIsComplete == state = "Seeding" => bitfield = Piece

\* While no request is given up before its answer, a verified piece is never
\* overwritten by what arrives later.
VerifiedStaysGood ==
  \A x \in Slot : PieceOf(x) \in bitfield => disk[x] = "good"

\* ... and the trackers are told Completed at most once.
CompletedOnce == completed <= 1

\* ... and a peer actor never waits for more blocks than the window.
PendingWithinWindow == \A p \in Peer : Cardinality(pending[p]) <= Window

\* A paused torrent stays paused until the caller starts it.
PausedUntilStarted ==
  [][state = "Paused" => state' = "Paused" \/ Start]_vars

\* A torrent whose peers have every piece and answer is downloaded, whatever
\* requests expire on the way.
DownloadCompletes == <>(bitfield = Piece)

\* Between any two steps of torrent and peers the scheduler and the bitfield
\* agree, and neither side of a connection exceeds the window.
FlowSound == TypeOK /\ SchedulerConsistent /\ PendingWithinWindow

\* The download is finished once, and only when every piece is verified
\* (torrent/piece_flow.rs, piece_completed).
CompletionSound == SeedingIsComplete /\ CompletedOnce

\* Every block on request will be answered, released or cleaned up: by its
\* peer, a message under way, or the KillPeer of a peer that is gone.
RequestsAccounted == SchedulerConsistent /\ RequestsBacked /\ NoOrphans
=============================================================================
