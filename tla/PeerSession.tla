----------------------------- MODULE PeerSession -----------------------------
(***************************************************************************)
(* The two peer actors of one connection, each end running this program,   *)
(* with their torrents reduced to what they tell a peer actor: requests,   *)
(* choking decisions, pieces completed and metadata resolved.  A piece is  *)
(* one block.  Wire messages and mailbox messages are taken in either      *)
(* order (select! in PeerActor::next); each queue is first in, first out.  *)
(***************************************************************************)
EXTENDS Naturals, Sequences, SequencesExt, FiniteSets

CONSTANTS Parts,         \* the pieces, one block each
          SessionStarts, \* what each end has, which know the metadata, and the
                         \* bounds on the two variables that count down
          PeerMailbox    \* peer_mailbox_size

Peers == {"a", "b"}
Far(e) == CHOOSE o \in Peers : o # e

VARIABLES begun,     \* ends whose on_start is over
          meta,      \* ends that have the info dictionary
          planned,   \* ends whose scheduler was built from it
          have,      \* verified pieces
          flight,    \* pieces the torrent has in flight at this peer
          mail,      \* the peer actor's mailbox
          wire,      \* messages on their way from an end
          sized,     \* `pieces` is not BitVec::EMPTY
          pieces,    \* what the actor takes its remote to have
          pending,   \* pending_block_requests
          am_choking, peer_choking, am_interested, peer_interested,
          lost,      \* an advisory Have found a mailbox full
          chokes,  \* times an interested remote may still lose its slot
          releases   \* requests that may still be taken back as stale

wantVars == <<am_choking, peer_choking, am_interested, peer_interested>>
sessionVars == <<begun, meta, planned, have, flight, mail, wire, sized, pieces, pending,
                 wantVars, lost, chokes, releases>>

SessionInit ==
  /\ \E start \in SessionStarts :
       /\ have = [e \in Peers |-> start.has[e]]
       /\ meta = start.meta /\ chokes = start.chokes /\ releases = start.releases
  /\ planned = meta /\ begun = {}
  /\ flight = [e \in Peers |-> {}] /\ pending = [e \in Peers |-> {}]
  /\ mail = [e \in Peers |-> <<>>] /\ wire = [e \in Peers |-> <<>>]
  /\ sized = {} /\ pieces = [e \in Peers |-> {}]
  /\ am_choking = Peers /\ peer_choking = Peers
  /\ am_interested = {} /\ peer_interested = {}
  /\ lost = {}

----------------------------------------------------------------------------
(* The torrent of an end.                                                  *)

Room(e) == Len(mail[e]) < PeerMailbox
Tell(e, message) == mail' = [mail EXCEPT ![e] = Append(@, message)]

\* fill_peer_request_window_to: try_send, released again without room.
TorrentNeeds(e) ==
  /\ e \in planned /\ Room(e)
  /\ \E i \in (pieces[e] \ have[e]) \ flight[e] :
       /\ flight' = [flight EXCEPT ![e] = @ \cup {i}]
       /\ Tell(e, <<"NeedPiece", i>>)
  /\ UNCHANGED <<begun, meta, planned, have, wire, sized, pieces, pending, wantVars,
                 lost, chokes, releases>>

\* rechoke_peers: the remote is unchoked when it is interested, and may lose
\* its slot to others.  SetChoked waits for room, and the next round waits for
\* the collection of statistics, which is answered behind it.
SlotMayChange(e) ==
  e \in begun /\ Room(e) /\ ~\E i \in DOMAIN mail[e] : mail[e][i][1] = "SetChoked"
GiveSlot(e) ==
  /\ SlotMayChange(e) /\ e \in peer_interested /\ e \in am_choking
  /\ Tell(e, <<"SetChoked", FALSE>>)
  /\ UNCHANGED <<begun, meta, planned, have, flight, wire, sized, pieces, pending,
                 wantVars, lost, chokes, releases>>
TakeSlot(e) ==
  /\ SlotMayChange(e) /\ e \notin am_choking
  /\ e \notin peer_interested \/ chokes > 0
  /\ chokes' = IF e \in peer_interested THEN chokes - 1 ELSE chokes
  /\ Tell(e, <<"SetChoked", TRUE>>)
  /\ UNCHANGED <<begun, meta, planned, have, flight, wire, sized, pieces, pending,
                 wantVars, lost, releases>>

\* release_stale_requests.
Release(e) ==
  /\ releases > 0
  /\ releases' = releases - 1
  /\ \E i \in flight[e] : flight' = [flight EXCEPT ![e] = @ \ {i}]
  /\ UNCHANGED <<begun, meta, planned, have, mail, wire, sized, pieces, pending, wantVars,
                 lost, chokes>>

\* The mail of a block that completes its piece: a cancel when this peer was
\* assigned it, and an advisory Have, each sent only with room.
Advised(e, i, cancel) ==
  LET cancelled == IF cancel /\ Room(e) THEN Append(mail[e], <<"CancelPiece", i>>) ELSE mail[e]
  IN  IF Len(cancelled) < PeerMailbox THEN Append(cancelled, <<"Have", i>>) ELSE cancelled
PieceDone(e, i, cancel) ==
  /\ have' = [have EXCEPT ![e] = @ \cup {i}]
  /\ flight' = [flight EXCEPT ![e] = @ \ {i}]
  /\ mail' = [mail EXCEPT ![e] = Advised(e, i, cancel)]
  /\ lost' = IF Last(Advised(e, i, cancel)) = <<"Have", i>> THEN lost ELSE lost \cup {e}

\* Another peer of this torrent delivers a piece first.
OtherPeerDelivers(e) ==
  /\ e \in planned
  /\ \E i \in Parts \ have[e] : PieceDone(e, i, i \in flight[e])
  /\ UNCHANGED <<begun, meta, planned, wire, sized, pieces, pending, wantVars, chokes,
                 releases>>

\* info_bytes resolves a magnet: an empty bitfield of the right size, told to
\* every peer (broadcast_to_peers waits for room).
InfoResolved(e) ==
  /\ e \notin meta /\ Room(e)
  /\ meta' = meta \cup {e}
  /\ Tell(e, <<"HaveInfoDict", have[e]>>)
  /\ UNCHANGED <<begun, planned, have, flight, wire, sized, pieces, pending, wantVars,
                 lost, chokes, releases>>
----------------------------------------------------------------------------
(* The peer actor.                                                         *)

Sent(e, messages) == [wire EXCEPT ![e] = @ \o messages]

\* on_start: the bitfield, unless it is BitVec::EMPTY.
OnStart(e) ==
  /\ e \notin begun
  /\ begun' = begun \cup {e}
  /\ wire' = Sent(e, IF e \in meta THEN << <<"Bitfield", have[e]>> >> ELSE <<>>)
  /\ UNCHANGED <<meta, planned, have, flight, mail, sized, pieces, pending, wantVars,
                 lost, chokes, releases>>

\* determine_interest: the torrent compares the bitfields, the answer is sent
\* whether or not it is new.
Interesting(e, theirs) == IF e \in meta THEN theirs \ have[e] # {} ELSE theirs # {}

Incoming(e) == Head(wire[Far(e)])
\* What is left of the wire after e has taken a message and sent others.
Exchanged(e, messages) == [wire EXCEPT ![Far(e)] = Tail(@), ![e] = @ \o messages]

\* Message<PeerMessages>::handle, by message.
\* A requested block reaches the torrent in the same step: the wait of
\* IncomingPiece in the torrent's mailbox, and the late block that rewrites a
\* piece the torrent already owns, are PieceFlow's, which keeps that mailbox.
Piece(e) ==
  /\ Incoming(e)[1] = "Piece"
  /\ wire' = Exchanged(e, <<>>)
  /\ LET i == Incoming(e)[2] IN
     IF i \in pending[e]
       THEN /\ pending' = [pending EXCEPT ![e] = @ \ {i}]
            /\ IF i \in have[e]
                 THEN UNCHANGED <<have, flight, mail, lost>>
                 ELSE PieceDone(e, i, FALSE)
       ELSE UNCHANGED <<pending, have, flight, mail, lost>>
  /\ UNCHANGED <<begun, meta, planned, sized, pieces, wantVars, chokes, releases>>

\* Queued requests are given up when the remote chokes.
ChokeDropping(e) ==
  /\ Incoming(e) = <<"Choke">>
  /\ wire' = Exchanged(e, <<>>)
  /\ peer_choking' = peer_choking \cup {e}
  /\ pending' = [pending EXCEPT ![e] = {}]
  /\ UNCHANGED <<am_choking, am_interested, peer_interested, sized, pieces>>
Choke(e) ==
  /\ Incoming(e) = <<"Choke">>
  /\ wire' = Exchanged(e, <<>>)
  /\ peer_choking' = peer_choking \cup {e}
  /\ UNCHANGED <<pending, am_choking, am_interested, peer_interested, sized, pieces>>

\* flush_block_requests sends every pending request, sent before or not.
UnchokeUnflushed(e) ==
  /\ Incoming(e) = <<"Unchoke">>
  /\ wire' = Exchanged(e, <<>>)
  /\ peer_choking' = peer_choking \ {e}
  /\ UNCHANGED <<pending, am_choking, am_interested, peer_interested, sized, pieces>>
Unchoke(e) ==
  /\ Incoming(e) = <<"Unchoke">>
  /\ LET queue == SetToSeq(pending[e]) IN
     wire' = Exchanged(e, [k \in DOMAIN queue |-> <<"Request", queue[k]>>])
  /\ peer_choking' = peer_choking \ {e}
  /\ UNCHANGED <<pending, am_choking, am_interested, peer_interested, sized, pieces>>

Interested(e) ==
  /\ Incoming(e) \in {<<"Interested">>, <<"NotInterested">>}
  /\ wire' = Exchanged(e, <<>>)
  /\ peer_interested' = IF Incoming(e) = <<"Interested">> THEN peer_interested \cup {e}
                                                         ELSE peer_interested \ {e}
  /\ UNCHANGED <<pending, am_choking, peer_choking, am_interested, sized, pieces>>

\* determine_interest, with what the actor now knows of its remote.
Judged(e, theirs) ==
  LET wanted == Interesting(e, theirs) IN
  /\ pieces' = [pieces EXCEPT ![e] = theirs]
  /\ am_interested' = IF wanted THEN am_interested \cup {e} ELSE am_interested \ {e}
  /\ wire' = Exchanged(e, << <<IF wanted THEN "Interested" ELSE "NotInterested">> >>)

\* A Have before any bitfield is out of bounds; a known one is no news.
Have(e) ==
  /\ Incoming(e)[1] = "Have"
  /\ IF e \in sized /\ Incoming(e)[2] \notin pieces[e]
       THEN Judged(e, pieces[e] \cup {Incoming(e)[2]})
       ELSE wire' = Exchanged(e, <<>>) /\ UNCHANGED <<pieces, am_interested>>
  /\ UNCHANGED <<pending, am_choking, peer_choking, peer_interested, sized>>

Bitfield(e) ==
  /\ Incoming(e)[1] = "Bitfield"
  /\ sized' = sized \cup {e}
  /\ Judged(e, Incoming(e)[2])
  /\ UNCHANGED <<pending, am_choking, peer_choking, peer_interested>>

\* A choked remote's request is ignored; request_piece serves what we have.
Request(e) ==
  /\ Incoming(e)[1] = "Request"
  /\ wire' = Exchanged(e, IF e \notin am_choking /\ Incoming(e)[2] \in have[e]
                            THEN << <<"Piece", Incoming(e)[2]>> >> ELSE <<>>)
  /\ UNCHANGED <<pending, wantVars, sized, pieces>>

\* The remote's cancel is taken out of our own requests.
Cancel(e) ==
  /\ Incoming(e)[1] = "Cancel"
  /\ wire' = Exchanged(e, <<>>)
  /\ pending' = [pending EXCEPT ![e] = @ \ {Incoming(e)[2]}]
  /\ UNCHANGED <<wantVars, sized, pieces>>

HandleWire(e) ==
  /\ e \in begun /\ wire[Far(e)] # <<>>
  /\ \/ Piece(e)
     \/ /\ \/ Choke(e) \/ Unchoke(e) \/ Interested(e) \/ Have(e) \/ Bitfield(e)
           \/ Request(e) \/ Cancel(e)
        /\ UNCHANGED <<begun, meta, planned, have, flight, mail, lost, chokes, releases>>

\* The commands of the torrent.
Order(e) == Head(mail[e])
NeedPiece(e) ==
  /\ Order(e)[1] = "NeedPiece"
  /\ LET i == Order(e)[2] IN
     IF i \notin pieces[e]
       THEN /\ flight' = [flight EXCEPT ![e] = @ \ {i}]
            /\ UNCHANGED <<pending, wire>>
       ELSE /\ pending' = [pending EXCEPT ![e] = @ \cup {i}]
            /\ wire' = IF e \in peer_choking THEN wire ELSE Sent(e, << <<"Request", i>> >>)
            /\ UNCHANGED flight
  /\ UNCHANGED am_choking
CancelPiece(e) ==
  /\ Order(e)[1] = "CancelPiece"
  /\ LET i == Order(e)[2] IN
     /\ pending' = [pending EXCEPT ![e] = @ \ {i}]
     /\ wire' = IF i \in pending[e] THEN Sent(e, << <<"Cancel", i>> >>) ELSE wire
  /\ UNCHANGED <<am_choking, flight>>
SetChoked(e) ==
  /\ Order(e)[1] = "SetChoked"
  /\ IF (e \in am_choking) = Order(e)[2] THEN UNCHANGED <<am_choking, wire>>
     ELSE /\ am_choking' = IF Order(e)[2] THEN am_choking \cup {e} ELSE am_choking \ {e}
          /\ wire' = Sent(e, << <<IF Order(e)[2] THEN "Choke" ELSE "Unchoke">> >>)
  /\ UNCHANGED <<pending, flight>>
HaveInfoDict(e) ==
  /\ Order(e)[1] = "HaveInfoDict"
  /\ wire' = Sent(e, << <<"Bitfield", Order(e)[2]>> >>)
  /\ UNCHANGED <<am_choking, pending, flight>>
TellHave(e) ==
  /\ Order(e)[1] = "Have"
  /\ wire' = Sent(e, <<Order(e)>>)
  /\ UNCHANGED <<am_choking, pending, flight>>

HandleMail(e) ==
  /\ e \in begun /\ mail[e] # <<>>
  /\ NeedPiece(e) \/ CancelPiece(e) \/ SetChoked(e) \/ HaveInfoDict(e) \/ TellHave(e)
  /\ mail' = [mail EXCEPT ![e] = Tail(@)]
  /\ UNCHANGED <<begun, meta, planned, have, sized, pieces, peer_choking, am_interested,
                 peer_interested, lost, chokes, releases>>

\* A round of the torrents that changes nothing.
SettledRound ==
  /\ begun = Peers /\ \A e \in Peers : mail[e] = <<>> /\ wire[e] = <<>>
  /\ UNCHANGED sessionVars

SessionNext == SettledRound \/ \E e \in Peers :
  \/ TorrentNeeds(e) \/ GiveSlot(e) \/ TakeSlot(e) \/ Release(e) \/ OtherPeerDelivers(e)
  \/ InfoResolved(e) \/ OnStart(e) \/ HandleWire(e) \/ HandleMail(e)

\* The runtime runs every actor and select! passes over no ready branch for
\* ever; the torrent fills its windows and gives an interested peer a slot
\* in some round.
SessionFairness == \A e \in Peers :
  /\ WF_sessionVars(OnStart(e)) /\ WF_sessionVars(HandleWire(e))
  /\ WF_sessionVars(HandleMail(e)) /\ SF_sessionVars(TorrentNeeds(e))
  /\ SF_sessionVars(GiveSlot(e))
SessionSpec == SessionInit /\ [][SessionNext]_sessionVars /\ SessionFairness
----------------------------------------------------------------------------
\* The variables have their types.
SessionTypeOK ==
  /\ begun \subseteq Peers /\ meta \subseteq Peers /\ sized \subseteq Peers
  /\ \A e \in Peers :
       /\ have[e] \subseteq Parts /\ pieces[e] \subseteq Parts
       /\ pending[e] \subseteq Parts /\ flight[e] \subseteq Parts
       /\ Len(mail[e]) <= PeerMailbox

(***************************************************************************)
(* What an actor takes its remote to have, it has, although a bitfield     *)
(* taken in on_start may be overtaken by newer Haves in the mailbox; and   *)
(* when nothing is under way, and no Have was dropped at a full mailbox,   *)
(* it knows everything.                                                    *)
(***************************************************************************)
KnowledgeTrue ==
  \A e \in Peers :
    /\ pieces[e] \subseteq have[Far(e)]
    /\ (begun = Peers /\ wire[Far(e)] = <<>> /\ mail[Far(e)] = <<>> /\ Far(e) \notin lost)
         => pieces[e] = have[Far(e)]

(***************************************************************************)
(* Choking and interest are known at both ends as they are: once the       *)
(* messages under way have arrived, peer_choking of one end is am_choking  *)
(* of the other, and peer_interested its am_interested.                    *)
(***************************************************************************)
StatesAgree ==
  \A e \in Peers : wire[Far(e)] = <<>> =>
    /\ (e \in peer_choking) = (Far(e) \in am_choking)
    /\ (e \in peer_interested) = (Far(e) \in am_interested)

(***************************************************************************)
(* A request the torrent counts as in flight is held by the peer actor:    *)
(* it is in its mailbox or pending, so that the next Unchoke sends it (and *)
(* a remote's Cancel, which is taken out of the same set, removes none).   *)
(***************************************************************************)
RequestHeld ==
  \A e \in Peers : \A i \in flight[e] :
    i \in pending[e] \/ \E k \in DOMAIN mail[e] : mail[e][k] = <<"NeedPiece", i>>

(***************************************************************************)
(* A download from a complete peer ends: chokes, requests ignored while    *)
(* choked, stale releases and cancels only delay it, unless a dropped Have *)
(* hid a piece.                                                            *)
(***************************************************************************)
DownloadEnds ==
  \A e \in Peers : (e \in planned /\ have[Far(e)] = Parts)
                      ~> (have[e] = Parts \/ Far(e) \in lost)

\* Two peer actors agree on each other's pieces, choking and interest, and keep
\* the requests their torrents count on (peer/actor.rs, the wire handlers).
SessionSound == SessionTypeOK /\ KnowledgeTrue /\ StatesAgree /\ RequestHeld
=============================================================================
