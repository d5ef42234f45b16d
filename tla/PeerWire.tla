------------------------------- MODULE PeerWire -------------------------------
(***************************************************************************)
(* The receiving side of one peer connection: the handshake that           *)
(* PeerStream::recv_handshake_message reads, then the frames that `next`   *)
(* of the peer actor takes with PeerStream::recv.  The remote writes a     *)
(* script of messages; the transport hands its bytes over in pieces of any *)
(* size; select! may drop the recv future whenever the mailbox or the idle *)
(* timer is ready first.                                                   *)
(***************************************************************************)
EXTENDS WireCodec

CONSTANTS WireScripts,  \* what the remote may send after its handshake
          OurHash,      \* the torrent's info hash, 20 bytes
          Handshakes    \* handshakes the remote may open with

VARIABLES hello,        \* the remote's handshake
          script,       \* the messages it sends after it
          unsent,       \* how many of them it has not written
          net,          \* bytes written and not read
          eof,          \* the remote has closed its side
          stage,        \* "shaking", "framed", "failed" or "closed"
          read_buffer,
          polled,       \* a recv future exists
          got           \* the messages handed to the actor

wireVars == <<hello, script, unsent, net, eof, stage, read_buffer, polled, got>>

PeerWireInit ==
  /\ hello \in Handshakes /\ script \in WireScripts
  /\ unsent = Len(script) /\ net = encode(hello) /\ eof = FALSE
  /\ stage = "shaking" /\ read_buffer = <<>> /\ polled = FALSE /\ got = <<>>

\* The remote's own encoder; a message of another extension (BEP 5's Port) has
\* an id from_bytes does not know.
RemoteEncodes(m) == IF m[1] = "Port" THEN create_message_with_id(9, m[2]) ELSE encode(m)

\* The remote (outside the program) writes its next message, or closes.
RemoteWrites ==
  /\ ~eof /\ unsent > 0
  /\ unsent' = unsent - 1
  /\ net' = net \o RemoteEncodes(script[Len(script) - unsent + 1])
  /\ UNCHANGED <<hello, script, eof, stage, read_buffer, polled, got>>
RemoteCloses ==
  /\ ~eof
  /\ eof' = TRUE
  /\ UNCHANGED <<hello, script, unsent, net, stage, read_buffer, polled, got>>

validate_handshake(handshake) ==
  handshake # Err /\ handshake[2] = MAGIC_STRING /\ handshake[4] = OurHash

\* read_u8 and read_exact take the bytes of the handshake and no more: what
\* follows them is left to the frames.
RecvHandshake ==
  LET handshake_length == 1 + net[1] + 8 + 40
      handshake == ParseHandshake(SubSeq(net, 1, handshake_length))
  IN  /\ stage = "shaking" /\ net # <<>> /\ Len(net) >= handshake_length
      /\ stage' = IF validate_handshake(handshake) THEN "framed" ELSE "failed"
      /\ net' = Drop(net, handshake_length)
      /\ UNCHANGED <<hello, script, unsent, eof, read_buffer, polled, got>>

\* The handshake timeout, or the remote's close, ends the attempt.
HandshakeFails ==
  /\ stage = "shaking"
  /\ stage' = "failed"
  /\ UNCHANGED <<hello, script, unsent, net, eof, read_buffer, polled, got>>

\* What dropping a read_exact future does: the bytes it holds are lost.
RecvDroppedWithBytes ==
  /\ polled
  /\ polled' = FALSE /\ read_buffer' = <<>>
  /\ UNCHANGED <<hello, script, unsent, net, eof, stage, got>>

\* `next` creates a recv future, and drops it when another branch is first.
Poll ==
  /\ stage = "framed" /\ ~polled
  /\ polled' = TRUE
  /\ UNCHANGED <<hello, script, unsent, net, eof, stage, read_buffer, got>>
RecvDropped ==
  /\ polled
  /\ polled' = FALSE
  /\ UNCHANGED <<hello, script, unsent, net, eof, stage, read_buffer, got>>

Buffered == buffered_message(read_buffer)

\* One turn of the loop in recv: a read, a frame, or the end of the stream.
ReadBuf ==
  /\ polled /\ Buffered[1] = NotYet /\ net # <<>>
  /\ \E k \in 1..Len(net) :
       /\ read_buffer' = read_buffer \o SubSeq(net, 1, k)
       /\ net' = Drop(net, k)
  /\ UNCHANGED <<hello, script, unsent, eof, stage, polled, got>>
\* check_message_signal: a message is handed over, a parse error is skipped,
\* a panic ends the actor.
RecvReturns ==
  /\ polled /\ polled' = FALSE
  /\ \E message \in {Buffered[1]} :
       /\ message # NotYet
       /\ got' = IF message \in {Err, Panic} THEN got ELSE Append(got, message)
       /\ stage' = IF message = Panic THEN "closed" ELSE stage
  /\ read_buffer' = Buffered[2]
  /\ UNCHANGED <<hello, script, unsent, net, eof>>
RecvEnds ==
  /\ polled /\ Buffered[1] = NotYet /\ net = <<>> /\ eof
  /\ stage' = "closed" /\ polled' = FALSE
  /\ UNCHANGED <<hello, script, unsent, net, eof, read_buffer, got>>

\* The swarm connects to the same peer again: a new stream, nothing kept.
Reconnect ==
  /\ stage \in {"failed", "closed"} /\ eof
  /\ unsent' = Len(script) /\ net' = encode(hello) /\ eof' = FALSE
  /\ stage' = "shaking" /\ read_buffer' = <<>> /\ polled' = FALSE /\ got' = <<>>
  /\ UNCHANGED <<hello, script>>

PeerWireNext ==
  RemoteWrites \/ RemoteCloses \/ RecvHandshake \/ HandshakeFails \/ Poll
    \/ RecvDropped \/ ReadBuf \/ RecvReturns \/ RecvEnds
    \/ Reconnect

PeerWireSpec == PeerWireInit /\ [][PeerWireNext]_wireVars
----------------------------------------------------------------------------
\* The variables have their types.
PeerWireTypeOK ==
  /\ unsent \in 0..Len(script) /\ eof \in BOOLEAN /\ polled \in BOOLEAN
  /\ stage \in {"shaking", "framed", "failed", "closed"}
  /\ \A i \in DOMAIN net : net[i] \in 0..255
  /\ \A i \in DOMAIN read_buffer : read_buffer[i] \in 0..255

\* What a message means to its receiver: a bitfield is padded to whole bytes,
\* a message without a known id means nothing.
Heard(m) == IF m[1] = "Bitfield"
              THEN <<"Bitfield", m[2] \o [i \in 1..8 * div_ceil8(Len(m[2])) - Len(m[2]) |-> FALSE]>>
              ELSE m
Known(messages) == SelectSeq(messages, LAMBDA m : m[1] # "Port")
Text(messages) == FlattenSeq([i \in DOMAIN messages |-> RemoteEncodes(messages[i])])

(***************************************************************************)
(* PeerStream::recv is cancellation safe and keeps the framing: whatever   *)
(* the transport's pieces, however often select! drops the future, and     *)
(* whatever the handshake left behind, the actor has been given exactly    *)
(* the first n messages, decoded to what was encoded, and the bytes still  *)
(* buffered or in flight are exactly those of the messages after them.     *)
(***************************************************************************)
FramesInOrder ==
  stage = "framed" =>
    \E n \in 0..Len(script) - unsent :
      LET heard == Known(SubSeq(script, 1, n)) IN
      /\ got = [i \in DOMAIN heard |-> Heard(heard[i])]
      /\ read_buffer \o net = Text(SubSeq(script, n + 1, Len(script) - unsent))

(***************************************************************************)
(* The end of the stream does not overtake frames that are still buffered: *)
(* when recv reports it, every message the remote wrote has been handed to *)
(* the actor.                                                              *)
(***************************************************************************)
EndIsLast ==
  stage = "closed" => Len(got) = Len(Known(SubSeq(script, 1, Len(script) - unsent)))

\* A remote that names another torrent or another protocol is never framed.
OnlyOurTorrent == stage = "framed" => hello[2] = MAGIC_STRING /\ hello[4] = OurHash

\* However the bytes are cut and however often recv is dropped, the actor gets
\* the messages of a remote of its own torrent, each once, in order, and all of
\* them before the end of the stream (protocol/stream.rs, recv).
FramesSound == PeerWireTypeOK /\ FramesInOrder /\ OnlyOurTorrent /\ EndIsLast
=============================================================================
