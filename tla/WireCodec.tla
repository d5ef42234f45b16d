------------------------------ MODULE WireCodec ------------------------------
(***************************************************************************)
(* The peer wire format of protocol/messages.rs and the framing of         *)
(* protocol/stream.rs, on bytes.  A message is a tuple whose first element *)
(* names its variant; numbers are kept below 2^31, the reach of TLC's      *)
(* integers.                                                               *)
(***************************************************************************)
EXTENDS Naturals, Sequences, SequencesExt

CONSTANT MAX_FRAME_PAYLOAD_LENGTH

MAGIC_STRING == <<66, 105, 116, 84, 111, 114, 114, 101, 110, 116, 32,
                  112, 114, 111, 116, 111, 99, 111, 108>>

\* What a conversion gives instead of a message.
Err == <<"Err">>
Panic == <<"Panic">>
NotYet == <<"NotYet">>

to_be_bytes(n) == [i \in 1..4 |-> (n \div 256 ^ (4 - i)) % 256]
get_u32(bytes) == FoldLeft(LAMBDA n, b : n * 256 + b, 0, SubSeq(bytes, 1, 4))
Drop(bytes, n) == SubSeq(bytes, n + 1, Len(bytes))
div_ceil8(n) == (n + 7) \div 8

encode_bitfield(bits) ==
  [k \in 1..div_ceil8(Len(bits)) |->
     FoldLeft(LAMBDA byte, j : LET index == 8 * (k - 1) + j
                               IN  byte + IF index < Len(bits) /\ bits[index + 1]
                                            THEN 2 ^ (7 - j) ELSE 0,
              0, [j \in 1..8 |-> j - 1])]

\* Every bit of every byte, so the length is a multiple of eight.
decode_bitfield(payload) ==
  [i \in 1..8 * Len(payload) |->
     (payload[(i + 7) \div 8] \div 2 ^ (7 - ((i - 1) % 8))) % 2 = 1]

create_message_with_id(id, payload) ==
  to_be_bytes(1 + Len(payload)) \o <<id>> \o payload
create_message_with_triplet(id, first, second, third) ==
  to_be_bytes(13) \o <<id>> \o to_be_bytes(first) \o to_be_bytes(second)
    \o to_be_bytes(third)
create_piece_header(index, begin, block_length) ==
  to_be_bytes(block_length + 9) \o <<7>> \o to_be_bytes(index) \o to_be_bytes(begin)

(***************************************************************************)
(* Bencoding, as far as an extended message needs it.  A dictionary is the *)
(* sequence of its parse events: <<"d">>, <<"l">>, <<"e">>, <<"n", value>> *)
(* and <<"s", bytes>> (keys and byte strings).                             *)
(***************************************************************************)
Digits(n) == LET width == CHOOSE k \in 1..10 : n < 10 ^ k /\ (k = 1 \/ n >= 10 ^ (k - 1))
             IN  [i \in 1..width |-> 48 + ((n \div 10 ^ (width - i)) % 10)]
EventText(event) ==
  CASE event[1] = "d" -> <<100>>
    [] event[1] = "l" -> <<108>>
    [] event[1] = "e" -> <<101>>
    [] event[1] = "n" -> <<105>> \o Digits(event[2]) \o <<101>>
    [] event[1] = "s" -> Digits(Len(event[2])) \o <<58>> \o event[2]
Bencode(events) == FlattenSeq([i \in DOMAIN events |-> EventText(events[i])])

\* The first event of a text and the number of bytes it takes.
Number(digits) == FoldLeft(LAMBDA n, d : n * 10 + d - 48, 0, digits)
Until(bytes, byte) == CHOOSE i \in DOMAIN bytes :
                        bytes[i] = byte /\ \A j \in 1..i - 1 : bytes[j] # byte
FirstEvent(bytes) ==
  CASE bytes[1] = 100 -> <<"d">>
    [] bytes[1] = 108 -> <<"l">>
    [] bytes[1] = 101 -> <<"e">>
    [] bytes[1] = 105 -> <<"n", Number(SubSeq(bytes, 2, Until(bytes, 101) - 1))>>
    [] OTHER -> LET colon == Until(bytes, 58)
                    size == Number(SubSeq(bytes, 1, colon - 1))
                IN  <<"s", SubSeq(bytes, colon + 1, colon + size)>>

\* The events of the first dictionary of a text.  The parser keeps the open
\* lists and dictionaries; the loop stops when no dictionary is open.
DictEvents(bytes) ==
  LET from[at \in Nat, open \in Seq({"d", "l"})] ==
        IF at > Len(bytes) THEN <<>>
        ELSE LET event == FirstEvent(Drop(bytes, at - 1))
                 inner == CASE event[1] \in {"d", "l"} -> <<event[1]>> \o open
                            [] event[1] = "e" -> Tail(open)
                            [] OTHER -> open
             IN  <<event>> \o IF event[1] = "e" /\ Head(open) = "d"
                                  /\ \A i \in DOMAIN inner : inner[i] # "d"
                                 THEN <<>>
                                 ELSE from[at + Len(EventText(event)), inner]
  IN  from[1, <<>>]

\* The length of the text the events of the first dictionary would have.
get_extended_message_length(payload) ==
  FoldLeft(LAMBDA n, event :
             n + CASE event[1] \in {"d", "e", "l"} -> 1
                   [] event[1] = "n" -> Len(Digits(event[2])) + 2
                   [] event[1] = "s" -> Len(Digits(Len(event[2]))) + 1 + Len(event[2]),
           0, DictEvents(payload))

----------------------------------------------------------------------------
\* Handshake::to_bytes and from_bytes; a handshake has no length prefix.
HandshakeBytes(protocol, reserved, info_hash, peer_id) ==
  <<Len(protocol)>> \o protocol \o reserved \o info_hash \o peer_id
ParseHandshake(bytes) ==
  LET protocol_len == bytes[1]
      Field(from, size) == SubSeq(bytes, 1 + protocol_len + from + 1,
                                  1 + protocol_len + from + size)
  IN  IF bytes = <<>> \/ Len(bytes) < 1 + protocol_len + 8 + 40 THEN Err
      ELSE <<"Handshake", SubSeq(bytes, 2, 1 + protocol_len),
             Field(0, 8), Field(8, 20), Field(28, 20)>>

\* None is the empty sequence: an absent dictionary and absent metadata
\* encode to nothing.
encode(m) ==
  CASE m[1] = "Handshake" -> HandshakeBytes(m[2], m[3], m[4], m[5])
    [] m[1] = "Choke" -> create_message_with_id(0, <<>>)
    [] m[1] = "Unchoke" -> create_message_with_id(1, <<>>)
    [] m[1] = "Interested" -> create_message_with_id(2, <<>>)
    [] m[1] = "NotInterested" -> create_message_with_id(3, <<>>)
    [] m[1] = "Have" -> create_message_with_id(4, to_be_bytes(m[2]))
    [] m[1] = "Bitfield" -> create_message_with_id(5, encode_bitfield(m[2]))
    [] m[1] = "Request" -> create_message_with_triplet(6, m[2], m[3], m[4])
    [] m[1] = "Piece" -> create_piece_header(m[2], m[3], Len(m[4])) \o m[4]
    [] m[1] = "Cancel" -> create_message_with_triplet(8, m[2], m[3], m[4])
    [] m[1] = "Extended" ->
         create_message_with_id(20, <<m[2]>> \o Bencode(m[3]) \o m[4])
    [] m[1] = "KeepAlive" -> <<0, 0, 0, 0>>

parse_triplet(payload) ==
  <<get_u32(payload), get_u32(Drop(payload, 4)), get_u32(Drop(payload, 8))>>

ParseExtended(payload) ==
  LET body == Tail(payload)
      length == get_extended_message_length(body)
  IN  IF payload = <<>> THEN Panic
      ELSE IF body = <<>> THEN <<"Extended", payload[1], <<>>, <<>> >>
      ELSE <<"Extended", payload[1], DictEvents(SubSeq(body, 1, length)),
             Drop(body, length)>>

from_bytes(bytes) ==
  LET length == get_u32(bytes)
      id == bytes[5]
      payload == SubSeq(bytes, 6, 4 + length)
  IN  IF Len(bytes) >= 68 /\ bytes[1] = Len(MAGIC_STRING)
         /\ SubSeq(bytes, 2, 20) = MAGIC_STRING THEN ParseHandshake(bytes)
      ELSE IF Len(bytes) < 4 THEN Err
      ELSE IF Len(bytes) < 4 + length THEN Err
      ELSE IF length = 0 THEN <<"KeepAlive">>
      ELSE
        CASE id = 0 -> <<"Choke">>
        [] id = 1 -> <<"Unchoke">>
        [] id = 2 -> <<"Interested">>
        [] id = 3 -> <<"NotInterested">>
        [] id = 4 -> IF Len(payload) # 4 THEN Err ELSE <<"Have", get_u32(payload)>>
        [] id = 5 -> <<"Bitfield", decode_bitfield(payload)>>
        [] id = 6 -> IF Len(payload) # 12 THEN Err
                     ELSE <<"Request">> \o parse_triplet(payload)
        [] id = 7 -> IF Len(payload) < 8 THEN Err
                     ELSE <<"Piece", get_u32(payload), get_u32(Drop(payload, 4)),
                            Drop(payload, 8)>>
        [] id = 8 -> IF Len(payload) # 12 THEN Err
                     ELSE <<"Cancel">> \o parse_triplet(payload)
        [] id = 20 -> ParseExtended(payload)
        [] OTHER -> Err

(***************************************************************************)
(* The first frame of the read buffer: the outcome and the bytes left.  A  *)
(* frame that is too long is refused without being consumed.               *)
(***************************************************************************)
buffered_message(buffer) ==
  LET length == get_u32(buffer)
      frame_len == 4 + length
  IN  IF Len(buffer) < 4 THEN <<NotYet, buffer>>
      ELSE IF length = 0 THEN << <<"KeepAlive">>, Drop(buffer, 4)>>
      ELSE IF length > MAX_FRAME_PAYLOAD_LENGTH THEN <<Err, buffer>>
      ELSE IF Len(buffer) < frame_len THEN <<NotYet, buffer>>
      ELSE <<from_bytes(SubSeq(buffer, 1, frame_len)), Drop(buffer, frame_len)>>
=============================================================================
