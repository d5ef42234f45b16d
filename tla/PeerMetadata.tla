----------------------------- MODULE PeerMetadata -----------------------------
(***************************************************************************)
(* The metadata exchange of a magnet torrent: the peer actor's             *)
(* handle_extended_message and request_metadata with the PeerInfo buffer,  *)
(* a remote that serves BEP 9, and the torrent's info_bytes.  Metadata is  *)
(* the sequence of its pieces, and sizes are counted in pieces.            *)
(***************************************************************************)
EXTENDS Naturals, Sequences, SequencesExt

CONSTANTS MetadataPieces,  \* pieces of the info dictionary
          MaxOffers        \* extended handshakes the remote sends

ASSUME MetadataAssumption == MetadataPieces \in Nat \ {0} /\ MaxOffers \in Nat

Metadata == [i \in 1..MetadataPieces |-> i - 1]

VARIABLES connected,   \* the peer actor runs
          inbox,       \* extended messages from the remote
          requests,    \* metadata requests to the remote
          offers,      \* extended handshakes sent by the remote
          again,       \* one of them came before the metadata was complete
          refused,     \* the remote has rejected a request
          info_size, info_bytes,  \* PeerInfo
          told,        \* InfoBytes in the torrent's mailbox
          resolved     \* the torrent has its info dictionary

metadataVars == <<connected, inbox, requests, offers, again, refused, info_size,
                  info_bytes, told, resolved>>

MetadataInit ==
  /\ connected = TRUE /\ inbox = <<>> /\ requests = <<>> /\ offers = 0 /\ again = FALSE
  /\ refused = FALSE /\ info_size = 0 /\ info_bytes = <<>> /\ told = <<>>
  /\ resolved = FALSE

\* The remote (outside the program).
RemoteOffers ==
  /\ connected /\ offers < MaxOffers
  /\ offers' = offers + 1
  /\ again' = (again \/ (offers > 0 /\ Len(info_bytes) < MetadataPieces))
  /\ inbox' = Append(inbox, <<"Handshake">>)
  /\ UNCHANGED <<connected, requests, refused, info_size, info_bytes, told, resolved>>
RemoteAnswers ==
  /\ connected /\ requests # <<>>
  /\ requests' = Tail(requests)
  /\ \/ /\ Head(requests) < MetadataPieces
        /\ inbox' = Append(inbox, <<"Data", Head(requests)>>)
        /\ UNCHANGED refused
     \/ /\ inbox' = Append(inbox, <<"Reject">>)
        /\ refused' = TRUE
  /\ UNCHANGED <<connected, offers, again, info_size, info_bytes, told, resolved>>

append_to_bytes(piece) ==
  IF Len(info_bytes) + 1 <= info_size THEN Append(info_bytes, piece) ELSE info_bytes
have_all_bytes(size, bytes) == size > 0 /\ Len(bytes) >= size

\* A request for the piece just received.
request_metadataSame(size, bytes, piece) ==
  IF size > 0 /\ ~have_all_bytes(size, bytes)
    THEN Append(requests, IF piece = 0 THEN 0 ELSE piece - 1) ELSE requests
\* request_metadata with the size the buffer has by then.
request_metadata(size, bytes, piece) ==
  IF size > 0 /\ ~have_all_bytes(size, bytes) THEN Append(requests, piece) ELSE requests
\* The end of handle_extended_message, after every kind of message.
SendInfoBytesOnChange == told' = IF have_all_bytes(info_size', info_bytes')
                                      /\ info_size' # info_size
                                   THEN Append(told, info_bytes') ELSE told
SendInfoBytes == told' = IF have_all_bytes(info_size', info_bytes')
                           THEN Append(told, info_bytes') ELSE told

HandleHandshake ==
  /\ Head(inbox) = <<"Handshake">>
  /\ info_size' = IF resolved THEN info_size ELSE MetadataPieces
  /\ requests' = IF resolved THEN requests ELSE request_metadata(MetadataPieces, info_bytes, 0)
  /\ UNCHANGED info_bytes
HandleData ==
  /\ Head(inbox)[1] = "Data"
  /\ info_bytes' = append_to_bytes(Head(inbox)[2])
  /\ requests' = IF info_bytes' # info_bytes
                   THEN request_metadata(info_size, info_bytes', Head(inbox)[2] + 1)
                   ELSE requests
  /\ UNCHANGED info_size
HandleReject ==
  /\ Head(inbox) = <<"Reject">>
  /\ UNCHANGED <<info_size, info_bytes, requests>>

HandleExtended ==
  /\ connected /\ inbox # <<>>
  /\ HandleHandshake \/ HandleData \/ HandleReject
  /\ inbox' = Tail(inbox)
  /\ SendInfoBytes
  /\ UNCHANGED <<connected, offers, again, refused, resolved>>

\* info_bytes checks the hash: only the metadata, in order, has it.
TorrentInfoBytes ==
  /\ told # <<>>
  /\ told' = Tail(told)
  /\ resolved' = (resolved \/ Head(told) = Metadata)
  /\ UNCHANGED <<connected, inbox, requests, offers, again, refused, info_size, info_bytes>>

\* Another peer resolves the magnet; this connection is not told.
ResolvedElsewhere ==
  /\ ~resolved
  /\ resolved' = TRUE
  /\ UNCHANGED <<connected, inbox, requests, offers, again, refused, info_size,
                 info_bytes, told>>

\* The connection ends and is made again with an empty PeerInfo, later than
\* the torrent needs for the mail of the old one (a bound of the model).
Disconnects ==
  /\ connected
  /\ connected' = FALSE /\ inbox' = <<>> /\ requests' = <<>> /\ offers' = 0
  /\ again' = FALSE /\ refused' = FALSE /\ info_size' = 0 /\ info_bytes' = <<>>
  /\ UNCHANGED <<told, resolved>>
Connects ==
  /\ ~connected /\ told = <<>>
  /\ connected' = TRUE
  /\ UNCHANGED <<inbox, requests, offers, again, refused, info_size, info_bytes, told,
                 resolved>>

MetadataNext == RemoteOffers \/ RemoteAnswers \/ HandleExtended \/ TorrentInfoBytes
                  \/ ResolvedElsewhere \/ Disconnects \/ Connects
MetadataFairness == WF_metadataVars(RemoteAnswers) /\ WF_metadataVars(HandleExtended)
                      /\ WF_metadataVars(TorrentInfoBytes)
MetadataSpec == MetadataInit /\ [][MetadataNext]_metadataVars /\ MetadataFairness
----------------------------------------------------------------------------
\* The variables have their types.
MetadataTypeOK ==
  /\ connected \in BOOLEAN /\ offers \in 0..MaxOffers /\ resolved \in BOOLEAN
  /\ info_size \in {0, MetadataPieces}
  /\ \A i \in DOMAIN requests : requests[i] \in 0..MetadataPieces - 1
  /\ \A i \in DOMAIN info_bytes : info_bytes[i] \in 0..MetadataPieces - 1

(***************************************************************************)
(* The buffer of a peer holds the metadata from its start, in order, and   *)
(* never more of it than the size offered, although append_to_bytes does   *)
(* not look at the piece a data message names, unless the remote repeats   *)
(* its handshake while the metadata is on its way.                         *)
(***************************************************************************)
MetadataOrdered == ~again => IsPrefix(info_bytes, Metadata)

(***************************************************************************)
(* A remote that offers metadata and serves it resolves the magnet: no     *)
(* piece is skipped and the last one is handed to the torrent, or the      *)
(* connection ends, a request is rejected or the handshake is repeated.    *)
(***************************************************************************)
MetadataArrives == (offers > 0) ~> (resolved \/ again \/ refused \/ ~connected)

\* The metadata a peer actor hands to its torrent is assembled in order
\* (peer/info.rs, append_to_bytes; peer/actor.rs, request_metadata).
MetadataSound == MetadataTypeOK /\ MetadataOrdered
=============================================================================
