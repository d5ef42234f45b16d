----------------------------- MODULE MCDownload -----------------------------
(***************************************************************************)
(* How a torrent finds peers without trackers and downloads from them,      *)
(* checked in one run: the three parts of the DHT service, and the flow of  *)
(* pieces.  They share no state but through calls each part's module        *)
(* already models as choices, so a behaviour moves one part and the run     *)
(* covers the sum of them.                                                  *)
(***************************************************************************)
EXTENDS DhtTable, DhtActor, DhtLookup, PieceFlow

VARIABLE part   \* the part this behaviour is about

EverythingEverywhere == [p \in Peer |-> Piece]
MCAddr == <<"a", "b", "a">>
MCReplies == {[nodes |-> Nodes, peers |-> {}, token |-> TRUE, ok |-> TRUE],
              [nodes |-> {}, peers |-> Peers, token |-> FALSE, ok |-> TRUE]}
MCFaults == {[aborts |-> 1, stale |-> 0], [aborts |-> 0, stale |-> 1]}

MCInit ==
  /\ part \in {"table", "actor", "lookup", "flow"}
  /\ TableInit /\ DhtInit /\ LookupInit /\ Init
  /\ part # "lookup" => faults.aborts = 0
  /\ part # "table" => traffic = {"get", "announce", "tick"}

MCNext ==
  /\ UNCHANGED part
  /\ \/ part = "table" /\ TableNext /\ UNCHANGED <<dhtVars, lookupVars, vars>>
     \/ part = "actor" /\ DhtNext /\ UNCHANGED <<tableVars, lookupVars, vars>>
     \/ part = "lookup" /\ LookupNext /\ UNCHANGED <<tableVars, dhtVars, vars>>
     \/ part = "flow" /\ Next /\ UNCHANGED <<tableVars, dhtVars, lookupVars>>

\* The fairness of each part.  The parts of the DHT have nothing under way while
\* they rest; the torrent could start, so its fairness says that it moves.
MCFairness ==
  /\ DhtFairness /\ LookupFairness
  /\ WF_vars(part = "flow" /\ Continue)
  /\ SF_vars(part = "flow" /\ HandleMessage)
  /\ SF_vars(part = "flow" /\ Start)
  /\ SF_vars(part = "flow" /\ \E p \in Peer : PeerConnected(p))
  /\ \A p \in Peer :
       /\ WF_vars(part = "flow" /\ (HandleNeedPiece(p) \/ HandleCancelPiece(p)))
       /\ WF_vars(part = "flow" /\ RecvBitfield(p))
       /\ WF_vars(part = "flow" /\ \E x \in Slot : RecvPiece(p, x, "good"))

MCSpec ==
  /\ MCInit /\ [][MCNext]_<<part, tableVars, dhtVars, lookupVars, vars>> /\ MCFairness

\* A torrent whose peers have every piece and answer is downloaded, whatever
\* requests expire on the way (torrent/piece_flow.rs): DownloadCompletes, where
\* it is the torrent that moves.
TorrentDownloads == part = "flow" => DownloadCompletes
=============================================================================
