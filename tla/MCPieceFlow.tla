------------------------------ MODULE MCPieceFlow ------------------------------
(* Instances of PieceFlow for TLC. *)
EXTENDS PieceFlow, TLC

EverythingEverywhere == [p \in Peer |-> Piece]

\* Sound for the safety runs: every peer has the same pieces.
PeerSymmetry == Permutations(Peer)

=============================================================================
