----------------------------- MODULE MCTrackers -----------------------------
(* The instance of Trackers for TLC. *)
EXTENDS Trackers

\* Most happens with one HTTP tracker; two UDP trackers share the socket.
MCMaxOps == [c \in Configured |-> IF c \subseteq Http THEN 2 ELSE IF c = Udp THEN 0 ELSE 1]

MCSpec == TrackersSpec /\ TrackersFairness
=============================================================================
