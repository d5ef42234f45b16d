----------------------------- MODULE MCTorrent -----------------------------
(***************************************************************************)
(* What a torrent actor keeps, checked in one run: its piece scheduler,    *)
(* with the request loop as it is written, its choking scheduler, what it  *)
(* stores, snapshots and restores, and its trackers with their live        *)
(* scopes.  A behaviour moves one of the four and leaves the others at     *)
(* rest.                                                                   *)
(***************************************************************************)
EXTENDS RequestLoop, Choking, Snapshots, TrackerScopes

VARIABLE part   \* the part this behaviour is about

Budget(arrival, extra, fault, change, save, end) ==
  [e \in Events |-> CASE e = "arrival" -> arrival [] e = "late" -> extra
                      [] e = "fault" -> fault [] e = "change" -> change
                      [] e = "save" -> save [] e = "end" -> end]
TwoPieces == [piece_length |-> 4, files |-> <<3, 0, 2>>, hashes |-> <<1, 2>>]
Twins == [piece_length |-> 4, files |-> <<8>>, hashes |-> <<1, 1>>]
Single == [piece_length |-> 3, files |-> <<5>>, hashes |-> <<1, 2>>]
Added(i, m, storages, outs, b) ==
  [info : {i}, magnet : {m}, storage : storages, out : outs, dirs : {Dirs}, budget : {b}]
MCStarts ==
  \* a late block, a fault, a snapshot and an end
  Added(TwoPieces, FALSE, {"InFile", "Disk"}, {1}, Budget(4, 1, 0, 0, 1, 1))
  \cup Added(TwoPieces, FALSE, {"InFile", "Disk"}, {1}, Budget(4, 0, 1, 0, 1, 1))
  \cup Added(Twins, FALSE, {"Disk"}, {1}, Budget(5, 1, 1, 0, 0, 0))
  \cup Added(Single, FALSE, {"InFile"}, {1}, Budget(3, 0, 1, 0, 1, 1))
  \* changes of storage, folder and manager
  \cup Added(TwoPieces, FALSE, {"InFile"}, {1, NoDir}, Budget(2, 0, 0, 2, 1, 1))
  \cup Added(TwoPieces, FALSE, {"Disk"}, {1}, Budget(2, 0, 0, 2, 1, 1))
  \cup Added(TwoPieces, TRUE, {"InFile"}, {1}, Budget(3, 0, 0, 0, 2, 2))

\* The scheduler treats the peers alike.
PeerSymmetry == Permutations(Peer)

MCInit ==
  /\ part \in {"scheduler", "choking", "snapshots", "trackers"}
  /\ Init
  /\ ChokingInit
  /\ part # "choking" => /\ env = CHOOSE e \in Envs : TRUE
                         /\ interested = {} /\ \A p \in Leecher : rate[p] = 0
  /\ SnapInit /\ (part # "snapshots" => magnet)
  /\ TrackerScopesInit

MCNext ==
  /\ UNCHANGED part
  /\ \/ part = "scheduler" /\ Next /\ UNCHANGED <<chokingVars, snapVars, trackerScopeVars>>
     \/ part = "choking" /\ ChokingNext /\ UNCHANGED <<sched, snapVars, trackerScopeVars>>
     \/ part = "snapshots" /\ SnapNext /\ UNCHANGED <<sched, chokingVars, trackerScopeVars>>
     \/ part = "trackers" /\ TrackerScopesNext /\ UNCHANGED <<sched, chokingVars, snapVars>>

MCSpec == MCInit /\ [][MCNext]_<<part, sched, chokingVars, snapVars, trackerScopeVars>>
=============================================================================
