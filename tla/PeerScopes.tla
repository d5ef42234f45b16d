----------------------------- MODULE PeerScopes -----------------------------
(***************************************************************************)
(* The live scopes of one torrent's peers (live/hub.rs, live/handle.rs) and *)
(* the actors that open and close them: the torrent actor inserts peers,    *)
(* disconnects them, drops dead ones during a broadcast and handles the     *)
(* KillPeer each peer actor sends when it ends; a crash of the torrent      *)
(* closes all scopes; the removal of the torrent, by a client or by the     *)
(* engine, closes the rest, in the last case while the torrent still runs.  *)
(* A peer is known by its id, a connection of it (actor and handle) by a    *)
(* number.                                                                  *)
(***************************************************************************)
EXTENDS Naturals

CONSTANTS PeerIds, MaxConnections, MaxTorrentCrashes

ASSUME PeerScopesAssumption == MaxConnections \in Nat /\ MaxTorrentCrashes \in Nat

Connections == 1..MaxConnections
NoPeer == 0

VARIABLES
    torrent,     \* the torrent actor: running, down (to be restarted), stopped
    peers,       \* TorrentActor.peers
    idOf,        \* the peer a connection belongs to
    actor,       \* the peer actor of a connection
    listed,      \* TorrentScope.peers
    shut,        \* connections whose publisher is closed
    killed,      \* KillPeer messages in the torrent's mailbox
    disconnects, \* PeerDisconnected events told
    torrentScope, \* the torrent's own scope; its handle is set when registered
    teardown,    \* why the scope goes, then how far its removal is
    doomed,      \* the peer scopes the removal has collected
    ending,      \* stop or kill on its way to the torrent actor
    late,        \* history: connections made after the collection
    torrentCrashes

teardownVars == <<torrentScope, teardown, doomed>>
peerScopeVars == <<torrent, peers, idOf, actor, listed, shut, killed, disconnects,
                   teardownVars, ending, late, torrentCrashes>>

\* The variables have their types; both registries file a connection under its
\* own peer id (torrent/swarm.rs, insert_peer; live/hub.rs, register_peer_scope).
PeerScopesTypeOK ==
    /\ torrent \in {"running", "down", "stopped"}
    /\ peers \in [PeerIds -> Connections \cup {NoPeer}]
    /\ listed \in [PeerIds -> Connections \cup {NoPeer}]
    /\ actor \in [Connections -> {"unborn", "running", "ending", "ended"}]
    /\ \A p \in PeerIds : /\ peers[p] # NoPeer => idOf[peers[p]] = p
                          /\ listed[p] # NoPeer => idOf[listed[p]] = p
    /\ shut \cup killed \subseteq {i \in Connections : actor[i] # "unborn"}
    /\ torrentScope \in {"none", "open", "registered", "closed"}
    /\ teardown \in {"none", "remove", "discard", "rollback", "collected", "closed", "done"}
    /\ disconnects \in [Connections -> Nat]

PeerScopesInit ==
    /\ torrent = "running" /\ torrentScope = "open" /\ teardown = "none" /\ doomed = {}
    /\ peers = [p \in PeerIds |-> NoPeer] /\ listed = peers
    /\ idOf = [i \in Connections |-> CHOOSE p \in PeerIds : TRUE]
    /\ actor = [i \in Connections |-> "unborn"]
    /\ shut = {} /\ killed = {}
    /\ disconnects = [i \in Connections |-> 0]
    /\ ending = "none" /\ late = {} /\ torrentCrashes = 0

\* emit_without_torrent_view_change: nothing is told before the engine has
\* registered the torrent's handle, nor once the scope is closed or gone.
Emits == torrentScope = "registered"

\* PeerHandle::disconnected and Hub::mark_peer_disconnected, which takes the
\* scope out by the id of the peer.
Disconnected(i) ==
    LET first == i \notin shut
        held == listed[idOf[i]] # NoPeer
    IN /\ shut' = shut \cup {i}
       /\ listed' = IF first THEN [listed EXCEPT ![idOf[i]] = NoPeer] ELSE listed
       /\ disconnects' = IF first /\ held /\ Emits
                         THEN [disconnects EXCEPT ![i] = @ + 1] ELSE disconnects

\* remove_peer kills whatever actor has the id now.
Killed(i) == IF i = NoPeer THEN actor
             ELSE [actor EXCEPT ![i] = IF @ = "running" THEN "ending" ELSE @]
RemovePeerActorOnly(p) == peers' = [peers EXCEPT ![p] = NoPeer] /\ UNCHANGED actor
RemovePeerActor(p) == peers' = [peers EXCEPT ![p] = NoPeer] /\ actor' = Killed(peers[p])

-----------------------------------------------------------------------------
(* The torrent actor.                                                       *)

\* get_or_insert_with: a torrent without a scope gets one, not registered.
EnsureScope == torrentScope' = IF torrentScope = "none" THEN "open" ELSE torrentScope

\* insert_peer
InsertPeer(p) ==
    LET unborn == {k \in Connections : actor[k] = "unborn"}
        i == CHOOSE k \in unborn : TRUE
    IN
    /\ torrent = "running" /\ peers[p] = NoPeer /\ unborn # {}
    /\ idOf' = [idOf EXCEPT ![i] = p] /\ actor' = [actor EXCEPT ![i] = "running"]
    /\ peers' = [peers EXCEPT ![p] = i] /\ listed' = [listed EXCEPT ![p] = i]
    /\ late' = IF teardown \in {"collected", "closed", "done"} THEN late \cup {i} ELSE late
    /\ EnsureScope
    /\ UNCHANGED <<torrent, shut, killed, disconnects, teardown, doomed, ending,
                   torrentCrashes>>

\* A KillPeer that waits while another actor, or none, has the id.
HandleKillPeerCurrent(i) ==
    /\ torrent = "running" /\ i \in killed /\ killed' = killed \ {i}
    /\ peers[idOf[i]] = i
    /\ RemovePeerActor(idOf[i]) /\ Disconnected(i)
    /\ UNCHANGED <<torrent, idOf, teardownVars, ending, late, torrentCrashes>>
\* kill_peer
HandleKillPeer(i) ==
    /\ torrent = "running" /\ i \in killed /\ killed' = killed \ {i}
    /\ RemovePeerActor(idOf[i]) /\ Disconnected(i)
    /\ UNCHANGED <<torrent, idOf, teardownVars, ending, late, torrentCrashes>>

\* disconnect_peer, with a handle the caller may have kept for long.
DisconnectPeer(i) ==
    /\ torrent = "running" /\ actor[i] # "unborn" /\ peers[idOf[i]] # NoPeer
    /\ RemovePeerActor(idOf[i]) /\ Disconnected(i)
    /\ UNCHANGED <<torrent, idOf, killed, teardownVars, ending, late, torrentCrashes>>

\* broadcast_to_peers and its best-effort form drop the dead, and the scope
\* stays.
Broadcast ==
    LET dead == {p \in PeerIds : peers[p] # NoPeer /\ actor[peers[p]] = "ended"} IN
    /\ torrent = "running" /\ dead # {}
    /\ peers' = [p \in PeerIds |-> IF p \in dead THEN NoPeer ELSE peers[p]]
    /\ UNCHANGED <<torrent, idOf, actor, listed, shut, killed, disconnects,
                   teardownVars, ending, late, torrentCrashes>>

ListedScopes == {listed[p] : p \in PeerIds} \ {NoPeer}

AllKilled == [i \in Connections |->
                 IF actor[i] = "running" /\ peers[idOf[i]] = i THEN "ending" ELSE actor[i]]

\* on_stop after a panic or a kill: close_peer_scopes_for_torrent_restart, then
\* the peer actors are killed.
TorrentCrashes ==
    /\ torrent = "running" /\ torrent' = "down"
    /\ \/ ending = "kill" /\ ending' = "none" /\ UNCHANGED torrentCrashes
       \/ /\ torrentCrashes < MaxTorrentCrashes /\ torrentCrashes' = torrentCrashes + 1
          /\ UNCHANGED ending
    /\ shut' = shut \cup ListedScopes
    /\ listed' = [p \in PeerIds |-> NoPeer]
    /\ actor' = AllKilled
    /\ UNCHANGED <<peers, idOf, killed, disconnects, teardownVars, late>>

\* The supervisor restarts it; on_start initializes its projection.
TorrentRestarts ==
    /\ torrent = "down" /\ torrent' = "running" /\ EnsureScope
    /\ peers' = [p \in PeerIds |-> NoPeer]
    /\ UNCHANGED <<idOf, actor, listed, shut, killed, disconnects, teardown, doomed,
                   ending, late, torrentCrashes>>

\* on_stop after stop_gracefully: what is in the mailbox is lost.
TorrentEnds ==
    /\ torrent = "running" /\ ending = "stop" /\ torrent' = "stopped"
    /\ actor' = AllKilled /\ killed' = {}
    /\ UNCHANGED <<peers, idOf, listed, shut, disconnects, teardownVars, ending, late,
                   torrentCrashes>>

-----------------------------------------------------------------------------
(* The engine and its clients.                                              *)

engineSide == <<torrent, peers, idOf, actor, killed, disconnects, late,
                torrentCrashes>>

\* register_torrent_scope, the last step of create_torrent.
RegisterScope ==
    /\ torrentScope = "open" /\ teardown = "none" /\ torrentScope' = "registered"
    /\ UNCHANGED <<engineSide, listed, shut, teardown, doomed, ending>>

\* remove_torrent (or the engine's shutdown), discard_failed_torrent, and the
\* roll back of restore_engine.
BeginRemoval ==
    /\ teardown = "none"
    /\ \/ torrentScope = "registered" /\ teardown' = "remove" /\ ending' = "stop"
       \/ torrentScope = "open" /\ teardown' = "discard" /\ ending' = "stop"
       \/ torrentScope = "registered" /\ teardown' = "rollback"
          /\ ending' = IF torrent = "running" THEN "kill" ELSE ending
    /\ UNCHANGED <<engineSide, listed, shut, torrentScope, doomed>>

\* remove_torrent_scope: the peer scopes are collected and closed, then the
\* torrent's own, then its key is taken out.  Only remove_torrent has waited
\* for the torrent actor to end.
CollectScopes ==
    /\ teardown \in {"remove", "discard", "rollback"}
    /\ teardown = "remove" => torrent # "running"
    /\ teardown' = "collected" /\ doomed' = ListedScopes
    /\ UNCHANGED <<engineSide, listed, shut, torrentScope, ending>>

CloseScopes ==
    /\ teardown = "collected" /\ teardown' = "closed"
    /\ shut' = shut \cup doomed /\ torrentScope' = "closed" /\ doomed' = {}
    /\ UNCHANGED <<engineSide, listed, ending>>

UnlistTorrent ==
    /\ teardown = "closed" /\ teardown' = "done"
    /\ torrentScope' = "none" /\ listed' = [p \in PeerIds |-> NoPeer]
    /\ UNCHANGED <<engineSide, shut, doomed, ending>>

-----------------------------------------------------------------------------
(* The peer actors.                                                         *)

\* The stream fails, the peer stays silent, or a panic ends the actor.
PeerFails(i) ==
    /\ actor[i] = "running"
    /\ actor' = [actor EXCEPT ![i] = "ending"]
    /\ UNCHANGED <<torrent, peers, idOf, listed, shut, killed, disconnects,
                   teardownVars, ending, late, torrentCrashes>>

\* on_stop: KillPeer, which a torrent that stopped no longer takes.
PeerEnds(i) ==
    /\ actor[i] = "ending" /\ actor' = [actor EXCEPT ![i] = "ended"]
    /\ \/ torrent # "stopped" /\ killed' = killed \cup {i}
       \/ torrent # "running" /\ UNCHANGED killed
    /\ UNCHANGED <<torrent, peers, idOf, listed, shut, disconnects, teardownVars,
                   ending, late, torrentCrashes>>

RemovalStep == CollectScopes \/ CloseScopes \/ UnlistTorrent

PeerScopesNext ==
    \/ Broadcast \/ TorrentCrashes \/ TorrentRestarts \/ TorrentEnds
    \/ RegisterScope \/ BeginRemoval \/ RemovalStep
    \/ \E p \in PeerIds : InsertPeer(p)
    \/ \E i \in Connections :
           \/ HandleKillPeer(i) \/ DisconnectPeer(i) \/ PeerFails(i) \/ PeerEnds(i)
    \/ teardown = "done" /\ killed = {} /\ (\A i \in Connections : actor[i] # "running")
       /\ UNCHANGED peerScopeVars

\* Tasks run; nothing is assumed of the supervisor, whose restarts are limited.
PeerScopesFairness ==
    /\ WF_peerScopeVars(RemovalStep) /\ WF_peerScopeVars(TorrentEnds)
    /\ WF_peerScopeVars(\E i \in Connections : PeerEnds(i))
    /\ SF_peerScopeVars(\E i \in Connections : HandleKillPeer(i))

-----------------------------------------------------------------------------
(* Properties.                                                              *)

PeerGone(i) == actor[i] = "ended" /\ i \notin killed

\* No scope outlives its connection: one that is open and listed belongs to an
\* actor that runs, or that is ending and has its KillPeer still to be handled,
\* for as long as the torrent is there to handle it (live/hub.rs,
\* mark_peer_disconnected; peer/actor.rs, on_stop).
NoZombieScope ==
    torrent # "stopped" /\ teardown # "closed" =>
        \A p \in PeerIds : listed[p] # NoPeer => listed[p] \notin shut /\ ~PeerGone(listed[p])

\* The torrent counts a connection whose actor is gone only until the next
\* broadcast, and never one that the torrent itself has let go: an actor that
\* runs without being in TorrentActor.peers is on its way out.
RunningIsCounted ==
    torrent = "running" =>
        \A i \in Connections : actor[i] = "running" => peers[idOf[i]] = i

\* A connection is told to have ended at most once, however many KillPeers,
\* disconnects with kept handles and removals meet, and only when its own stream
\* is closed (live/handle.rs, disconnected).  Whether it was told to have come
\* is another matter: a peer that connects before create_torrent has registered
\* the torrent is not announced.
DisconnectOnce ==
    \A i \in Connections : disconnects[i] = 0 \/ (disconnects[i] = 1 /\ i \in shut)

\* A peer that came back before the KillPeer of its first connection was handled
\* has replaced its scope in the registry.
Replaced(i) == \E k \in Connections \ {i} : actor[k] # "unborn" /\ idOf[k] = idOf[i]

\* Teardown closes every scope (live/mod.rs, internal invariants), but for one
\* that was replaced, which the registry no longer knows, and those that the
\* torrent, still running, made after the removal had collected them.
TeardownClosesAll ==
    teardown \in {"closed", "done"} =>
        \A i \in Connections \ late : actor[i] # "unborn" => i \in shut \/ Replaced(i)

\* Made after the collection, and left to nobody: dropped with the torrent's
\* scope, or in a scope that a torrent made anew before it stopped.
Orphaned(i) == i \in late /\ (torrent = "stopped" \/ listed[idOf[i]] # i)

\* The stream of a peer whose actor failed is closed in the end, by KillPeer,
\* by the torrent's restart or by its removal, unless the scope was replaced or
\* made while the torrent was being removed.
PeerStreamEnds ==
    []<>(\A i \in Connections :
             actor[i] \in {"ending", "ended"} => i \in shut \/ Replaced(i) \/ Orphaned(i))

PeerScopesSpec == PeerScopesInit /\ [][PeerScopesNext]_peerScopeVars /\ PeerScopesFairness

\* What the live view shows of a torrent's peers follows their connections,
\* through reconnections, crashes and removal (live/hub.rs).
PeerScopesSound ==
    /\ PeerScopesTypeOK /\ NoZombieScope /\ RunningIsCounted
    /\ DisconnectOnce /\ TeardownClosesAll
=============================================================================
