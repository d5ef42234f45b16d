---------------------------- MODULE TrackerScopes ----------------------------
(***************************************************************************)
(* The live scopes of one torrent's trackers (live/hub.rs, live/handle.rs)  *)
(* under the actors that share them: a tracker scope outlives restarts of   *)
(* its tracker actor and of the torrent actor, while the on_stop of an      *)
(* earlier tracker actor may still be waiting for the network.  A tracker   *)
(* actor that is not started again stays in the registry until the next     *)
(* message to all trackers drops it, and its scope stays open; the engine   *)
(* takes the torrent's scope away, at times while the torrent still runs.   *)
(***************************************************************************)
EXTENDS Naturals, FiniteSets

CONSTANTS Sources, Declared, MaxTrackerActors, MaxFailures

ASSUME DeclaredAssumption == Declared \subseteq Sources

TrackerActors == 1..MaxTrackerActors
Absent == 0

VARIABLES
    owner,       \* the torrent actor: starting, running, down, stopped
    registry,    \* TorrentActor.trackers
    source,      \* the tracker an actor announces to
    handle,      \* the scope an actor publishes to
    tracker,     \* the life of a tracker actor
    scopes,      \* TorrentScope.trackers
    made,        \* scopes made: next_tracker_id
    state,       \* TrackerStatus of each scope
    ended,       \* closed scopes
    stops,       \* TrackerStopped events of the torrent's stream
    parent,      \* the torrent's own scope, and how far its removal is
    condemned,   \* the tracker scopes the removal has collected
    present,     \* history: the scopes made when it collected them
    failures

parentVars == <<parent, condemned, present>>
trackerScopeVars == <<owner, registry, source, handle, tracker, scopes, made, state,
                      ended, stops, parentVars, failures>>

Statuses == {"Pending", "Healthy", "Degraded", "Restarting", "Stopped"}

\* The variables have the types of the registry and of the hub's scopes
\* (live/hub.rs, register_tracker_scope).
TrackerScopesTypeOK ==
    /\ owner \in {"starting", "running", "down", "stopped"}
    /\ registry \in [Sources -> TrackerActors \cup {Absent}]
    /\ tracker \in [TrackerActors -> {"unborn", "starting", "running", "failed", "killed",
                                      "stopping", "gone"}]
    /\ scopes \in [Sources -> 0..made] /\ state \in [1..made -> Statuses]
    /\ ended \cup condemned \subseteq 1..made /\ present \in 0..made
    /\ parent \in {"open", "registered", "collected", "closed", "removed"}

FreshActor == 1 + Cardinality({k \in TrackerActors : tracker[k] # "unborn"})

TrackerScopesInit ==
    /\ owner = "starting" /\ registry = [s \in Sources |-> Absent]
    /\ source = [k \in TrackerActors |-> CHOOSE s \in Sources : TRUE]
    /\ handle = [k \in TrackerActors |-> Absent]
    /\ tracker = [k \in TrackerActors |-> "unborn"]
    /\ scopes = [s \in Sources |-> Absent] /\ made = 0 /\ state = [i \in 1..0 |-> "Pending"]
    /\ ended = {} /\ stops = [i \in 1..0 |-> 0] /\ failures = 0
    /\ parent = "open" /\ condemned = {} /\ present = 0

\* A publication to a scope: rejected once it is closed.
Published(i, status) == IF i \in ended THEN state ELSE [state EXCEPT ![i] = status]

\* emit_without_torrent_view_change: the torrent's listeners hear of it from
\* register_torrent_scope on, and until its publisher is closed.
Heard == parent \in {"registered", "collected"}

\* A stop that takes out whatever scope its tracker has now.
TrackerStoppedBySource(i) ==
    /\ ended' = ended \cup {i} /\ state' = Published(i, "Stopped")
    /\ scopes' = [s \in Sources |->
                     IF \E k \in TrackerActors : handle[k] = i /\ source[k] = s
                     THEN Absent ELSE scopes[s]]
    /\ stops' = IF i \notin ended /\ Heard THEN [stops EXCEPT ![i] = @ + 1] ELSE stops
\* TrackerHandle::stopped: closed once, told once, and taken out of the registry
\* only where the registry still holds this very scope.
TrackerStopped(i) ==
    /\ ended' = ended \cup {i} /\ state' = Published(i, "Stopped")
    /\ scopes' = [s \in Sources |-> IF scopes[s] = i THEN Absent ELSE scopes[s]]
    /\ stops' = IF i \notin ended /\ Heard THEN [stops EXCEPT ![i] = @ + 1] ELSE stops

-----------------------------------------------------------------------------
(* The torrent actor.                                                       *)

\* Bound: actors kept for the restarts to come.
ForRestarts == Cardinality(Declared) * (MaxFailures - failures)

\* register_tracker_actor and register_tracker_scope.
AddTracker(s) ==
    LET reused == scopes[s] # Absent /\ scopes[s] \notin ended
        i == IF reused THEN scopes[s] ELSE made + 1
        k == FreshActor
    IN /\ \/ owner = "starting" /\ s \in Declared
          \/ owner = "running" /\ k + ForRestarts \in TrackerActors
       /\ registry[s] = Absent
       /\ scopes' = [scopes EXCEPT ![s] = i]
       /\ IF reused THEN UNCHANGED <<made, state, stops>>
          ELSE /\ made' = made + 1
               /\ state' = [j \in 1..made + 1 |-> IF j = i THEN "Pending" ELSE state[j]]
               /\ stops' = [j \in 1..made + 1 |-> IF j = i THEN 0 ELSE stops[j]]
       /\ registry' = [registry EXCEPT ![s] = k] /\ source' = [source EXCEPT ![k] = s]
       /\ handle' = [handle EXCEPT ![k] = i] /\ tracker' = [tracker EXCEPT ![k] = "starting"]
       /\ UNCHANGED <<owner, ended, parentVars, failures>>

\* remove_tracker.  An actor that ends before it is told to stop makes it
\* return early, with the scope left as it is.
HandleRemoveTracker(s) ==
    LET k == registry[s] IN
    /\ owner = "running" /\ k # Absent
    /\ registry' = [registry EXCEPT ![s] = Absent]
    /\ tracker' = [tracker EXCEPT ![k] =
                      IF @ \in {"starting", "running"} THEN "stopping" ELSE @]
    /\ \/ scopes[s] # Absent /\ TrackerStopped(scopes[s])
       \/ /\ scopes[s] = Absent \/ tracker[k] = "failed"
          /\ UNCHANGED <<ended, state, scopes, stops>>
    /\ UNCHANGED <<owner, source, handle, made, parentVars, failures>>

\* update_trackers, its best-effort form and broadcast_to_trackers drop the
\* actors that are gone; their scopes stay.
PruneTrackers ==
    LET dead == {s \in Sources : registry[s] # Absent /\ tracker[registry[s]] = "gone"} IN
    /\ owner = "running" /\ dead # {}
    /\ registry' = [s \in Sources |-> IF s \in dead THEN Absent ELSE registry[s]]
    /\ UNCHANGED <<owner, source, handle, tracker, scopes, made, state, ended, stops,
                   parentVars, failures>>

\* An actor killed while it starts has no on_stop.
AllTrackersKilled ==
    tracker' = [k \in TrackerActors |->
                   IF registry[source[k]] # k THEN tracker[k]
                   ELSE CASE tracker[k] = "running" -> "killed"
                          [] tracker[k] = "starting" -> "gone"
                          [] OTHER -> tracker[k]]

\* on_stop of the torrent actor, abnormal and normal.
OwnerEnds ==
    /\ owner = "running" /\ AllTrackersKilled
    /\ \/ owner' = "down" /\ failures < MaxFailures /\ failures' = failures + 1
       \/ owner' = "stopped" /\ UNCHANGED failures
    /\ UNCHANGED <<registry, source, handle, scopes, made, state, ended, stops, parentVars>>

\* on_start registers the declared trackers, one after the other, and knows
\* nothing of those added since.
OwnerRestarts ==
    /\ owner = "down" /\ owner' = "starting"
    /\ registry' = [s \in Sources |-> Absent]
    /\ UNCHANGED <<source, handle, tracker, scopes, made, state, ended, stops, parentVars,
                   failures>>

\* The torrent answers messages once on_start has returned.
OwnerStarted ==
    /\ owner = "starting" /\ owner' = "running"
    /\ \A s \in Declared : registry[s] # Absent
    /\ UNCHANGED <<registry, source, handle, tracker, scopes, made, state, ended, stops,
                   parentVars, failures>>

-----------------------------------------------------------------------------
(* The engine, which may give up a torrent that still runs or restarts.     *)

\* register_torrent_scope, the last step of create_torrent.
RegisterTorrent ==
    /\ parent = "open" /\ parent' = "registered"
    /\ UNCHANGED <<owner, registry, source, handle, tracker, scopes, made, state, ended, stops,
                   condemned, present, failures>>

\* remove_torrent_scope collects the trackers' scopes,
CollectTrackers ==
    /\ parent \in {"open", "registered"} /\ parent' = "collected"
    /\ condemned' = {scopes[s] : s \in Sources} \ {Absent} /\ present' = made
    /\ UNCHANGED <<owner, registry, source, handle, tracker, scopes, made, state, ended, stops,
                   failures>>

\* closes them (close_without_parent_event) and then the torrent's own,
CloseTrackers ==
    /\ parent = "collected" /\ parent' = "closed"
    /\ ended' = ended \cup condemned /\ condemned' = {}
    /\ state' = [i \in 1..made |-> IF i \in condemned \ ended THEN "Stopped" ELSE state[i]]
    /\ scopes' = [s \in Sources |-> IF scopes[s] \in condemned THEN Absent ELSE scopes[s]]
    /\ UNCHANGED <<owner, registry, source, handle, tracker, made, stops, present, failures>>

\* and drops that with whatever it holds; a torrent that goes on makes another.
DropTorrentScope ==
    /\ parent = "closed" /\ parent' = "removed"
    /\ scopes' = [s \in Sources |-> Absent]
    /\ UNCHANGED <<owner, registry, source, handle, tracker, made, state, ended, stops,
                   condemned, present, failures>>

-----------------------------------------------------------------------------
(* The tracker actors.                                                      *)

\* on_start has returned.
TrackerStarted(k) ==
    /\ tracker[k] = "starting" /\ tracker' = [tracker EXCEPT ![k] = "running"]
    /\ UNCHANGED <<owner, registry, source, handle, scopes, made, state, ended, stops,
                   parentVars, failures>>

\* on_start fails, and not for the first time: the supervisor has granted the
\* restarts of its period.  (A start that fails and is tried again changes
\* nothing here.)
TrackerGivenUp(k) ==
    /\ tracker[k] = "starting" /\ tracker' = [tracker EXCEPT ![k] = "gone"]
    /\ UNCHANGED <<owner, registry, source, handle, scopes, made, state, ended, stops,
                   parentVars, failures>>

\* announce_succeeded and announce_failed
TrackerAnnounces(k) ==
    /\ tracker[k] = "running"
    /\ \E status \in {"Healthy", "Degraded"} :
           /\ status # state[handle[k]] /\ state' = Published(handle[k], status)
           /\ state' # state
    /\ UNCHANGED <<owner, registry, source, handle, tracker, scopes, made, ended, stops,
                   parentVars, failures>>

TrackerFails(k) ==
    /\ tracker[k] = "running" /\ failures < MaxFailures /\ failures' = failures + 1
    /\ tracker' = [tracker EXCEPT ![k] = "failed"]
    /\ UNCHANGED <<owner, registry, source, handle, scopes, made, state, ended, stops,
                   parentVars>>

\* The end of on_stop, after the tracker was told or the stop timed out: an
\* actor that failed by itself is started again with the same handle, unless
\* it is out of restarts for the period.
OnStopEnds(k) ==
    /\ tracker[k] \in {"failed", "killed", "stopping"}
    /\ \/ /\ tracker[k] = "failed" /\ owner = "running" /\ registry[source[k]] = k
          /\ tracker' = [tracker EXCEPT ![k] = "starting"]
       \/ tracker' = [tracker EXCEPT ![k] = "gone"]
    /\ IF tracker[k] = "stopping" THEN TrackerStopped(handle[k])
       ELSE state' = Published(handle[k], "Restarting") /\ UNCHANGED <<scopes, ended, stops>>
    /\ UNCHANGED <<owner, registry, source, handle, made, parentVars, failures>>

TrackerScopesNext ==
    \/ OwnerEnds \/ OwnerRestarts \/ OwnerStarted \/ PruneTrackers
    \/ RegisterTorrent \/ CollectTrackers \/ CloseTrackers \/ DropTorrentScope
    \/ \E s \in Sources : AddTracker(s) \/ HandleRemoveTracker(s)
    \/ \E k \in TrackerActors : \/ TrackerStarted(k) \/ TrackerGivenUp(k)
                                  \/ TrackerAnnounces(k) \/ TrackerFails(k) \/ OnStopEnds(k)
    \/ parent = "removed" /\ UNCHANGED trackerScopeVars

-----------------------------------------------------------------------------
(* Properties.                                                              *)

Kept == parent \in {"open", "registered"}

\* Until the engine removes the torrent, a configured tracker is listed with the
\* scope its actor publishes to, and that scope is open, whatever an earlier
\* actor of the same tracker still has to say (live/hub.rs,
\* register_tracker_scope and remove_tracker_scope).  The converse fails: a
\* tracker that was dropped, or added and forgotten in a restart of the torrent,
\* is listed and not configured.
ConfiguredIsListed ==
    owner \in {"starting", "running"} /\ Kept =>
        \A s \in Sources :
            LET k == registry[s] IN
            k # Absent => scopes[s] = handle[k] /\ handle[k] \notin ended

\* A scope says Stopped exactly when it is closed, and the torrent's listeners
\* hear of it at most once (live/handle.rs, stopped).
StoppedOnce ==
    \A i \in 1..made : /\ (state[i] = "Stopped") = (i \in ended)
                       /\ stops[i] <= 1 /\ (stops[i] = 1 => i \in ended)

\* The removal of the torrent finds every scope that is open: none is taken out
\* of the list, replaced in it or forgotten by a restart while it is still open
\* (live/hub.rs, remove_torrent_scope).
OpenIsListed ==
    Kept => \A i \in 1..made : i \in ended \/ \E s \in Sources : scopes[s] = i

\* Once the torrent's scope is closed no stream of a tracker made before its
\* removal began is left open, whatever the torrent does meanwhile.  (Those that
\* a torrent still running makes later are its own affair.)
RemovalEndsStreams ==
    parent \in {"closed", "removed"} => 1..present \subseteq ended

TrackerScopesSpec == TrackerScopesInit /\ [][TrackerScopesNext]_trackerScopeVars

\* The live view shows every tracker a torrent has, each with its own stream,
\* which ends once and is not lost, through restarts, removals and late ends of
\* actors (live/hub.rs).
TrackerScopesSound ==
    /\ TrackerScopesTypeOK /\ ConfiguredIsListed /\ StoppedOnce
    /\ OpenIsListed /\ RemovalEndsStreams
=============================================================================
