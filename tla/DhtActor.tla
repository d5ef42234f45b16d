------------------------------ MODULE DhtActor ------------------------------
(***************************************************************************)
(* The DHT actor (dht/actor.rs, dht/messages.rs): the torrents registered  *)
(* with it, and the tasks it spawns for them (a lookup, the sleep before   *)
(* the next lookup, an announcement).                                      *)
(*                                                                         *)
(* The actor keeps the abort handle of the last lookup task and of the     *)
(* last announcement of each torrent.  Aborting a task stops it, but not a *)
(* message it has already told; a task whose handle is forgotten goes on.  *)
(***************************************************************************)
EXTENDS Integers, Sequences, FiniteSets, SequencesExt

CONSTANTS
    InfoHash,
    DhtMailboxSize,     \* bound on the actor's mailbox
    MaxAdds             \* bound: torrents added while the last one lingers

VARIABLES
    torrents,       \* the info hashes registered
    lookup_tasks,   \* the task a stored handle can still abort, or "none"
    announce_tasks, \* is the announcement running that a handle is stored of
    detached,       \* tasks running without a handle: how many of each kind
    bootstrapping,  \* the bootstrap task runs
    dhtInbox,          \* the actor's mailbox
    awaiting,       \* a handler awaits the torrent its message is about
    swarm,          \* each torrent actor: absent, live or dead
    private,        \* torrents whose info dict says private
    adds,           \* additions counted against MaxAdds
    restarted       \* lookups started for a torrent that had one going

taskVars == <<lookup_tasks, announce_tasks, detached, bootstrapping>>
outsideVars == <<swarm, private, adds>>
dhtVars == <<torrents, taskVars, dhtInbox, awaiting, outsideVars, restarted>>

Kind == {"lookup", "sleep"}
DhtMessage == [k : {"LookupFinished"}, hash : InfoHash, found : BOOLEAN]
              \cup [k : {"LookupTorrent", "Register", "Unregister"}, hash : InfoHash]
              \cup [k : {"Refresh"}]

\* The fields of DhtActor have their types, and its mailbox keeps its bound
\* (dht/actor.rs, DhtActor).
DhtTypeOK ==
    /\ torrents \subseteq InfoHash /\ private \subseteq InfoHash
    /\ lookup_tasks \in [InfoHash -> Kind \cup {"none"}]
    /\ announce_tasks \in [InfoHash -> BOOLEAN]
    /\ detached \in [InfoHash -> [Kind -> Nat]]
    /\ {bootstrapping, awaiting} \subseteq BOOLEAN
    /\ Len(dhtInbox) <= DhtMailboxSize
    /\ \A i \in DOMAIN dhtInbox : dhtInbox[i] \in DhtMessage
    /\ swarm \in [InfoHash -> {"absent", "live", "dead"}]

DhtInit ==
    /\ torrents = {} /\ dhtInbox = <<>> /\ awaiting = FALSE
    /\ lookup_tasks = [h \in InfoHash |-> "none"]
    /\ announce_tasks = [h \in InfoHash |-> FALSE]
    /\ detached = [h \in InfoHash |-> [k \in Kind |-> 0]]
    /\ bootstrapping = TRUE    \* on_start
    /\ swarm = [h \in InfoHash |-> "absent"] /\ private = {} /\ adds = 0
    /\ restarted = [h \in InfoHash |-> 0]

-----------------------------------------------------------------------------
(* The messages the actor handles; a handler that awaits is cut in two.     *)

Message(k) == dhtInbox # <<>> /\ Head(dhtInbox).k = k
Handles(k) == Message(k) /\ ~awaiting
Done == dhtInbox' = Tail(dhtInbox) /\ awaiting' = FALSE
Await == awaiting' = TRUE /\ UNCHANGED dhtInbox

\* start_lookup of registered torrents: the stored task is aborted, and a
\* lookup spawned, or a sleep while the routing table is empty.
StartLookups(hs) ==
    \E kinds \in [hs -> Kind] :
        lookup_tasks' = [h \in InfoHash |-> IF h \in hs THEN kinds[h] ELSE lookup_tasks[h]]

Queued(h) == {i \in DOMAIN dhtInbox : dhtInbox[i].k \in {"LookupFinished", "LookupTorrent"}
                                   /\ dhtInbox[i].hash = h}
\* Lookups, sleeps and their messages: each will start the next lookup.
Cycles(h) == (IF lookup_tasks[h] = "none" THEN 0 ELSE 1) + Cardinality(Queued(h))
             + detached[h]["lookup"] + detached[h]["sleep"]
Restarted(hs) == restarted' = [h \in InfoHash |->
    IF h \in hs /\ Cycles(h) > 0 THEN restarted[h] + 1 ELSE restarted[h]]

\* remove_torrent_registration
RemoveRegistration(h) ==
    /\ torrents' = torrents \ {h}
    /\ lookup_tasks' = [lookup_tasks EXCEPT ![h] = "none"]
    /\ announce_tasks' = [announce_tasks EXCEPT ![h] = FALSE]

RegisterTorrent ==
    /\ Handles("Register") /\ Done
    /\ torrents' = torrents \cup {Head(dhtInbox).hash}
    /\ StartLookups({Head(dhtInbox).hash}) /\ Restarted({Head(dhtInbox).hash})
    /\ UNCHANGED <<announce_tasks, detached, bootstrapping, outsideVars>>

UnregisterTorrent ==
    /\ Handles("Unregister") /\ Done
    /\ RemoveRegistration(Head(dhtInbox).hash)
    /\ UNCHANGED <<detached, bootstrapping, outsideVars, restarted>>

RefreshTorrents ==
    /\ Handles("Refresh") /\ Done
    /\ StartLookups(torrents) /\ Restarted(torrents)
    /\ UNCHANGED <<torrents, announce_tasks, detached, bootstrapping, outsideVars>>

\* lookup_torrent asks a registered torrent for its info dict.
LookupTorrent ==
    /\ Handles("LookupTorrent")
    /\ IF Head(dhtInbox).hash \in torrents THEN Await ELSE Done
    /\ UNCHANGED <<torrents, taskVars, outsideVars, restarted>>

\* An answer that is only waited for.
InfoDictAnsweredAnyway ==
    /\ Message("LookupTorrent") /\ awaiting /\ Done
    /\ StartLookups({Head(dhtInbox).hash})
    /\ UNCHANGED <<torrents, announce_tasks, detached, bootstrapping, outsideVars, restarted>>
\* The answer: private or gone ends the registration.
InfoDictAnswered ==
    /\ Message("LookupTorrent") /\ awaiting /\ Done
    /\ LET h == Head(dhtInbox).hash IN
         IF swarm[h] = "live" /\ h \notin private
         THEN StartLookups({h}) /\ UNCHANGED <<torrents, announce_tasks>>
         ELSE RemoveRegistration(h)
    /\ UNCHANGED <<detached, bootstrapping, outsideVars, restarted>>

\* The stored handle is forgotten, whichever task it is of, and not aborted.
Forget(h) ==
    detached' = IF lookup_tasks[h] = "none" THEN detached
                ELSE [detached EXCEPT ![h][lookup_tasks[h]] = @ + 1]

\* An announcement without a next lookup.
AnnounceWithoutSchedule(h) ==
    /\ announce_tasks' = [announce_tasks EXCEPT ![h] = TRUE]
    /\ lookup_tasks' = [lookup_tasks EXCEPT ![h] = "none"]
\* The rest of lookup_finished: a new announcement replaces the last one, and
\* the next lookup is scheduled.
AnnounceAndSchedule(h) ==
    /\ announce_tasks' = [announce_tasks EXCEPT ![h] = TRUE]
    /\ lookup_tasks' = [lookup_tasks EXCEPT ![h] = "sleep"]

LookupFinished ==
    /\ Handles("LookupFinished")
    /\ LET h == Head(dhtInbox).hash IN
         /\ Forget(h)
         /\ \/ /\ h \notin torrents /\ Done
               /\ lookup_tasks' = [lookup_tasks EXCEPT ![h] = "none"]
               /\ UNCHANGED announce_tasks
            \/ /\ h \in torrents /\ Head(dhtInbox).found /\ Await
               /\ lookup_tasks' = [lookup_tasks EXCEPT ![h] = "none"]
               /\ UNCHANGED announce_tasks
            \/ /\ h \in torrents /\ ~Head(dhtInbox).found /\ Done
               /\ AnnounceAndSchedule(h)
    /\ UNCHANGED <<torrents, bootstrapping, outsideVars, restarted>>

\* The peers are told to the torrent; if it is gone, so is the registration.
PeersForwarded ==
    /\ Message("LookupFinished") /\ awaiting /\ Done
    /\ LET h == Head(dhtInbox).hash IN
         \/ /\ swarm[h] = "live" /\ AnnounceAndSchedule(h)
            /\ UNCHANGED torrents
         \/ /\ swarm[h] # "live" /\ torrents' = torrents \ {h}
            /\ UNCHANGED <<lookup_tasks, announce_tasks>>
    /\ UNCHANGED <<detached, bootstrapping, outsideVars, restarted>>

-----------------------------------------------------------------------------
(* The tasks, the engine and the torrents.                                  *)

TellDht(m) ==
    Len(dhtInbox) < DhtMailboxSize /\ dhtInbox' = Append(dhtInbox, m) /\ UNCHANGED awaiting

\* A lookup or a sleep ends by telling the actor.
TaskTells(h, kind) ==
    /\ \/ kind = "sleep" /\ TellDht([k |-> "LookupTorrent", hash |-> h])
       \/ /\ kind = "lookup"
          /\ \E found \in BOOLEAN :
               TellDht([k |-> "LookupFinished", hash |-> h, found |-> found])
    /\ UNCHANGED <<torrents, announce_tasks, bootstrapping, outsideVars, restarted>>

LookupTaskEnds(h) ==
    /\ lookup_tasks[h] # "none" /\ TaskTells(h, lookup_tasks[h])
    /\ lookup_tasks' = [lookup_tasks EXCEPT ![h] = "none"]
    /\ UNCHANGED detached

DetachedTaskEnds(h, kind) ==
    /\ detached[h][kind] > 0 /\ TaskTells(h, kind)
    /\ detached' = [detached EXCEPT ![h][kind] = @ - 1]
    /\ UNCHANGED lookup_tasks

AnnounceEnds(h) ==
    /\ announce_tasks[h]
    /\ announce_tasks' = [announce_tasks EXCEPT ![h] = FALSE]
    /\ UNCHANGED <<torrents, lookup_tasks, detached, bootstrapping, dhtInbox, awaiting,
                   outsideVars, restarted>>

BootstrapEnds ==
    /\ bootstrapping /\ bootstrapping' = FALSE
    /\ TellDht([k |-> "Refresh"])
    /\ UNCHANGED <<torrents, lookup_tasks, announce_tasks, detached, outsideVars, restarted>>

\* create_torrent registers a public torrent, or one whose dict is not known.
EngineAdds(h) ==
    /\ swarm[h] = "absent"
    /\ IF Cycles(h) = 0 /\ dhtInbox = <<>>
       THEN restarted' = [restarted EXCEPT ![h] = 0] /\ UNCHANGED adds
       ELSE adds < MaxAdds /\ adds' = adds + 1 /\ UNCHANGED restarted
    /\ swarm' = [swarm EXCEPT ![h] = "live"]
    /\ TellDht([k |-> "Register", hash |-> h])
    /\ UNCHANGED <<torrents, taskVars, private>>

\* remove_torrent stops the torrent and unregisters it.
EngineRemoves(h) ==
    /\ swarm[h] # "absent"
    /\ swarm' = [swarm EXCEPT ![h] = "absent"] /\ private' = private \ {h}
    /\ TellDht([k |-> "Unregister", hash |-> h])
    /\ UNCHANGED <<torrents, taskVars, adds, restarted>>

\* A magnet's info dict arrives and says private, or the torrent actor dies.
InfoSaysPrivate(h) ==
    /\ swarm[h] = "live" /\ h \notin private
    /\ private' = private \cup {h}
    /\ UNCHANGED <<torrents, taskVars, dhtInbox, awaiting, swarm, adds, restarted>>

TorrentDies(h) ==
    /\ swarm[h] = "live" /\ swarm' = [swarm EXCEPT ![h] = "dead"]
    /\ UNCHANGED <<torrents, taskVars, dhtInbox, awaiting, private, adds, restarted>>

DhtHandler == \/ RegisterTorrent \/ UnregisterTorrent \/ RefreshTorrents \/ LookupTorrent
              \/ InfoDictAnswered \/ LookupFinished \/ PeersForwarded
TaskStep(h) == \/ LookupTaskEnds(h) \/ AnnounceEnds(h)
               \/ \E kind \in Kind : DetachedTaskEnds(h, kind)
DhtNext == \/ DhtHandler \/ BootstrapEnds
           \/ \E h \in InfoHash : \/ TaskStep(h) \/ EngineAdds(h) \/ EngineRemoves(h)
                                  \/ InfoSaysPrivate(h) \/ TorrentDies(h)

DhtSpec == DhtInit /\ [][DhtNext]_dhtVars

\* The actor handles its messages; every lookup ends, every sleep too, and the
\* senders that wait for room in the mailbox get it in turn (hence SF).
DhtFairness ==
    /\ WF_dhtVars(DhtHandler)
    /\ \A h \in InfoHash : /\ SF_dhtVars(LookupTaskEnds(h))
                           /\ \A kind \in Kind : SF_dhtVars(DetachedTaskEnds(h, kind))

-----------------------------------------------------------------------------
\* A registered torrent never falls out of the cycle lookup, announce, sleep:
\* whatever messages overtook one another, a task or a message of it is left
\* to start the next lookup.
LookupsGoOn == \A h \in torrents : Cycles(h) > 0

\* Stale LookupFinished messages detach running tasks, so a torrent can have
\* several cycles; but only as many as the times it was registered or refreshed
\* while one was going.  A cycle never forks by itself.
CyclesBounded == \A h \in InfoHash : Cycles(h) <= 1 + restarted[h]

\* Everything done for a torrent ends once it is removed, dead or private, also
\* the cycles the actor has no handle of, unless it is added again.
RemovedQuiesces ==
    \A h \in InfoHash : (swarm[h] # "live" \/ h \in private)
        ~> (swarm[h] = "live" /\ h \notin private) \/ (h \notin torrents /\ Cycles(h) = 0)

\* Every registered torrent is looked up again and again, by as many cycles as
\* it was given and no more (dht/messages.rs, lookup_finished).
CyclesSound == DhtTypeOK /\ LookupsGoOn /\ CyclesBounded
=============================================================================
