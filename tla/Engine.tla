------------------------------- MODULE Engine -------------------------------
(***************************************************************************)
(* The engine: its actor, the torrent actors it supervises, the clients     *)
(* that call the public Engine methods, and the torrent scopes of the live  *)
(* hub that both threads and clients touch (engine/mod.rs, engine/actor.rs, *)
(* engine/messages.rs, live/hub.rs).  The engine actor runs one handler at  *)
(* a time, but a handler awaits the torrent actor it talks to, and the last *)
(* steps of add_torrent, remove_torrent and restore run in the client.      *)
(*                                                                          *)
(* Assumed of kameo, from how src/ uses it: a reference to a torrent actor  *)
(* stays good when the actor is restarted (engine/mod.rs, the test of an    *)
(* abnormal restart), so its mailbox outlives a crash and a stop sent       *)
(* before it is taken after the restart; a supervisor restarts between two  *)
(* handlers of its own.  Whether a message to a crashed actor fails or      *)
(* waits for the restart, src/ does not decide: both may happen here, and   *)
(* neither is counted on.                                                    *)
(***************************************************************************)
EXTENDS Naturals, Sequences, FiniteSets

CONSTANTS
    Hashes, Clients,
    MaxSpawns,     \* bound: torrent actors spawned
    Private,       \* hashes of private torrents
    Scripts,       \* the calls clients make: [Clients -> Seq(Requests)]
    PeersConnect,  \* whether peers connect to the engine
    EngineRestarts,   \* torrent_restart.limit
    MaxCrashes     \* bound: torrent actors that end abnormally

Actors == 1..MaxSpawns
Nobody == 0

VARIABLES
    status,      \* EngineStatus, as the engine publisher has it
    over,        \* whether the engine publisher is closed
    job,         \* the handler the engine actor is in
    managed,     \* EngineActor.torrents
    dht,         \* what the DHT actor was told last
    life,        \* of a torrent actor
    serves,      \* the info hash a torrent actor was spawned for
    signal,      \* stop or kill sent to a torrent actor
    restarts,    \* restarts of a torrent actor
    scope,       \* HubInner.torrents
    born,        \* torrent scopes allocated
    removal,     \* progress of a remove_torrent_scope
    call,        \* what a client is doing
    added, removed,   \* Added and Removed events of the engine stream
    raced,       \* history: hashes added while a removal was under way
    undone,      \* history: actors killed by a rolled back restore
    script, crashes   \* calls to come; crashes so far

engineVars == <<status, over, job, managed, dht, life, serves, signal, restarts,
                scope, born, removal, call, added, removed, raced, undone,
                script, crashes>>
actorVars == <<life, serves, signal, restarts, undone, crashes>>
hubVars == <<scope, born, removal, added, removed>>

EngineActor == "engine"
Removers == Clients \cup {EngineActor}
NoScope == [id |-> 0, handle |-> Nobody, view |-> Nobody, closed |-> FALSE]
SomeHash == CHOOSE h \in Hashes : TRUE
NoRemoval == [at |-> "none", h |-> SomeHash, id |-> 0, handle |-> Nobody]
Idle == [op |-> "idle", at |-> "none", who |-> EngineActor, a |-> Nobody,
         todo |-> <<>>, done |-> <<>>, visits |-> {}]
NoCall == [op |-> "none", at |-> "idle", todo |-> <<>>, a |-> Nobody]

\* The variables have their types; the engine's stream is closed exactly when
\* the engine failed or stopped, and no actor exceeds its restart limit
\* (live/hub.rs, engine_start_failed and engine_stopped).
EngineTypeOK ==
    /\ status \in {"starting", "failed", "running", "stopping", "stopped"}
    /\ over = (status \in {"failed", "stopped"})
    /\ job.at \in {"none", "begin", "restore", "insert", "resume", "view", "install",
                   "register", "added", "discard", "undo", "removing", "handshake", "route", "visit",
                   "stop", "await"}
    /\ managed \in [Hashes -> Actors \cup {Nobody}]
    /\ dht \in [Hashes -> Actors \cup {Nobody}]
    /\ life \in [Actors -> {"unborn", "starting", "running", "crashed", "stopped", "dead"}]
    /\ \A a \in Actors : restarts[a] <= EngineRestarts
    /\ \A h \in Hashes : scope[h].id <= born

EngineInit ==
    /\ status = "starting" /\ over = FALSE /\ job = Idle
    /\ managed = [h \in Hashes |-> Nobody] /\ dht = managed
    /\ life = [a \in Actors |-> "unborn"] /\ serves = [a \in Actors |-> SomeHash]
    /\ signal = [a \in Actors |-> "none"] /\ restarts = [a \in Actors |-> 0]
    /\ scope = [h \in Hashes |-> NoScope] /\ born = 0
    /\ removal = [p \in Removers |-> NoRemoval]
    /\ call = [c \in Clients |-> NoCall]
    /\ added = [h \in Hashes |-> 0] /\ removed = [h \in Hashes |-> 0]
    /\ raced = {} /\ undone = {} /\ script \in Scripts /\ crashes = 0

-----------------------------------------------------------------------------
(* The hub's torrent scopes.                                                *)

\* get_or_insert_with
Ensured(h) == IF scope[h].id # 0 THEN scope[h] ELSE [NoScope EXCEPT !.id = born + 1]

PutScope(h, s) ==
    /\ scope' = [scope EXCEPT ![h] = s]
    /\ born' = IF s.id > born THEN s.id ELSE born

\* A torrent actor's view reaches the scope its hash has now.
Shown(a, s) == IF s.id = 0 \/ s.closed THEN s ELSE [s EXCEPT !.view = a]

\* Hub::view: the torrents listed, by the actor behind the handle.
HubView == [h \in {g \in Hashes : scope[g].handle # Nobody /\ scope[g].view # Nobody} |->
               scope[h].handle]

\* engine_start_failed and engine_stopped: the terminal event of the engine's
\* stream.
StreamCloses(s) == status' = s /\ over' = TRUE

\* remove_torrent_scope: get the scope, close it, take the key out of the
\* registry and tell the engine's listeners.
RemoveTorrentScope(p, h) ==
    removal' = [removal EXCEPT ![p] =
        IF scope[h].id = 0 THEN NoRemoval
        ELSE [at |-> "close", h |-> h, id |-> scope[h].id, handle |-> scope[h].handle]]

CloseScope(p) ==
    LET r == removal[p] s == scope[r.h] IN
    /\ r.at = "close"
    /\ IF s.id = r.id /\ ~s.closed
       THEN /\ scope' = [scope EXCEPT ![r.h].closed = TRUE, ![r.h].view = Nobody]
            /\ removal' = [removal EXCEPT ![p].at = "unlist"]
       ELSE removal' = [removal EXCEPT ![p] = NoRemoval] /\ UNCHANGED scope
    /\ UNCHANGED <<born, added, removed>>

UnlistScope(p) ==
    LET r == removal[p] IN
    /\ r.at = "unlist"
    /\ scope' = [scope EXCEPT ![r.h] = NoScope]
    /\ removal' = [removal EXCEPT ![p] =
                      IF r.handle = Nobody THEN NoRemoval ELSE [r EXCEPT !.at = "tell"]]
    /\ UNCHANGED <<born, added, removed>>

TellRemoved(p) ==
    /\ removal[p].at = "tell"
    /\ removed' = IF over THEN removed ELSE [removed EXCEPT ![removal[p].h] = @ + 1]
    /\ removal' = [removal EXCEPT ![p] = NoRemoval]
    /\ UNCHANGED <<scope, born, added>>

ScopeRemoval ==
    /\ \E p \in Removers : CloseScope(p) \/ UnlistScope(p) \/ TellRemoved(p)
    /\ UNCHANGED <<status, over, job, managed, dht, actorVars, call, raced, script>>

-----------------------------------------------------------------------------
(* Torrent actors.                                                          *)

Alive(a) == life[a] \in {"starting", "running", "crashed"}
Becomes(a, l) == life' = [life EXCEPT ![a] = l]

TorrentFrame == UNCHANGED <<status, over, job, managed, dht, serves, removal, call,
                            added, removed, raced, undone, script>>

\* on_start: trackers and initialize_torrent_projection open the scope.
TorrentStarts(a) ==
    /\ life[a] = "starting" /\ Becomes(a, "running")
    /\ PutScope(serves[a], Shown(a, Ensured(serves[a])))
    /\ UNCHANGED <<signal, restarts, crashes>> /\ TorrentFrame

TorrentStartFails(a) ==
    /\ life[a] = "starting" /\ crashes < MaxCrashes
    /\ crashes' = crashes + 1 /\ Becomes(a, "crashed")
    /\ UNCHANGED <<signal, restarts, scope, born>> /\ TorrentFrame

\* Any handler that publishes the view.
TorrentPublishes(a) ==
    /\ life[a] = "running" /\ scope[serves[a]] # Shown(a, scope[serves[a]])
    /\ PutScope(serves[a], Shown(a, scope[serves[a]]))
    /\ UNCHANGED <<life, signal, restarts, crashes>> /\ TorrentFrame

\* insert_peer: a connected peer opens the scope if there is none.
TorrentGainsPeer(a) ==
    /\ life[a] = "running" /\ scope[serves[a]].id = 0 /\ born < Cardinality(Actors)
    /\ PutScope(serves[a], Ensured(serves[a]))
    /\ UNCHANGED <<life, signal, restarts, crashes>> /\ TorrentFrame

\* on_stop after stop_gracefully.
TorrentStops(a) ==
    /\ life[a] = "running" /\ signal[a] = "stop" /\ Becomes(a, "stopped")
    /\ PutScope(serves[a], Shown(a, scope[serves[a]]))
    /\ UNCHANGED <<signal, restarts, crashes>> /\ TorrentFrame

\* on_stop after kill() or a panic.
TorrentDies(a) ==
    /\ life[a] = "running"
    /\ \/ signal[a] = "kill" /\ signal' = [signal EXCEPT ![a] = "none"]
          /\ UNCHANGED crashes
       \/ crashes < MaxCrashes /\ crashes' = crashes + 1 /\ UNCHANGED signal
    /\ Becomes(a, "crashed")
    /\ PutScope(serves[a], Shown(a, scope[serves[a]]))
    /\ UNCHANGED restarts /\ TorrentFrame

\* The engine's supervision, between two handlers: a torrent actor that ended
\* abnormally is started again, within its limit.
Supervise(a) ==
    /\ life[a] = "crashed" /\ status = "running" /\ job = Idle
    /\ IF restarts[a] < EngineRestarts
       THEN Becomes(a, "starting") /\ restarts' = [restarts EXCEPT ![a] = @ + 1]
       ELSE Becomes(a, "dead") /\ UNCHANGED restarts
    /\ UNCHANGED <<signal, crashes, scope, born>> /\ TorrentFrame

TorrentSteps ==
    \E a \in Actors :
        \/ TorrentStarts(a) \/ TorrentStartFails(a) \/ TorrentPublishes(a)
        \/ TorrentGainsPeer(a) \/ TorrentStops(a) \/ TorrentDies(a) \/ Supervise(a)

-----------------------------------------------------------------------------
(* The engine actor.                                                        *)

Answer(c, next) == call' = [call EXCEPT ![c] = next]
At(place) == job' = [job EXCEPT !.at = place]
EngineFrame == UNCHANGED <<status, over, raced, undone, script, crashes>>

\* on_start: the sockets are bound or the engine never runs.
EngineStarts ==
    /\ status = "starting"
    /\ \/ status' = "running" /\ UNCHANGED over
       \/ StreamCloses("failed")
    /\ UNCHANGED <<job, managed, dht, hubVars, actorVars, call, raced, script>>

\* EngineSnapshot::validate, and restore_engine's own condition.
Restorable(snapshot) ==
    /\ \A i, j \in DOMAIN snapshot : snapshot[i].h = snapshot[j].h => i = j
    /\ \A h \in Hashes : managed[h] = Nobody

\* The handlers that end without awaiting a torrent actor.
GetTorrent(c) ==
    LET h == call[c].todo[1].h IN
    /\ call[c].op = "get"
    /\ Answer(c, IF managed[h] = Nobody THEN NoCall
                 ELSE [call[c] EXCEPT !.at = "handle", !.todo[1].a = managed[h]])
    /\ UNCHANGED <<job, managed, dht>>

Unmanage(h) ==
    /\ managed' = [managed EXCEPT ![h] = Nobody]
    /\ dht' = [dht EXCEPT ![h] = Nobody]

RemoveTorrent(c) ==
    LET h == call[c].todo[1].h IN
    /\ call[c].op = "remove" /\ UNCHANGED job
    /\ IF managed[h] = Nobody THEN Answer(c, NoCall) /\ UNCHANGED <<managed, dht>>
       ELSE /\ Answer(c, [call[c] EXCEPT !.at = "stop", !.a = managed[h]])
            /\ Unmanage(h)

\* start_all and snapshot_engine, up to the first await.
VisitTorrents(c) ==
    /\ call[c].op \in {"start_all", "snapshot"}
    /\ job' = [Idle EXCEPT !.op = call[c].op, !.at = "visit", !.who = c,
                           !.visits = {managed[h] : h \in Hashes} \ {Nobody}]
    /\ Answer(c, [call[c] EXCEPT !.at = "waiting"])
    /\ UNCHANGED <<managed, dht>>

\* create_torrent and restore_engine, up to the first torrent.
CreateTorrent(c) ==
    /\ call[c].op \in {"create", "restore_all"}
    /\ IF call[c].op = "restore_all" /\ ~Restorable(call[c].todo)
       THEN Answer(c, NoCall) /\ UNCHANGED job
       ELSE /\ job' = [Idle EXCEPT !.op = call[c].op, !.at = "begin", !.who = c,
                                   !.todo = call[c].todo]
            /\ Answer(c, [call[c] EXCEPT !.at = "waiting"])
    /\ UNCHANGED <<managed, dht>>

Handle(c) ==
    /\ status = "running" /\ job = Idle /\ call[c].at = "asked"
    /\ GetTorrent(c) \/ RemoveTorrent(c) \/ VisitTorrents(c) \/ CreateTorrent(c)
    /\ UNCHANGED <<life, serves, signal, restarts, hubVars>> /\ EngineFrame

\* An accepted connection keeps the engine actor until its handshake is there
\* or times out; then it is dropped, or handed to its torrent with a tell that
\* waits until the torrent's mailbox has room or is closed.
IncomingPeer ==
    /\ status = "running" /\ PeersConnect
    /\ \/ job = Idle /\ job' = [Idle EXCEPT !.op = "incoming", !.at = "handshake"]
       \/ job.at = "handshake" /\ job' = Idle
       \/ job.at = "handshake" /\ \E h \in Hashes :
              managed[h] # Nobody /\ job' = [job EXCEPT !.at = "route", !.a = managed[h]]
       \/ job.at = "route" /\ job' = Idle
    /\ UNCHANGED <<managed, dht, life, serves, signal, restarts, hubVars, call>>
    /\ EngineFrame

\* The torrent at hand, and what becomes of the request when it is created or
\* turned down.
Entry == Head(job.todo)

Created ==
    LET done == Append(job.done, [Entry EXCEPT !.a = job.a]) IN
    IF Len(job.todo) > 1
    THEN /\ job' = [job EXCEPT !.at = "begin", !.a = Nobody, !.todo = Tail(@), !.done = done]
         /\ UNCHANGED call
    ELSE job' = Idle /\ Answer(job.who, [call[job.who] EXCEPT !.at = "handle", !.todo = done])

Rejected ==
    IF job.done # <<>> THEN At("undo") /\ UNCHANGED call
    ELSE job' = Idle /\ Answer(job.who, NoCall)

BeingRemoved(h) ==
    \E c \in Clients : /\ call[c].op = "remove" /\ call[c].at \in {"stop", "wait", "scope"}
                       /\ call[c].todo[1].h = h

Spawn ==
    LET a == 1 + Cardinality({b \in Actors : life[b] # "unborn"}) IN
    /\ job.at = "begin"
    /\ IF managed[Entry.h] # Nobody
       THEN Rejected /\ UNCHANGED <<life, serves, raced>>
       ELSE \/ /\ life' = [life EXCEPT ![a] = "starting"]
               /\ serves' = [serves EXCEPT ![a] = Entry.h]
               /\ job' = [job EXCEPT !.a = a, !.at = IF Entry.restore THEN "restore" ELSE "insert"]
               /\ raced' = IF BeingRemoved(Entry.h) THEN raced \cup {Entry.h} ELSE raced
               /\ UNCHANGED call
            \* validation or reconcile_storage failed
            \/ Entry.restore /\ Rejected /\ UNCHANGED <<life, serves, raced>>
    /\ UNCHANGED <<status, over, managed, dht, signal, restarts, hubVars, undone, script, crashes>>

\* ask: a torrent actor answers once it runs; the ask fails once it has ended,
\* and may fail when it crashed.
Replies(a) == life[a] = "running"
AskFails(a) == life[a] \in {"crashed", "dead", "stopped"}

\* The asks of create_torrent.
AskTorrent ==
    /\ \/ job.at = "restore" /\ Replies(job.a) /\ At("insert")
       \/ job.at = "restore" /\ Replies(job.a) /\ At("discard")     \* an error result
       \/ job.at = "resume" /\ Replies(job.a) /\ At("view")
       \/ job.at = "view" /\ Replies(job.a) /\ At("install")
       \/ job.at \in {"restore", "resume", "view"} /\ AskFails(job.a) /\ At("discard")
    /\ UNCHANGED <<managed, dht, life, serves, signal, restarts, hubVars, call>>
    /\ EngineFrame

\* start_all: a tell to one torrent after the other, whatever becomes of each.
TellStart ==
    /\ job.at = "visit" /\ job.op = "start_all"
    /\ \/ \E a \in job.visits : /\ job.a = Nobody /\ UNCHANGED call
                                 /\ job' = [job EXCEPT !.a = a, !.visits = @ \ {a}]
       \/ job.a # Nobody /\ job' = [job EXCEPT !.a = Nobody] /\ UNCHANGED call
       \/ job.a = Nobody /\ job.visits = {} /\ job' = Idle /\ Answer(job.who, NoCall)
    /\ UNCHANGED <<managed, dht, life, serves, signal, restarts, hubVars>> /\ EngineFrame

\* snapshot_engine: all torrents are asked at once, and the first that fails
\* ends it.
AskSnapshots ==
    /\ job.at = "visit" /\ job.op = "snapshot"
    /\ \/ \E a \in job.visits : /\ Replies(a) /\ UNCHANGED call
                                 /\ job' = [job EXCEPT !.visits = @ \ {a}]
       \/ /\ job.visits = {} \/ \E a \in job.visits : AskFails(a)
          /\ job' = Idle /\ Answer(job.who, NoCall)
    /\ UNCHANGED <<managed, dht, life, serves, signal, restarts, hubVars>> /\ EngineFrame

Insert ==
    /\ job.at = "insert"
    /\ managed' = [managed EXCEPT ![Entry.h] = job.a]
    /\ dht' = [dht EXCEPT ![Entry.h] = IF Entry.h \in Private THEN @ ELSE job.a]
    /\ At(IF Entry.resume THEN "resume" ELSE "view")
    /\ UNCHANGED <<life, serves, signal, restarts, hubVars, call>> /\ EngineFrame

\* Torrent::new_with_hub: the scope and its first view.
Install ==
    LET s == Ensured(Entry.h) IN
    /\ job.at = "install" /\ At("register")
    /\ PutScope(Entry.h, IF s.view = Nobody THEN Shown(job.a, s) ELSE s)
    /\ UNCHANGED <<managed, dht, life, serves, signal, restarts, removal, added, removed, call>>
    /\ EngineFrame

\* register_torrent_scope: the handle is set once, then Added is published.
Register ==
    LET s == Ensured(Entry.h) IN
    /\ job.at = "register"
    /\ PutScope(Entry.h, IF s.handle = Nobody THEN [s EXCEPT !.handle = job.a] ELSE s)
    /\ IF s.handle = Nobody /\ s.view # Nobody
       THEN At("added") /\ UNCHANGED call
       ELSE Created
    /\ UNCHANGED <<managed, dht, life, serves, signal, restarts, removal, added, removed>>
    /\ EngineFrame

PublishAdded ==
    LET s == scope[Entry.h] IN
    /\ job.at = "added"
    /\ added' = IF s.handle = job.a /\ ~s.closed THEN [added EXCEPT ![Entry.h] = @ + 1] ELSE added
    /\ Created
    /\ UNCHANGED <<managed, dht, life, serves, signal, restarts, scope, born, removal, removed>>
    /\ EngineFrame

\* discard_failed_torrent: the stop is sent, not awaited.
Discard ==
    /\ job.at = "discard" /\ At("removing")
    /\ Unmanage(Entry.h)
    /\ signal' = [signal EXCEPT ![job.a] = "stop"]
    /\ RemoveTorrentScope(EngineActor, Entry.h)
    /\ UNCHANGED <<life, serves, restarts, scope, born, added, removed, call>> /\ EngineFrame

\* A roll back that does not take the torrent off its list.
UndoAgain ==
    LET h == Head(job.done).h IN
    /\ job.at = "undo" /\ At("removing")
    /\ Unmanage(h) /\ RemoveTorrentScope(EngineActor, h)
    /\ UNCHANGED <<life, serves, signal, restarts, scope, born, added, removed, call>>
    /\ EngineFrame
\* The roll back of restore_engine, one restored torrent at a time.
Undo ==
    LET h == Head(job.done).h a == managed[h] IN
    /\ job.at = "undo"
    /\ job' = [job EXCEPT !.at = "removing", !.done = Tail(@)]
    /\ Unmanage(h)
    /\ signal' = IF life[a] = "running" THEN [signal EXCEPT ![a] = "kill"] ELSE signal
    /\ undone' = undone \cup {a}
    /\ RemoveTorrentScope(EngineActor, h)
    /\ UNCHANGED <<status, over, life, serves, restarts, scope, born, added, removed,
                   call, raced, script, crashes>>

ScopeRemoved ==
    /\ job.at = "removing" /\ removal[EngineActor].at = "none"
    /\ IF job.op = "shutdown" THEN At("stop") /\ UNCHANGED call ELSE Rejected
    /\ UNCHANGED <<managed, dht, life, serves, signal, restarts, hubVars>> /\ EngineFrame

\* on_stop: the managed torrents one after the other, then the DHT and the
\* engine's own stream.
Shutdown(c) ==
    /\ status = "running" /\ job = Idle
    /\ call[c].at = "asked" /\ call[c].op = "shutdown"
    /\ status' = "stopping"
    /\ job' = [Idle EXCEPT !.op = "shutdown", !.at = "stop", !.who = c]
    /\ Answer(c, [call[c] EXCEPT !.at = "waiting"])
    /\ UNCHANGED <<over, managed, dht, actorVars, hubVars, raced, script>>

StopTorrent ==
    /\ job.at = "stop"
    /\ \E h \in Hashes :
           /\ managed[h] # Nobody
           /\ job' = [job EXCEPT !.at = "await", !.a = managed[h]]
           /\ signal' = [signal EXCEPT ![managed[h]] = "stop"]
    /\ UNCHANGED <<managed, dht, life, serves, restarts, hubVars, call>> /\ EngineFrame

Ended(a) == life[a] \in {"crashed", "stopped", "dead"}

TorrentAwaited ==
    LET h == serves[job.a] IN
    /\ job.at = "await" /\ Ended(job.a)
    /\ At("removing")
    /\ managed' = [managed EXCEPT ![h] = Nobody]
    /\ RemoveTorrentScope(EngineActor, h)
    /\ UNCHANGED <<dht, life, serves, signal, restarts, scope, born, added, removed, call>>
    /\ EngineFrame

EngineStopped ==
    /\ job.at = "stop" /\ \A h \in Hashes : managed[h] = Nobody
    /\ StreamCloses("stopped") /\ job' = Idle
    /\ dht' = [h \in Hashes |-> Nobody]
    /\ Answer(job.who, NoCall)
    /\ UNCHANGED <<managed, actorVars, hubVars, raced, script>>

EngineJob ==
    \/ Spawn \/ AskTorrent \/ TellStart \/ AskSnapshots \/ Insert \/ Install \/ Register \/ PublishAdded
    \/ Discard \/ Undo \/ ScopeRemoved \/ StopTorrent \/ TorrentAwaited \/ EngineStopped

-----------------------------------------------------------------------------
(* Clients.                                                                 *)

Gone == status \in {"failed", "stopped"}
Item(h, restore, resume) == [h |-> h, restore |-> restore, resume |-> resume, a |-> Nobody]

Request(op, todo) == [op |-> op, at |-> "asked", todo |-> todo, a |-> Nobody]

\* Each method of Engine starts with an ask.  A dead engine may be called for
\* ever.
Ask(c) ==
    /\ call[c].at = "idle"
    /\ \/ /\ script[c] # <<>> /\ Answer(c, Head(script[c]))
          /\ script' = [script EXCEPT ![c] = Tail(@)]
       \/ Gone /\ script[c] = <<>> /\ Answer(c, Request("snapshot", <<>>)) /\ UNCHANGED script
    /\ UNCHANGED <<signal, hubVars>>

AskRefused(c) ==
    /\ Gone /\ call[c].at = "asked" /\ Answer(c, NoCall)
    /\ UNCHANGED <<signal, hubVars, script>>

\* torrent_from_actor and restored_torrent: the handle comes from the hub.
TakeHandle(c) ==
    /\ call[c].at = "handle"
    /\ Answer(c, IF Len(call[c].todo) > 1 /\ scope[Head(call[c].todo).h].handle # Nobody
                 THEN [call[c] EXCEPT !.todo = Tail(@)] ELSE NoCall)
    /\ UNCHANGED <<signal, hubVars, script>>

\* The rest of remove_torrent.
SendStop(c) ==
    /\ call[c].at = "stop" /\ Answer(c, [call[c] EXCEPT !.at = "wait"])
    /\ signal' = [signal EXCEPT ![call[c].a] = "stop"]
    /\ UNCHANGED <<hubVars, script>>

\* A removal that leaves the scope.
StopAwaitedOnly(c) ==
    /\ call[c].at = "wait" /\ Ended(call[c].a)
    /\ Answer(c, NoCall)
    /\ UNCHANGED <<signal, hubVars, script>>
StopAwaited(c) ==
    /\ call[c].at = "wait" /\ Ended(call[c].a)
    /\ Answer(c, [call[c] EXCEPT !.at = "scope"])
    /\ RemoveTorrentScope(c, call[c].todo[1].h)
    /\ UNCHANGED <<signal, scope, born, added, removed, script>>

RemoveReturns(c) ==
    /\ call[c].at = "scope" /\ removal[c].at = "none" /\ Answer(c, NoCall)
    /\ UNCHANGED <<signal, hubVars, script>>

ClientStep(c) ==
    /\ AskRefused(c) \/ TakeHandle(c) \/ SendStop(c) \/ StopAwaited(c) \/ RemoveReturns(c)
    /\ UNCHANGED <<status, over, job, managed, dht, life, serves, restarts, raced, undone, crashes>>

ClientAsks(c) ==
    /\ Ask(c)
    /\ UNCHANGED <<status, over, job, managed, dht, life, serves, restarts, raced, undone, crashes>>

EngineNext ==
    \/ EngineStarts \/ IncomingPeer \/ EngineJob \/ ScopeRemoval \/ TorrentSteps
    \/ \E c \in Clients : Handle(c) \/ Shutdown(c) \/ ClientAsks(c) \/ ClientStep(c)

\* The torrent actors that the engine's handler awaits, and whether one of them
\* has crashed: the engine, its supervisor, is then not there to restart it.
Awaited == IF job.at \in {"restore", "resume", "view", "route", "visit", "await"}
           THEN job.visits \cup ({job.a} \ {Nobody}) ELSE {}
EngineHeld == \E a \in Awaited : life[a] = "crashed"
\* A client that waits for the end of a crashed torrent, in remove_torrent.
ClientHeld(c) == call[c].at = "wait" /\ life[call[c].a] = "crashed"

\* Tasks run: the engine's own, those that remove scopes, the torrents' (each
\* starts and stops finitely often, and takes its messages while it runs) and
\* the clients'.  What waits for a crashed actor may wait for ever.  The
\* supervisor and the mailbox get their turn between accepted connections.
EngineTask ==
    /\ ~EngineHeld
    /\ EngineStarts \/ EngineJob \/ (IncomingPeer /\ job.at \in {"handshake", "route"})
TorrentTask == \E a \in Actors : TorrentStarts(a) \/ TorrentStops(a)
ClientTask(c) == ~ClientHeld(c) /\ ClientStep(c)

EngineFairness ==
    /\ WF_engineVars(EngineTask) /\ WF_engineVars(ScopeRemoval)
    /\ WF_engineVars(TorrentTask) /\ SF_engineVars(\E a \in Actors : Supervise(a))
    /\ \A c \in Clients : /\ WF_engineVars(ClientTask(c))
                          /\ SF_engineVars(Handle(c) \/ Shutdown(c))

EngineSpec == EngineInit /\ [][EngineNext]_engineVars /\ EngineFairness

-----------------------------------------------------------------------------
(* Properties.                                                              *)

Quiet ==
    /\ job = Idle /\ \A p \in Removers : removal[p].at = "none"
    /\ \A c \in Clients : call[c].at = "idle"

\* Between calls the engine's view is the engine: what the hub shows is managed,
\* with a handle to the actor that is; and what is managed is shown, unless it
\* was added while a removal of the same torrent was under way: that removal
\* takes out the scope of the new torrent (live/hub.rs, view and
\* remove_torrent_scope; engine/messages.rs, create_torrent).
ViewExact ==
    Quiet /\ status = "running" =>
        \A h \in Hashes :
            /\ h \in DOMAIN HubView => HubView[h] = managed[h] /\ ~scope[h].closed
            /\ managed[h] # Nobody /\ h \notin raced => h \in DOMAIN HubView

\* Every torrent actor that is neither managed nor told to stop is gone, and
\* the DHT looks for peers of the managed public torrents only.  The actors of a
\* rolled back restore are the exception: RolledBackIsGone says what should
\* hold of them, and does not (engine/messages.rs, discard_failed_torrent).
NoStrays ==
    Quiet =>
        /\ \A a \in Actors \ undone :
               Alive(a) /\ signal[a] # "stop" => managed[serves[a]] = a
        /\ \A h \in Hashes : dht[h] = IF h \in Private THEN Nobody ELSE managed[h]

\* A restore that failed has removed the torrents it had already restored
\* (engine/mod.rs, restore: "this method removes the torrents already restored
\* by this call"): once the kill has reached such a torrent actor it does not
\* run again.
RolledBackIsGone ==
    Quiet => \A a \in undone :
                 life[a] \in {"starting", "running"} => signal[a] = "kill"

\* A torrent that a method hands out is the one the engine manages
\* (engine/mod.rs, torrent_from_actor), again unless its addition raced.
HandleIsManaged ==
    \A c \in Clients :
        call[c].at = "handle" =>
            LET e == Head(call[c].todo) IN
            managed[e.h] = e.a /\ e.h \notin raced => scope[e.h].handle = e.a

\* Added and Removed alternate on the engine's stream and agree with what is
\* managed (live/hub.rs, register_torrent_scope and remove_torrent_scope).  An
\* addition that raced with a removal may be told before it, or not at all.
EventsPaired ==
    \A h \in Hashes :
        /\ removed[h] <= added[h]
        /\ h \notin raced => added[h] <= removed[h] + 1
        /\ Quiet /\ status = "running" =>
               IF managed[h] = Nobody THEN added[h] = removed[h]
               ELSE added[h] \in (IF h \in raced THEN {removed[h], removed[h] + 1}
                                 ELSE {removed[h] + 1})

\* A stopped engine has stopped its torrents and removed their scopes before
\* it closed its stream (engine/actor.rs, on_stop).
StoppedIsEmpty ==
    status = "stopped" =>
        \A h \in Hashes :
            /\ managed[h] = Nobody
            /\ scope[h].handle # Nobody => BeingRemoved(h)

\* Every call of a client returns, whatever crashes meanwhile, unless from some
\* moment on a torrent that has crashed is waited for: by the engine, which
\* alone could restart it, or by the client after the engine has ended
\* (engine/mod.rs; engine/messages.rs, the handlers that ask the torrents).
CallsReturn ==
    \A c \in Clients :
        call[c].at # "idle" ~>
            (call[c].at = "idle" \/ [](EngineHeld \/ (ClientHeld(c) /\ status # "running")))

\* Engine, live hub, DHT and torrent actors agree whenever no call is under
\* way, and a stopped engine has left nothing (engine/messages.rs, live/hub.rs).
EngineSound ==
    /\ EngineTypeOK /\ ViewExact /\ NoStrays /\ HandleIsManaged
    /\ EventsPaired /\ StoppedIsEmpty
=============================================================================
