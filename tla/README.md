# A TLA+ model of libtortillas

`libtortillas` is a BitTorrent library built from kameo actors: an engine, one
actor per torrent, one per connected peer, one per tracker, and a DHT actor.
Each actor takes one message at a time from its mailbox; everything that is hard
about the program happens between actors, or between a handler and what it
awaits. This directory models its protocols, checks them with TLC on small
instances, and proves what matters most for every instance with TLAPS. Paths
below are relative to `crates/libtortillas/src/`.

## 1. The system

| Part | State | Operations that change it | Module |
|---|---|---|---|
| Piece scheduler (`pieces/piece_scheduler.rs`) | completed pieces and blocks, requests in flight, per-peer counters, cursors, `next_piece` | assign, complete, verify, reject, expire, disconnect, restore | PieceScheduler, SchedulerSpec, RequestLoop |
| Piece flow (`torrent/piece_flow.rs`, `messages.rs`, `choking_flow.rs`) | bitfield, storage, registered peers, torrent state | block received, request rejected, peer ready, peer killed, rechoke | PieceFlow |
| Lifecycle (`torrent/state.rs`, `actor.rs`) | state, autostart, peer threshold, ready hooks, rechoke timer | start, autostart, pause, metadata, restart, stop | TorrentLifecycle |
| Choking (`torrent/choking.rs`, `choking_flow.rs`) | rotation index and round counter | rechoke | Choking |
| Storage (`pieces/piece_manager.rs`, `piece_store.rs`, `torrent/util.rs`) | files | write block, validate, commit | Storage |
| Snapshots (`torrent/snapshot.rs`, `messages.rs`) | persisted progress | capture, validate, reconcile, restore | Snapshots |
| Wire protocol (`protocol/`) | read buffer | handshake, frame, cancelled receive | WireCodec, PeerWire |
| Peer actor (`peer/actor.rs`) | the remote's pieces, pending requests, choke and interest state, metadata buffer, idle deadlines | wire messages, orders of the torrent, timers | PeerSession, PeerIdle, PeerMetadata |
| Trackers (`tracker/`, `torrent/swarm.rs`) | announce timer, UDP connection and transactions, progress and event to report | start, announce, update, retry, stop | Trackers, TrackerScopes |
| DHT (`dht/`) | routing table, tokens, peer store, registrations, tasks, transactions | query, response, lookup, announce, register | DhtTable, DhtActor, DhtLookup |
| Live views (`live/`) | publishers, subscriber queues, scopes | publish, subscribe, receive, close, register, remove | LiveStream, EventLog, PeerScopes, TrackerScopes |
| Engine (`engine/`) | torrents, supervision, live scopes of torrents | create, remove, restore, start all, incoming peer, shut down | Engine |

How they interact: the torrent sends block requests to peer actors with
`try_send` (a full mailbox loses them) and choke changes with an awaited `tell`;
peers send blocks, rejections, readiness and `KillPeer` to the torrent with an
awaited `tell` (a full mailbox makes them wait). A timer sends the torrent
`Rechoke`, which also expires old requests. Tracker actors schedule their own
announces and receive progress and events from the torrent. The DHT actor spawns
tasks whose results come back through its mailbox. The engine supervises
torrents, restarts one that panics, and shares the live hub with its clients,
who run the last steps of adding and removing a torrent themselves.

What makes this hard: answers to requests that were given up, peers that die
with requests in hand and come back under the same id, mailboxes at their limit,
a pause racing the last block, a timer racing the messages it already sent,
tasks that cannot be aborted any more, scopes that outlive what they show, and
calls that race the end of the actor they ask. `PROJECT.json` lists these
hazards with the line where each bites.

## 2. Modules

**PieceScheduler** has the scheduler as one record and each method as an
operator from record to record. A block is named by its slot,
`piece * blocks_per_piece + block`. `RequestsForPeer` and `WithRequests` are a
closed form of the request loop; **RequestLoop** has the loop as it is written
and compares the two in every reachable scheduler. The `requested_at` clock is
abstracted: any set of requests may have grown stale when
`ReleaseStaleRequests` runs. **SchedulerSpec** calls the operators in any order
with the arguments the torrent actor can pass, restored snapshots and both window
sizes (`InitialWindow` for a peer that is new, `MaxInFlight` later) included.

**PieceFlow** composes the scheduler with the torrent's handlers, its bounded
mailbox, the peer actors and their mailboxes, and the remotes. A handler that
visits all peers (a refill, a broadcast, the expiry in a rechoke) is split into
steps kept in `todo`, in the code's order, and peers run between the steps; no
other message is taken before the handler is done. The `Env` constant says which
failures a run allows.

**TorrentLifecycle** has the torrent's state, its autostart between any two
messages, pausing, metadata, hooks, the rechoke timer and supervised restarts;
transfers appear only as "the last piece may arrive". **Choking** has the
decision for any candidates, the rotation of the optimistic slot, and the
SetChoked messages in the peers' mailboxes.

**Storage** has the arithmetic of pieces, blocks and files and the reads and
writes over it; a byte is right, wrong or a hole. **Snapshots** is the
persistent life of a torrent on top of it: blocks stored and verified, storage
reconfigured, snapshots captured and serialised, the process ended, files
damaged, the torrent restored in each verification mode.

**WireCodec** encodes and decodes messages byte by byte; **PeerWire** receives
them through a read buffer, with reads of any size and receives that `select!`
drops. **PeerSession** runs two instances of the peer actor against each other,
**PeerIdle** their idle deadlines, **PeerMetadata** the metadata exchange of a
magnet torrent.

**Trackers** has tracker actors, the UDP and HTTP clients, the socket all UDP
clients share, and the torrent's broadcasts. A tracker asks and tells the torrent
with an await (`greeting`, `reporting` and `leaving` are the moments after a
start, an announce and a stop), so it goes on only when the torrent is back at
its mailbox (`TorrentIdle`). **TrackerScopes** has the live scopes of trackers
through adding, pruning, restarts, removals and the three steps of the removal of
their torrent.

**DhtTable** has what a node answers and remembers, **DhtActor** the registered
torrents with their lookup, announce and sleep tasks, **DhtLookup** one iterative
lookup and announcement over the transaction table.

**LiveStream** has a publisher, its bounded broadcast channel and its
subscribers; **EventLog** is what it promises: a numbered log that each reader
reads in order, with exact reports of what was missed. **PeerScopes** has the
scopes of connections that reconnect under the same id, while the torrent that
owns them is removed, discarded or rolled back. **Engine** has the engine actor,
the torrents' lives, the hub's torrent scopes and clients that call it
concurrently; a handler is cut where it awaits, and `remove_torrent_scope`, which
takes the publication lock only halfway, where another thread may come between.

What is assumed of kameo, whose source is outside the repository: an actor takes
one message at a time; an awaited `tell` waits for room in a bounded mailbox and
an `ask` for the answer as well; both fail once the actor has ended, and wait
while it is restarted, which keeps its mailbox; a kill is an abnormal end, which a
transient supervisor answers with a restart (the test at `engine/mod.rs:588` relies
on this). Tells of the engine to the DHT actor are assumed to return.

The modules **MCTorrent**, **MCPeers**, **MCDownload** and **MCLive** put
components that share no state into one run: a variable `part` says which one a
behaviour moves, the others stay in one initial state, so the run explores the
sum of the components and not their product. **MCPieceFlow** and **MCTrackers**
hold the definitions of the instances of PieceFlow and of Trackers. The
**...Proofs** and **...Lemmas** modules hold theorems.

A definition whose name extends another's and that no action uses
(`RefillForgotten` before `Refill`, `RotatedOnce` before `Rotated`) is a faulty
variant of the one that follows it: the properties are tested by putting the
variant in its place, and TLC then finds them violated. `PROJECT.json` pairs them.

## 3. What is checked

| Run | Shows |
|---|---|
| `torrent` | the scheduler's counters are exact, windows bounded, nothing in hand on request, `next_piece` the completed prefix, and its loop asks for the first requestable blocks; upload slots go to the fastest peers and are respected by every peer that answered, and a paused torrent chokes everyone; pieces tile the files, what is verified is stored, progress is exact, and a restore claims exactly what snapshot and storage agree on; a configured tracker is listed with an open scope of its own, no open scope is lost from the list, and once the torrent's removal has closed its scope no earlier tracker stream is open |
| `flow_steady` | with full mailboxes, failing sends, writes and commits, corrupt blocks and remote cancels: the scheduler agrees with the bitfield; Seeding means complete; verified data is not overwritten; Completed is announced once; a peer waits for no more than its window |
| `flow_churn` | peers stop, are disconnected and reconnect under the same id, requests expire and sends fail, while the torrent pauses and resumes: every request of a running peer is backed by a message or a pending entry, and no request is left with a peer that nobody will clean up |
| `peers` | frames arrive complete and in order however reads are cut and dropped, from our torrent only; two peer actors agree on choking, interest and pieces, keep their requests, and finish the download; idle deadlines drop a vanished remote; metadata is assembled in order; one rechoke timer at a time and always one while transferring; autostart happens; every interested peer gets its turn |
| `trackers` | the UDP registry holds exactly the open requests, no late answer is taken for another, every idle tracker has its next announce in sight within the delay bounds, events go out with the progress of their moment; while the torrent keeps coming back to its mailbox, every handler but an HTTP announce ends |
| `download` | buckets are sound and keep live contacts, the closest are named, tokens live one to three intervals, the peer store is fresh and bounded and keeps what is younger than the ttl; registered torrents keep exactly the lookup cycles they were given and removed ones quiesce; a lookup queries each endpoint once, exhausts the neighbourhood, ends, and announces with tokens only; a download completes although requests expire, without help of the rechoke timer |
| `live` | a stream implements the log; peer scopes follow their connections; engine, hub and DHT agree between calls, a failed addition leaves no torrent actor that was not told to stop, events are paired, a stopped engine is empty, calls return |

Some of these have exceptions, because the code does not keep more:

- *Trackers.* `TrackerScopesSound` says that what is configured is listed. The
  converse fails: a tracker pruned from the registry after its actor died, given up
  by its supervisor, or added and then forgotten in a restart of the torrent stays
  listed, its scope open until the torrent is removed, and `remove_tracker` does not
  find it. `HandlersEnd` excepts HTTP announces, which have no timeout, and is
  conditional on `[]<>TorrentIdle`: a torrent that waits for room in the mailbox of
  a tracker which is starting, and itself waits for the torrent's answer
  (`WaitForEachOther`), stays there.
- *Peers.* A scope that was replaced in the registry, because its peer came back
  before the first connection's `KillPeer` was handled, is closed by nobody
  (`Replaced`), and neither are scopes which a torrent makes after its removal has
  collected what to close (`late`).
- *Engine.* A torrent added while the removal of its predecessor was under way
  (`raced`) may be managed and not shown: the removal closes the new scope. The
  actors of a rolled back restore (`undone`) are the subject of `live_rollback`. A
  call waits for ever when the engine, or after its end the client, waits for a
  torrent that crashed and that nobody can restart (`EngineHeld`, `ClientHeld`).
- *DHT.* While the monotonic clock is younger than the ttl, `expiration_cutoff` falls
  back to the present moment and drops every earlier record; `RecordsStay` is
  promised from then on.
- *Metadata.* A second extended handshake before the metadata is complete asks for
  pieces twice, and they are appended twice (`again`).

Five runs show that the code does something else than its documentation says:

- `flow_paused`: the last block arriving after a pause moves the torrent to
  Seeding (`torrent/mod.rs:11`). Callers of `poll_ready` that were waiting for
  the paused torrent are then not answered.
- `flow_magnet`: the scheduler of a magnet torrent keeps its zero pieces, so
  nothing is downloaded (`torrent/messages.rs:109`).
- `snapshot_late`: a late answer to an expired request is accepted for a piece
  that is verified already and leaves partial blocks of a complete piece, which
  the validation of the torrent's own snapshot refuses (`settings.rs:160`). The
  stored piece is overwritten with the late block, whose content is never checked
  again; this is why `flow_steady` states `VerifiedStaysGood` without expiry and
  `VerifiedIsStored` excepts such pieces. Expired requests also stay pending in
  the peer actor, so `PendingWithinWindow` is stated without expiry.
- `idle_pair`: keepalives depend on the silence of the remote, not on our own.
  An end that receives and has nothing to say sends none, and the remote that
  talks to it drops the connection (`protocol/messages.rs:123`).
- `live_rollback`: a restore that fails kills the torrents it had restored. A kill
  is an abnormal end, the supervisor restarts the actor, and it runs on without
  being managed (`engine/mod.rs:353`).

### Bounds

Two peers are enough for every race between an old and a new owner of a block;
in `PieceFlow` they are symmetric (equal availability, no order on ids), and the
runs with a `SYMMETRY` check invariants and action properties only. Two pieces make "not the last
piece" and "the last piece" differ, and out-of-order completion possible. In
`torrent` and `flow_steady` pieces have several blocks and the last one is
shorter, so that slots and pieces differ, and there are more blocks than the
window admits, as in `flow_churn`. A mailbox of one to three messages is soon
full. `MaxConnects` 2 lets a peer come back, or a second one take over its
blocks; `MaxExpired` bounds the rechokes that find stale requests, not how many
they find. In `TorrentLifecycle` three timers are one more than may be armed
together; in `Choking` three peers compete for two slots, one regular and one
optimistic, and `IndexSpan` stands for the width of `usize`: in `torrent` it is
3 and the number of candidates is not always a divisor of it. In `Snapshots`
each start has a budget of arrivals, late blocks, faults, changes, saves and
ends; the torrents have files that end inside a block and inside a piece, an
empty file, a short last piece, and two pieces with equal hashes. In `PeerWire`
every message kind is in some script, with bit vectors of 0, 8 and 9 bits.
`PeerIdle` counts ticks: a keepalive at 2, a disconnect at 7, a delay of at most
1. `Trackers` has a mailbox of two, one retry, one restart, one expiry of a connection id, two UDP
trackers on the shared socket or one with an event, and one HTTP tracker with
two. `DhtTable` has 3-bit ids, so that buckets of two overflow, and time for
three rotations; `DhtLookup` three contacts at two endpoints and four transaction
ids; `DhtActor` a torrent added twice and a mailbox of three. `LiveStream`
publishes three events to two readers through a channel of two. `PeerScopes` has
two connections, of one id or of two, and one crash of the torrent; `TrackerScopes`
two sources, one of them in the torrent file, three actors and one failure; `Engine` four torrent
actors, one crash, one restart, and four scripts of two clients (adding and
removing twice over, restoring twice, restoring an engine with a duplicate,
shutting down).

No run disables the deadlock check.

### Fairness

What an actor or a spawned task can do it does (weak fairness): tokio polls every
ready task. Strong fairness is used where something else may come first again and
again in a FIFO queue or a `select!`: a message that is reached whatever else
arrives (`PieceFlow`'s torrent, `Rechoke`, `KillPeer`, a client's call to the
engine, a supervisor's restart), a DHT task that waits for room in a mailbox that
keeps being emptied, and a torrent's request or slot for a peer (`PeerSession`).
A tracker's awaited ask or tell is taken if the torrent is at its mailbox again and
again (strong fairness of `TorrentServes`); nothing is assumed of how often it is.
Networks are only assumed to deliver or to lose (`Trackers`, `DhtLookup`:
datagrams do not stay for ever; a query fails in the end by its timeout).
`PieceFlow` assumes that remotes answer and not that the rechoke timer fires;
`Choking` is conditional on the torrent staying active. Clients are not assumed
to receive, except in `EndIsTold`, which is about those who do.

## 4. What is proved

The theorems hold for every value of the constants that satisfies the named
assumption of the module (`SchedulerConstants`, `WindowConstant`,
`LifecycleConstants`, `LiveStreamAssumption`, `TrackersAssumption`: finitely many
peers and trackers, at least one piece and block, bounds that are naturals).
Every safety theorem has the same shape: an inductive invariant, one lemma per
action or method saying that it is kept, and a temporal step.

**TorrentProofs**, scheduler: `SchedulerSpec` keeps `SchedulerSound` (types, exact
counters, bounded windows, nothing done on request, `next_piece` the completed
prefix) and `RequestsExclusive`. The window bound is not inductive: `Fill` trusts
the counter, so the bound depends on the counters being exact; and they stay exact
when a block completes only because a block is requested from one peer at a time.
`SchedulerInv` is therefore the conjunction of all the state properties.
**SchedulerLemmas** says what each method keeps and changes; the lemmas about
counters rest on the cardinality of the slots requested from a peer when one or
several are added or removed. `PieceFlowProofs` uses the same lemmas.

**TorrentProofs**, lifecycle: `TorrentLifecycle` keeps `LifecycleSound`.
`LifecycleInv` adds `TimersKnown`, that an armed timer is the one `next_rechoke`
holds, so that aborting it leaves none; `MetadataFirst`, that the bitfield has a
length only with metadata, so that a full bitfield is a complete one; and
`DownIsInactive`, that a panicked actor has left its transfer state before the
restart resets it.

**PieceFlowProofs**: whatever the environment does, torrent and peers keep
`SchedulerConsistent` and `SeedingIsComplete` (`FlowInv`, which adds the types of
every mailbox and of the steps that a handler still has to do).

**FlowSteadyProofs**: under `Steady` (nobody leaves, nothing expires) `PieceFlow`
keeps `FlowSound`, `CompletionSound` and `VerifiedStaysGood`. The invariant `Owned`
says that a block on request is in one place at most (its peer's mailbox, pending
at the remote, or answered) and that an answer comes from the peer the block is on
request from; hence a peer waits for no more than its window, and a block that
arrives is never one of a verified piece. The hypothesis is needed: with expiry
these fail in the code (section 3, `snapshot_late`). It leaves in failing sends,
writes and commits, corrupt blocks, full mailboxes, cancels and pauses.

**FlowRequestProofs**: under `AnswersKept` (no write fails, no remote cancels)
`PieceFlow` keeps `RequestsAccounted` while peers stop, are disconnected and come
back and requests expire. The invariant `Backed` says it per block and peer: the
last message about the block in the peer's mailbox asks for it, or it is pending,
or answered, or a `KillPeer` is on its way. The hypothesis is needed too: a failed
write drops the answer and leaves the request to its timeout.

**TrackersLemmas** and **TrackersProofs**: `Trackers` keeps `TransactionsSound`,
`AnnouncesSound` and the action property `EventIsAnnounced`. `TrackersInv` adds
what holds in each phase of an actor (`Resting`, `Beginning` and `Working` name
groups of them), that no two clients wait with one transaction id, that a tracker
at rest has no request, and, for the announce parameters, what the messages of a
mailbox will make of them (`Says`): the value an event's Announce needs is brought
by the messages before it, also while a broadcast is between two messages.

**LiveStreamProofs**: `LiveStream` keeps `StreamSound` and implements `EventLog`
(`StreamImplementsLog`), for every capacity and number of readers: each step of
publisher, channel and subscriptions is a step of the log or leaves it alone.

Checked by TLC only: liveness and everything that needs `ENABLED` (out of reach of
the prover); `LoopTakesFirstRequestable`, whose loop recurses over data; the codec,
the storage arithmetic and the snapshots built on it, which fold over sequences;
the DHT, whose distances are bitwise and whose lookups sort; and the
properties of choking, peer sessions, idle deadlines, metadata exchange, scopes
and engine.

## 5. Not modelled

Contents of blocks beyond right, wrong or missing, and the argument checks of
`handle_incoming_piece` for blocks the scheduler never asks for; packet layouts of
UDP trackers and of the DHT, URL encoding, bencode, metainfo parsing and hashes;
rates and sizes in live views, which are versions here; the limit on connection
attempts in progress; logging, error wording and the values of settings.
