------------------------------- MODULE Snapshots -------------------------------
(***************************************************************************)
(* The persistent life of one torrent: its blocks are stored and verified   *)
(* (torrent/piece_flow.rs), its state is captured in a snapshot             *)
(* (TorrentActor::snapshot), the process ends, files are lost or damaged    *)
(* meanwhile, and an engine restores the torrent from the snapshot          *)
(* (torrent/snapshot.rs, restore_snapshot, create_torrent).  A crash of the *)
(* torrent actor alone is followed by a supervised restart from its args.   *)
(*                                                                         *)
(* Which peer a block comes from is the concern of PieceFlow; here a block  *)
(* that is still wanted arrives while the torrent downloads, and one that   *)
(* was asked for twice, because the first request went stale, arrives again *)
(* later.                                                                   *)
(***************************************************************************)
EXTENDS Storage, TLC

CONSTANTS
  Starts,      \* how a torrent is added: its info, whether by magnet link,
               \* its storage, its output folder, the folders there are, and
               \* how often each event of Budget may happen
  Dirs         \* output folders

NoDir == 0
NoSnapshot == [version |-> 0]
Modes == {"Full", "FileMetadata", "TrustSnapshot"}
TORRENT_SNAPSHOT_VERSION == 2

VARIABLES
  info,      \* the info dictionary the info hash stands for
  magnet,    \* added from a magnet link: metainfo holds no info dictionary
  up,        \* the torrent actor runs
  torrent,   \* its fields, see Fresh
  late,      \* blocks with a stale request that may still be answered
  fs,        \* the file system
  dirs,      \* output folders that exist
  saved,     \* the snapshot the application keeps
  spoilt,    \* verified pieces whose stored bytes were later overwritten with
             \* wrong ones, or that were restored unchecked
  gone,      \* output files were damaged while the process was down
  budget     \* bound: events that may still happen, see Spend

snapVars == <<info, magnet, up, torrent, late, fs, dirs, saved, spoilt, gone,
              budget>>

AllBlocks == {<<i, b>> \in Pieces(info) \X (0..info.piece_length) :
                b \in Blocks(info, i)}

\* Bounds: blocks that arrive, blocks asked for twice, faults (wrong blocks,
\* failed writes, damaged files), changes of storage, folder or manager,
\* snapshots, and ends of the process or the actor.
Events == {"arrival", "late", "fault", "change", "save", "end"}
Spend(events) ==
  /\ \A e \in events : budget[e] > 0
  /\ budget' = [e \in Events |-> IF e \in events THEN budget[e] - 1 ELSE budget[e]]

-----------------------------------------------------------------------------
(* The torrent actor's fields *)

\* on_start, from TorrentActorArgs.  `args` keeps what a supervised restart
\* starts from; `sched` is the piece count the scheduler was made with.
Fresh(storage, out) ==
  [state |-> IF magnet THEN "ResolvingMetadata" ELSE "Added",
   resolved |-> FALSE, storage |-> storage, out |-> out,
   manager |-> "default", pre_started |-> ~magnet,
   sched |-> IF magnet THEN 0 ELSE piece_count(info),
   bitfield |-> {}, blocks |-> <<>>,
   args |-> <<storage, out>>]

has_info(t) == ~magnet \/ t.resolved
is_empty(t) == t.bitfield = {}
is_full(t) == has_info(t) /\ t.bitfield = Pieces(info)
is_transfer_active(st) == st \in {"Downloading", "Seeding"}
can_start(st) == st \in {"Added", "ResolvingMetadata", "Ready", "Paused"}

StoredBlocks(t, i) == IF i \in DOMAIN t.blocks THEN t.blocks[i] ELSE {}
WithBlock(t, i, b) ==
  [t EXCEPT !.blocks = (i :> (StoredBlocks(t, i) \cup {b})) @@ @]
WithoutBlocks(t, i) ==
  [t EXCEPT !.blocks = [j \in DOMAIN @ \ {i} |-> @[j]]]

\* mark_piece_complete and the bitfield; next_piece is the piece count when
\* every piece of the scheduler is complete.
Completed(t, i) ==
  LET all == t.bitfield \cup {i}
  IN  [t EXCEPT !.bitfield = all,
                !.state = IF all = Pieces(info) THEN "Seeding" ELSE @]

\* start.  The default piece manager needs an output folder.
Started(t) ==
  IF ~can_start(t.state) THEN t
  ELSE IF ~has_info(t) THEN [t EXCEPT !.state = "ResolvingMetadata"]
  ELSE IF t.manager = "default" /\ t.out = NoDir
       THEN [t EXCEPT !.state = "Failed"]
  ELSE [t EXCEPT !.pre_started = TRUE,
                 !.state = IF is_full(t) THEN "Seeding" ELSE "Downloading"]

-----------------------------------------------------------------------------
(* Progress as the tracker announces and the live view show it *)

\* total_bytes_downloaded: verified pieces, and stored blocks of the others.
total_bytes_downloaded(t) ==
  MapThenSumSet(LAMBDA i : concrete_piece_len(info, i), t.bitfield)
  + MapThenSumSet(LAMBDA i :
      MapThenSumSet(LAMBDA b : expected_block_len(info, i, b), t.blocks[i]),
      DOMAIN t.blocks \ t.bitfield)

\* total_verified_bytes.
total_verified_bytes(t) ==
  Min({MapThenSumSet(LAMBDA i : piece_length(info, i), t.bitfield),
       total_length(info)})

-----------------------------------------------------------------------------
(* Blocks *)

\* The default manager can place bytes in output files.
Placed(t) == t.manager = "default" /\ t.pre_started /\ t.out # NoDir

\* write_block_to_storage, when it succeeds.
BlockWritten(t, i, b, byte) ==
  IF t.storage = "Disk"
  THEN WriteAt(fs, PiecePath(info, i), b * BLOCK_SIZE,
               expected_block_len(info, i, b), byte)
  ELSE LET segments == BlockSegments(info, i, b)
       IN  write_piece_range(fs, t.out, segments, Len(segments), byte)

\* ... and after n of the segments when it fails.
BlockCutShort(t, i, b, byte, n) ==
  IF t.storage = "Disk" THEN fs
  ELSE write_piece_range(fs, t.out, BlockSegments(info, i, b), n, byte)

\* The hash check of validate_and_commit_piece, on files f.
Validated(t, i, f) ==
  IF t.storage = "Disk" THEN PieceFileVerifies(f, info, i)
  ELSE Placed(t) /\ OutputVerifies(f, t.out, info, i)

\* Pieces that stay in the piece cache.
ReceivedCached(t, i, f) == f
\* What recv leaves in the output files: InFile storage calls none, a custom
\* manager keeps its own files.
Received(t, i, f) ==
  IF t.storage = "Disk" /\ t.manager = "default"
  THEN write_piece_range(f, t.out, PieceSegments(info, i),
                         Len(PieceSegments(info, i)), 1)
  ELSE f

\* Verified pieces whose bytes a write of block b of piece i replaces: pieces
\* with one hash share their piece file.
Overwritten(t, i) ==
  {j \in t.bitfield :
     j = i \/ (t.storage = "Disk" /\ HashOf(info, j) = HashOf(info, i))}

\* The scheduler asks for the block.
Wanted(t, i, b) == /\ t.state = "Downloading" /\ t.sched > 0
                   /\ i \notin t.bitfield /\ b \notin StoredBlocks(t, i)

\* handle_incoming_piece and piece_completed.
IncomingPiece(i, b, byte) ==
  /\ up
  /\ LET t == torrent
         marked == WithBlock(t, i, b)
         f == BlockWritten(t, i, b, byte)
         full == marked.blocks[i] = Blocks(info, i)
         keeps == /\ full /\ Validated(t, i, f)
                  /\ t.storage = "Disk" /\ t.manager = "default" => Placed(t)
         overwrites == IF byte = 2 THEN spoilt \cup Overwritten(t, i)
                                   ELSE spoilt
     IN  \E again, fails \in BOOLEAN :
           /\ \/ Wanted(t, i, b) /\ late' = IF again THEN late \cup {<<i, b>>}
                                                     ELSE late
              \/ <<i, b>> \in late /\ ~again /\ late' = late \ {<<i, b>>}
           /\ Spend({"arrival"} \cup (IF again THEN {"late"} ELSE {})
                    \cup (IF byte = 2 \/ fails THEN {"fault"} ELSE {}))
           /\ \/ /\ b \in StoredBlocks(t, i) /\ ~fails
                 /\ UNCHANGED <<torrent, fs, spoilt>>
              \* The write fails.
              \/ /\ b \notin StoredBlocks(t, i)
                 /\ fails \/ (t.storage = "InFile" /\ ~Placed(t))
                 /\ \E n \in 0..(Len(BlockSegments(info, i, b)) - 1) :
                      fs' = IF t.storage = "InFile" /\ Placed(t)
                            THEN BlockCutShort(t, i, b, byte, n) ELSE fs
                 /\ spoilt' = overwrites
                 /\ UNCHANGED torrent
              \/ /\ b \notin StoredBlocks(t, i) /\ ~full /\ ~fails
                 /\ t.storage = "Disk" \/ Placed(t)
                 /\ torrent' = marked /\ fs' = f /\ spoilt' = overwrites
              \* The piece is complete: it is taken, or its blocks are
              \* dropped when the hash is wrong or the piece manager fails.
              \/ /\ b \notin StoredBlocks(t, i) /\ full
                 /\ t.storage = "Disk" \/ Placed(t)
                 /\ IF keeps /\ ~fails
                    THEN /\ torrent' = Completed(WithoutBlocks(marked, i), i)
                         /\ fs' = Received(t, i, f)
                         /\ spoilt' = spoilt \ {i}
                    ELSE /\ torrent' = WithoutBlocks(marked, i)
                         /\ fs' = f /\ spoilt' = overwrites
  /\ dirs' = dirs \cup {p[2] : p \in {q \in DOMAIN fs' : q[1] = "output"}}
  /\ UNCHANGED <<info, magnet, up, saved, gone>>

-----------------------------------------------------------------------------
(* Commands *)

Command(t) ==
  /\ up /\ torrent # t /\ torrent' = t
  /\ UNCHANGED <<info, magnet, up, late, fs, saved, spoilt, gone>>

\* set_state: Downloading starts, Paused stops the transfer.
SetState ==
  /\ \/ Command(Started(torrent))
     \/ Command([torrent EXCEPT !.state = "Paused"])
  /\ UNCHANGED <<dirs, budget>>

\* info_bytes: the bitfield is made, the scheduler stays as it was.
InfoBytes ==
  /\ magnet /\ ~torrent.resolved
  /\ Command([torrent EXCEPT
                !.resolved = TRUE, !.bitfield = {},
                !.state = IF @ = "ResolvingMetadata" THEN "Added" ELSE @])
  /\ UNCHANGED <<dirs, budget>>

Recovered(st) == IF st = "Failed" THEN "Paused" ELSE st

Changes(t) == /\ Spend({"change"})
              /\ Command(t)

SetPieceStorage(storage) ==
  /\ is_empty(torrent)
  /\ torrent.manager = "custom" => storage = "Disk"
  /\ Changes([torrent EXCEPT !.storage = storage, !.state = Recovered(@)])
  /\ UNCHANGED dirs

\* set_piece_manager: a custom manager is initialised when metadata is known.
SetPieceManager ==
  /\ is_empty(torrent) /\ torrent.storage = "Disk"
  /\ Changes([torrent EXCEPT !.manager = "custom"])
  /\ UNCHANGED dirs

SetOutputPath(dir) ==
  /\ is_empty(torrent) /\ torrent.manager = "default"
  /\ Changes([torrent EXCEPT !.out = dir, !.state = Recovered(@)])
  /\ dirs' = dirs \cup {dir}

-----------------------------------------------------------------------------
(* Snapshots *)

\* TorrentActor::snapshot.
Snapshot(t) ==
  [version |-> TORRENT_SNAPSHOT_VERSION, state |-> t.state, out |-> t.out,
   storage |-> t.storage, resolved |-> t.resolved,
   len |-> IF has_info(t) THEN piece_count(info) ELSE 0,
   ones |-> t.bitfield, block_map |-> t.blocks]

\* snapshot_state.  A torrent with a custom piece manager has no snapshot.
SnapshotState ==
  /\ up /\ torrent.manager = "default" /\ saved # Snapshot(torrent)
  /\ Spend({"save"})
  /\ saved' = Snapshot(torrent)
  /\ UNCHANGED <<info, magnet, up, torrent, late, fs, dirs, spoilt, gone>>

\* What is on disk for a snapshot: this version's form, or one the first
\* version wrote, with maps and bit vectors or with lists, and with the info
\* dictionary of a torrent file stored twice.
Wires(s) ==
  {[version |-> 2, shape |-> "list", dup |-> s.resolved, body |-> s]}
  \cup [version : {1}, shape : {"list", "map"}, dup : {~magnet \/ s.resolved},
        body : {s}]

Invalid == [version |-> 0]

\* Deserialize for TorrentSnapshot.
Deserialized(w) ==
  IF w.shape = "map" /\ w.version # 1 THEN Invalid
  ELSE [w.body EXCEPT !.version = IF w.version = 1
                                  THEN TORRENT_SNAPSHOT_VERSION ELSE w.version,
                      !.resolved = IF w.version = 1 /\ ~magnet
                                   THEN FALSE ELSE w.dup]

\* TorrentSnapshot::validate.
validate(s) ==
  LET known == ~magnet \/ s.resolved
      count == IF known THEN piece_count(info) ELSE 0
  IN  /\ s.version = TORRENT_SNAPSHOT_VERSION
      /\ ~(~magnet /\ s.resolved)
      /\ s.out # NoDir
      /\ s.len = count
      /\ \A i \in DOMAIN s.block_map :
           /\ i < count /\ i \notin s.ones
           /\ s.block_map[i] \subseteq
                0..(div_ceil(piece_length(info, i), BLOCK_SIZE) - 1)

\* The check of one completed piece in reconcile_storage.
PieceBacked(s, i, mode) ==
  IF s.storage = "Disk"
  THEN IF mode = "Full" THEN PieceFileVerifies(fs, info, i)
       ELSE Len(BytesAt(fs, PiecePath(info, i))) >= piece_length(info, i)
  ELSE /\ CanReadAll(fs, s.out, PieceSegments(info, i))
       /\ mode = "Full" => OutputVerifies(fs, s.out, info, i)

\* ... and of one block of an incomplete piece, of which only the place is
\* checked.
BlockBacked(s, i, b) ==
  LET offset == b * BLOCK_SIZE
      length == Min({piece_length(info, i) - offset, BLOCK_SIZE})
  IN  IF s.storage = "Disk"
      THEN Len(BytesAt(fs, PiecePath(info, i))) >= offset + length
      ELSE CanReadAll(fs, s.out, piece_range_segments(info, i, offset, length))

\* A restore that keeps whole pieces only.
ReconciledWhole(s, mode) ==
  IF mode = "TrustSnapshot" \/ (magnet /\ ~s.resolved) THEN s
  ELSE [s EXCEPT !.ones = {i \in @ : PieceBacked(s, i, mode)}, !.block_map = <<>>]

\* reconcile_storage, once the output folder was found.
Reconciled(s, mode) ==
  IF mode = "TrustSnapshot" \/ (magnet /\ ~s.resolved) THEN s
  ELSE LET left(i) == {b \in s.block_map[i] : BlockBacked(s, i, b)}
           kept == {i \in DOMAIN s.block_map : left(i) # {}}
       IN  [s EXCEPT !.ones = {i \in @ : PieceBacked(s, i, mode)},
                     !.block_map = [i \in kept |-> left(i)]]

\* A restored torrent in the state of its snapshot.
RestoredActive(s) ==
  [Fresh(s.storage, s.out) EXCEPT
     !.resolved = s.resolved, !.state = s.state,
     !.sched = s.len, !.bitfield = s.ones, !.blocks = s.block_map]
\* restore_snapshot on a fresh actor.
RestoredState(s) ==
  [Fresh(s.storage, s.out) EXCEPT
     !.resolved = s.resolved,
     !.state = IF s.state \in {"Downloading", "Seeding", "Restarting",
                               "Stopping", "Stopped"}
               THEN "Paused" ELSE s.state,
     !.sched = s.len, !.bitfield = s.ones, !.blocks = s.block_map]

\* create_torrent with a snapshot: validate, reconcile, restore, resume.
Restorable(s, mode) ==
  /\ validate(s)
  /\ mode # "TrustSnapshot" => s.out \in dirs
RestoreTorrent(s, mode) ==
  /\ ~up /\ Restorable(s, mode)
  /\ up' = TRUE
  /\ \E kept \in {Reconciled(s, mode)} :
       LET t == RestoredState(kept)
       IN  torrent' = IF is_transfer_active(s.state) THEN Started(t) ELSE t
  /\ spoilt' = IF mode = "Full" THEN {} ELSE torrent'.bitfield
  /\ UNCHANGED <<info, magnet, late, fs, dirs, saved, gone, budget>>

\* add_torrent, without a snapshot, on whatever files there are.
AddTorrent ==
  /\ ~up /\ up' = TRUE
  /\ torrent' = Fresh(torrent.args[1], torrent.args[2])
  /\ spoilt' = {}
  /\ UNCHANGED <<info, magnet, late, fs, dirs, saved, gone, budget>>

-----------------------------------------------------------------------------
(* Ends *)

\* The actor crashes and supervision starts it again from its args.
ActorRestarts ==
  /\ up /\ Spend({"end"})
  /\ torrent' = Fresh(torrent.args[1], torrent.args[2])
  /\ late' = {}
  /\ spoilt' = {}
  /\ UNCHANGED <<info, magnet, up, fs, dirs, saved, gone>>

ProcessEnds ==
  /\ up /\ Spend({"end"})
  /\ up' = FALSE
  /\ late' = {}
  /\ UNCHANGED <<info, magnet, torrent, fs, dirs, saved, spoilt, gone>>

\* While the process is down a file is removed, cut short or overwritten, or
\* an output folder is removed.
FilesDamaged ==
  /\ ~up /\ Spend({"fault"})
  /\ \/ \E p \in DOMAIN fs :
          /\ fs' \in { [q \in DOMAIN fs \ {p} |-> fs[q]],
                       [fs EXCEPT ![p] = SubSeq(@, 1, Len(@) - 1)],
                       [fs EXCEPT ![p] = [@ EXCEPT ![Len(@)] = 2]] }
          /\ gone' = (gone \/ p[1] = "output")
          /\ UNCHANGED dirs
     \/ \E d \in dirs :
          /\ dirs' = dirs \ {d}
          /\ fs' = [q \in {q \in DOMAIN fs : q[1] = "piece" \/ q[2] # d}
                      |-> fs[q]]
          /\ gone' = TRUE
  /\ UNCHANGED <<info, magnet, up, torrent, late, saved, spoilt>>

-----------------------------------------------------------------------------

SnapInit ==
  /\ \E s \in Starts : /\ info = s.info /\ magnet = s.magnet /\ dirs = s.dirs
                        /\ torrent = Fresh(s.storage, s.out)
                        /\ budget = s.budget
  /\ up = TRUE /\ late = {} /\ fs = <<>> /\ saved = NoSnapshot
  /\ spoilt = {} /\ gone = FALSE

SnapNext ==
  \/ \E x \in AllBlocks, byte \in 1..2 : IncomingPiece(x[1], x[2], byte)
  \/ SetState \/ InfoBytes \/ SetPieceManager
  \/ \E storage \in {"InFile", "Disk"} : SetPieceStorage(storage)
  \/ \E d \in Dirs : SetOutputPath(d)
  \/ SnapshotState
  \/ /\ saved # NoSnapshot
     /\ \E s \in {Deserialized(w) : w \in Wires(saved)}, mode \in Modes :
          RestoreTorrent(s, mode)
  \/ AddTorrent \/ ActorRestarts \/ ProcessEnds \/ FilesDamaged

SnapSpec == SnapInit /\ [][SnapNext]_snapVars

-----------------------------------------------------------------------------
(* Properties *)

\* Every variable has its type, and block maps hold blocks of the torrent.
SnapTypeOK ==
  /\ {magnet, up, gone} \subseteq BOOLEAN
  /\ torrent.bitfield \subseteq Pieces(info)
  /\ \A i \in DOMAIN torrent.blocks : torrent.blocks[i] \subseteq Blocks(info, i)
  /\ torrent.sched \in {0, piece_count(info)}
  /\ torrent.out \in Dirs \cup {NoDir} /\ dirs \subseteq Dirs
  /\ spoilt \subseteq Pieces(info)

\* Every byte of every file lies in exactly one of the segments.
Once(of, segments) ==
  \A k \in DOMAIN of.files : \A o \in 0..(of.files[k] - 1) :
    Cardinality({n \in DOMAIN segments :
       /\ segments[n].file = k
       /\ segments[n].offset <= o
       /\ o < segments[n].offset + segments[n].len}) = 1

\* The output files are tiled by the pieces: piece_to_paths gives every byte
\* of every file to exactly one piece, the blocks of a piece tile the piece
\* through piece_range_segments, and the two ways the code computes the
\* length of a piece agree.  The layout follows from the info dictionary alone,
\* so it is examined for a torrent file before anything is stored.
LayoutExact ==
  fs = <<>> /\ ~magnet =>
    /\ \A i \in Pieces(info) : piece_length(info, i) = concrete_piece_len(info, i)
    /\ Once(info, FlattenSeq([n \in 1..piece_count(info) |->
                                PieceSegments(info, n - 1)]))
    /\ Once(info, FlattenSeq([n \in 1..piece_count(info) |->
         FlattenSeq([m \in 1..expected_blocks(info, n - 1) |->
                       BlockSegments(info, n - 1, m - 1)])]))

\* What the bitfield says is stored where the torrent would read it: a piece
\* that was verified, and whose bytes no later block or unchecked restore
\* concerned, verifies in its piece file or in the current output files.  Disk
\* storage has delivered it to the output files as well.
VerifiedIsStored ==
  up => \A i \in torrent.bitfield \ spoilt :
    IF torrent.storage = "InFile"
    THEN OutputVerifies(fs, torrent.out, info, i)
    ELSE /\ PieceFileVerifies(fs, info, i)
         /\ torrent.manager = "default" /\ ~gone
              => OutputVerifies(fs, torrent.out, info, i)

\* A full restore claims exactly the pieces the snapshot claims and storage
\* still holds; and in every mode a stored block is neither invented nor
\* forgotten, so that an incomplete piece goes on where it was.
RestoreExact ==
  [][ ~up /\ up' /\ torrent' # Fresh(torrent'.storage, torrent'.out) =>
        LET held(i) == IF saved.storage = "InFile"
                       THEN OutputVerifies(fs, saved.out, info, i)
                       ELSE PieceFileVerifies(fs, info, i)
        IN  /\ torrent'.bitfield \subseteq saved.ones
            /\ {i \in saved.ones : held(i)} \subseteq torrent'.bitfield
            /\ spoilt' = {} => \A i \in torrent'.bitfield : held(i)
            /\ \A i \in DOMAIN saved.block_map :
                 {b \in saved.block_map[i] : BlockBacked(saved, i, b)}
                   \subseteq StoredBlocks(torrent', i)
            /\ \A i \in DOMAIN torrent'.blocks :
                 torrent'.blocks[i] \subseteq saved.block_map[i] ]_snapVars

\* The progress announced to trackers never exceeds the torrent, is complete
\* exactly when every byte is stored, and covers the verified bytes the live
\* view shows.
ProgressExact ==
  has_info(torrent) =>
    /\ total_bytes_downloaded(torrent) <= total_length(info)
    /\ total_verified_bytes(torrent) <= total_bytes_downloaded(torrent)
    /\ total_verified_bytes(torrent) = total_length(info)
         <=> torrent.bitfield = Pieces(info)

\* A torrent seeds only when it has every piece, also after it was restored
\* from a snapshot that was seeding and whose files are damaged.
SeedingIsFull == torrent.state = "Seeding" => is_full(torrent)

\* A snapshot that was captured from a torrent with an output folder can be
\* restored: it passes its own validation.
SnapshotsValidate ==
  saved # NoSnapshot /\ saved.out # NoDir => validate(saved)

\* What the torrent says it has is where it would read it: the files are tiled
\* by the pieces and hold every piece that was verified (torrent/piece_flow.rs,
\* validate_and_commit_piece; pieces/piece_manager.rs, piece_to_paths).
StorageSound == SnapTypeOK /\ LayoutExact /\ VerifiedIsStored

\* What the torrent says of its progress is so, through faults, restarts and
\* restoration (torrent/actor.rs, total_bytes_downloaded and is_full).
ProgressSound == ProgressExact /\ SeedingIsFull
================================================================================
