-------------------------------- MODULE Storage --------------------------------
(***************************************************************************)
(* Where the bytes of a torrent are kept: the piece and block arithmetic    *)
(* (metainfo/file.rs, torrent/snapshot.rs, torrent/piece_flow.rs), the map  *)
(* from a piece to its output files (pieces/piece_manager.rs) and the file  *)
(* operations on them (torrent/util.rs, pieces/piece_store.rs).             *)
(*                                                                         *)
(* A byte is 1 when it is the byte the torrent declares, 2 when it is not,  *)
(* and 0 in a hole of a sparse file; a hash matches when every byte is 1.   *)
(* A file system maps the paths of existing files to their bytes.           *)
(***************************************************************************)
EXTENDS Naturals, Sequences, FiniteSets, FiniteSetsExt, SequencesExt, Functions

CONSTANT BLOCK_SIZE

ASSUME BlockSizeAssumption == BLOCK_SIZE \in Nat \ {0}

\* `Info`: the piece length, the lengths of the files in order, and for each
\* piece its hash.  Pieces are counted from 0, files from 1.
piece_count(info) == Len(info.hashes)
Pieces(info) == 0..(piece_count(info) - 1)
total_length(info) == SumFunction(info.files)
HashOf(info, i) == info.hashes[i + 1]

div_ceil(a, b) == (a + b - 1) \div b

\* snapshot.rs: piece_length.
piece_length(info, i) ==
  IF i = piece_count(info) - 1
  THEN total_length(info) - info.piece_length * (piece_count(info) - 1)
  ELSE info.piece_length

\* piece_flow.rs, piece_scheduler.rs and total_bytes_downloaded take the last
\* piece's length from a remainder instead.
concrete_piece_len(info, i) ==
  IF i = piece_count(info) - 1 /\ total_length(info) % info.piece_length # 0
  THEN total_length(info) % info.piece_length
  ELSE info.piece_length

expected_blocks(info, i) == div_ceil(concrete_piece_len(info, i), BLOCK_SIZE)
Blocks(info, i) == 0..(expected_blocks(info, i) - 1)

expected_block_len(info, i, b) ==
  Min({concrete_piece_len(info, i) - b * BLOCK_SIZE, BLOCK_SIZE})

-----------------------------------------------------------------------------
(* piece_manager.rs: pieces and files *)

\* piece_to_paths: the walk over the files from the first one that ends after
\* the piece starts to the one in which the piece ends.
piece_to_paths(info, i) ==
  LET start == i * info.piece_length
      end == Min({start + info.piece_length, total_length(info)})
      walk(w, k) ==
        LET offset == IF start > w.acc THEN start - w.acc ELSE 0
            take == Min({w.remaining, info.files[k] - offset})
        IN  IF w.remaining = 0 \/ start >= w.acc + info.files[k]
            THEN [w EXCEPT !.acc = @ + info.files[k]]
            ELSE [acc |-> w.acc + info.files[k],
                  remaining |-> w.remaining - take,
                  results |-> Append(w.results, [file |-> k, offset |-> offset,
                                                 len |-> take])]
  IN  FoldLeft(walk, [acc |-> 0, remaining |-> end - start, results |-> <<>>],
               [k \in DOMAIN info.files |-> k]).results

\* piece_range_segments: the part of each of the paths that lies in the range.
piece_range_segments(info, i, offset, length) ==
  LET walk(w, path) ==
        LET take == Min({w.remaining, path.len - w.skipped})
        IN  IF w.remaining = 0 THEN w
            ELSE IF w.skipped >= path.len
            THEN [w EXCEPT !.skipped = @ - path.len]
            ELSE [skipped |-> 0, remaining |-> w.remaining - take,
                  segments |-> Append(w.segments,
                                      [file |-> path.file, len |-> take,
                                       offset |-> path.offset + w.skipped])]
  IN  FoldLeft(walk, [skipped |-> offset, remaining |-> length, segments |-> <<>>],
               piece_to_paths(info, i)).segments

-----------------------------------------------------------------------------
(* Files *)

OutputPath(dir, k) == <<"output", dir, k>>
PiecePath(info, i) == <<"piece", HashOf(info, i), 0>>

Missing == <<>>
BytesAt(fs, path) == IF path \in DOMAIN fs THEN fs[path] ELSE Missing

\* Opening with create, seeking past the end and writing leaves a hole.
ByteSpan(old, offset, length, byte) ==
  [k \in 1..Max({Len(old), offset + length}) |->
     IF k > offset /\ k <= offset + length THEN byte
     ELSE IF k <= Len(old) THEN old[k] ELSE 0]

WriteAt(fs, path, offset, length, byte) ==
  [p \in DOMAIN fs \cup {path} |->
     IF p = path THEN ByteSpan(BytesAt(fs, path), offset, length, byte)
                 ELSE fs[p]]

\* read_exact fails when the file is missing or too short.
CanRead(fs, path, offset, length) ==
  path \in DOMAIN fs /\ Len(fs[path]) >= offset + length
ReadAt(fs, path, offset, length) ==
  SubSeq(fs[path], offset + 1, offset + length)

\* write_piece_range: segment by segment; n of them before an error or the end.
write_piece_range(fs, dir, segments, n, byte) ==
  FoldLeft(LAMBDA f, s : WriteAt(f, OutputPath(dir, s.file), s.offset, s.len,
                                 byte),
           fs, SubSeq(segments, 1, n))

\* read_piece_range, over the segments of the range.
CanReadAll(fs, dir, segments) ==
  \A s \in ToSet(segments) : CanRead(fs, OutputPath(dir, s.file), s.offset, s.len)
read_piece_range(fs, dir, segments) ==
  FoldLeft(LAMBDA data, s :
             data \o ReadAt(fs, OutputPath(dir, s.file), s.offset, s.len),
           <<>>, segments)

BlockSegments(info, i, b) ==
  piece_range_segments(info, i, b * BLOCK_SIZE, expected_block_len(info, i, b))
PieceSegments(info, i) ==
  LET paths == piece_to_paths(info, i)
  IN  piece_range_segments(info, i, 0, SumFunction([n \in DOMAIN paths |-> paths[n].len]))

\* validate_piece_bytes and validate_piece_file: the SHA-1 of the bytes.
HashMatches(info, i, bytes) ==
  bytes = [k \in 1..concrete_piece_len(info, i) |-> 1]

\* Piece i can be read back whole from the output files in dir, and verifies.
OutputVerifies(fs, dir, info, i) ==
  LET segments == PieceSegments(info, i)
  IN  /\ CanReadAll(fs, dir, segments)
      /\ HashMatches(info, i, read_piece_range(fs, dir, segments))

\* The same for the standalone piece file.
PieceFileVerifies(fs, info, i) ==
  HashMatches(info, i, BytesAt(fs, PiecePath(info, i)))
================================================================================
