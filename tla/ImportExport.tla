---------------------------- MODULE ImportExport ----------------------------
(* downstairs_import and downstairs_export (src/downstairs/src/lib.rs):    *)
(* copying a file into a fresh region and a range of blocks back out.      *)
(*                                                                         *)
(* The file holds the bytes 1..L (byte i has value i, so every byte is     *)
(* told apart from the others and from the zero padding).  The region is   *)
(* a function from LBA to the block's bytes; Region's own extent files are *)
(* not modelled.  The import is a state machine with one action per turn   *)
(* of its loops, because f.read may return any number of bytes up to the  *)
(* free space of the chunk buffer.  The export is a single action, a pure  *)
(* function of the region, run once the import is done.                    *)
EXTENDS Naturals, Sequences, SequencesExt

CONSTANTS
    BlockSize,       \* region.def().block_size()
    ExtentSize,      \* blocks per extent, extent_size.value
    InitialExtents,  \* extent_count of the fresh region
    MaxExtents,      \* bound on region.extend, enough for every file length
    ChunkSize,       \* CHUNK_SIZE, a whole number of blocks
    FileLens,        \* lengths in bytes of the files imported
    ExportStarts,    \* start_block arguments of the export
    ExportCounts     \* count arguments of the export

ASSUME /\ BlockSize > 0 /\ ExtentSize > 0 /\ InitialExtents > 0
       /\ ChunkSize % BlockSize = 0 /\ ChunkSize > 0

VARIABLES
    file,        \* the bytes of import_path
    fpos,        \* bytes of the file read so far
    extents,     \* region.def().extent_count()
    region,      \* LBA -> bytes of that block
    phase,       \* "start", "read", "chunk", "done", "exported" or "error"
    buf,         \* buffer[0..total]: the bytes of the current chunk
    offset,      \* offset: the first LBA of the current chunk
    out,         \* the bytes written to export_path
    exportArgs   \* [start, count] the export ran with

vars == <<file, fpos, extents, region, phase, buf, offset, out, exportArgs>>

SpacePerExtent == ExtentSize * BlockSize
LBAs == 0..(MaxExtents * ExtentSize - 1)
ZeroBlock == [i \in 1..BlockSize |-> 0]
Zeros(n) == [i \in 1..n |-> 0]
CeilDiv(a, b) == (a + b - 1) \div b

-----------------------------------------------------------------------------
(* downstairs_import                                                       *)

Init ==
    /\ \E L \in FileLens : file = [i \in 1..L |-> i]
    /\ fpos = 0
    /\ extents = InitialExtents
    /\ region = [b \in LBAs |-> ZeroBlock]
    /\ phase = "start"
    /\ buf = <<>>
    /\ offset = 0
    /\ out = <<>>
    /\ exportArgs = <<>>

ExtentsNeededFloor(size) == size \div SpacePerExtent

\* extents_needed = ceil(file_size / space_per_extent).
ExtentsNeeded(size) ==
    size \div SpacePerExtent + (IF size % SpacePerExtent # 0 THEN 1 ELSE 0)

\* The size check and region.extend, before the chunk loop.
Extend ==
    /\ phase = "start"
    /\ extents' = IF ExtentsNeeded(Len(file)) > extents
                  THEN ExtentsNeeded(Len(file)) ELSE extents
    /\ phase' = "read"
    /\ UNCHANGED <<file, fpos, region, buf, offset, out, exportArgs>>

ReadSomePastBuffer ==
    /\ phase = "read"
    /\ Len(buf) < ChunkSize
    /\ fpos < Len(file)
    /\ \E n \in 1..(ChunkSize - Len(buf) + 1) :
         /\ fpos + n <= Len(file)
         /\ buf' = buf \o SubSeq(file, fpos + 1, fpos + n)
         /\ fpos' = fpos + n
    /\ UNCHANGED <<file, extents, region, phase, offset, out, exportArgs>>

\* n = f.read(&mut buffer[total..]) with 0 < n: any number of the bytes
\* left in the file that fit in the rest of the buffer.
ReadSome ==
    /\ phase = "read"
    /\ Len(buf) < ChunkSize
    /\ fpos < Len(file)
    /\ \E n \in 1..(ChunkSize - Len(buf)) :
         /\ fpos + n <= Len(file)
         /\ buf' = buf \o SubSeq(file, fpos + 1, fpos + n)
         /\ fpos' = fpos + n
    /\ UNCHANGED <<file, extents, region, phase, offset, out, exportArgs>>

ReadEofNoPad ==
    /\ phase = "read"
    /\ Len(buf) < ChunkSize
    /\ fpos = Len(file)
    /\ phase' = "chunk"
    /\ UNCHANGED <<file, fpos, extents, region, buf, offset, out, exportArgs>>

\* n == 0: EOF.  Pad the buffer with zeroes to a block multiple.
ReadEof ==
    /\ phase = "read"
    /\ Len(buf) < ChunkSize
    /\ fpos = Len(file)
    /\ buf' = buf \o Zeros(CeilDiv(Len(buf), BlockSize) * BlockSize - Len(buf))
    /\ phase' = "chunk"
    /\ UNCHANGED <<file, fpos, extents, region, offset, out, exportArgs>>

\* total == CHUNK_SIZE: the buffer is full.
ReadFull ==
    /\ phase = "read"
    /\ Len(buf) = ChunkSize
    /\ phase' = "chunk"
    /\ UNCHANGED <<file, fpos, extents, region, buf, offset, out, exportArgs>>

\* The blocks of one chunk: extent_from_offset(rm, offset, nblocks) maps
\* LBA offset + k to (eid, block in extent); the region is keyed by LBA.
\* region_write fails (the `?`) when an eid is past the region's extents.
WriteChunk ==
    /\ phase = "chunk"
    /\ buf # <<>>
    /\ LET nblocks == Len(buf) \div BlockSize
           lbas == offset..(offset + nblocks - 1)
           Data(b) == SubSeq(buf, (b - offset) * BlockSize + 1,
                                  (b - offset + 1) * BlockSize)
       IN IF \A b \in lbas : b \div ExtentSize < extents
          THEN /\ region' = [b \in LBAs |-> IF b \in lbas THEN Data(b)
                                             ELSE region[b]]
               /\ offset' = offset + nblocks
               /\ buf' = <<>>
               /\ phase' = "read"
          ELSE /\ phase' = "error"
               /\ UNCHANGED <<region, offset, buf>>
    /\ UNCHANGED <<file, fpos, extents, out, exportArgs>>

\* total == 0: nothing more was read, the import returns Ok.
ImportDone ==
    /\ phase = "chunk"
    /\ buf = <<>>
    /\ phase' = "done"
    /\ UNCHANGED <<file, fpos, extents, region, buf, offset, out, exportArgs>>

-----------------------------------------------------------------------------
(* downstairs_export                                                       *)

\* The (eid, block_offset) pairs of 'eid_loop in the order it visits them.
Positions(n) ==
    [i \in 1..(n * ExtentSize) |-> [eid |-> (i - 1) \div ExtentSize,
                                     off |-> (i - 1) % ExtentSize]]

ExportedNoSentinel(start, count, n) ==
    LET passing == SelectSeq(Positions(n),
                     LAMBDA p : p.eid * SpacePerExtent + p.off >= start)
    IN SubSeq(passing, 1, IF count < Len(passing) THEN count ELSE Len(passing))

\* The pairs region_read is called on: those passing the start_block test,
\* up to the break once blocks_copied >= count (count 0 meaning all blocks).
\* extent_offset is space_per_extent * eid, which is in bytes.
Exported(start, count, n) ==
    LET cnt == IF count = 0 THEN ExtentSize * n ELSE count
        passing == SelectSeq(Positions(n),
                     LAMBDA p : p.eid * SpacePerExtent + p.off >= start)
    IN SubSeq(passing, 1, IF cnt < Len(passing) THEN cnt ELSE Len(passing))

Export ==
    /\ phase = "done"
    /\ \E start \in ExportStarts, count \in ExportCounts :
         /\ out' = FlattenSeq([i \in DOMAIN Exported(start, count, extents) |->
                      LET p == Exported(start, count, extents)[i]
                      IN region[p.eid * ExtentSize + p.off]])
         /\ exportArgs' = <<start, count>>
    /\ phase' = "exported"
    /\ UNCHANGED <<file, fpos, extents, region, buf, offset>>

Next == Extend \/ ReadSome \/ ReadEof \/ ReadFull \/ WriteChunk
        \/ ImportDone \/ Export

Spec == Init /\ [][Next]_vars

-----------------------------------------------------------------------------
(* Properties                                                              *)

TypeOK ==
    /\ fpos \in 0..Len(file)
    /\ extents \in 1..MaxExtents
    /\ phase \in {"start", "read", "chunk", "done", "exported", "error"}
    /\ Len(buf) <= ChunkSize
    /\ offset \in 0..(MaxExtents * ExtentSize)

\* The region import extends always has room for the file: the rounding up
\* of extents_needed and the zero padding of the last chunk never make
\* region_write reach past the last extent.
ImportFits == phase # "error"

\* The spec's round trip: importing L > 0 bytes into a fresh region and
\* exporting the first ceil(L / block_size) blocks from block 0 gives back
\* the file, padded with zero bytes to the next block boundary.
RoundTrip ==
    (phase = "exported" /\ exportArgs = <<0, CeilDiv(Len(file), BlockSize)>>
       /\ Len(file) > 0)
      => out = file \o Zeros(CeilDiv(Len(file), BlockSize) * BlockSize - Len(file))

\* downstairs_export's comment: it starts from start_block and stops after
\* count blocks (all remaining blocks when count is 0), so the file it
\* writes is the region's blocks start_block, start_block + 1, ...
ExportRange ==
    phase = "exported" =>
      LET start == exportArgs[1]
          total == extents * ExtentSize
          cnt == IF exportArgs[2] = 0 THEN total ELSE exportArgs[2]
          last == IF start + cnt < total THEN start + cnt ELSE total
      IN out = FlattenSeq([i \in 1..(last - start) |-> region[start + i - 1]])
=============================================================================
