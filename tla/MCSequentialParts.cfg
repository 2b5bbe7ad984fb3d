\* The import/export of a file of 0..9 bytes into a region of blocks of 2
\* bytes, extents of 2 blocks and chunks of 2 blocks, created with 1 extent
\* (so the import extends it, spans chunks and pads a short last block);
\* next to it, the unit tests of Work and
\* of the Downstairs methods; and ReqwestBlockIO over objects of 0..9 bytes,
\* reads of 0, 2 or 4 bytes at blocks 0..5 (inside, across and past the end),
\* 5-bit integers (enough for every offset, so only the empty read's header
\* wraps or panics), and 416 pages of 0 or 2 bytes; and proc's negotiation
\* with a read-write, unencrypted node and a peer sending 5 frames of any
\* kind (enough for the four steps plus one frame out of place), of
\* version 1 or 2, both flags, one upstairs_id, two session_ids and two
\* gens (so UuidMismatch and the gen update both happen).
CONSTANTS
    BlockSize = 2
    ExtentSize = 2
    InitialExtents = 1
    MaxExtents = 3
    ChunkSize = 4
    FileLens = {0, 1, 2, 3, 4, 5, 6, 7, 8, 9}
    ExportStarts = {0}
    ExportCounts = {0, 1, 2, 3, 4, 5}
    Offsets = {0, 1, 2, 3, 4, 5}
    Lens = {0, 2, 4}
    Width = 5
    ErrorBodyLens = {0, 2}
    Builds = {"debug", "release"}
    NodeReadOnly = FALSE
    NodeEncrypted = FALSE
    Versions = {1, 2}
    UpstairsIds = {1}
    SessionIds = {1, 2}
    Gens = {1, 2}
    MaxFrames = 5
    Deadline = 2
SPECIFICATION SeqSpec
INVARIANT TypeOK ImportFits RoundTrip WorkTestsHold DownstairsTestsHold
          InRangeReadExact NegotiationReplies
\* The import and the export each run once; the program then exits.
CHECK_DEADLOCK FALSE
