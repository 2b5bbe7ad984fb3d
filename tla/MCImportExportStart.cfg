\* The export of MCImportExport.cfg, from every start_block up to 5.
CONSTANTS
    BlockSize = 2
    ExtentSize = 2
    InitialExtents = 1
    MaxExtents = 3
    ChunkSize = 4
    FileLens = {0, 1, 2, 3, 4, 5, 6, 7, 8, 9}
    ExportStarts = {0, 1, 2, 3, 4, 5}
    ExportCounts = {0, 1, 2, 3, 4, 5}
SPECIFICATION Spec
INVARIANT ExportRange
\* The import and the export each run once; the program then exits.
CHECK_DEADLOCK FALSE
