---------------------------- MODULE MCFileBlockIO ---------------------------
(* Two callers on a file of up to four blocks.  Reads and writes of one or *)
(* two blocks at offsets 0..2 overlap one another and the end of the file. *)
EXTENDS FileBlockIO

MCRequests ==
    [kind : {"read", "write"}, off : 0..2, n : 1..2]
      \cup [kind : {"flush", "write_unwritten"}, off : {0}, n : {0}]
=============================================================================
