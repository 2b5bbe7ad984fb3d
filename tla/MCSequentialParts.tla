------------------------- MODULE MCSequentialParts -------------------------
(* The parts of the repository that run without concurrency, checked in   *)
(* one run: the downstairs' import and export (ImportExport), the unit    *)
(* tests of Work (WorkTests) and of the Downstairs methods               *)
(* (DownstairsTests), and the                                              *)
(* upstairs' HTTP BlockIO (ReqwestBlockIO), and proc's negotiation with  *)
(* an arbitrary peer (Negotiation).  They share no state, so each        *)
(* behaviour runs one of them                                              *)
(* while the others stay in a fixed initial state, and each keeps its own *)
(* properties.                                                             *)
EXTENDS WorkTests, DownstairsTests

CONSTANTS BlockSize, ExtentSize, InitialExtents, MaxExtents, ChunkSize,
          FileLens, ExportStarts, ExportCounts,
          Offsets, Lens, Width, ErrorBodyLens, Builds,
          NodeReadOnly, NodeEncrypted, Versions, UpstairsIds, SessionIds,
          Gens, MaxFrames, Deadline

VARIABLES file, fpos, extents, region, phase, buf, offset, out, exportArgs,
          rfile, rstate, rtotal, rlast,
          negotiated, upstairs_connection, active, signal, nstate, replies,
          frames, idle,
          part  \* the part this behaviour runs

IE == INSTANCE ImportExport
RQ == INSTANCE ReqwestBlockIO
NG == INSTANCE Negotiation

ievars == <<file, fpos, extents, region, phase, buf, offset, out, exportArgs>>
rqvars == <<rfile, rstate, rtotal, rlast>>
ngvars == <<negotiated, upstairs_connection, active, signal, nstate, replies,
            frames, idle>>
allvars == <<part, test, dtest, ievars, rqvars, ngvars>>

Parts == {"import_export", "work_tests", "downstairs_tests", "reqwest",
          "negotiation"}

SeqInit ==
    /\ part \in Parts
    /\ IF part = "import_export" THEN IE!Init ELSE IE!Init /\ file = <<>>
    /\ IF part = "work_tests" THEN TestInit ELSE test = 1
    /\ IF part = "downstairs_tests" THEN DsTestInit ELSE dtest = 1
    /\ IF part = "reqwest" THEN RQ!Init ELSE RQ!Init /\ rfile = <<>>
    /\ NG!Init

SeqNext ==
    \/ part = "import_export" /\ IE!Next
       /\ UNCHANGED <<part, test, dtest, rqvars, ngvars>>
    \/ part = "work_tests" /\ TestNext
       /\ UNCHANGED <<part, dtest, ievars, rqvars, ngvars>>
    \/ part = "downstairs_tests" /\ DsTestNext
       /\ UNCHANGED <<part, test, ievars, rqvars, ngvars>>
    \/ part = "reqwest" /\ RQ!Next
       /\ UNCHANGED <<part, test, dtest, ievars, ngvars>>
    \/ part = "negotiation" /\ NG!NegNext
       /\ UNCHANGED <<part, test, dtest, ievars, rqvars>>

SeqSpec == SeqInit /\ [][SeqNext]_allvars

TypeOK == IE!TypeOK /\ RQ!TypeOK /\ NG!TypeOK
ImportFits == IE!ImportFits
RoundTrip == IE!RoundTrip
ExportRange == IE!ExportRange
InRangeReadExact == RQ!InRangeReadExact
NegotiationReplies == NG!NegotiationReplies
=============================================================================
