--------------------------- MODULE ReqwestBlockIO ---------------------------
(* ReqwestBlockIO (src/upstairs/src/block_io.rs): BlockIO over an HTTP(S)  *)
(* URL.  new() measures the object with a HEAD request and keeps its        *)
(* Content-Length as total_size; read() asks for its bytes with a Range     *)
(* header, checks the answer's Content-Length against the buffer with       *)
(* assert_eq! and copies the body; write and write_unwritten are           *)
(* Unsupported and flush does nothing.  The calls share no mutable state   *)
(* but the probe counter, so one caller making one call at a time is all   *)
(* the model needs.                                                         *)
(*                                                                         *)
(* The object holds the bytes 1..L.  The server answers a Range as RFC     *)
(* 7233 lets it.  Integers are u64 scaled down to Width bits: a debug      *)
(* build panics on overflow, a release build wraps; both are choices.      *)
EXTENDS Naturals, Sequences

CONSTANTS
    BlockSize,      \* self.block_size
    FileLens,       \* lengths in bytes of the objects the URL may serve
    Offsets,        \* offset.value of the reads (in blocks)
    Lens,           \* data_vec.len() of the reads (in bytes)
    Width,          \* bits of a u64
    ErrorBodyLens,  \* lengths of the body the server sends with a 416
    Builds          \* "debug" (overflow panics) and/or "release" (wraps)

VARIABLES
    rfile,   \* the object at the URL
    rstate,  \* "new", "ready" (new() returned Ok), "failed", "panicked"
    rtotal,  \* self.total_size
    rlast    \* the last call: [op, off, len, res, data]

rvars == <<rfile, rstate, rtotal, rlast>>

Modulus == 2^Width
Object(L) == [i \in 1..L |-> i]
\* The body of a 416 page: zeros, told apart from the object's bytes.
ErrorBody(n) == [i \in 1..n |-> 0]
NoCall == [op |-> "none", off |-> 0, len |-> 0, res |-> "none", data |-> <<>>]

\* A u64 result: in range, or a panic (debug) or the wrapped value (release).
U64(x, build) ==
    IF x \in 0..(Modulus - 1) THEN [panic |-> FALSE, v |-> x]
    ELSE [panic |-> build = "debug", v |-> x % Modulus]

\* A fault model of the Range header that takes start + len as its last
\* byte, as if the range were half-open.
RangeHeaderPastEnd(off, len, build) ==
    LET s == U64(off * BlockSize, build)
        e == U64(s.v + len, build)
    IN [panic |-> s.panic \/ e.panic, first |-> s.v, last |-> e.v]

\* "bytes={start}-{start + data_vec.len() - 1}" with start =
\* offset.value * block_size, each operation in u64.
RangeHeader(off, len, build) ==
    LET s == U64(off * BlockSize, build)
        t == U64(s.v + len, build)
        e == U64(t.v - 1, build)
    IN [panic |-> s.panic \/ t.panic \/ e.panic, first |-> s.v, last |-> e.v]

\* The bodies a server may answer "Range: bytes=a-b" with (RFC 7233): a
\* last byte before the first makes the header invalid and it is ignored
\* (200, the whole object); a first byte at or past the end is
\* unsatisfiable (416 and an error page); otherwise 206 and the bytes from
\* a up to the last byte or the end of the object.
RangeBodies(f, a, b) ==
    IF b < a THEN {f}
    ELSE IF a >= Len(f) THEN {ErrorBody(n) : n \in ErrorBodyLens}
    ELSE {SubSeq(f, a + 1, IF b < Len(f) THEN b + 1 ELSE Len(f))}

Init ==
    /\ rfile \in {Object(L) : L \in FileLens}
    /\ rstate = "new"
    /\ rtotal = 0
    /\ rlast = NoCall

\* ReqwestBlockIO::new: HEAD the URL; a failed request or a missing or
\* unparsable Content-Length is an error, otherwise it is total_size.
New ==
    /\ rstate = "new"
    /\ \/ rstate' = "failed" /\ UNCHANGED rtotal
       \/ rstate' = "ready" /\ rtotal' = Len(rfile)
    /\ UNCHANGED <<rfile, rlast>>

Finish(call, res, data) ==
    /\ rlast' = [call EXCEPT !.res = res, !.data = data]
    /\ UNCHANGED <<rfile, rstate, rtotal>>

Panic(call) ==
    /\ rlast' = [call EXCEPT !.res = "panic"]
    /\ rstate' = "panicked"
    /\ UNCHANGED <<rfile, rtotal>>

\* read: the Range request; a failed send, a missing Content-Length
\* (a chunked answer) or a failed bytes() is an error; a Content-Length
\* other than the buffer's length fails the assert_eq!; otherwise the
\* body is copied into the buffer.
Read ==
    /\ rstate = "ready"
    /\ \E off \in Offsets, len \in Lens, build \in Builds :
         LET r == RangeHeader(off, len, build)
             call == [NoCall EXCEPT !.op = "read", !.off = off, !.len = len]
         IN IF r.panic THEN Panic(call)
            ELSE \/ Finish(call, "err", <<>>)
                 \/ \E body \in RangeBodies(rfile, r.first, r.last) :
                      IF Len(body) # len THEN Panic(call)
                      ELSE Finish(call, "ok", body)

\* write and write_unwritten: crucible_bail!(Unsupported, ...).
Unsupported ==
    /\ rstate = "ready"
    /\ \E op \in {"write", "write_unwritten"} :
         Finish([NoCall EXCEPT !.op = op], "unsupported", <<>>)

\* flush: Ok(()) without a request.
Flush ==
    /\ rstate = "ready"
    /\ Finish([NoCall EXCEPT !.op = "flush"], "ok", <<>>)

Next == New \/ Read \/ Unsupported \/ Flush

Spec == Init /\ [][Next]_rvars

-----------------------------------------------------------------------------
(* Properties                                                              *)

TypeOK ==
    /\ rstate \in {"new", "ready", "failed", "panicked"}
    /\ rtotal \in {Len(rfile), 0}
    /\ rlast.res \in {"none", "ok", "err", "unsupported", "panic"}

\* A read that is not empty and lies inside the object new() measured never
\* panics: the Range header names exactly its bytes, so the 206 answer's
\* Content-Length equals the buffer's, and an Ok read filled the buffer
\* with the object's bytes from offset * block_size on.  (An empty read,
\* whose header underflows, and a read past the end may panic.)
InRangeReadExact ==
    LET c == rlast
        start == c.off * BlockSize
    IN (c.op = "read" /\ c.len > 0 /\ start + c.len <= rtotal) =>
         \/ c.res = "err"
         \/ c.res = "ok" /\ c.data = SubSeq(rfile, start + 1, start + c.len)
=============================================================================
