----------------------------- MODULE FileBlockIO ----------------------------
(* FileBlockIO (src/upstairs/src/block_io.rs): BlockIO over a local file,  *)
(* shared by concurrent callers.  The std File has one cursor, so a read   *)
(* or write is a seek followed by read_exact or write_all; the tokio Mutex *)
(* around the File is what keeps another caller's seek out from between    *)
(* the two.  Each await point of the code is a step of its own.            *)
(* Offsets and lengths are in blocks (start = offset.value * block_size).  *)
EXTENDS Naturals, Sequences

CONSTANTS
    Callers,     \* tasks calling the same FileBlockIO
    MaxBlocks,   \* bound on the file's length in blocks
    Requests,    \* the calls a caller may make: [kind, off, n]
    MaxCalls,    \* bound on the calls of each caller
    NoCaller     \* the Mutex is free

VARIABLES
    content,     \* block -> the value last written to it (0: never written)
    size,        \* the file's length in blocks
    cursor,      \* the File's seek position, in blocks
    holder,      \* the caller holding self.file's Mutex, or NoCaller
    req,         \* caller -> the call it is in
    pc,          \* caller -> "idle", "lock", "seek", "io", "bail" or "ret"
    res,         \* caller -> what the call returned
    calls        \* caller -> calls made so far

vars == <<content, size, cursor, holder, req, pc, res, calls>>

\* What a call returns: Ok or an error, with the data a read filled in.
Status(st) == [st |-> st, data |-> <<>>]

Slice(f, off, n) == [i \in 1..n |-> f[off + i - 1]]

Init ==
    /\ content = [b \in 0..(MaxBlocks - 1) |-> 0]
    /\ size \in 0..MaxBlocks
    /\ cursor = 0
    /\ holder = NoCaller
    /\ req = [c \in Callers |-> <<>>]
    /\ pc = [c \in Callers |-> "idle"]
    /\ res = [c \in Callers |-> Status("none")]
    /\ calls = [c \in Callers |-> 0]

\* A caller enters read, write, flush or write_unwritten.
Invoke(c) ==
    /\ pc[c] = "idle"
    /\ calls[c] < MaxCalls
    /\ \E r \in Requests :
         /\ req' = [req EXCEPT ![c] = r]
         /\ pc' = [pc EXCEPT ![c] = IF r.kind = "write_unwritten"
                                    THEN "bail" ELSE "lock"]
    /\ calls' = [calls EXCEPT ![c] = @ + 1]
    /\ UNCHANGED <<content, size, cursor, holder, res>>

\* write_unwritten: crucible_bail!(Unsupported, ...).
Bail(c) ==
    /\ pc[c] = "bail"
    /\ res' = [res EXCEPT ![c] = Status("unsupported")]
    /\ pc' = [pc EXCEPT ![c] = "ret"]
    /\ UNCHANGED <<content, size, cursor, holder, req, calls>>

LockUnchecked(c) ==
    /\ pc[c] = "lock"
    /\ holder' = c
    /\ pc' = [pc EXCEPT ![c] = IF req[c].kind = "flush" THEN "io" ELSE "seek"]
    /\ UNCHANGED <<content, size, cursor, req, res, calls>>

\* self.file.lock().await
Lock(c) ==
    /\ pc[c] = "lock"
    /\ holder = NoCaller
    /\ holder' = c
    /\ pc' = [pc EXCEPT ![c] = IF req[c].kind = "flush" THEN "io" ELSE "seek"]
    /\ UNCHANGED <<content, size, cursor, req, res, calls>>

\* file.seek(SeekFrom::Start(start))
Seek(c) ==
    /\ pc[c] = "seek"
    /\ cursor' = req[c].off
    /\ pc' = [pc EXCEPT ![c] = "io"]
    /\ UNCHANGED <<content, size, holder, req, res, calls>>

\* file.read_exact(&mut data_vec[..]): fills the buffer from the cursor, or
\* fails with UnexpectedEof having read to the end of the file.
ReadExact(c) ==
    /\ pc[c] = "io"
    /\ req[c].kind = "read"
    /\ IF cursor + req[c].n <= size
       THEN /\ res' = [res EXCEPT ![c] = [st |-> "ok",
                                        data |-> Slice(content, cursor, req[c].n)]]
            /\ cursor' = cursor + req[c].n
       ELSE /\ res' = [res EXCEPT ![c] = Status("err")]
            /\ cursor' = size
    /\ pc' = [pc EXCEPT ![c] = "ret"]
    /\ UNCHANGED <<content, size, holder, req, calls>>

\* file.write_all(&data[..]): writes from the cursor, extending the file.
WriteAll(c) ==
    /\ pc[c] = "io"
    /\ req[c].kind = "write"
    /\ content' = [b \in DOMAIN content |->
                     IF b \in cursor..(cursor + req[c].n - 1) THEN c
                     ELSE content[b]]
    /\ size' = IF cursor + req[c].n > size THEN cursor + req[c].n ELSE size
    /\ cursor' = cursor + req[c].n
    /\ res' = [res EXCEPT ![c] = Status("ok")]
    /\ pc' = [pc EXCEPT ![c] = "ret"]
    /\ UNCHANGED <<holder, req, calls>>

\* flush: file.flush() under the lock.
FlushFile(c) ==
    /\ pc[c] = "io"
    /\ req[c].kind = "flush"
    /\ res' = [res EXCEPT ![c] = Status("ok")]
    /\ pc' = [pc EXCEPT ![c] = "ret"]
    /\ UNCHANGED <<content, size, cursor, holder, req, calls>>

\* The method returns (Ok or through `?`); the MutexGuard is dropped.
Return(c) ==
    /\ pc[c] = "ret"
    /\ holder' = IF holder = c THEN NoCaller ELSE holder
    /\ pc' = [pc EXCEPT ![c] = "idle"]
    /\ UNCHANGED <<content, size, cursor, req, res, calls>>

Next == \E c \in Callers :
          \/ Invoke(c) \/ Bail(c) \/ Lock(c) \/ Seek(c)
          \/ ReadExact(c) \/ WriteAll(c) \/ FlushFile(c) \/ Return(c)

Spec == Init /\ [][Next]_vars

-----------------------------------------------------------------------------
(* Properties                                                              *)

\* Linearizability: with the seek and the read or write done under one hold
\* of the file Mutex, FileBlockIO implements AtomicBlockIO; the read_exact
\* or write_all step is the instant the call takes effect.
Atomic == INSTANCE AtomicBlockIO
    WITH phase <- [c \in Callers |->
                    CASE pc[c] = "idle" -> "idle"
                      [] pc[c] \in {"lock", "seek", "io", "bail"} -> "pending"
                      [] pc[c] = "ret" -> "applied"]

Linearizable == Atomic!ASpec
=============================================================================
