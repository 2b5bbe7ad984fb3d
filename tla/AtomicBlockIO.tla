---------------------------- MODULE AtomicBlockIO ---------------------------
(* What a BlockIO over one file promises its concurrent callers: every     *)
(* read, write and flush takes effect at one instant between its call and  *)
(* its return, as if the calls ran one at a time.  A read past the end of  *)
(* the file fails; a write past the end extends it.                        *)
EXTENDS Naturals, Sequences

CONSTANTS
    Callers,     \* tasks sharing one BlockIO
    MaxBlocks,   \* bound on the file's length in blocks
    Requests     \* the calls a caller may make: [kind, off, n]

VARIABLES
    content,     \* block -> the value last written to it (0: never written)
    size,        \* length of the file in blocks
    req,         \* caller -> the call it is in
    phase,       \* caller -> "idle", "pending" (called) or "applied"
    res          \* caller -> what the call returned

avars == <<content, size, req, phase, res>>

\* What a call returns: Ok or an error, with the data a read filled in.
Status(st) == [st |-> st, data |-> <<>>]

Slice(f, off, n) == [i \in 1..n |-> f[off + i - 1]]

\* A read returns the blocks [off, off + n) or fails when they pass the end.
ReadResult(r, f, sz) ==
    IF r.off + r.n <= sz THEN [st |-> "ok", data |-> Slice(f, r.off, r.n)]
    ELSE Status("err")

\* A write stores the caller's value in [off, off + n).
Written(r, c, f) == [b \in DOMAIN f |-> IF b \in r.off..(r.off + r.n - 1)
                                         THEN c ELSE f[b]]

AInit ==
    /\ content = [b \in 0..(MaxBlocks - 1) |-> 0]
    /\ size \in 0..MaxBlocks
    /\ req = [c \in Callers |-> <<>>]
    /\ phase = [c \in Callers |-> "idle"]
    /\ res = [c \in Callers |-> Status("none")]

Call(c) ==
    /\ phase[c] = "idle"
    /\ \E r \in Requests : req' = [req EXCEPT ![c] = r]
    /\ phase' = [phase EXCEPT ![c] = "pending"]
    /\ UNCHANGED <<content, size, res>>

Apply(c) ==
    /\ phase[c] = "pending"
    /\ LET r == req[c] IN
       CASE r.kind = "read" ->
              /\ res' = [res EXCEPT ![c] = ReadResult(r, content, size)]
              /\ UNCHANGED <<content, size>>
         [] r.kind = "write" ->
              /\ content' = Written(r, c, content)
              /\ size' = IF r.off + r.n > size THEN r.off + r.n ELSE size
              /\ res' = [res EXCEPT ![c] = Status("ok")]
         [] r.kind = "flush" ->
              /\ res' = [res EXCEPT ![c] = Status("ok")]
              /\ UNCHANGED <<content, size>>
         [] r.kind = "write_unwritten" ->
              /\ res' = [res EXCEPT ![c] = Status("unsupported")]
              /\ UNCHANGED <<content, size>>
    /\ phase' = [phase EXCEPT ![c] = "applied"]
    /\ UNCHANGED req

Return(c) ==
    /\ phase[c] = "applied"
    /\ phase' = [phase EXCEPT ![c] = "idle"]
    /\ UNCHANGED <<content, size, req, res>>

ANext == \E c \in Callers : Call(c) \/ Apply(c) \/ Return(c)

ASpec == AInit /\ [][ANext]_avars
=============================================================================
