---------------------------- MODULE Negotiation ----------------------------
(* The negotiation loop of proc (src/downstairs/src/lib.rs) against a peer  *)
(* that may send any frame in any order: the four ordered steps, their      *)
(* out-of-order and mismatch rejections, Ruok, ignored frames, the         *)
(* eviction signal, the end of the stream and the deadline.  The Downstairs *)
(* is seen only as far as proc sees it: whether this connection's entry is  *)
(* the registered one (work_lock and is_active succeed) and whether another *)
(* upstairs' promotion has evicted it.  Downstairs.tla composes the same    *)
(* steps with the rest of the server for an upstairs that sends them in     *)
(* order.                                                                   *)
EXTENDS Naturals, SequencesExt

CONSTANTS
    NodeReadOnly,   \* ds.read_only
    NodeEncrypted,  \* ds.encrypted
    Versions,       \* versions a HereIAm may carry
    UpstairsIds,    \* upstairs_id values of the frames (positive)
    SessionIds,     \* session_id values of the frames (positive)
    Gens,           \* gen values of the frames
    MaxFrames,      \* frames the peer sends before it stops
    Deadline        \* the select's sleep, in ticks (50 seconds)

VARIABLES
    negotiated,           \* proc's step counter, 0..4
    upstairs_connection,  \* the recorded UpstairsConnection, NoUpstairs before HereIAm
    active,               \* "mine": the registry entry of upstairs_id is this connection's
    signal,               \* another_upstairs_active_rx holds a new connection
    nstate,               \* "neg" (in the loop), "resp" (resp_loop called), "closed"
    replies,              \* the frames proc wrote, in order
    frames,               \* frames read so far
    idle                  \* ticks since the loop last created its sleep_until

nvars == <<negotiated, upstairs_connection, active, signal, nstate, replies,
           frames, idle>>

NoUpstairs == [upstairs_id |-> 0, session_id |-> 0, gen |-> 0]

HereIAmFrames ==
    [t : {"HereIAm"}, version : Versions, upstairs_id : UpstairsIds,
     session_id : SessionIds, gen : Gens, read_only : BOOLEAN,
     encrypted : BOOLEAN]
PromoteFrames ==
    [t : {"PromoteToActive"}, upstairs_id : UpstairsIds,
     session_id : SessionIds, gen : Gens]
\* "Write" stands for every frame the loop logs and ignores.
OtherFrames ==
    [t : {"Ruok", "RegionInfoPlease", "LastFlush", "ExtentVersionsPlease",
          "Write"}]
Frames == HereIAmFrames \cup PromoteFrames \cup OtherFrames

Init ==
    /\ negotiated = 0
    /\ upstairs_connection = NoUpstairs
    /\ active = "none"
    /\ signal = FALSE
    /\ nstate = "neg"
    /\ replies = <<>>
    /\ frames = 0
    /\ idle = 0

\* bail!: proc returns Err, optionally after writing a rejection frame.
Bail(reply) ==
    /\ nstate' = "closed"
    /\ replies' = replies \o reply
    /\ UNCHANGED <<negotiated, upstairs_connection, active, signal>>

Reply(r) == replies' = Append(replies, r)

\* A fault model of HereIAm that drops the negotiated # 0 check, taking a
\* second greeting at any step.
HereIAmAnyStep(m) ==
    IF m.version # 1 THEN Bail(<<>>)
    ELSE IF m.read_only # NodeReadOnly THEN Bail(<<"ReadOnlyMismatch">>)
    ELSE IF m.encrypted # NodeEncrypted THEN Bail(<<"EncryptedMismatch">>)
    ELSE /\ negotiated' = 1
         /\ upstairs_connection' = [upstairs_id |-> m.upstairs_id,
                                    session_id |-> m.session_id, gen |-> m.gen]
         /\ Reply("YesItsMe")
         /\ UNCHANGED <<active, signal, nstate>>

\* HereIAm: out of order, a version other than 1, a read_only or an
\* encrypted flag that disagrees with the node each end the connection
\* (the last two after a mismatch frame); otherwise record the connection
\* and answer YesItsMe.
HereIAm(m) ==
    IF negotiated # 0 \/ m.version # 1 THEN Bail(<<>>)
    ELSE IF m.read_only # NodeReadOnly THEN Bail(<<"ReadOnlyMismatch">>)
    ELSE IF m.encrypted # NodeEncrypted THEN Bail(<<"EncryptedMismatch">>)
    ELSE /\ negotiated' = 1
         /\ upstairs_connection' = [upstairs_id |-> m.upstairs_id,
                                    session_id |-> m.session_id, gen |-> m.gen]
         /\ Reply("YesItsMe")
         /\ UNCHANGED <<active, signal, nstate>>

\* PromoteToActive: out of order ends the connection; ids other than the
\* recorded ones get UuidMismatch; otherwise the recorded gen takes the
\* frame's and promote_to_active runs: it may refuse, succeed, or insert
\* the entry and then fail to reopen the extents (proc fails either way).
PromoteToActive(m) ==
    IF negotiated # 1 THEN Bail(<<>>)
    ELSE IF m.upstairs_id # upstairs_connection.upstairs_id
            \/ m.session_id # upstairs_connection.session_id
    THEN Bail(<<"UuidMismatch">>)
    ELSE /\ upstairs_connection' = [upstairs_connection EXCEPT !.gen = m.gen]
         /\ \/ /\ nstate' = "closed"
               /\ UNCHANGED <<negotiated, active, replies>>
            \/ /\ active' = "mine"
               /\ nstate' = "closed"
               /\ UNCHANGED <<negotiated, replies>>
            \/ /\ active' = "mine"
               /\ negotiated' = 2
               /\ Reply("YouAreNowActive")
               /\ UNCHANGED nstate
         /\ UNCHANGED signal

RegionInfoPlease ==
    IF negotiated # 2 THEN Bail(<<>>)
    ELSE /\ negotiated' = 3
         /\ Reply("RegionInfo")
         /\ UNCHANGED <<upstairs_connection, active, signal, nstate>>

\* LastFlush: step 4 is reached, then work_lock on the recorded connection
\* (its failure ends the connection) sets last_flush, and the ack is sent;
\* the loop ends and resp_loop runs.
LastFlush ==
    IF negotiated # 3 THEN Bail(<<>>)
    ELSE /\ negotiated' = 4
         /\ IF active = "mine"
            THEN nstate' = "resp" /\ Reply("LastFlushAck")
            ELSE nstate' = "closed" /\ UNCHANGED replies
         /\ UNCHANGED <<upstairs_connection, active, signal>>

\* ExtentVersionsPlease: step 4, then the region's flush numbers, gens and
\* dirty bits (each read may fail) are sent, and resp_loop runs.  The
\* session's registration is not consulted.
ExtentVersionsPlease ==
    IF negotiated # 3 THEN Bail(<<>>)
    ELSE /\ negotiated' = 4
         /\ \/ nstate' = "resp" /\ Reply("ExtentVersions")
            \/ nstate' = "closed" /\ UNCHANGED replies
         /\ UNCHANGED <<upstairs_connection, active, signal>>

\* One frame read by the loop's select; the next turn of the loop creates
\* a new sleep_until(deadline_secs(50)).
ReadFrame ==
    /\ nstate = "neg" /\ frames < MaxFrames
    /\ frames' = frames + 1
    /\ idle' = 0
    /\ \E m \in Frames :
         CASE m.t = "HereIAm" -> HereIAm(m)
           [] m.t = "PromoteToActive" -> PromoteToActive(m)
           [] m.t = "RegionInfoPlease" -> RegionInfoPlease
           [] m.t = "LastFlush" -> LastFlush
           [] m.t = "ExtentVersionsPlease" -> ExtentVersionsPlease
           [] m.t = "Ruok" ->
                Reply("Imok")
                /\ UNCHANGED <<negotiated, upstairs_connection, active,
                               signal, nstate>>
           [] OTHER ->
                UNCHANGED <<negotiated, upstairs_connection, active, signal,
                            nstate, replies>>

\* The frame reader returns None: with a recorded connection, jobs() (whose
\* work_lock fails, returning Err, unless the entry is this connection's),
\* then clear_active of the active session.
EndOfStream ==
    /\ nstate = "neg"
    /\ nstate' = "closed"
    /\ active' = IF upstairs_connection # NoUpstairs /\ active = "mine"
                 THEN "none" ELSE active
    /\ UNCHANGED <<negotiated, upstairs_connection, signal, replies, frames,
                   idle>>

\* Time passes while the loop waits in its select.
Tick ==
    /\ nstate = "neg" /\ idle < Deadline
    /\ idle' = idle + 1
    /\ UNCHANGED <<negotiated, upstairs_connection, active, signal, nstate,
                   replies, frames>>

\* The select's sleep_until reaches its deadline: bail!.
Timeout ==
    /\ nstate = "neg" /\ idle = Deadline
    /\ nstate' = "closed"
    /\ UNCHANGED <<negotiated, upstairs_connection, active, signal, replies,
                   frames, idle>>

\* Another upstairs promotes and evicts this connection's entry;
\* promote_to_active sends it the new connection while the receiver lives.
Takeover ==
    /\ active = "mine"
    /\ active' = "none"
    /\ signal' = (nstate # "closed")
    /\ UNCHANGED <<negotiated, upstairs_connection, nstate, replies, frames,
                   idle>>

\* The select receives the new connection: YouAreNoLongerActive, return.
Evicted ==
    /\ nstate = "neg" /\ signal
    /\ signal' = FALSE
    /\ nstate' = "closed"
    /\ Reply("YouAreNoLongerActive")
    /\ UNCHANGED <<negotiated, upstairs_connection, active, frames, idle>>

NegNext ==
    \/ ReadFrame \/ EndOfStream \/ Tick \/ Timeout \/ Takeover \/ Evicted

NegSpec == Init /\ [][NegNext]_nvars

-----------------------------------------------------------------------------
(* Properties                                                              *)

TypeOK ==
    /\ negotiated \in 0..4
    /\ nstate \in {"neg", "resp", "closed"}
    /\ active \in {"none", "mine"}
    /\ frames \in 0..MaxFrames
    /\ idle \in 0..Deadline

Happy == <<"YesItsMe", "YouAreNowActive", "RegionInfo">>
Answers == {Happy \o <<"LastFlushAck">>, Happy \o <<"ExtentVersions">>}
\* What a peer may have been told, Imok aside: a prefix of the handshake,
\* a mismatch frame ending it at the step that checks it, or the eviction
\* after the promotion was acknowledged.
ProtocolReplies ==
    {SubSeq(a, 1, k) : a \in Answers, k \in 0..4}
    \cup {<<"ReadOnlyMismatch">>, <<"EncryptedMismatch">>,
          <<"YesItsMe", "UuidMismatch">>}
    \cup {SubSeq(Happy, 1, k) \o <<"YouAreNoLongerActive">> : k \in 2..3}

\* Whatever frames the peer sends, in whatever order, proc's replies
\* (Imok aside) follow the handshake: each step is acknowledged at most
\* once and in order, a rejection is the last frame written and comes at
\* the step that checks it, and resp_loop starts only after a full
\* handshake, with a connection recorded (the assert! after the loop).
NegotiationReplies ==
    /\ Remove(replies, "Imok") \in ProtocolReplies
    /\ nstate = "resp" =>
         /\ Remove(replies, "Imok") \in Answers
         /\ upstairs_connection # NoUpstairs
=============================================================================
