------------------------------ MODULE DepOrder ------------------------------
(***************************************************************************)
(* What the work queue of one session promises its upstairs (spec 4.A,     *)
(* 5 "Ordering guarantees", property P1): a job the upstairs has sent is   *)
(* acknowledged at most once, and only after every job it depends on has   *)
(* been acknowledged.  Acks of independent jobs may come in any order.     *)
(***************************************************************************)
EXTENDS Sequences, SequencesExt

CONSTANTS JobIds,   \* the job ids of the workload
          Deps      \* Deps[j]: the ids job j depends on

ASSUME \A j \in JobIds : Deps[j] \subseteq JobIds

VARIABLES sent,     \* the jobs the upstairs has sent
          acked     \* the acks on the wire, in the order they were sent

vars == <<sent, acked>>

Init == sent = {} /\ acked = <<>>

Send(j) ==
    /\ j \notin sent
    /\ sent' = sent \cup {j}
    /\ UNCHANGED acked

Ack(j) ==
    /\ j \in sent
    /\ j \notin ToSet(acked)
    /\ Deps[j] \subseteq ToSet(acked)
    /\ acked' = Append(acked, j)
    /\ UNCHANGED sent

Next == \E j \in JobIds : Send(j) \/ Ack(j)

Spec == Init /\ [][Next]_vars

=============================================================================
