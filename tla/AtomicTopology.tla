--------------------------- MODULE AtomicTopology ---------------------------
(***************************************************************************)
(* What the topology API promises its clients: a request that is answered  *)
(* with success has been applied, whole and exactly once, to the topology  *)
(* as it was at one moment between the request and its answer.  No         *)
(* acknowledged write is lost to a concurrent one, and nothing brings a    *)
(* deleted topology back.                                                  *)
(***************************************************************************)
EXTENDS Topology

VARIABLES
  content,      \* the stored topology, Absent once deleted
  acked         \* request -> the operation it was acknowledged for, or Absent

Init ==
  /\ content \in Content
  /\ acked = [r \in Calls |-> Absent]

Commit(r, op) ==
  /\ acked[r] = Absent
  /\ content # Absent
  /\ CanApply(op, content)
  /\ content' = Apply(op, content)
  /\ acked' = [acked EXCEPT ![r] = op]

Delete ==
  /\ content' = Absent
  /\ UNCHANGED acked

(* The operation of a commit is read off the acknowledgement it leaves. *)
Next ==
  \/ Delete
  \/ \E r \in Calls : acked'[r] \in Ops /\ Commit(r, acked'[r])

Spec == Init /\ [][Next]_<<content, acked>>
=============================================================================
