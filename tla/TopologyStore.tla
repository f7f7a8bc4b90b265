--------------------------- MODULE TopologyStore ----------------------------
(***************************************************************************)
(* One stored topology and its snapshots, written by concurrent requests.  *)
(*                                                                         *)
(* db/network-service.ts does every write as findOne, edit, save(), and    *)
(* services/version-service.ts chains several such calls.  Each awaited    *)
(* call is one action; other requests run between them.                    *)
(*                                                                         *)
(* What keeps this correct is not in the source: it is how Mongoose saves  *)
(* a document whose arrays changed.  A pushed element is sent as $push and *)
(* lands in the array as it is by then.  An array that was assigned or     *)
(* marked as modified is sent whole, and only if the stored revision (__v) *)
(* is still the one that was read; otherwise save() throws and the request *)
(* is answered 500.  Either kind of write moves the revision on; a save    *)
(* that touches no array neither checks nor moves it.                      *)
(***************************************************************************)
EXTENDS Topology, Naturals, FiniteSets

CONSTANTS
  Seed,         \* the topology as first stored
  Patches       \* bodies of the PUT requests that clients send

ASSUME StoreAssumption ==
  /\ Seed \in Content
  /\ Patches \subseteq Patch

VARIABLES
  content,      \* the topology document, Absent once deleted
  rev,          \* its revision, __v
  versions,     \* the snapshots: [by, n, content], by being their uuid
  call,         \* request -> where its handler stands and what it has read
  swept,        \* history: an account deletion has swept the snapshots
  raced         \* history: request -> another one saved since it took its
                \* snapshot

storeVars == <<content, rev, versions, call, swept, raced>>

-----------------------------------------------------------------------------
Snapshot == [by : Calls, n : Nat \ {0}, content : Content]

(* pc names the database call the handler awaits next. *)
CallPhases == {"new", "find", "save", "snap_find", "snap_last", "snap_create",
               "done", "failed"}

Call == [pc : CallPhases, op : Ops \cup {Absent}, seen : Content \cup {Absent},
         rev : Nat, last : Nat]

New == [pc |-> "new", op |-> Absent, seen |-> Absent, rev |-> 0, last |-> 0]

(* What request r may ask for on the nodes and edges endpoints and by PUT. *)
ClientOps(r) ==
       {[type |-> "put", id |-> Absent, val |-> p] : p \in Patches}
  \cup [type : {"add_node"}, id : {r}, val : Configs]
  \cup [type : {"update_node"}, id : NodeIds, val : Configs]
  \cup [type : {"delete_node"}, id : NodeIds, val : {Absent}]
  \cup [type : {"add_edge"}, id : {r}, val : Ends]
  \cup [type : {"update_edge"}, id : EdgeIds, val : Ends]
  \cup [type : {"delete_edge"}, id : EdgeIds, val : {Absent}]

RestoreOp(s) ==
  [type |-> "restore", id |-> Absent,
   val |-> [name |-> s.content.name, nodes |-> s.content.nodes,
            edges |-> s.content.edges]]

StoreInit ==
  /\ content = Seed
  /\ rev = 0
  /\ versions = {}
  /\ call = [r \in Calls |-> New]
  /\ swept = FALSE
  /\ raced = [r \in Calls |-> FALSE]

-----------------------------------------------------------------------------
(* Writing through network-service.ts: findOne, edit the copy, save(). *)

(* Faulty variant: the missing element (index -1) is not looked for. *)
FindAndEditBlindly(r, op) ==
  call' = [call EXCEPT ![r] =
    IF content # Absent
    THEN [New EXCEPT !.pc = "save", !.op = op, !.seen = content, !.rev = rev]
    ELSE [New EXCEPT !.pc = "failed"]]

FindAndEdit(r, op) ==
  call' = [call EXCEPT ![r] =
    IF content # Absent /\ CanApply(op, content)
    THEN [New EXCEPT !.pc = "save", !.op = op, !.seen = content, !.rev = rev]
    ELSE [New EXCEPT !.pc = "failed"]]

Find(r, op) ==
  /\ call[r].pc = "new"
  /\ FindAndEdit(r, op)
  /\ UNCHANGED <<content, rev, versions, swept, raced>>

Pushes(op) == op.type \in {"add_node", "add_edge"}

SendsNodes(op) ==
  \/ op.type \in {"update_node", "delete_node"}
  \/ op.type \in {"put", "restore"} /\ op.val.nodes # Absent

SendsEdges(op) ==
  \/ op.type \in {"update_edge", "delete_edge", "delete_node"}
  \/ op.type \in {"put", "restore"} /\ op.val.edges # Absent

SendsArray(op) == SendsNodes(op) \/ SendsEdges(op)

SaveMatches(r) ==
  /\ content # Absent
  /\ SendsArray(call[r].op) => call[r].rev = rev

(* The fields that were edited go out as edited from what was read; the    *)
(* others, and a push, meet what is stored now.                            *)
Saved(r) ==
  LET op == call[r].op
      edited == Apply(op, call[r].seen)
      merged == Apply(op, content)
  IN  [name  |-> merged.name,
       nodes |-> IF SendsNodes(op) THEN edited.nodes ELSE merged.nodes,
       edges |-> IF SendsEdges(op) THEN edited.edges ELSE merged.edges]

(* Faulty variant: the document is written back whole, without asking for  *)
(* the revision it was read at.                                            *)
ReplaceWhole(r) ==
  /\ call[r].pc = "save"
  /\ content # Absent
  /\ content' = Apply(call[r].op, call[r].seen)
  /\ rev' = rev + 1
  /\ call' = [call EXCEPT ![r] = [New EXCEPT !.pc = "done", !.op = call[r].op]]
  /\ raced' = [q \in Calls |-> raced[q] \/ q # r]
  /\ UNCHANGED <<versions, swept>>

Save(r) ==
  /\ call[r].pc = "save"
  /\ SaveMatches(r)
  /\ content' = Saved(r)
  /\ rev' = IF SendsArray(call[r].op) \/ Pushes(call[r].op) THEN rev + 1 ELSE rev
  /\ call' = [call EXCEPT ![r] = [New EXCEPT !.pc = "done", !.op = call[r].op]]
  /\ raced' = [q \in Calls |-> raced[q] \/ q # r]
  /\ UNCHANGED <<versions, swept>>

(* VersionError, or the document is gone. *)
SaveFails(r) ==
  /\ call[r].pc = "save"
  /\ ~ SaveMatches(r)
  /\ call' = [call EXCEPT ![r] = [New EXCEPT !.pc = "failed"]]
  /\ UNCHANGED <<content, rev, versions, swept, raced>>

(* deleteOne, or the deleteMany of an account deletion. *)
DeleteTopology(r) ==
  /\ call[r].pc = "new"
  /\ content # Absent
  /\ content' = Absent
  /\ call' = [call EXCEPT ![r] = [New EXCEPT !.pc = "done"]]
  /\ UNCHANGED <<rev, versions, swept, raced>>

-----------------------------------------------------------------------------
(* Snapshots: createVersion, alone (no operation to follow) or as the       *)
(* first half of restoreVersion.                                            *)

BeginVersion(r) ==
  /\ call[r].pc = "new"
  /\ content # Absent
  /\ call' = [call EXCEPT ![r].pc = "snap_find"]
  /\ UNCHANGED <<content, rev, versions, swept, raced>>

(* restoreVersion has found the snapshot it is to bring back. *)
BeginRestore(r, s) ==
  /\ call[r].pc = "new"
  /\ content # Absent
  /\ call' = [call EXCEPT ![r] =
       [@ EXCEPT !.pc = "snap_find", !.op = RestoreOp(s)]]
  /\ UNCHANGED <<content, rev, versions, swept, raced>>

(* Faulty variant: a restore takes no snapshot of the current state. *)
SnapOnlyAlone(r) ==
  /\ call[r].pc = "snap_find"
  /\ call' = [call EXCEPT ![r] =
       IF content # Absent /\ call[r].op = Absent
       THEN [@ EXCEPT !.pc = "snap_last", !.seen = content]
       ELSE [@ EXCEPT !.pc = IF call[r].op = Absent THEN "failed" ELSE "find"]]
  /\ raced' = [raced EXCEPT ![r] = FALSE]
  /\ UNCHANGED <<content, rev, versions, swept>>

(* Without a topology createVersion returns null, which restoreVersion     *)
(* does not look at.                                                       *)
SnapFind(r) ==
  /\ call[r].pc = "snap_find"
  /\ call' = [call EXCEPT ![r] =
       IF content # Absent
       THEN [@ EXCEPT !.pc = "snap_last", !.seen = content]
       ELSE [@ EXCEPT !.pc = IF call[r].op = Absent THEN "failed" ELSE "find"]]
  /\ raced' = [raced EXCEPT ![r] = FALSE]
  /\ UNCHANGED <<content, rev, versions, swept>>

Numbers == {s.n : s \in versions}

(* findOne().sort({version: -1}), 0 if there is none. *)
LastNumber ==
  IF versions = {} THEN 0
  ELSE CHOOSE n \in Numbers : \A m \in Numbers : m <= n

SnapLast(r) ==
  /\ call[r].pc = "snap_last"
  /\ call' = [call EXCEPT ![r] =
       [@ EXCEPT !.pc = "snap_create", !.last = LastNumber]]
  /\ UNCHANGED <<content, rev, versions, swept, raced>>

(* Faulty variant: no unique index. *)
NumberNeverTaken(n) == n \notin Nat

(* The unique index on (topologyId, version). *)
NumberTaken(n) == n \in Numbers

SnapCreate(r) ==
  LET n == call[r].last + 1 IN
  /\ call[r].pc = "snap_create"
  /\ ~ NumberTaken(n)
  /\ versions' = versions \cup {[by |-> r, n |-> n, content |-> call[r].seen]}
  /\ call' = [call EXCEPT ![r] =
       [New EXCEPT !.pc = IF call[r].op = Absent THEN "done" ELSE "find",
                   !.op = call[r].op]]
  /\ UNCHANGED <<content, rev, swept, raced>>

(* The insert is refused; the error also ends a restore. *)
SnapRefused(r) ==
  /\ call[r].pc = "snap_create"
  /\ NumberTaken(call[r].last + 1)
  /\ call' = [call EXCEPT ![r] = [New EXCEPT !.pc = "failed"]]
  /\ UNCHANGED <<content, rev, versions, swept, raced>>

(* The updateTopology of a restore reads the topology again. *)
RestoreFind(r) ==
  /\ call[r].pc = "find"
  /\ FindAndEdit(r, call[r].op)
  /\ UNCHANGED <<content, rev, versions, swept, raced>>

-----------------------------------------------------------------------------
(* deleteAllTopologies on the snapshots, on behalf of an account deletion. *)
SweepVersions ==
  /\ versions # {}
  /\ versions' = {}
  /\ swept' = TRUE
  /\ UNCHANGED <<content, rev, call, raced>>

InFlight(r) == call[r].pc \notin {"new", "done", "failed"}

(* A crash or redeployment drops every handler; the documents stay. *)
StoreRestart ==
  /\ \E r \in Calls : InFlight(r)
  /\ call' = [r \in Calls |->
       IF InFlight(r) THEN [New EXCEPT !.pc = "failed"] ELSE call[r]]
  /\ UNCHANGED <<content, rev, versions, swept, raced>>

Write(r) ==
  \/ \E op \in ClientOps(r) : Find(r, op)
  \/ Save(r)
  \/ SaveFails(r)
  \/ DeleteTopology(r)

Version(r) ==
  \/ BeginVersion(r)
  \/ \E s \in versions : BeginRestore(r, s)
  \/ SnapFind(r)
  \/ SnapLast(r)
  \/ SnapCreate(r)
  \/ SnapRefused(r)
  \/ RestoreFind(r)

StoreNext ==
  \/ \E r \in Calls : Write(r) \/ Version(r)
  \/ SweepVersions
  \/ StoreRestart

StoreSpec == StoreInit /\ [][StoreNext]_storeVars
-----------------------------------------------------------------------------
CallInHand(q) ==
  /\ q.pc \in {"find", "save"} => q.op \in Ops
  /\ q.pc = "new" => q.op = Absent
  /\ q.pc = "save" => q.seen \in Content /\ CanApply(q.op, q.seen)
  /\ q.pc \in {"snap_last", "snap_create"} => q.seen \in Content

StoreTypeOK ==
  /\ content \in Content \cup {Absent}
  /\ rev \in Nat
  /\ versions \subseteq Snapshot
  /\ call \in [Calls -> Call]
  /\ \A r \in Calls : CallInHand(call[r])
  /\ swept \in BOOLEAN
  /\ raced \in [Calls -> BOOLEAN]

(* What the clients have been told: the operations acknowledged to them. *)
Acked == [r \in Calls |-> IF call[r].pc = "done" THEN call[r].op ELSE Absent]

Atomic == INSTANCE AtomicTopology WITH acked <- Acked

(* Every acknowledged write of network-service.ts:54-203, and the write of *)
(* a restore, took effect whole and on the current topology: the revision  *)
(* check of save() turns a lost update into an error.                      *)
WritesAreAtomic == Atomic!Spec

(* Snapshot numbers are 1, 2, 3, ... without gap or repetition, however    *)
(* many are taken at once: version-service.ts:24-25 reads the last number  *)
(* one await before it uses it, and the unique index catches the race.     *)
VersionsGapless == swept \/ Numbers = 1 .. Cardinality(versions)

Restoring(r) ==
  call[r].op # Absent /\ call[r].op.type = "restore" /\ call[r].pc \in {"find", "save"}

(* What a restore is about to replace has been snapshotted, unless another *)
(* request saved since the snapshot was read (version-service.ts:63-72).   *)
RestoreLosesOnlyRaces ==
  \A r \in Calls :
    Restoring(r) /\ ~ raced[r] /\ ~ swept /\ content # Absent =>
      \E s \in versions : s.content = content

(* "The current state is snapshotted first, so a restore is never          *)
(* destructive" (docs/api.md:467, version-service.ts:55): the step that    *)
(* restores replaces a topology that some snapshot holds.                  *)
RestoreIsNeverDestructive ==
  [][\A r \in Calls :
       Restoring(r) /\ Save(r) /\ ~ swept =>
         \E s \in versions : s.content = content]_storeVars
=============================================================================
