------------------------ MODULE TopologyStore_proofs ------------------------
(***************************************************************************)
(* Proofs about TopologyStore, for any set of requests, nodes, edges,      *)
(* names and configurations: its type invariant, that every acknowledged   *)
(* write is atomic (refinement of AtomicTopology), that snapshot numbers   *)
(* have no gap, and what a restore may lose.                               *)
(***************************************************************************)
EXTENDS TopologyStore, FiniteSetTheorems, WellFoundedInduction, TLAPS

(* The revision check is enough: a request that read the current revision  *)
(* holds the current arrays.                                               *)
RevisionGuards ==
  \A r \in Calls : call[r].pc = "save" =>
    /\ call[r].rev <= rev
    /\ content # Absent /\ call[r].rev = rev =>
         call[r].seen.nodes = content.nodes /\ call[r].seen.edges = content.edges

(* There is a last number for findOne().sort() to find. *)
NumbersBounded == \E k \in Nat : \A n \in Numbers : n <= k

(* A last number that has been read can only fall behind. *)
LastNotAhead ==
  swept \/ \A r \in Calls :
    call[r].pc = "snap_create" => call[r].last <= Cardinality(versions)

(* A snapshot about to be created is current until another request saves. *)
SnapshotCurrent ==
  \A r \in Calls :
    /\ call[r].pc \in {"snap_last", "snap_create"}
    /\ ~ raced[r]
    /\ content # Absent
    => call[r].seen = content

StoreInv == StoreTypeOK /\ NumbersBounded

-----------------------------------------------------------------------------
(* Every operation makes a topology of a topology. *)
LEMMA ApplyType ==
  ASSUME NEW op \in Ops, NEW c \in Content
  PROVE  Apply(op, c) \in Content
<1>1. CASE op.type \in {"put", "restore"}
  <2>1. op.val \in Patch
    BY <1>1 DEF Ops
  <2>2. PutInto(c, op.val) \in Content
    BY <2>1 DEF PutInto, Sent, Patch, Content
  <2> QED BY <1>1, <2>2 DEF Apply
<1>2. CASE op.type \in {"add_node", "update_node"}
  <2>1. op.id \in NodeIds /\ op.val \in Configs
    BY <1>2 DEF Ops
  <2>2. [c EXCEPT !.nodes[op.id] = op.val] \in Content
    BY <2>1 DEF Content, Nodes
  <2> QED BY <1>2, <2>2 DEF Apply
<1>3. CASE op.type = "delete_node"
  <2>1. op.id \in NodeIds
    BY <1>3 DEF Ops
  <2>2. WithoutNode(c, op.id) \in Content
    BY <2>1 DEF WithoutNode, Content, Nodes, Edges
  <2> QED BY <1>3, <2>2 DEF Apply
<1>4. CASE op.type \in {"add_edge", "update_edge", "delete_edge"}
  <2>1. op.id \in EdgeIds /\ op.val \in Ends \cup {Absent}
    BY <1>4 DEF Ops
  <2>2. [c EXCEPT !.edges[op.id] = op.val] \in Content
    BY <2>1 DEF Content, Edges
  <2> QED BY <1>4, <2>2 DEF Apply
<1> QED BY <1>1, <1>2, <1>3, <1>4 DEF Ops

(* What clients may ask for, and what a restore asks for, are operations. *)
LEMMA ClientOpsType ==
  ASSUME NEW r \in Calls
  PROVE  ClientOps(r) \subseteq Ops
<1>1. r \in NodeIds /\ r \in EdgeIds
  BY DEF NodeIds, EdgeIds
<1>2. {[type |-> "put", id |-> Absent, val |-> p] : p \in Patches} \subseteq Ops
  BY StoreAssumption DEF Ops
<1> QED BY <1>1, <1>2 DEF ClientOps, Ops

LEMMA RestoreOpType ==
  ASSUME NEW s \in Snapshot
  PROVE  RestoreOp(s) \in Ops
BY DEF RestoreOp, Snapshot, Content, Ops, Patch

LEMMA NewType == New \in Call
BY DEF New, Call, CallPhases

(* An edit of a copy sends the copy's arrays or a merge with what is       *)
(* stored: either way a topology.                                          *)
LEMMA SavedType ==
  ASSUME NEW r \in Calls, call[r].op \in Ops, call[r].seen \in Content,
         content \in Content
  PROVE  Saved(r) \in Content
<1>1. Apply(call[r].op, call[r].seen) \in Content
  BY ApplyType
<1>2. Apply(call[r].op, content) \in Content
  BY ApplyType
<1> QED BY <1>1, <1>2 DEF Saved, Content

(* A bounded, inhabited set of numbers has a last one. *)
LEMMA LastNumberIsLast ==
  ASSUME versions \subseteq Snapshot, NumbersBounded
  PROVE  /\ LastNumber \in Nat
         /\ \A n \in Numbers : n <= LastNumber
         /\ versions # {} => LastNumber \in Numbers
<1>1. Numbers \subseteq Nat
  BY DEF Numbers, Snapshot
<1>2. CASE versions = {}
  BY <1>2 DEF LastNumber, Numbers
<1>3. CASE versions # {}
  <2> DEFINE T == {k \in Nat : \A n \in Numbers : n <= k}
  <2>1. Numbers # {}
    BY <1>3 DEF Numbers
  <2>2. T # {}
    BY DEF NumbersBounded
  <2>3. PICK k \in T : \A m \in T : ~ (<<m, k>> \in OpToRel(<, Nat))
    BY <2>2, NatLessThanWellFounded, WFMin
  <2>4. \A m \in T : ~ (m < k)
    BY <2>3 DEF OpToRel
  <2>5. k \in Numbers
    <3>1. SUFFICES ASSUME k \notin Numbers PROVE FALSE
      OBVIOUS
    <3>2. \A n \in Numbers : n < k
      BY <3>1, <1>1
    <3>3. PICK n \in Numbers : n \in Nat /\ n < k
      BY <3>2, <2>1, <1>1
    <3>4. k \in Nat /\ k - 1 \in Nat
      BY <3>3
    <3>5. \A m \in Numbers : m <= k - 1
      BY <3>2, <3>4, <1>1
    <3>6. k - 1 \in T
      BY <3>4, <3>5
    <3> QED BY <3>4, <3>6, <2>4
  <2>6. \E n \in Numbers : \A m \in Numbers : m <= n
    BY <2>5
  <2> QED BY <1>3, <2>6, <1>1 DEF LastNumber
<1> QED BY <1>2, <1>3

-----------------------------------------------------------------------------
LEMMA InitStoreInv == StoreInit => StoreInv
<1> SUFFICES ASSUME StoreInit PROVE StoreInv
  OBVIOUS
<1>1. StoreTypeOK
  BY StoreAssumption, NewType DEF StoreInit, StoreTypeOK, CallInHand, New
<1>2. NumbersBounded
  BY DEF StoreInit, NumbersBounded, Numbers
<1> QED BY <1>1, <1>2 DEF StoreInv

(* The part of the type invariant that is about requests. *)
ReqOK == call \in [Calls -> Call] /\ \A r \in Calls : CallInHand(call[r])

(* A step that gives one request a sound record keeps all records sound. *)
LEMMA OneRequestMoves ==
  ASSUME ReqOK, NEW r \in Calls, NEW q \in Call, CallInHand(q),
         call' = [call EXCEPT ![r] = q]
  PROVE  ReqOK'
BY DEF ReqOK, CallInHand

(* Reading the topology and editing the copy leaves a sound record. *)
LEMMA FindAndEditType ==
  ASSUME StoreTypeOK, NEW r \in Calls, NEW op \in Ops, FindAndEdit(r, op)
  PROVE  ReqOK'
<1> DEFINE read == [New EXCEPT !.pc = "save", !.op = op, !.seen = content,
                               !.rev = rev]
           refused == [New EXCEPT !.pc = "failed"]
<1>1. ReqOK
  BY DEF StoreTypeOK, ReqOK
<1>2. CASE content # Absent /\ CanApply(op, content)
  <2>1. call' = [call EXCEPT ![r] = read]
    BY <1>2 DEF FindAndEdit
  <2>2. read \in Call /\ CallInHand(read)
    BY <1>2 DEF StoreTypeOK, Call, CallPhases, New, CallInHand
  <2> HIDE DEF read
  <2> QED BY <1>1, <2>1, <2>2, OneRequestMoves
<1>3. CASE ~ (content # Absent /\ CanApply(op, content))
  <2>1. call' = [call EXCEPT ![r] = refused]
    BY <1>3 DEF FindAndEdit
  <2>2. refused \in Call /\ CallInHand(refused)
    BY DEF Call, CallPhases, New, CallInHand
  <2> HIDE DEF refused
  <2> QED BY <1>1, <2>1, <2>2, OneRequestMoves
<1> QED BY <1>2, <1>3

(* Every operation keeps the type invariant; only creating a snapshot adds *)
(* a number, the one after the last that was read.                         *)
LEMMA StepStoreInv == StoreInv /\ [StoreNext]_storeVars => StoreInv'
<1> SUFFICES ASSUME StoreInv, [StoreNext]_storeVars PROVE StoreInv'
  OBVIOUS
<1> USE DEF StoreInv
<1>0. ReqOK /\ (ReqOK' <=> call' \in [Calls -> Call]
                            /\ \A r \in Calls : CallInHand(call'[r]))
  BY DEF StoreTypeOK, ReqOK, CallInHand
<1>a. ASSUME UNCHANGED <<content, rev, versions, swept, raced>>, ReqOK'
      PROVE  StoreInv'
  BY <1>0, <1>a DEF StoreTypeOK, NumbersBounded, Numbers, CallInHand
<1>b. ASSUME NEW r \in Calls, NEW pc \in {"done", "failed"},
             call' = [call EXCEPT ![r] = [New EXCEPT !.pc = pc]]
      PROVE  ReqOK'
  <2>1. [New EXCEPT !.pc = pc] \in Call /\ CallInHand([New EXCEPT !.pc = pc])
    BY DEF New, Call, CallPhases, CallInHand
  <2> QED BY <1>0, <1>b, <2>1, OneRequestMoves
<1>1. ASSUME NEW r \in Calls, NEW op \in ClientOps(r), Find(r, op)
      PROVE  StoreInv'
  <2>1. op \in Ops
    BY ClientOpsType
  <2>2. ReqOK'
    BY <1>1, <2>1, FindAndEditType DEF Find
  <2> QED BY <1>1, <1>a, <2>2 DEF Find
<1>2. ASSUME NEW r \in Calls, Save(r) PROVE StoreInv'
  <2>1. call[r].op \in Ops /\ call[r].seen \in Content /\ content \in Content
    BY <1>2 DEF Save, SaveMatches, StoreTypeOK, CallInHand
  <2>2. content' \in Content
    BY <1>2, <2>1, SavedType DEF Save
  <2> DEFINE q == [New EXCEPT !.pc = "done", !.op = call[r].op]
  <2>3. q \in Call /\ CallInHand(q)
    BY <2>1 DEF New, Call, CallPhases, CallInHand
  <2>4. call' = [call EXCEPT ![r] = q]
    BY <1>2 DEF Save
  <2> HIDE DEF q
  <2>5. ReqOK'
    BY <1>0, <2>3, <2>4, OneRequestMoves
  <2>6. rev' \in Nat /\ raced' \in [Calls -> BOOLEAN]
    BY <1>2 DEF Save, StoreTypeOK
  <2>7. NumbersBounded'
    BY <1>2 DEF Save, NumbersBounded, Numbers
  <2> QED BY <1>0, <1>2, <2>2, <2>5, <2>6, <2>7 DEF Save, StoreTypeOK
<1>3. ASSUME NEW r \in Calls, SaveFails(r) PROVE StoreInv'
  BY <1>3, <1>a, <1>b DEF SaveFails
<1>4. ASSUME NEW r \in Calls, DeleteTopology(r) PROVE StoreInv'
  <2>1. ReqOK'
    BY <1>4, <1>b DEF DeleteTopology
  <2>2. NumbersBounded'
    BY <1>4 DEF DeleteTopology, NumbersBounded, Numbers
  <2> QED BY <1>0, <1>4, <2>1, <2>2 DEF DeleteTopology, StoreTypeOK
<1>5. ASSUME NEW r \in Calls, BeginVersion(r) PROVE StoreInv'
  <2> DEFINE q == [call[r] EXCEPT !.pc = "snap_find"]
  <2>1. q \in Call /\ CallInHand(q)
    BY <1>0 DEF ReqOK, Call, CallPhases, CallInHand
  <2>2. call' = [call EXCEPT ![r] = q]
    BY <1>5 DEF BeginVersion
  <2> HIDE DEF q
  <2> QED BY <1>0, <1>5, <1>a, <2>1, <2>2, OneRequestMoves DEF BeginVersion
<1>6. ASSUME NEW r \in Calls, NEW s \in versions, BeginRestore(r, s)
      PROVE  StoreInv'
  <2> DEFINE q == [call[r] EXCEPT !.pc = "snap_find", !.op = RestoreOp(s)]
  <2>1. RestoreOp(s) \in Ops
    BY RestoreOpType DEF StoreTypeOK
  <2>2. q \in Call /\ CallInHand(q)
    BY <1>0, <2>1 DEF ReqOK, Call, CallPhases, CallInHand
  <2>3. call' = [call EXCEPT ![r] = q]
    BY <1>0, <1>6 DEF BeginRestore, ReqOK
  <2> HIDE DEF q
  <2> QED BY <1>0, <1>6, <1>a, <2>2, <2>3, OneRequestMoves DEF BeginRestore
<1>7. ASSUME NEW r \in Calls, SnapFind(r) PROVE StoreInv'
  <2> DEFINE q == IF content # Absent
                  THEN [call[r] EXCEPT !.pc = "snap_last", !.seen = content]
                  ELSE [call[r] EXCEPT !.pc =
                          IF call[r].op = Absent THEN "failed" ELSE "find"]
  <2>1. q \in Call /\ CallInHand(q)
    BY <1>0 DEF ReqOK, StoreTypeOK, Call, CallPhases, CallInHand
  <2>2. call' = [call EXCEPT ![r] = q]
    BY <1>7 DEF SnapFind
  <2> HIDE DEF q
  <2>3. ReqOK'
    BY <1>0, <2>1, <2>2, OneRequestMoves
  <2>4. NumbersBounded'
    BY <1>7 DEF SnapFind, NumbersBounded, Numbers
  <2>5. raced' \in [Calls -> BOOLEAN]
    BY <1>7 DEF SnapFind, StoreTypeOK
  <2> QED BY <1>0, <1>7, <2>3, <2>4, <2>5 DEF SnapFind, StoreTypeOK
<1>8. ASSUME NEW r \in Calls, SnapLast(r) PROVE StoreInv'
  <2> DEFINE q == [call[r] EXCEPT !.pc = "snap_create", !.last = LastNumber]
  <2>1. LastNumber \in Nat
    BY LastNumberIsLast DEF StoreTypeOK
  <2>2. q \in Call /\ CallInHand(q)
    BY <1>0, <1>8, <2>1 DEF ReqOK, SnapLast, Call, CallPhases, CallInHand
  <2>3. call' = [call EXCEPT ![r] = q]
    BY <1>0, <1>8 DEF SnapLast, ReqOK
  <2> HIDE DEF q
  <2> QED BY <1>0, <1>8, <1>a, <2>2, <2>3, OneRequestMoves DEF SnapLast
<1>9. ASSUME NEW r \in Calls, SnapCreate(r) PROVE StoreInv'
  <2> DEFINE q == [New EXCEPT !.pc = IF call[r].op = Absent THEN "done" ELSE "find",
                              !.op = call[r].op]
             s == [by |-> r, n |-> call[r].last + 1, content |-> call[r].seen]
  <2>1. call[r].op \in Ops \cup {Absent} /\ call[r].last \in Nat
        /\ call[r].seen \in Content
    BY <1>0, <1>9 DEF ReqOK, SnapCreate, Call, CallInHand
  <2>2. q \in Call /\ CallInHand(q)
    BY <2>1 DEF New, Call, CallPhases, CallInHand
  <2>3. call' = [call EXCEPT ![r] = q]
    BY <1>9 DEF SnapCreate
  <2>4. s \in Snapshot /\ versions' = versions \cup {s}
    BY <1>9, <2>1 DEF Snapshot, SnapCreate
  <2>5. NumbersBounded'
    <3>1. Numbers' = Numbers \cup {call[r].last + 1}
      BY <2>4 DEF Numbers
    <3>2. Numbers \subseteq Nat
      BY DEF Numbers, StoreTypeOK, Snapshot
    <3>3. PICK k \in Nat : \A n \in Numbers : n <= k
      BY DEF NumbersBounded
    <3>4. \A n \in Numbers' : n <= k + call[r].last + 1
      BY <2>1, <3>1, <3>2, <3>3
    <3>5. k + call[r].last + 1 \in Nat
      BY <2>1
    <3> QED BY <3>4, <3>5 DEF NumbersBounded
  <2> HIDE DEF q, s
  <2>6. ReqOK'
    BY <1>0, <2>2, <2>3, OneRequestMoves
  <2> QED BY <1>0, <1>9, <2>4, <2>5, <2>6 DEF SnapCreate, StoreTypeOK
<1>10. ASSUME NEW r \in Calls, SnapRefused(r) PROVE StoreInv'
  BY <1>10, <1>a, <1>b DEF SnapRefused
<1>11. ASSUME NEW r \in Calls, RestoreFind(r) PROVE StoreInv'
  <2>1. call[r].op \in Ops
    BY <1>0, <1>11 DEF RestoreFind, ReqOK, CallInHand
  <2>2. ReqOK'
    BY <1>11, <2>1, FindAndEditType DEF RestoreFind
  <2> QED BY <1>11, <1>a, <2>2 DEF RestoreFind
<1>12. CASE SweepVersions
  <2>1. NumbersBounded'
    BY <1>12 DEF SweepVersions, NumbersBounded, Numbers
  <2> QED BY <1>0, <1>12, <2>1 DEF SweepVersions, StoreTypeOK, CallInHand
<1>13. CASE StoreRestart
  <2> DEFINE q == [New EXCEPT !.pc = "failed"]
  <2>1. q \in Call /\ CallInHand(q)
    BY DEF New, Call, CallPhases, CallInHand
  <2>2. \A r \in Calls : call'[r] = q \/ call'[r] = call[r]
    BY <1>13 DEF StoreRestart
  <2> HIDE DEF q
  <2>3. ReqOK'
    BY <1>0, <1>13, <2>1, <2>2 DEF StoreRestart, ReqOK
  <2> QED BY <1>13, <1>a, <2>3 DEF StoreRestart
<1>14. CASE UNCHANGED storeVars
  BY <1>14 DEF storeVars, StoreTypeOK, NumbersBounded, Numbers, CallInHand
<1> QED BY <1>1, <1>2, <1>3, <1>4, <1>5, <1>6, <1>7, <1>8, <1>9, <1>10, <1>11,
           <1>12, <1>13, <1>14 DEF StoreNext, Write, Version

LEMMA StoreInvAlways == StoreSpec => []StoreInv
BY InitStoreInv, StepStoreInv, PTL DEF StoreSpec

(* The type invariant of the store, in every reachable state. *)
THEOREM StoreTypeCorrect == StoreSpec => []StoreTypeOK
<1>1. StoreInv => StoreTypeOK
  BY DEF StoreInv
<1> QED BY <1>1, StoreInvAlways, PTL

-----------------------------------------------------------------------------
(* The revision check of save() guards the arrays. *)

LEMMA StepRevisionGuards ==
  StoreInv /\ RevisionGuards /\ [StoreNext]_storeVars => RevisionGuards'
<1> SUFFICES ASSUME StoreInv, RevisionGuards, [StoreNext]_storeVars
             PROVE  RevisionGuards'
  OBVIOUS
<1> USE DEF StoreInv, RevisionGuards
<1>0. call \in [Calls -> Call] /\ rev \in Nat
      /\ \A r \in Calls : call[r].rev \in Nat
  BY DEF StoreTypeOK, Call
<1>a. ASSUME NEW r \in Calls, NEW op, FindAndEdit(r, op),
             UNCHANGED <<content, rev>>
      PROVE  RevisionGuards'
  BY <1>0, <1>a DEF FindAndEdit, New
<1>b. ASSUME UNCHANGED <<content, rev>>,
             \A q \in Calls : call'[q].pc = "save" => call'[q] = call[q]
      PROVE  RevisionGuards'
  BY <1>b
<1>1. ASSUME NEW r \in Calls, NEW op \in ClientOps(r), Find(r, op)
      PROVE  RevisionGuards'
  BY <1>1, <1>a DEF Find
<1>2. ASSUME NEW r \in Calls, Save(r) PROVE RevisionGuards'
  <2>1. \A q \in Calls : call'[q].pc = "save" => call'[q] = call[q]
    BY <1>0, <1>2 DEF Save, New
  <2>2. CASE SendsArray(call[r].op) \/ Pushes(call[r].op)
    <3>1. rev' = rev + 1
      BY <1>2, <2>2 DEF Save
    <3> QED BY <1>0, <2>1, <3>1
  <2>3. CASE ~ (SendsArray(call[r].op) \/ Pushes(call[r].op))
    <3>1. rev' = rev /\ content # Absent /\ content' = Saved(r)
      BY <1>2, <2>3 DEF Save, SaveMatches
    <3>2. call[r].op \in Ops /\ content \in Content
      BY <1>2, <3>1 DEF Save, StoreTypeOK, CallInHand
    <3>3. call[r].op.type \in {"put", "restore"} /\ call[r].op.val.nodes = Absent
          /\ call[r].op.val.edges = Absent
      BY <2>3, <3>2 DEF Ops, SendsArray, SendsNodes, SendsEdges, Pushes
    <3>4. Apply(call[r].op, content) = PutInto(content, call[r].op.val)
      BY <3>3 DEF Apply
    <3>5. content'.nodes = content.nodes /\ content'.edges = content.edges
      BY <2>3, <3>1, <3>3, <3>4 DEF Saved, PutInto, Sent, SendsArray
    <3> QED BY <2>1, <3>1, <3>5
  <2> QED BY <2>2, <2>3
<1>3. ASSUME NEW r \in Calls, SaveFails(r) PROVE RevisionGuards'
  BY <1>0, <1>3, <1>b DEF SaveFails, New
<1>4. ASSUME NEW r \in Calls, DeleteTopology(r) PROVE RevisionGuards'
  BY <1>0, <1>4 DEF DeleteTopology, New
<1>5. ASSUME NEW r \in Calls, Version(r) PROVE RevisionGuards'
  <2>1. CASE RestoreFind(r)
    BY <2>1, <1>a DEF RestoreFind
  <2>2. CASE BeginVersion(r)
    BY <1>0, <1>b, <2>2 DEF BeginVersion
  <2>3. ASSUME NEW s \in versions, BeginRestore(r, s) PROVE RevisionGuards'
    BY <1>0, <1>b, <2>3 DEF BeginRestore
  <2>4. CASE SnapFind(r)
    BY <1>0, <1>b, <2>4 DEF SnapFind
  <2>5. CASE SnapLast(r)
    BY <1>0, <1>b, <2>5 DEF SnapLast
  <2>6. CASE SnapCreate(r)
    BY <1>0, <1>b, <2>6 DEF SnapCreate, New
  <2>7. CASE SnapRefused(r)
    BY <1>0, <1>b, <2>7 DEF SnapRefused, New
  <2> QED BY <1>5, <2>1, <2>2, <2>3, <2>4, <2>5, <2>6, <2>7 DEF Version
<1>6. CASE SweepVersions
  BY <1>6 DEF SweepVersions
<1>7. CASE StoreRestart
  BY <1>0, <1>7, <1>b DEF StoreRestart, New
<1>8. CASE UNCHANGED storeVars
  BY <1>8 DEF storeVars
<1> QED BY <1>1, <1>2, <1>3, <1>4, <1>5, <1>6, <1>7, <1>8 DEF StoreNext, Write

LEMMA RevisionGuardsAlways == StoreSpec => []RevisionGuards
<1>1. StoreInit => RevisionGuards
  BY DEF StoreInit, RevisionGuards, New
<1> QED BY <1>1, StoreInvAlways, StepRevisionGuards, PTL DEF StoreSpec

(* A save that goes through applies its operation to the topology as it is *)
(* at that moment, although it was edited on an earlier copy.              *)
LEMMA SaveIsAtomic ==
  ASSUME StoreInv, RevisionGuards, NEW r \in Calls, Save(r)
  PROVE  /\ content \in Content
         /\ call[r].op \in Ops
         /\ CanApply(call[r].op, content)
         /\ Saved(r) = Apply(call[r].op, content)
<1> DEFINE op == call[r].op
           seen == call[r].seen
<1>1. op \in Ops /\ seen \in Content /\ CanApply(op, seen)
      /\ content \in Content /\ content # Absent
  BY DEF Save, SaveMatches, StoreInv, StoreTypeOK, CallInHand
<1>2. Apply(op, content) \in Content /\ Apply(op, seen) \in Content
  BY <1>1, ApplyType
<1>3. SendsArray(op) => seen.nodes = content.nodes /\ seen.edges = content.edges
  BY <1>1 DEF Save, SaveMatches, RevisionGuards
<1>4. CanApply(op, content)
  BY <1>1, <1>3 DEF CanApply, SendsArray, SendsNodes, SendsEdges
<1>5. SendsNodes(op) => Apply(op, seen).nodes = Apply(op, content).nodes
  <2> SUFFICES ASSUME SendsNodes(op)
               PROVE  Apply(op, seen).nodes = Apply(op, content).nodes
    OBVIOUS
  <2>1. seen.nodes = content.nodes
    BY <1>3 DEF SendsArray
  <2>2. CASE op.type \in {"put", "restore"}
    BY <2>1, <2>2 DEF Apply, PutInto, Sent
  <2>3. CASE op.type = "update_node"
    BY <1>1, <2>1, <2>3 DEF Apply, Content
  <2>4. CASE op.type = "delete_node"
    BY <1>1, <2>1, <2>4 DEF Apply, WithoutNode, Content
  <2> QED BY <2>2, <2>3, <2>4 DEF SendsNodes
<1>6. SendsEdges(op) => Apply(op, seen).edges = Apply(op, content).edges
  <2> SUFFICES ASSUME SendsEdges(op)
               PROVE  Apply(op, seen).edges = Apply(op, content).edges
    OBVIOUS
  <2>1. seen.edges = content.edges
    BY <1>3 DEF SendsArray
  <2>2. CASE op.type \in {"put", "restore"}
    BY <2>1, <2>2 DEF Apply, PutInto, Sent
  <2>3. CASE op.type \in {"update_edge", "delete_edge"}
    BY <1>1, <2>1, <2>3 DEF Apply, Content
  <2>4. CASE op.type = "delete_node"
    BY <1>1, <2>1, <2>4 DEF Apply, WithoutNode, Content
  <2> QED BY <2>2, <2>3, <2>4 DEF SendsEdges
<1> HIDE DEF op, seen
<1>7. Saved(r) = [name |-> Apply(op, content).name,
                  nodes |-> Apply(op, content).nodes,
                  edges |-> Apply(op, content).edges]
  BY <1>5, <1>6 DEF Saved, op, seen
<1>8. Saved(r) = Apply(op, content)
  BY <1>2, <1>7 DEF Content
<1> QED BY <1>1, <1>4, <1>8 DEF op

(* Only a save acknowledges an operation; every other step leaves the      *)
(* acknowledgements alone.                                                 *)
LEMMA OtherStepsAckNothing ==
  ASSUME StoreInv, [StoreNext]_storeVars, \A r \in Calls : ~ Save(r)
  PROVE  Acked' = Acked /\ (content' = content \/ content' = Absent)
<1>0. call \in [Calls -> Call] /\ \A r \in Calls : CallInHand(call[r])
  BY DEF StoreInv, StoreTypeOK
<1>1. ASSUME NEW r \in Calls, Write(r)
      PROVE  Acked' = Acked /\ (content' = content \/ content' = Absent)
  BY <1>0, <1>1 DEF Write, Find, FindAndEdit, SaveFails, DeleteTopology, Acked,
    New, CallInHand
<1>2. ASSUME NEW r \in Calls, Version(r)
      PROVE  Acked' = Acked /\ content' = content
  <2>1. CASE BeginVersion(r)
    BY <1>0, <2>1 DEF BeginVersion, Acked
  <2>2. ASSUME NEW s \in versions, BeginRestore(r, s)
        PROVE  Acked' = Acked /\ content' = content
    BY <1>0, <2>2 DEF BeginRestore, Acked
  <2>3. CASE SnapFind(r)
    BY <1>0, <2>3 DEF SnapFind, Acked
  <2>4. CASE SnapLast(r)
    BY <1>0, <2>4 DEF SnapLast, Acked
  <2>5. CASE SnapCreate(r) \/ SnapRefused(r)
    BY <1>0, <2>5 DEF SnapCreate, SnapRefused, Acked, New
  <2>6. CASE RestoreFind(r)
    BY <1>0, <2>6 DEF RestoreFind, FindAndEdit, Acked, New
  <2> QED BY <1>2, <2>1, <2>2, <2>3, <2>4, <2>5, <2>6 DEF Version
<1>3. CASE SweepVersions
  BY <1>3 DEF SweepVersions, Acked
<1>4. CASE StoreRestart
  BY <1>0, <1>4 DEF StoreRestart, InFlight, Acked, New
<1>5. CASE UNCHANGED storeVars
  BY <1>5 DEF storeVars, Acked
<1> QED BY <1>1, <1>2, <1>3, <1>4, <1>5 DEF StoreNext

(* The abstract specification speaks of the same topologies and operations. *)
LEMMA SameOperations ==
  /\ Atomic!Content = Content
  /\ Atomic!Ops = Ops
  /\ \A op, c : Atomic!CanApply(op, c) = CanApply(op, c)
  /\ \A op, c : Atomic!Apply(op, c) = Apply(op, c)
<1>1. Atomic!NodeIds = NodeIds /\ Atomic!EdgeIds = EdgeIds
  BY DEF NodeIds, EdgeIds, Atomic!NodeIds, Atomic!EdgeIds
<1>2. Atomic!Nodes = Nodes /\ Atomic!Edges = Edges
  BY <1>1 DEF Nodes, Edges, Atomic!Nodes, Atomic!Edges
<1>3. Atomic!Content = Content /\ Atomic!Patch = Patch
  BY <1>2 DEF Content, Patch, Atomic!Content, Atomic!Patch
<1>4. Atomic!Ops = Ops
  BY <1>1, <1>3 DEF Ops, Atomic!Ops
<1>5. \A op, c : Atomic!CanApply(op, c) = CanApply(op, c)
  BY DEF CanApply, Atomic!CanApply
<1>6. \A c, patch : Atomic!PutInto(c, patch) = PutInto(c, patch)
  BY DEF PutInto, Sent, Atomic!PutInto, Atomic!Sent
<1>7. \A c, id : Atomic!WithoutNode(c, id) = WithoutNode(c, id)
  BY <1>1 DEF WithoutNode, Atomic!WithoutNode
<1>8. \A op, c : Atomic!Apply(op, c) = Apply(op, c)
  BY <1>6, <1>7 DEF Apply, Atomic!Apply
<1> QED BY <1>3, <1>4, <1>5, <1>8

(* Every acknowledged write is atomic: the store implements AtomicTopology, *)
(* with the acknowledgements read off the finished requests.                *)
THEOREM StoreImplementsAtomic == StoreSpec => WritesAreAtomic
<1>1. StoreInit => Atomic!Init
  BY StoreAssumption, SameOperations DEF StoreInit, Atomic!Init, Acked, New
<1>2. ASSUME StoreInv, RevisionGuards, [StoreNext]_storeVars
      PROVE  [Atomic!Next]_<<content, Acked>>
  <2>1. ASSUME NEW r \in Calls, Save(r)
        PROVE  Atomic!Next
    <3>1. /\ content \in Content
          /\ call[r].op \in Ops
          /\ CanApply(call[r].op, content)
          /\ content' = Apply(call[r].op, content)
      BY <1>2, <2>1, SaveIsAtomic DEF Save
    <3>2. content # Absent
      BY <2>1 DEF Save, SaveMatches
    <3>3. Acked[r] = Absent /\ Acked' = [Acked EXCEPT ![r] = call[r].op]
      BY <1>2, <2>1 DEF Save, StoreInv, StoreTypeOK, Acked, New
    <3>4. Acked'[r] = call[r].op
      BY <3>3 DEF Acked
    <3>5. /\ Acked'[r] \in Atomic!Ops
          /\ Atomic!CanApply(Acked'[r], content)
          /\ content' = Atomic!Apply(Acked'[r], content)
      BY <3>1, <3>4, SameOperations
    <3>6. Acked' = [Acked EXCEPT ![r] = Acked'[r]]
      BY <3>3, <3>4
    <3>7. Atomic!Commit(r, Acked'[r])
      BY <3>2, <3>3, <3>5, <3>6 DEF Atomic!Commit
    <3> QED BY <3>5, <3>7 DEF Atomic!Next
  <2>2. CASE \A r \in Calls : ~ Save(r)
    BY <1>2, <2>2, OtherStepsAckNothing DEF Atomic!Next, Atomic!Delete
  <2> QED BY <2>1, <2>2
<1> QED BY <1>1, <1>2, StoreInvAlways, RevisionGuardsAlways, PTL
        DEF StoreSpec, WritesAreAtomic, Atomic!Spec

-----------------------------------------------------------------------------
(* Snapshot numbers: a stale last number is refused by the index, so the   *)
(* number that is added is always the next one.                            *)

GaplessInv == IsFiniteSet(versions) /\ LastNotAhead /\ VersionsGapless

LEMMA StepGapless == StoreInv /\ GaplessInv /\ [StoreNext]_storeVars => GaplessInv'
<1> SUFFICES ASSUME StoreInv, GaplessInv, [StoreNext]_storeVars PROVE GaplessInv'
  OBVIOUS
<1> USE DEF GaplessInv
<1>0. call \in [Calls -> Call] /\ versions \subseteq Snapshot
  BY DEF StoreInv, StoreTypeOK
<1>a. ASSUME UNCHANGED <<versions, swept>>,
             \A q \in Calls : call'[q].pc = "snap_create" => call'[q] = call[q]
      PROVE  GaplessInv'
  BY <1>a DEF LastNotAhead, VersionsGapless, Numbers
<1>1. ASSUME NEW r \in Calls, Write(r) PROVE GaplessInv'
  BY <1>0, <1>1, <1>a DEF Write, Find, FindAndEdit, Save, SaveFails,
    DeleteTopology, New
<1>2. ASSUME NEW r \in Calls, Version(r) PROVE GaplessInv'
  <2>1. CASE BeginVersion(r)
    BY <1>0, <1>a, <2>1 DEF BeginVersion
  <2>2. ASSUME NEW s \in versions, BeginRestore(r, s) PROVE GaplessInv'
    BY <1>0, <1>a, <2>2 DEF BeginRestore
  <2>3. CASE SnapFind(r)
    BY <1>0, <1>a, <2>3 DEF SnapFind
  <2>4. CASE SnapLast(r)
    <3>1. LastNumber <= Cardinality(versions) \/ swept
      <4> SUFFICES ASSUME ~ swept PROVE LastNumber <= Cardinality(versions)
        OBVIOUS
      <4>1. Numbers = 1 .. Cardinality(versions) /\ Cardinality(versions) \in Nat
        BY FS_CardinalityType DEF VersionsGapless
      <4>2. CASE versions = {}
        BY <4>1, <4>2 DEF LastNumber
      <4>3. CASE versions # {}
        BY <1>0, <4>1, <4>3, LastNumberIsLast DEF StoreInv
      <4> QED BY <4>2, <4>3
    <3>2. \A q \in Calls : call'[q].pc = "snap_create" =>
            call'[q] = call[q] \/ call'[q].last = LastNumber
      BY <1>0, <2>4 DEF SnapLast, Call
    <3> QED BY <2>4, <3>1, <3>2 DEF SnapLast, LastNotAhead, VersionsGapless,
      Numbers
  <2>5. CASE SnapCreate(r)
    <3> DEFINE n == call[r].last + 1
               s == [by |-> r, n |-> n, content |-> call[r].seen]
               c == Cardinality(versions)
    <3>1. versions' = versions \cup {s} /\ n \notin Numbers /\ swept' = swept
      BY <2>5 DEF SnapCreate, NumberTaken
    <3>2. s \notin versions
      BY <3>1 DEF Numbers
    <3>3. IsFiniteSet(versions') /\ Cardinality(versions') = c + 1 /\ c \in Nat
      BY <3>1, <3>2, FS_AddElement, FS_CardinalityType
    <3>4. Numbers' = Numbers \cup {n}
      <4>1. Numbers' = {v.n : v \in versions \cup {s}}
        BY <3>1 DEF Numbers
      <4>2. s.n = n
        OBVIOUS
      <4> HIDE DEF s, n
      <4> QED BY <4>1, <4>2 DEF Numbers
    <3>5. call[r].last \in Nat
      BY <1>0 DEF Call
    <3>6. swept \/ (call[r].last <= c /\ Numbers = 1 .. c)
      BY <2>5 DEF SnapCreate, LastNotAhead, VersionsGapless
    <3>7. VersionsGapless'
      BY <3>1, <3>3, <3>4, <3>5, <3>6 DEF VersionsGapless
    <3>8. \A q \in Calls :
            /\ call[q].last \in Nat
            /\ call'[q].pc = "snap_create" => call'[q] = call[q]
      BY <1>0, <2>5 DEF SnapCreate, New, Call
    <3>9. LastNotAhead'
      BY <3>1, <3>3, <3>8 DEF LastNotAhead
    <3> QED BY <3>3, <3>7, <3>9
  <2>6. CASE SnapRefused(r)
    BY <1>0, <1>a, <2>6 DEF SnapRefused, New
  <2>7. CASE RestoreFind(r)
    BY <1>0, <1>a, <2>7 DEF RestoreFind, FindAndEdit, New
  <2> QED BY <1>2, <2>1, <2>2, <2>3, <2>4, <2>5, <2>6, <2>7 DEF Version
<1>3. CASE SweepVersions
  BY <1>3, FS_EmptySet DEF SweepVersions, LastNotAhead, VersionsGapless
<1>4. CASE StoreRestart
  BY <1>0, <1>4, <1>a DEF StoreRestart, New
<1>5. CASE UNCHANGED storeVars
  BY <1>5, <1>a DEF storeVars
<1> QED BY <1>1, <1>2, <1>3, <1>4, <1>5 DEF StoreNext

(* Snapshots are numbered without gap or repetition. *)
THEOREM VersionsNumbered == StoreSpec => []VersionsGapless
<1>1. StoreInit => GaplessInv
  BY FS_EmptySet DEF StoreInit, GaplessInv, LastNotAhead, VersionsGapless, Numbers,
    New
<1>2. GaplessInv => VersionsGapless
  BY DEF GaplessInv
<1> QED BY <1>1, <1>2, StoreInvAlways, StepGapless, PTL DEF StoreSpec

-----------------------------------------------------------------------------
(* What a restore may lose. *)

RestoreInv == SnapshotCurrent /\ RestoreLosesOnlyRaces

LEMMA StepRestore == StoreInv /\ RestoreInv /\ [StoreNext]_storeVars => RestoreInv'
<1> SUFFICES ASSUME StoreInv, RestoreInv, [StoreNext]_storeVars PROVE RestoreInv'
  OBVIOUS
<1> USE DEF RestoreInv, SnapshotCurrent, RestoreLosesOnlyRaces, Restoring
<1>0. /\ call \in [Calls -> Call] /\ raced \in [Calls -> BOOLEAN]
      /\ \A r \in Calls : call[r].pc = "new" => call[r].op = Absent
  BY DEF StoreInv, StoreTypeOK, CallInHand
<1>a. ASSUME UNCHANGED <<content, versions, swept, raced>>,
             \A q \in Calls :
               \/ call'[q] = call[q]
               \/ call'[q].pc \notin {"snap_last", "snap_create"} /\ ~ Restoring(q)'
      PROVE  RestoreInv'
  BY <1>a
<1>1. ASSUME NEW r \in Calls, NEW op \in ClientOps(r), Find(r, op)
      PROVE  RestoreInv'
  <2>1. op.type # "restore"
    BY DEF ClientOps
  <2> QED BY <1>0, <1>1, <1>a, <2>1 DEF Find, FindAndEdit, New
<1>2. ASSUME NEW r \in Calls, Save(r) PROVE RestoreInv'
  <2>1. call'[r].pc = "done"
    BY <1>0, <1>2 DEF Save, New
  <2>2. \A q \in Calls : q # r => raced'[q]
    BY <1>2 DEF Save
  <2> QED BY <2>1, <2>2
<1>3. ASSUME NEW r \in Calls, SaveFails(r) \/ SnapRefused(r)
      PROVE  RestoreInv'
  BY <1>0, <1>3, <1>a DEF SaveFails, SnapRefused, New
<1>4. ASSUME NEW r \in Calls, DeleteTopology(r) PROVE RestoreInv'
  BY <1>4 DEF DeleteTopology
<1>5. ASSUME NEW r \in Calls, BeginVersion(r) PROVE RestoreInv'
  BY <1>0, <1>5, <1>a DEF BeginVersion
<1>6. ASSUME NEW r \in Calls, NEW s \in versions, BeginRestore(r, s)
      PROVE  RestoreInv'
  BY <1>0, <1>6, <1>a DEF BeginRestore
<1>7. ASSUME NEW r \in Calls, SnapFind(r) PROVE RestoreInv'
  <2>1. UNCHANGED <<content, versions, swept>>
    BY <1>7 DEF SnapFind
  <2>2. \A q \in Calls : q # r => call'[q] = call[q] /\ raced'[q] = raced[q]
    BY <1>0, <1>7 DEF SnapFind
  <2>3. content # Absent => call'[r].pc = "snap_last" /\ call'[r].seen = content
    BY <1>0, <1>7 DEF SnapFind, Call
  <2> QED BY <2>1, <2>2, <2>3
<1>8. ASSUME NEW r \in Calls, SnapLast(r) PROVE RestoreInv'
  <2>1. UNCHANGED <<content, versions, swept, raced>>
    BY <1>8 DEF SnapLast
  <2>2. \A q \in Calls : q # r => call'[q] = call[q]
    BY <1>0, <1>8 DEF SnapLast
  <2>3. /\ call[r].pc = "snap_last" /\ call'[r].pc = "snap_create"
        /\ call'[r].seen = call[r].seen
    BY <1>0, <1>8 DEF SnapLast, Call
  <2> QED BY <2>1, <2>2, <2>3
<1>9. ASSUME NEW r \in Calls, SnapCreate(r) PROVE RestoreInv'
  <2>1. UNCHANGED <<content, swept, raced>>
    BY <1>9 DEF SnapCreate
  <2>2. \A q \in Calls : q # r => call'[q] = call[q]
    BY <1>0, <1>9 DEF SnapCreate
  <2>3. /\ call[r].pc = "snap_create"
        /\ call'[r].pc \notin {"snap_last", "snap_create"}
    BY <1>0, <1>9 DEF SnapCreate, New
  <2>4. \E s \in versions' : s.content = call[r].seen
    <3> DEFINE s == [by |-> r, n |-> call[r].last + 1, content |-> call[r].seen]
    <3>1. s \in versions' /\ s.content = call[r].seen
      BY <1>9 DEF SnapCreate
    <3> QED BY <3>1
  <2>5. versions \subseteq versions'
    BY <1>9 DEF SnapCreate
  <2> QED BY <2>1, <2>2, <2>3, <2>4, <2>5
<1>10. ASSUME NEW r \in Calls, RestoreFind(r) PROVE RestoreInv'
  <2>1. UNCHANGED <<content, versions, swept, raced>>
    BY <1>10 DEF RestoreFind
  <2>2. \A q \in Calls : q # r => call'[q] = call[q]
    BY <1>0, <1>10 DEF RestoreFind, FindAndEdit
  <2>3. /\ call[r].pc = "find"
        /\ call'[r].pc \notin {"snap_last", "snap_create"}
        /\ call'[r].op \in {Absent, call[r].op}
    BY <1>0, <1>10 DEF RestoreFind, FindAndEdit, New
  <2> QED BY <2>1, <2>2, <2>3
<1>11. CASE SweepVersions
  BY <1>11 DEF SweepVersions
<1>12. CASE StoreRestart
  BY <1>0, <1>12, <1>a DEF StoreRestart, New
<1>13. CASE UNCHANGED storeVars
  BY <1>13 DEF storeVars
<1> QED BY <1>1, <1>2, <1>3, <1>4, <1>5, <1>6, <1>7, <1>8, <1>9, <1>10, <1>11,
           <1>12, <1>13 DEF StoreNext, Write, Version

(* A restore replaces a topology that has been snapshotted, unless another *)
(* request saved since.                                                    *)
THEOREM RestoreSound == StoreSpec => []RestoreLosesOnlyRaces
<1>1. StoreInit => RestoreInv
  BY DEF StoreInit, RestoreInv, SnapshotCurrent, RestoreLosesOnlyRaces, Restoring,
    New
<1>2. RestoreInv => RestoreLosesOnlyRaces
  BY DEF RestoreInv
<1> QED BY <1>1, <1>2, StoreInvAlways, StepRestore, PTL DEF StoreSpec
=============================================================================
