------------------------------ MODULE Erasure -------------------------------
(***************************************************************************)
(* Account erasure together with the data it must remove (Art. 17).        *)
(*                                                                         *)
(* Accounts decides when deleteAllTopologies runs; this module adds what   *)
(* it deletes, and the owner's own requests that write to the same two     *)
(* collections meanwhile: opening the workspace (which creates the default *)
(* topology), creating, deleting and snapshotting topologies.  Ownership   *)
(* comes from the JWT alone (ownerOf in middlewares/auth.ts), so a session *)
(* that outlives its account can still write.                              *)
(*                                                                         *)
(* An owner's documents in one collection count as one: data[c] is the set *)
(* of owners that have any document in c.                                  *)
(***************************************************************************)
EXTENDS Accounts

CONSTANT
  Writers       \* in-flight requests of owners on their own networks

VARIABLES
  data,         \* collection -> owners with documents in it
  writer,       \* writer -> the insert it is about to issue
  dropped,      \* history: (collection, owner) whose sweep failed or fell to a restart
  late          \* history: (collection, owner) written after its sweep

dataVars == <<data, writer, dropped, late>>
evars == <<vars, dataVars>>

-----------------------------------------------------------------------------
Quiet == [pc |-> "idle", id |-> None]

Write == [pc : {"idle", "topologies", "versions"}, id : Ids \cup {None}]

ErasureInit ==
  /\ Init
  /\ data = [c \in Collections |-> {}]
  /\ writer = [w \in Writers |-> Quiet]
  /\ dropped = {}
  /\ late = {}

(* A deleteMany on c for this owner is still to come. *)
SweepPending(c, id) ==
  \E r \in Requests : req[r].pc = "sweep" /\ req[r].id = id /\ c \in req[r].todo

(* requireWrite: viewers may only read, but reading the default topology   *)
(* creates it for an owner who has none, whatever other topologies there   *)
(* are; which of an owner's topologies is the default is not kept here.    *)
MayCreate(id) == session[id] # None

MayModify(id) == session[id] \in {"admin", "editor"}

BeginTopology(w, id) ==
  /\ writer[w] = Quiet
  /\ MayCreate(id)
  /\ writer' = [writer EXCEPT ![w] = [pc |-> "topologies", id |-> id]]
  /\ UNCHANGED <<vars, data, dropped, late>>

(* createVersion has found the topology and will insert its snapshot. *)
BeginVersion(w, id) ==
  /\ writer[w] = Quiet
  /\ MayModify(id)
  /\ id \in data["topologies"]
  /\ writer' = [writer EXCEPT ![w] = [pc |-> "versions", id |-> id]]
  /\ UNCHANGED <<vars, data, dropped, late>>

Insert(w) ==
  LET c == writer[w].pc  id == writer[w].id IN
  /\ c # "idle"
  /\ data' = [data EXCEPT ![c] = @ \cup {id}]
  /\ late' = IF id \in Live \/ SweepPending(c, id)
             THEN late ELSE late \cup {<<c, id>>}
  /\ writer' = [writer EXCEPT ![w] = Quiet]
  /\ UNCHANGED <<vars, dropped>>

(* deleteTopology removes the owner's last topology; its versions stay. *)
DeleteLastTopology(id) ==
  /\ MayModify(id)
  /\ id \in data["topologies"]
  /\ data' = [data EXCEPT !["topologies"] = @ \ {id}]
  /\ UNCHANGED <<vars, writer, dropped, late>>

(* Faulty variant: the snapshots are overlooked. *)
SweepTopologiesOnly(r, c) ==
  /\ Sweep(r, c)
  /\ data' = [data EXCEPT !["topologies"] = @ \ {req[r].id}]
  /\ UNCHANGED <<writer, dropped, late>>

(* Faulty variant: every owner's documents go. *)
SweepEverything(r, c) ==
  /\ Sweep(r, c)
  /\ data' = [data EXCEPT ![c] = {}]
  /\ UNCHANGED <<writer, dropped, late>>

(* deleteMany({ownerId}) on one collection. *)
SweepData(r, c) ==
  /\ Sweep(r, c)
  /\ data' = [data EXCEPT ![c] = @ \ {req[r].id}]
  /\ UNCHANGED <<writer, dropped, late>>

(* The database refuses one of the two calls: the handler ends with an     *)
(* error, and the other call goes its way.                                 *)
SweepFails(r, c) ==
  /\ Sweep(r, c)
  /\ dropped' = dropped \cup {<<c, req[r].id>>}
  /\ UNCHANGED <<data, writer, late>>

RestartAll ==
  /\ Restart
  /\ writer' = [w \in Writers |-> Quiet]
  /\ dropped' = dropped \cup
       {p \in Collections \X Ids : SweepPending(p[1], p[2])}
  /\ UNCHANGED <<data, late>>

ErasureNext ==
  \/ \E r \in Requests : SignIn(r) /\ UNCHANGED dataVars
  \/ \E r \in Requests : SetUserRole(r) /\ UNCHANGED dataVars
  \/ \E r \in Requests : RemoveUser(r) /\ UNCHANGED dataVars
  \/ \E id \in Ids : EndSession(id) /\ UNCHANGED dataVars
  \/ \E r \in Requests, c \in Collections : SweepData(r, c) \/ SweepFails(r, c)
  \/ \E w \in Writers, id \in Ids : BeginTopology(w, id) \/ BeginVersion(w, id)
  \/ \E w \in Writers : Insert(w)
  \/ \E id \in Ids : DeleteLastTopology(id)
  \/ RestartAll

ErasureSpec == ErasureInit /\ [][ErasureNext]_evars

(* MongoDB answers every deleteMany, so a handler that has begun to sweep  *)
(* goes on unless the process dies or a call fails.                        *)
ErasureFairSpec ==
  /\ ErasureSpec
  /\ \A r \in Requests, c \in Collections : WF_evars(SweepData(r, c))

-----------------------------------------------------------------------------
ErasureTypeOK ==
  /\ TypeOK
  /\ data \in [Collections -> SUBSET Ids]
  /\ writer \in [Writers -> Write]
  /\ dropped \subseteq Collections \X Ids
  /\ late \subseteq Collections \X Ids

(* Documents whose owner has no account and that no sweep will reach. *)
Orphans ==
  {p \in Collections \X Ids :
     /\ p[2] \in data[p[1]]
     /\ p[2] \notin Live
     /\ ~ SweepPending(p[1], p[2])}

(* Only a restart, a call that the database refused or a late write of a   *)
(* surviving session leaves documents of an erased account behind: the     *)
(* erasure sequence of auth-service.ts:117-120 itself overlooks neither    *)
(* collection.                                                             *)
OrphansExplained == ErasureTypeOK /\ Orphans \subseteq dropped \cup late

(* A deletion refused by the last-admin guard, or that found no account,   *)
(* loses no data: one step never shrinks a live account's data unless its  *)
(* own session deletes a topology (auth-service.ts:102-106).               *)
LiveDataOnlyLeavesByOwner ==
  [][\A c \in Collections : \A id \in data[c] \cap Live :
       id \notin data'[c] => c = "topologies" /\ MayModify(id)]_evars

(* Every erasure completes: the data of an erased account eventually goes, *)
(* unless a restart, a refused call or a late write left it behind.        *)
ErasureCompletes ==
  \A id \in Ids, c \in Collections :
    id \in issued \ Live ~> (id \notin data[c] \/ <<c, id>> \in dropped \cup late)

(* Erasure removes "the account plus everything it owns"                   *)
(* (auth-service.ts:96): no session writes for an erased account.          *)
NoWriteAfterErasure == late = {}
=============================================================================
