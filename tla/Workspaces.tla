----------------------------- MODULE Workspaces -----------------------------
(***************************************************************************)
(* Which topology an owner works in (db/network-service.ts,                *)
(* network.handlers.ts, db/seed.ts).  The network builder opens the        *)
(* owner's default topology, which the first request creates, and saves    *)
(* under the id it was given.                                              *)
(*                                                                         *)
(* Nothing in the database keeps an owner from having two defaults; which  *)
(* one findOne then returns is up to it.                                   *)
(***************************************************************************)
EXTENDS Naturals, FiniteSets

CONSTANTS
  Owners,
  Visitors,     \* pages, scripts and other clients of the API
  OwnerOf,     \* client -> owner ("local" for everybody who is not signed in)
  Seeds,       \* the clients that are the script that fills in demo data
  Nothing,     \* no topology
  MaxDocs      \* bound: topologies created

ASSUME WorkspacesAssumption ==
  /\ OwnerOf \in [Visitors -> Owners] /\ Seeds \subseteq Visitors /\ MaxDocs \in Nat
  /\ Nothing \notin 1 .. MaxDocs

VARIABLES
  docs,      \* the topologies: an id, the owner, the mark, whether work was saved in it
  client,    \* each client: what it does, and the topology its page shows
  created,   \* number of topologies so far: the next id
  raced      \* history: owners of whom two requests found no default at a time

workspaceVars == <<docs, client, created, raced>>

Doc == [id : 1 .. MaxDocs, owner : Owners, isDefault : BOOLEAN, saved : BOOLEAN]
AtRest == [stage |-> "rest", page |-> Nothing]

WorkspacesInit ==
  /\ docs = {} /\ client = [c \in Visitors |-> AtRest]
  /\ created = 0 /\ raced = {}

-----------------------------------------------------------------------------
OwnDocs(o) == {d \in docs : d.owner = o}
Defaults(o) == {d \in OwnDocs(o) : d.isDefault}

Goes(c, stage) == client' = [client EXCEPT ![c].stage = stage]
Opens(c, id) == client' = [client EXCEPT ![c] = [stage |-> "rest", page |-> id]]

(* GET /networks/default, or an operation on the topology "default"; the   *)
(* script that fills in demo data counts the defaults just as well.        *)
AskForDefault(c) ==
  /\ client[c] = AtRest
  /\ Goes(c, "finding")
  /\ UNCHANGED <<docs, created, raced>>

(* GET /networks makes a default only for an owner without any topology.   *)
ListTopologies(c) ==
  /\ client[c].stage = "rest" /\ c \notin Seeds /\ OwnDocs(OwnerOf[c]) = {}
  /\ Goes(c, "finding")
  /\ UNCHANGED <<docs, created, raced>>

Creating(o) == {c \in Visitors : OwnerOf[c] = o /\ client[c].stage = "creating"}

(* What is found is opened, unless the one who asked has left meanwhile or *)
(* is a script.                                                            *)
FindDefault(c) ==
  LET o == OwnerOf[c] IN
  /\ client[c].stage = "finding"
  /\ UNCHANGED <<docs, created>>
  /\ \/ /\ Defaults(o) = {}
        /\ Goes(c, "creating")
        /\ raced' = raced \cup {p \in {o} : Creating(p) # {}}
     \/ /\ c \notin Seeds
        /\ \E d \in Defaults(o) : Opens(c, d.id)
        /\ UNCHANGED raced
     \/ /\ Defaults(o) # {}
        /\ Goes(c, "rest")
        /\ UNCHANGED raced

(* Faulty variant: the new topology is not marked. *)
PlainTopology(o) == [id |-> created + 1, owner |-> o, isDefault |-> FALSE, saved |-> FALSE]

DemoTopology(o) == [id |-> created + 1, owner |-> o, isDefault |-> TRUE, saved |-> FALSE]

CreateDefault(c) ==
  /\ client[c].stage = "creating" /\ created < MaxDocs
  /\ docs' = docs \cup {DemoTopology(OwnerOf[c])}
  /\ created' = created + 1
  /\ Goes(c, "rest") \/ (c \notin Seeds /\ Opens(c, created'))
  /\ UNCHANGED raced

CreateTopology(c) ==
  /\ client[c].stage = "rest" /\ c \notin Seeds /\ created < MaxDocs
  /\ docs' = docs \cup {[id |-> created + 1, owner |-> OwnerOf[c], isDefault |-> FALSE,
                         saved |-> FALSE]}
  /\ created' = created + 1
  /\ UNCHANGED <<client, raced>>

DeleteTopology(c, id) ==
  /\ client[c].stage = "rest" /\ c \notin Seeds
  /\ docs' = docs \ {d \in OwnDocs(OwnerOf[c]) : d.id = id}
  /\ UNCHANGED <<client, created, raced>>

(* PUT /networks/:id; a 404 when the topology is gone. *)
SavePage(c) ==
  LET mine == {d \in OwnDocs(OwnerOf[c]) : d.id = client[c].page} IN
  /\ client[c].stage = "rest" /\ client[c].page # Nothing
  /\ docs' = (docs \ mine) \cup {[d EXCEPT !.saved = TRUE] : d \in mine}
  /\ UNCHANGED <<client, created, raced>>

(* The page is closed or loaded again. *)
LeavePage(c) ==
  /\ client[c].stage = "rest" /\ client[c].page # Nothing
  /\ client' = [client EXCEPT ![c] = AtRest]
  /\ UNCHANGED <<docs, created, raced>>

WorkspacesNext ==
  \E c \in Visitors :
    \/ AskForDefault(c) \/ ListTopologies(c) \/ FindDefault(c) \/ CreateDefault(c)
    \/ CreateTopology(c) \/ SavePage(c) \/ LeavePage(c)
    \/ \E id \in 1 .. created : DeleteTopology(c, id)

WorkspacesSpec == WorkspacesInit /\ [][WorkspacesNext]_workspaceVars

-----------------------------------------------------------------------------
(* Work that a page saved is what its owner's next page opens, whatever    *)
(* else is created, listed, deleted or filled in: the topology it is in is *)
(* the owner's only default.  Unless two requests of the owner, each       *)
(* finding no default, overlapped: then one of two pages may save its work *)
(* where no later page looks.                                              *)
WorkReopens ==
  \A d \in docs : d.saved /\ d.owner \notin raced =>
    {e.id : e \in Defaults(d.owner)} = {d.id}
=============================================================================
