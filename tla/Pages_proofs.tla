---------------------------- MODULE Pages_proofs ----------------------------
(***************************************************************************)
(* What the client's pages keep for their user.  Saved work is what the    *)
(* next page opens (module Workspaces), a keystroke in the properties      *)
(* panel changes one setting (NodePanel), and the subnet calculator shows  *)
(* what belongs together (Subnets): for any number of owners, devices and  *)
(* requests.                                                               *)
(***************************************************************************)
EXTENDS Workspaces, NodePanel, Subnets, GuidedBuild, Algorithms_proofs, TLAPS

-----------------------------------------------------------------------------
(* Default workspaces. *)

Client == [stage : {"rest", "finding", "creating"}, page : (1 .. MaxDocs) \cup {Nothing}]

WorkspacesTypeOK ==
  /\ docs \subseteq Doc
  /\ client \in [Visitors -> Client]
  /\ created \in 0 .. MaxDocs
  /\ raced \subseteq Owners

(* Ids are handed out once. *)
IdsUnique ==
  /\ \A d \in docs : d.id <= created
  /\ \A d, e \in docs : d.id = e.id => d = e

(* What a page shows was a default of its owner, and still is if it is     *)
(* there at all.                                                           *)
PagesOpenDefaults ==
  \A c \in Visitors :
    /\ client[c].page # Nothing => client[c].page <= created
    /\ \A d \in docs : d.id = client[c].page => d.isDefault

OnlyDefaultsSaved == \A d \in docs : d.saved => d.isDefault

(* Unless two of its requests overlapped, an owner has one default at      *)
(* most, and none as long as a request is about to create it.              *)
OneDefault ==
  \A d, e \in docs :
    d.owner = e.owner /\ d.owner \notin raced /\ d.isDefault /\ e.isDefault => d = e

OneCreator ==
  \A c \in Visitors :
    client[c].stage = "creating" /\ OwnerOf[c] \notin raced =>
      /\ \A d \in docs : d.owner = OwnerOf[c] => ~ d.isDefault
      /\ \A b \in Visitors :
           OwnerOf[b] = OwnerOf[c] /\ client[b].stage = "creating" => b = c

WorkspacesInv ==
  /\ WorkspacesTypeOK /\ IdsUnique /\ PagesOpenDefaults
  /\ OnlyDefaultsSaved /\ OneDefault /\ OneCreator

-----------------------------------------------------------------------------
LEMMA InitInv == WorkspacesInit => WorkspacesInv
  BY WorkspacesAssumption
     DEF WorkspacesInit, WorkspacesInv, WorkspacesTypeOK, IdsUnique, PagesOpenDefaults,
         OnlyDefaultsSaved, OneDefault, OneCreator, AtRest, Client

(* A step that only moves a client from one stage to another.              *)
LEMMA StageKeepsInv ==
  ASSUME WorkspacesInv, NEW c \in Visitors, NEW s \in {"rest", "finding"},
         Goes(c, s), UNCHANGED <<docs, created, raced>>
  PROVE  WorkspacesInv'
  BY DEF Goes, WorkspacesInv, WorkspacesTypeOK, IdsUnique, PagesOpenDefaults,
         OnlyDefaultsSaved, OneDefault, OneCreator, Client

(* So does opening a default.                                              *)
LEMMA OpenKeepsInv ==
  ASSUME WorkspacesInv, NEW c \in Visitors, NEW d \in Defaults(OwnerOf[c]),
         Opens(c, d.id), UNCHANGED <<docs, created, raced>>
  PROVE  WorkspacesInv'
<1>1. d \in docs /\ d \in Doc /\ d.isDefault /\ d.id \in 1 .. MaxDocs /\ d.id <= created
  BY DEF WorkspacesInv, WorkspacesTypeOK, IdsUnique, Defaults, OwnDocs, Doc
<1>2. \A e \in docs : e.id = d.id => e.isDefault
  BY <1>1 DEF WorkspacesInv, IdsUnique
<1>3. client' = [client EXCEPT ![c] = [stage |-> "rest", page |-> d.id]]
  BY DEF Opens
<1>4. WorkspacesTypeOK'
  BY <1>1, <1>3 DEF WorkspacesInv, WorkspacesTypeOK, Client
<1>5. PagesOpenDefaults'
  BY <1>1, <1>2, <1>3 DEF WorkspacesInv, WorkspacesTypeOK, PagesOpenDefaults
<1>6. OneCreator'
  BY <1>3 DEF WorkspacesInv, WorkspacesTypeOK, OneCreator
<1> QED
  BY <1>4, <1>5, <1>6 DEF WorkspacesInv, IdsUnique, OnlyDefaultsSaved, OneDefault

LEMMA FindKeepsInv ==
  ASSUME WorkspacesInv, NEW c \in Visitors, FindDefault(c)
  PROVE  WorkspacesInv'
<1> DEFINE o == OwnerOf[c]
<1>1. CASE Defaults(o) = {} /\ Goes(c, "creating") /\ raced' = raced \cup {p \in {o} : Creating(p) # {}}
  <2>1. UNCHANGED <<docs, created>> /\ o \in Owners
    BY WorkspacesAssumption DEF FindDefault
  <2>2. \A d \in docs : d.owner = o => ~ d.isDefault
    BY <1>1 DEF Defaults, OwnDocs
  <2>3. client' = [client EXCEPT ![c].stage = "creating"]
    BY <1>1 DEF Goes
  <2>4. WorkspacesTypeOK'
    BY <1>1, <2>1, <2>3 DEF WorkspacesInv, WorkspacesTypeOK, Client
  <2>5. PagesOpenDefaults'
    BY <2>1, <2>3 DEF WorkspacesInv, WorkspacesTypeOK, PagesOpenDefaults, Client
  <2>6. OneDefault'
    BY <1>1, <2>1 DEF WorkspacesInv, OneDefault
  <2>7. OneCreator'
    <3> SUFFICES ASSUME NEW a \in Visitors, client'[a].stage = "creating",
                        OwnerOf[a] \notin raced'
                 PROVE  /\ \A d \in docs : d.owner = OwnerOf[a] => ~ d.isDefault
                        /\ \A b \in Visitors :
                             OwnerOf[b] = OwnerOf[a] /\ client'[b].stage = "creating" => b = a
      BY <2>1 DEF OneCreator
    <3>1. OwnerOf[a] \notin raced /\ (OwnerOf[a] = o => Creating(o) = {})
      BY <1>1
    <3>2. \A b \in Visitors : b # c => client'[b] = client[b]
      BY <2>3 DEF WorkspacesInv, WorkspacesTypeOK
    <3>3. CASE OwnerOf[a] = o
      BY <2>2, <3>1, <3>2, <3>3 DEF Creating
    <3>4. CASE OwnerOf[a] # o
      BY <3>1, <3>2, <3>4 DEF WorkspacesInv, OneCreator
    <3> QED BY <3>3, <3>4
  <2> QED
    BY <2>1, <2>4, <2>5, <2>6, <2>7 DEF WorkspacesInv, IdsUnique, OnlyDefaultsSaved
<1>2. CASE \E d \in Defaults(o) : Opens(c, d.id) /\ UNCHANGED raced
  BY <1>2, OpenKeepsInv DEF FindDefault
<1>3. CASE Goes(c, "rest") /\ UNCHANGED raced
  BY <1>3, StageKeepsInv DEF FindDefault
<1> QED BY <1>1, <1>2, <1>3 DEF FindDefault

-----------------------------------------------------------------------------
(* A new topology with the next id. *)
LEMMA FreshDoc ==
  ASSUME WorkspacesInv, NEW o \in Owners, NEW b \in BOOLEAN, created < MaxDocs
  PROVE  LET d == [id |-> created + 1, owner |-> o, isDefault |-> b, saved |-> FALSE]
         IN  /\ d \in Doc /\ created + 1 \in 0 .. MaxDocs /\ created + 1 \in 1 .. MaxDocs
             /\ \A e \in docs : e.id # d.id /\ e.id <= created + 1
             /\ \A c \in Visitors : client[c].page # created + 1
<1>1. created \in Nat /\ MaxDocs \in Nat
  BY WorkspacesAssumption DEF WorkspacesInv, WorkspacesTypeOK
<1>2. \A e \in docs : e.id \in Nat /\ e.id <= created
  BY DEF WorkspacesInv, WorkspacesTypeOK, IdsUnique, Doc
<1>3. \A c \in Visitors : client[c].page # created + 1
  <2> SUFFICES ASSUME NEW c \in Visitors, client[c].page = created + 1 PROVE FALSE
    OBVIOUS
  <2>1. created + 1 \in 1 .. MaxDocs
    BY <1>1
  <2>2. client[c].page # Nothing
    BY <2>1, WorkspacesAssumption
  <2>3. client[c].page <= created
    BY <2>2 DEF WorkspacesInv, PagesOpenDefaults
  <2> QED BY <1>1, <2>3
<1> QED BY <1>1, <1>2, <1>3 DEF Doc

LEMMA CreateDefaultKeepsInv ==
  ASSUME WorkspacesInv, NEW c \in Visitors, CreateDefault(c)
  PROVE  WorkspacesInv'
<1> DEFINE o == OwnerOf[c]
           new == DemoTopology(o)
<1>1. /\ client[c].stage = "creating" /\ created < MaxDocs
      /\ docs' = docs \cup {new} /\ created' = created + 1 /\ raced' = raced
      /\ Goes(c, "rest") \/ Opens(c, created + 1)
  BY DEF CreateDefault
<1>2. o \in Owners
  BY WorkspacesAssumption
<1>3. /\ new \in Doc /\ created + 1 \in 0 .. MaxDocs /\ created + 1 \in 1 .. MaxDocs
      /\ \A e \in docs : e.id # new.id /\ e.id <= created + 1
      /\ \A b \in Visitors : client[b].page # created + 1
  BY <1>1, <1>2, FreshDoc DEF DemoTopology
<1>4. new.id = created + 1 /\ new.owner = o /\ new.isDefault /\ ~ new.saved
  BY DEF DemoTopology
<1>5. \A b \in Visitors : b # c => client'[b] = client[b]
  BY <1>1 DEF Goes, Opens, WorkspacesInv, WorkspacesTypeOK
<1>6. /\ client'[c].stage = "rest"
      /\ client'[c].page = client[c].page \/ client'[c].page = created + 1
      /\ client' \in [Visitors -> Client]
  BY <1>1, <1>3 DEF Goes, Opens, WorkspacesInv, WorkspacesTypeOK, Client
<1>7. created \in Nat
  BY WorkspacesAssumption DEF WorkspacesInv, WorkspacesTypeOK
<1>8. WorkspacesTypeOK'
  BY <1>1, <1>3, <1>6 DEF WorkspacesInv, WorkspacesTypeOK
<1>9. IdsUnique'
  BY <1>1, <1>3, <1>4, <1>7 DEF WorkspacesInv, IdsUnique
<1>10. PagesOpenDefaults'
  <2> SUFFICES ASSUME NEW b \in Visitors
               PROVE  /\ client'[b].page # Nothing => client'[b].page <= created + 1
                      /\ \A d \in docs \cup {new} : d.id = client'[b].page => d.isDefault
    BY <1>1 DEF PagesOpenDefaults
  <2>1. client[b].page # Nothing => client[b].page \in Nat /\ client[b].page <= created
    BY DEF WorkspacesInv, WorkspacesTypeOK, PagesOpenDefaults, Client
  <2>2. client'[b].page = client[b].page \/ client'[b].page = created + 1
    BY <1>5, <1>6
  <2>3. \A d \in docs : d.id = client[b].page => d.isDefault
    BY DEF WorkspacesInv, PagesOpenDefaults
  <2> QED BY <1>3, <1>4, <1>7, <2>1, <2>2, <2>3
<1>11. OnlyDefaultsSaved'
  BY <1>1, <1>4 DEF WorkspacesInv, OnlyDefaultsSaved
<1>12. OneDefault'
  <2>1. o \notin raced => \A d \in docs : d.owner = o => ~ d.isDefault
    BY <1>1 DEF WorkspacesInv, OneCreator
  <2> QED BY <1>1, <1>4, <2>1 DEF WorkspacesInv, OneDefault
<1>13. OneCreator'
  <2> SUFFICES ASSUME NEW a \in Visitors, client'[a].stage = "creating",
                      OwnerOf[a] \notin raced
               PROVE  /\ \A d \in docs \cup {new} : d.owner = OwnerOf[a] => ~ d.isDefault
                      /\ \A b \in Visitors :
                           OwnerOf[b] = OwnerOf[a] /\ client'[b].stage = "creating" => b = a
    BY <1>1 DEF OneCreator
  <2>1. a # c /\ client[a].stage = "creating"
    BY <1>5, <1>6
  <2>2. OwnerOf[a] # o
    BY <1>1, <2>1 DEF WorkspacesInv, OneCreator
  <2> QED BY <1>4, <1>5, <1>6, <2>1, <2>2 DEF WorkspacesInv, OneCreator
<1> QED
  BY <1>8, <1>9, <1>10, <1>11, <1>12, <1>13 DEF WorkspacesInv

LEMMA CreateTopologyKeepsInv ==
  ASSUME WorkspacesInv, NEW c \in Visitors, CreateTopology(c)
  PROVE  WorkspacesInv'
<1> DEFINE new == [id |-> created + 1, owner |-> OwnerOf[c], isDefault |-> FALSE, saved |-> FALSE]
<1>1. /\ created < MaxDocs /\ docs' = docs \cup {new} /\ created' = created + 1
      /\ UNCHANGED <<client, raced>>
  BY DEF CreateTopology
<1>2. /\ new \in Doc /\ created + 1 \in 0 .. MaxDocs
      /\ \A e \in docs : e.id # new.id /\ e.id <= created + 1
      /\ \A b \in Visitors : client[b].page # created + 1
  BY <1>1, FreshDoc, WorkspacesAssumption
<1>3. created \in Nat
  BY WorkspacesAssumption DEF WorkspacesInv, WorkspacesTypeOK
<1>4. WorkspacesTypeOK'
  BY <1>1, <1>2 DEF WorkspacesInv, WorkspacesTypeOK
<1>5. IdsUnique'
  <2>1. new.id = created + 1
    OBVIOUS
  <2> HIDE DEF new
  <2> QED BY <1>1, <1>2, <1>3, <2>1 DEF WorkspacesInv, IdsUnique
<1>6. PagesOpenDefaults'
  <2>1. \A b \in Visitors : client[b].page # Nothing => client[b].page \in Nat
    BY DEF WorkspacesInv, WorkspacesTypeOK, Client
  <2> QED BY <1>1, <1>2, <1>3, <2>1 DEF WorkspacesInv, PagesOpenDefaults
<1>7. OnlyDefaultsSaved' /\ OneDefault' /\ OneCreator'
  BY <1>1 DEF WorkspacesInv, OnlyDefaultsSaved, OneDefault, OneCreator
<1> QED BY <1>4, <1>5, <1>6, <1>7 DEF WorkspacesInv

-----------------------------------------------------------------------------
LEMMA SaveKeepsInv ==
  ASSUME WorkspacesInv, NEW c \in Visitors, SavePage(c)
  PROVE  WorkspacesInv'
<1> DEFINE mine == {d \in OwnDocs(OwnerOf[c]) : d.id = client[c].page}
           Marked(d) == [d EXCEPT !.saved = TRUE]
<1>1. docs' = (docs \ mine) \cup {Marked(d) : d \in mine} /\ UNCHANGED <<client, created, raced>>
  BY DEF SavePage
<1>2. mine \subseteq docs /\ \A d \in mine : d.isDefault
  BY DEF OwnDocs, WorkspacesInv, PagesOpenDefaults
<1>3. \A d \in docs : /\ Marked(d) \in Doc /\ Marked(d).id = d.id /\ Marked(d).owner = d.owner
                      /\ Marked(d).isDefault = d.isDefault
  BY DEF WorkspacesInv, WorkspacesTypeOK, Doc
<1>4. \A e \in docs' : \E d \in docs :
        /\ (d \notin mine /\ e = d) \/ (d \in mine /\ e = Marked(d))
        /\ e.id = d.id /\ e.owner = d.owner /\ e.isDefault = d.isDefault
        /\ e \in Doc
        /\ e.saved => d.saved \/ d.isDefault
  <2> SUFFICES ASSUME NEW e \in docs'
               PROVE  \E d \in docs :
                        /\ (d \notin mine /\ e = d) \/ (d \in mine /\ e = Marked(d))
                        /\ e.id = d.id /\ e.owner = d.owner /\ e.isDefault = d.isDefault
                        /\ e \in Doc
                        /\ e.saved => d.saved \/ d.isDefault
    OBVIOUS
  <2> HIDE DEF mine, Marked
  <2>1. CASE e \in docs \ mine
    BY <2>1 DEF WorkspacesInv, WorkspacesTypeOK
  <2>2. CASE \E d \in mine : e = Marked(d)
    BY <2>2, <1>2, <1>3
  <2> QED BY <1>1, <2>1, <2>2
<1> HIDE DEF mine, Marked
<1>5. WorkspacesTypeOK'
  BY <1>1, <1>4 DEF WorkspacesInv, WorkspacesTypeOK
<1>6. IdsUnique'
  BY <1>1, <1>4 DEF WorkspacesInv, IdsUnique
<1>7. PagesOpenDefaults'
  BY <1>1, <1>4 DEF WorkspacesInv, PagesOpenDefaults
<1>8. OnlyDefaultsSaved'
  BY <1>4 DEF WorkspacesInv, OnlyDefaultsSaved
<1>9. OneDefault'
  BY <1>1, <1>4 DEF WorkspacesInv, OneDefault
<1>10. OneCreator'
  BY <1>1, <1>4 DEF WorkspacesInv, OneCreator
<1> QED BY <1>5, <1>6, <1>7, <1>8, <1>9, <1>10 DEF WorkspacesInv

LEMMA DeleteKeepsInv ==
  ASSUME WorkspacesInv, NEW c \in Visitors, NEW id, DeleteTopology(c, id)
  PROVE  WorkspacesInv'
<1>1. docs' \subseteq docs /\ UNCHANGED <<client, created, raced>>
  BY DEF DeleteTopology
<1> QED
  BY <1>1 DEF WorkspacesInv, WorkspacesTypeOK, IdsUnique, PagesOpenDefaults,
              OnlyDefaultsSaved, OneDefault, OneCreator

LEMMA LeaveKeepsInv ==
  ASSUME WorkspacesInv, NEW c \in Visitors, LeavePage(c)
  PROVE  WorkspacesInv'
<1>1. client' = [client EXCEPT ![c] = AtRest] /\ UNCHANGED <<docs, created, raced>>
  BY DEF LeavePage
<1>2. Nothing \notin 1 .. MaxDocs
  BY WorkspacesAssumption
<1>3. \A d \in docs : d.id \in 1 .. MaxDocs
  BY DEF WorkspacesInv, WorkspacesTypeOK, Doc
<1>4. WorkspacesTypeOK'
  BY <1>1 DEF WorkspacesInv, WorkspacesTypeOK, AtRest, Client
<1>5. PagesOpenDefaults'
  BY <1>1, <1>2, <1>3 DEF WorkspacesInv, WorkspacesTypeOK, PagesOpenDefaults, AtRest
<1>6. OneCreator'
  BY <1>1 DEF WorkspacesInv, WorkspacesTypeOK, OneCreator, AtRest
<1> QED
  BY <1>1, <1>4, <1>5, <1>6 DEF WorkspacesInv, IdsUnique, OnlyDefaultsSaved, OneDefault

LEMMA NextKeepsInv ==
  ASSUME WorkspacesInv, [WorkspacesNext]_workspaceVars
  PROVE  WorkspacesInv'
<1>1. CASE UNCHANGED workspaceVars
  BY <1>1 DEF workspaceVars, WorkspacesInv, WorkspacesTypeOK, IdsUnique, PagesOpenDefaults,
              OnlyDefaultsSaved, OneDefault, OneCreator
<1>2. ASSUME NEW c \in Visitors, AskForDefault(c) \/ ListTopologies(c)
      PROVE  WorkspacesInv'
  BY <1>2, StageKeepsInv DEF AskForDefault, ListTopologies
<1> QED
  BY <1>1, <1>2, FindKeepsInv, CreateDefaultKeepsInv, CreateTopologyKeepsInv, SaveKeepsInv,
     DeleteKeepsInv, LeaveKeepsInv DEF WorkspacesNext

LEMMA InvMeansReopens == WorkspacesInv => WorkReopens
  BY DEF WorkspacesInv, OnlyDefaultsSaved, OneDefault, WorkReopens, Defaults, OwnDocs

(* Work that a page saved is what its owner's next page opens, unless two  *)
(* first requests of the owner overlapped: for any number of owners,       *)
(* clients and topologies (getOrCreateDefault in network-service.ts).      *)
THEOREM WorkspacesSound == WorkspacesSpec => []WorkReopens
<1>1. WorkspacesSpec => []WorkspacesInv
  BY InitInv, NextKeepsInv, PTL DEF WorkspacesSpec
<1> QED BY <1>1, InvMeansReopens, PTL

-----------------------------------------------------------------------------
(* The properties panel: tables with one row changed, taken out or put in  *)
(* at the end.                                                             *)

IsList(s) == s \in Seq(Range(s))

LEMMA ListOver ==
  ASSUME NEW S, NEW s \in Seq(S)
  PROVE  IsList(s)
<1>1. Len(s) \in Nat /\ s = [i \in 1 .. Len(s) |-> s[i]]
  OBVIOUS
<1>2. \A i \in 1 .. Len(s) : s[i] \in Range(s)
  BY <1>1 DEF Range
<1> QED BY <1>1, <1>2 DEF IsList

LEMMA RemovedRow ==
  ASSUME NEW s, IsList(s), NEW k \in DOMAIN s
  PROVE  IsList(RemoveAt(s, k)) /\ OneRow(s, RemoveAt(s, k))
<1> DEFINE S == Range(s)
           t == RemoveAt(s, k)
<1>1. s \in Seq(S) /\ k \in 1 .. Len(s)
  BY DEF IsList
<1> HIDE DEF S
<1>2. t \in Seq(S) /\ Len(s) \in Nat /\ Len(t) = Len(s) - 1
  BY <1>1, RemoveAtElements
<1>3. Len(t) + 1 = Len(s)
  BY <1>2
<1>4. OneRow(s, t)
  BY <1>3 DEF OneRow
<1> QED BY <1>2, <1>4, ListOver

LEMMA AddedRow ==
  ASSUME NEW s, IsList(s), NEW e
  PROVE  IsList(Append(s, e)) /\ OneRow(s, Append(s, e))
<1> DEFINE S == Range(s) \cup {e}
           t == Append(s, e)
           u == Front(t)
<1>1. s \in Seq(S) /\ e \in S
  <2>1. s \in Seq(Range(s))
    BY DEF IsList
  <2> DEFINE R == Range(s)
  <2> HIDE DEF R
  <2>2. s \in Seq(R) => s \in Seq(R \cup {e})
    OBVIOUS
  <2> QED BY <2>1, <2>2 DEF R
<1> HIDE DEF S
<1>2. Len(s) \in Nat /\ s = [i \in 1 .. Len(s) |-> s[i]]
  BY <1>1
<1>3. /\ t \in Seq(S) /\ Len(t) = Len(s) + 1
      /\ \A i \in 1 .. Len(s) : t[i] = s[i]
  BY <1>1, <1>2
<1> HIDE DEF t
<1>4. u \in Seq(S) /\ Len(u) = Len(s) /\ \A i \in 1 .. Len(s) : u[i] = t[i]
  <2>1. u = SubSeq(t, 1, Len(s))
    BY <1>2, <1>3 DEF Front
  <2>2. \A i \in 1 .. Len(s) : t[i] \in S
    BY <1>2, <1>3
  <2> QED BY <1>2, <1>3, <2>1, <2>2, SubSeqProperties
<1> HIDE DEF u
<1>5. u = s
  BY <1>2, <1>3, <1>4
<1>6. OneRow(s, t)
  BY <1>3, <1>5 DEF OneRow, u
<1> QED BY <1>3, <1>6, ListOver DEF t

LEMMA ChangedRow ==
  ASSUME NEW s, IsList(s), NEW k \in DOMAIN s, NEW r
  PROVE  IsList([s EXCEPT ![k] = r]) /\ OneRow(s, [s EXCEPT ![k] = r])
<1> DEFINE S == Range(s) \cup {r}
           t == [s EXCEPT ![k] = r]
           a == RemoveAt(s, k)
           b == RemoveAt(t, k)
<1>1. s \in Seq(S) /\ r \in S /\ k \in 1 .. Len(s)
  <2>1. s \in Seq(Range(s))
    BY DEF IsList
  <2> DEFINE R == Range(s)
  <2> HIDE DEF R
  <2>2. s \in Seq(R) => s \in Seq(R \cup {r})
    OBVIOUS
  <2> QED BY <2>1, <2>2 DEF R
<1> HIDE DEF S
<1>2. /\ t \in Seq(S) /\ Len(t) = Len(s) /\ Len(s) \in Nat
      /\ \A j \in 1 .. Len(s) : j # k => t[j] = s[j]
  BY <1>1
<1>3. /\ a \in Seq(S) /\ Len(a) = Len(s) - 1
      /\ \A j \in 1 .. Len(s) - 1 : a[j] = IF j < k THEN s[j] ELSE s[j + 1]
  BY <1>1, RemoveAtElements
<1> HIDE DEF t
<1>4. k \in 1 .. Len(t)
  BY <1>1, <1>2
<1>5. /\ b \in Seq(S) /\ Len(b) = Len(t) - 1
      /\ \A j \in 1 .. Len(t) - 1 : b[j] = IF j < k THEN t[j] ELSE t[j + 1]
  BY <1>2, <1>4, RemoveAtElements
<1> HIDE DEF a, b
<1>6. \A j \in 1 .. Len(s) - 1 : a[j] = b[j]
  <2> SUFFICES ASSUME NEW j \in 1 .. Len(s) - 1 PROVE a[j] = b[j]
    OBVIOUS
  <2>1. CASE j < k
    BY <1>1, <1>2, <1>3, <1>5, <2>1
  <2>2. CASE ~ j < k
    <3>1. j + 1 \in 1 .. Len(s) /\ j + 1 # k /\ j \in 1 .. Len(t) - 1
      BY <1>1, <1>2, <2>2
    <3>2. a[j] = s[j + 1] /\ b[j] = t[j + 1]
      BY <1>3, <1>5, <2>2, <3>1
    <3> QED BY <1>2, <3>1, <3>2
  <2> QED BY <2>1, <2>2
<1>7. a = b
  BY <1>2, <1>3, <1>5, <1>6
<1>8. OneRow(s, t)
  BY <1>1, <1>2, <1>7 DEF OneRow, a, b
<1> QED BY <1>2, <1>8, ListOver DEF t

(* Taken together: what a tab may make of one of its tables. *)
Reworked(s, t) ==
  \/ \E k \in DOMAIN s : \E r : t = [s EXCEPT ![k] = r]
  \/ \E k \in DOMAIN s : t = RemoveAt(s, k)
  \/ \E e : t = Append(s, e)

LEMMA ReworkedRows ==
  ASSUME NEW s, NEW t, IsList(s), Reworked(s, t)
  PROVE  IsList(t) /\ OneRow(s, t)
<1>1. CASE \E k \in DOMAIN s : \E r : t = [s EXCEPT ![k] = r]
  <2>1. PICK k \in DOMAIN s : \E r : t = [s EXCEPT ![k] = r]
    BY <1>1
  <2>2. PICK r : t = [s EXCEPT ![k] = r]
    BY <2>1
  <2> QED BY <2>2, ChangedRow
<1>2. CASE \E k \in DOMAIN s : t = RemoveAt(s, k)
  BY <1>2, RemovedRow
<1>3. CASE \E e : t = Append(s, e)
  BY <1>3, AddedRow
<1> QED BY <1>1, <1>2, <1>3 DEF Reworked

(* One setting of the configuration c was changed to get e. *)
OneSetting(c, e) ==
  /\ IsConfiguration(e)
  /\ \A f, g \in DiffersIn(c, e) : f = g
  /\ \A f \in DiffersIn(c, e) \cap RowTables : OneRow(c[f], e[f])

LEMMA SettingChanged ==
  ASSUME NEW c, IsConfiguration(c), NEW g, NEW v
  PROVE  LET e == [c EXCEPT ![g] = v]
         IN  /\ DiffersIn(c, e) \subseteq {g}
             /\ e = [f \in DOMAIN e |-> e[f]] /\ DOMAIN e = DOMAIN c
             /\ \A f \in DOMAIN c : e[f] = IF f = g THEN v ELSE c[f]
BY DEF IsConfiguration, DiffersIn

LEMMA FieldChanged ==
  ASSUME NEW c, IsConfiguration(c), NEW g, g \notin RowTables, NEW v
  PROVE  OneSetting(c, [c EXCEPT ![g] = v])
<1> DEFINE e == [c EXCEPT ![g] = v]
<1>1. /\ DiffersIn(c, e) \subseteq {g}
      /\ e = [f \in DOMAIN e |-> e[f]] /\ DOMAIN e = DOMAIN c
      /\ \A f \in DOMAIN c : e[f] = IF f = g THEN v ELSE c[f]
  BY SettingChanged
<1> HIDE DEF e
<1>2. \A f \in RowTables : f \in DOMAIN e /\ e[f] = c[f]
  BY <1>1 DEF IsConfiguration
<1>3. IsConfiguration(e)
  BY <1>1, <1>2 DEF IsConfiguration
<1> QED BY <1>1, <1>3 DEF OneSetting, e

LEMMA TableChanged ==
  ASSUME NEW c, IsConfiguration(c), NEW g \in RowTables, NEW v, Reworked(c[g], v)
  PROVE  OneSetting(c, [c EXCEPT ![g] = v])
<1> DEFINE e == [c EXCEPT ![g] = v]
<1>1. /\ DiffersIn(c, e) \subseteq {g}
      /\ e = [f \in DOMAIN e |-> e[f]] /\ DOMAIN e = DOMAIN c
      /\ \A f \in DOMAIN c : e[f] = IF f = g THEN v ELSE c[f]
  BY SettingChanged
<1> HIDE DEF e
<1>2. IsList(c[g])
  BY DEF IsConfiguration, IsList
<1>3. IsList(v) /\ OneRow(c[g], v)
  BY <1>2, ReworkedRows
<1>4. \A f \in RowTables : f \in DOMAIN e /\ IsList(e[f])
  BY <1>1, <1>3 DEF IsConfiguration, IsList
<1>5. IsConfiguration(e)
  BY <1>1, <1>4 DEF IsConfiguration, IsList
<1>6. g \in DOMAIN c /\ e[g] = v
  BY <1>1 DEF IsConfiguration
<1> QED BY <1>1, <1>3, <1>5, <1>6 DEF OneSetting, e

(* Each tab, whatever is typed into it. *)
LEMMA InfoTab ==
  ASSUME NEW c, IsConfiguration(c), NEW e \in InfoEdits(c)
  PROVE  OneSetting(c, e)
<1>1. PICK v : e = [c EXCEPT !.info = v]
  BY DEF InfoEdits
<1> QED BY <1>1, FieldChanged DEF RowTables

LEMMA InterfacesTab ==
  ASSUME NEW c, IsConfiguration(c), NEW e \in InterfaceEdits(c)
  PROVE  OneSetting(c, e)
<1> DEFINE Upd(row) == Typed(row) \cup Switched(row) \cup Counted(row, Absent)
           s == c.interfaces
<1>1. PICK v \in Edited(s, Upd, NewIface) : e = [c EXCEPT !.interfaces = v]
  BY DEF InterfaceEdits
<1>2. ASSUME v \in Edited(s, Upd, NewIface) PROVE Reworked(s, v)
  <2> HIDE DEF Upd, s
  <2>1. CASE \E p \in UNION {{k} \X Upd(s[k]) : k \in DOMAIN s} : v = [s EXCEPT ![p[1]] = p[2]]
    <3>1. PICK p \in UNION {{k} \X Upd(s[k]) : k \in DOMAIN s} : v = [s EXCEPT ![p[1]] = p[2]]
      BY <2>1
    <3>2. p[1] \in DOMAIN s
      OBVIOUS
    <3> QED BY <3>1, <3>2 DEF Reworked
  <2>2. CASE v \in {RemoveAt(s, k) : k \in DOMAIN s} \cup {Append(s, NewIface)}
    BY <2>2 DEF Reworked
  <2> QED BY <1>2, <2>1, <2>2 DEF Edited
<1> QED BY <1>1, <1>2, TableChanged DEF RowTables

LEMMA RoutingTab ==
  ASSUME NEW c, IsConfiguration(c), NEW e \in RouteEdits(c)
  PROVE  OneSetting(c, e)
<1> DEFINE Upd(row) == Typed(row) \cup Counted(row, 0)
           s == c.routes
<1>1. PICK v \in Edited(s, Upd, NewRoute(c.routes)) : e = [c EXCEPT !.routes = v]
  BY DEF RouteEdits
<1>2. ASSUME v \in Edited(s, Upd, NewRoute(c.routes)) PROVE Reworked(s, v)
  <2> HIDE DEF Upd, s
  <2>1. CASE \E p \in UNION {{k} \X Upd(s[k]) : k \in DOMAIN s} : v = [s EXCEPT ![p[1]] = p[2]]
    <3>1. PICK p \in UNION {{k} \X Upd(s[k]) : k \in DOMAIN s} : v = [s EXCEPT ![p[1]] = p[2]]
      BY <2>1
    <3>2. p[1] \in DOMAIN s
      OBVIOUS
    <3> QED BY <3>1, <3>2 DEF Reworked
  <2>2. CASE v \in {RemoveAt(s, k) : k \in DOMAIN s} \cup {Append(s, NewRoute(c.routes))}
    BY <2>2 DEF Reworked
  <2> QED BY <1>2, <2>1, <2>2 DEF Edited
<1> QED BY <1>1, <1>2, TableChanged DEF RowTables

LEMMA FirewallTab ==
  ASSUME NEW c, IsConfiguration(c), NEW e \in RuleEdits(c)
  PROVE  OneSetting(c, e)
<1> DEFINE Upd(row) == Typed(row) \cup Switched(row) \cup Counted(row, 1)
           s == c.rules
<1>1. PICK v \in Edited(s, Upd, NewRule(c.rules)) : e = [c EXCEPT !.rules = v]
  BY DEF RuleEdits
<1>2. ASSUME v \in Edited(s, Upd, NewRule(c.rules)) PROVE Reworked(s, v)
  <2> HIDE DEF Upd, s
  <2>1. CASE \E p \in UNION {{k} \X Upd(s[k]) : k \in DOMAIN s} : v = [s EXCEPT ![p[1]] = p[2]]
    <3>1. PICK p \in UNION {{k} \X Upd(s[k]) : k \in DOMAIN s} : v = [s EXCEPT ![p[1]] = p[2]]
      BY <2>1
    <3>2. p[1] \in DOMAIN s
      OBVIOUS
    <3> QED BY <3>1, <3>2 DEF Reworked
  <2>2. CASE v \in {RemoveAt(s, k) : k \in DOMAIN s} \cup {Append(s, NewRule(c.rules))}
    BY <2>2 DEF Reworked
  <2> QED BY <1>2, <2>1, <2>2 DEF Edited
<1> QED BY <1>1, <1>2, TableChanged DEF RowTables

LEMMA ServicesTab ==
  ASSUME NEW c, IsConfiguration(c), NEW e \in ServiceEdits(c)
  PROVE  OneSetting(c, e)
<1> DEFINE Upd(row) == Typed(row) \cup Switched(row) \cup Counted(row, 0)
           s == c.services
<1>1. PICK v \in Edited(s, Upd, NewService) \cup QuickAdds(c.services) : e = [c EXCEPT !.services = v]
  BY DEF ServiceEdits
<1>2. ASSUME v \in Edited(s, Upd, NewService) PROVE Reworked(s, v)
  <2> HIDE DEF Upd, s
  <2>1. CASE \E p \in UNION {{k} \X Upd(s[k]) : k \in DOMAIN s} : v = [s EXCEPT ![p[1]] = p[2]]
    <3>1. PICK p \in UNION {{k} \X Upd(s[k]) : k \in DOMAIN s} : v = [s EXCEPT ![p[1]] = p[2]]
      BY <2>1
    <3>2. p[1] \in DOMAIN s
      OBVIOUS
    <3> QED BY <3>1, <3>2 DEF Reworked
  <2>2. CASE v \in {RemoveAt(s, k) : k \in DOMAIN s} \cup {Append(s, NewService)}
    BY <2>2 DEF Reworked
  <2> QED BY <1>2, <2>1, <2>2 DEF Edited
<1>3. ASSUME v \in QuickAdds(s) PROVE Reworked(s, v)
  BY <1>3 DEF QuickAdds, Reworked
<1>4. Reworked(c.services, v)
  BY <1>1, <1>2, <1>3
<1> QED BY <1>1, <1>4, TableChanged DEF RowTables

LEMMA WebPage ==
  ASSUME NEW c, IsConfiguration(c), NEW e \in PageEdits(c)
  PROVE  OneSetting(c, e)
<1>1. PICK v : e = [c EXCEPT !.webPage = v]
  BY DEF PageEdits
<1> QED BY <1>1, FieldChanged DEF RowTables

LEMMA DhcpTab ==
  ASSUME NEW c, IsConfiguration(c), NEW e \in DhcpEdits(c)
  PROVE  OneSetting(c, e)
<1>1. PICK v : e = [c EXCEPT !.dhcp = v]
  BY DEF DhcpEdits
<1> QED BY <1>1, FieldChanged DEF RowTables

LEMMA DnsTab ==
  ASSUME NEW c, IsConfiguration(c), NEW e \in DnsEdits(c)
  PROVE  OneSetting(c, e)
<1>1. PICK v : e = [c EXCEPT !.dns = v]
  BY DEF DnsEdits
<1> QED BY <1>1, FieldChanged DEF RowTables

LEMMA AnyTab ==
  ASSUME NEW c, IsConfiguration(c), NEW type, NEW e \in Edits(type, c)
  PROVE  OneSetting(c, e)
<1>1. \/ e \in InfoEdits(c) \/ e \in InterfaceEdits(c) \/ e \in RouteEdits(c)
      \/ e \in RuleEdits(c) \/ e \in DhcpEdits(c) \/ e \in DnsEdits(c)
      \/ e \in ServiceEdits(c) \/ e \in PageEdits(c)
  BY DEF Edits
<1> QED BY <1>1, InfoTab, InterfacesTab, RoutingTab, FirewallTab, ServicesTab, WebPage, DhcpTab,
           DnsTab

(* The panel's copy is the configuration of its device, unless the device  *)
(* was written while it was shown.                                         *)
PanelInv ==
  /\ configs = [n \in Selectable |-> configs[n]]
  /\ \A n \in Selectable : IsConfiguration(configs[n])
  /\ panel # Absent =>
       /\ panel = [node |-> panel.node, config |-> panel.config]
       /\ panel.node \in Selectable
       /\ IsConfiguration(panel.config)
       /\ ~ stale => panel.config = configs[panel.node]

StrokeChanges ==
  strokes' # strokes /\ ~ stale =>
    /\ \A n \in Selectable : configs'[n] # configs[n] => n = panel.node
    /\ \A f, g \in DiffersIn(configs[panel.node], configs'[panel.node]) : f = g
    /\ \A f \in DiffersIn(configs[panel.node], configs'[panel.node]) \cap RowTables :
         OneRow(configs[panel.node][f], configs'[panel.node][f])

LEMMA PanelStarts == PanelInit => PanelInv
BY PanelAssumption DEF PanelInit, PanelInv

LEMMA StrokeKeepsPanel ==
  ASSUME PanelInv, Stroke
  PROVE  PanelInv' /\ StrokeChanges
<1> DEFINE n == panel.node
           c == panel.config
<1>1. PICK e \in Edits(TypeOf[n], c) : WriteBack(e)
  BY DEF Stroke
<1>2. /\ panel # Absent /\ panel = [node |-> n, config |-> c]
      /\ n \in Selectable /\ IsConfiguration(c)
      /\ ~ stale => c = configs[n]
      /\ stale' = stale
  BY DEF Stroke, PanelInv
<1>3. OneSetting(c, e)
  BY <1>1, <1>2, AnyTab
<1>4. /\ panel' = [node |-> n, config |-> e]
      /\ configs' = [configs EXCEPT ![n] = e]
  BY <1>1, <1>2 DEF WriteBack
<1> HIDE DEF n, c
<1>5. panel'.node = n /\ panel'.config = e
  BY <1>4
<1>6. /\ configs' = [k \in Selectable |-> configs'[k]]
      /\ \A k \in Selectable : configs'[k] = IF k = n THEN e ELSE configs[k]
  BY <1>2, <1>4 DEF PanelInv
<1>7. IsConfiguration(e)
  BY <1>3 DEF OneSetting
<1>8. PanelInv'
  BY <1>2, <1>4, <1>5, <1>6, <1>7 DEF PanelInv
<1>9. StrokeChanges
  <2> SUFFICES ASSUME ~ stale PROVE StrokeChanges
    BY DEF StrokeChanges
  <2>1. configs[n] = c /\ configs'[n] = e
    BY <1>2, <1>6
  <2>2. \A k \in Selectable : configs'[k] # configs[k] => k = n
    BY <1>6
  <2> QED BY <1>3, <2>1, <2>2 DEF OneSetting, StrokeChanges, n
<1> QED BY <1>8, <1>9

LEMMA ElsewhereKeepsPanel ==
  ASSUME PanelInv, NEW n \in Selectable, WriteElsewhere(n)
  PROVE  PanelInv' /\ StrokeChanges
<1> DEFINE e == [configs[n] EXCEPT !.powered = ~ @]
<1>1. /\ configs' = [configs EXCEPT ![n] = e]
      /\ stale' = (stale \/ (panel # Absent /\ panel.node = n))
      /\ panel' = panel /\ strokes' = strokes
  BY DEF WriteElsewhere
<1>2. IsConfiguration(e)
  <2>1. OneSetting(configs[n], e)
    BY FieldChanged DEF PanelInv, RowTables
  <2> QED BY <2>1 DEF OneSetting
<1> HIDE DEF e
<1>3. /\ configs' = [k \in Selectable |-> configs'[k]]
      /\ \A k \in Selectable : configs'[k] = IF k = n THEN e ELSE configs[k]
  BY <1>1 DEF PanelInv
<1>4. \A k \in Selectable : IsConfiguration(configs'[k])
  BY <1>2, <1>3 DEF PanelInv
<1>5. ASSUME panel # Absent, ~ stale' PROVE ~ stale /\ panel.node # n
  BY <1>1, <1>5
<1>6. PanelInv'
  BY <1>1, <1>3, <1>4, <1>5 DEF PanelInv
<1> QED BY <1>1, <1>6 DEF StrokeChanges

LEMMA PanelStep ==
  ASSUME PanelInv, [PanelNext]_panelVars
  PROVE  PanelInv' /\ [StrokeChanges]_panelVars
<1>1. CASE UNCHANGED panelVars
  BY <1>1 DEF panelVars, PanelInv
<1>2. CASE Stroke
  BY <1>2, StrokeKeepsPanel
<1>3. CASE HidePanel
  BY <1>3 DEF HidePanel, PanelInv, StrokeChanges
<1>4. ASSUME NEW n \in Selectable, ShowDevice(n) PROVE PanelInv' /\ StrokeChanges
  BY <1>4 DEF ShowDevice, CopyOf, PanelInv, StrokeChanges
<1>5. ASSUME NEW n \in Selectable, WriteElsewhere(n) PROVE PanelInv' /\ StrokeChanges
  BY <1>5, ElsewhereKeepsPanel
<1> QED BY <1>1, <1>2, <1>3, <1>4, <1>5 DEF PanelNext

(* A keystroke in the panel changes one setting of the device shown, or    *)
(* one row of one of its tables, whatever the devices' types and           *)
(* configurations (properties-panel.tsx), unless the device was written by *)
(* something else while it was shown.                                      *)
THEOREM KeystrokesPrecise == PanelSpec => OneSettingAtATime
<1>1. PanelSpec => []PanelInv
  BY PanelStarts, PanelStep, PTL DEF PanelSpec
<1>2. PanelInv /\ [PanelNext]_panelVars => [StrokeChanges]_panelVars
  BY PanelStep
<1>3. PanelSpec => [][StrokeChanges]_panelVars
  BY <1>1, <1>2, PTL DEF PanelSpec
<1> QED BY <1>3 DEF OneSettingAtATime, StrokeChanges

-----------------------------------------------------------------------------
(* The subnet calculator's page. *)

PageOK ==
  page = [result |-> page.result, error |-> page.error, loading |-> page.loading,
          subnets |-> page.subnets, showSubnets |-> page.showSubnets,
          subnetLoading |-> page.subnetLoading, supernet |-> page.supernet]

Asking(kind) == {c \in calls : c.kind = kind}

AnswersKnown == \A c \in Asking("calculate") : c.answer # Unset

Overtaken == "subnets" \in crossed \/ "calculate" \in crossed

(* While a calculation is awaited nothing is shown and no subnets are, and *)
(* subnets that are awaited or shown are those of the result.              *)
BaseOf(result) == [ip |-> result.network, len |-> result.len]
AwaitedFit ==
  ~ Overtaken =>
    /\ Asking("calculate") # {} =>
         page.result = Unset /\ page.subnets = <<>> /\ Asking("subnets") = {}
    /\ \A c, d \in Asking("calculate") : c = d
    /\ \A c \in Asking("subnets") :
         page.result # Unset /\ c.answer.asked.base = BaseOf(page.result)
    /\ page.subnets # <<>> =>
         page.result # Unset /\ page.subnets[1].asked.base = BaseOf(page.result)

LoadingFits == crossed = {} /\ page.loading => page.result = Unset

PageInv == PageOK /\ AnswersKnown /\ AwaitedFit /\ LoadingFits

LEMMA PageStarts == SubnetsInit => PageInv
BY DEF SubnetsInit, PageInv, PageOK, AnswersKnown, AwaitedFit, LoadingFits, Asking

LEMMA CalculateKeepsPage ==
  ASSUME PageInv, NEW i \in Inputs, Calculate(i)
  PROVE  PageInv'
<1> DEFINE new == [kind |-> "calculate", no |-> asked + 1, question |-> {i}, answer |-> ParseCidr(i)]
<1>1. /\ calls' = calls \cup {new} /\ page' = Cleared(page)
      /\ crossed' = crossed \cup {c.kind : c \in {c \in calls : c.kind # "supernet"}}
  BY DEF Calculate, Call
<1>2. new.kind = "calculate" /\ new.answer # Unset
  BY UnsetAssumption
<1> HIDE DEF new
<1>3. /\ PageOK' /\ page'.result = Unset /\ page'.subnets = <<>>
  BY <1>1 DEF PageInv, PageOK, Cleared
<1>4. Asking("calculate")' = Asking("calculate") \cup {new} /\ Asking("subnets")' = Asking("subnets")
  BY <1>1, <1>2 DEF Asking
<1>5. AnswersKnown'
  BY <1>2, <1>4 DEF PageInv, AnswersKnown
<1>6. ~ Overtaken' => Asking("calculate") = {} /\ Asking("subnets") = {}
  BY <1>1 DEF Overtaken, Asking
<1>7. AwaitedFit'
  BY <1>3, <1>4, <1>6 DEF AwaitedFit
<1> QED BY <1>3, <1>5, <1>7 DEF PageInv, LoadingFits

LEMMA CalcSubnetsKeepsPage ==
  ASSUME PageInv, NEW n, NEW p, CalcSubnets(n, p)
  PROVE  PageInv'
<1> DEFINE base == [ip |-> page.result.network, len |-> page.result.len]
           answer == [asked |-> [base |-> base, count |-> n, len |-> p],
                      items |-> GenerateSubnets(page.result, n, p)]
           new == [kind |-> "subnets", no |-> asked + 1, question |-> {base}, answer |-> answer]
<1>1. /\ calls' = calls \cup {new} /\ crossed' = crossed /\ page.result # Unset
      /\ page' = [page EXCEPT !.subnetLoading = TRUE]
  BY DEF CalcSubnets, Call
<1>2. new.kind = "subnets" /\ new.answer.asked.base = BaseOf(page.result)
  BY DEF BaseOf
<1> HIDE DEF new
<1>3. /\ PageOK' /\ page'.result = page.result /\ page'.subnets = page.subnets
      /\ page'.loading = page.loading
  BY <1>1 DEF PageInv, PageOK
<1>4. Asking("calculate")' = Asking("calculate") /\ Asking("subnets")' = Asking("subnets") \cup {new}
  BY <1>1, <1>2 DEF Asking
<1>5. AnswersKnown'
  BY <1>4 DEF PageInv, AnswersKnown
<1>6. AwaitedFit'
  BY <1>1, <1>2, <1>3, <1>4 DEF PageInv, AwaitedFit, Overtaken
<1> QED BY <1>1, <1>3, <1>5, <1>6 DEF PageInv, LoadingFits

LEMMA CalcSupernetKeepsPage ==
  ASSUME PageInv, NEW is, CalcSupernet(is)
  PROVE  PageInv'
<1> DEFINE answer == IF Cardinality(is) < 2 THEN Failed ELSE FindSupernet(is)
           new == [kind |-> "supernet", no |-> asked + 1, question |-> is, answer |-> answer]
<1>1. new.kind = "supernet" /\ calls' = calls \cup {new}
  BY DEF CalcSupernet, Call
<1> HIDE DEF new
<1>2. page' = page /\ crossed \subseteq crossed'
  BY DEF CalcSupernet
<1>3. Asking("calculate")' = Asking("calculate") /\ Asking("subnets")' = Asking("subnets")
  BY <1>1 DEF Asking
<1>4. ~ Overtaken' => ~ Overtaken
  BY <1>2 DEF Overtaken
<1> QED BY <1>2, <1>3, <1>4 DEF PageInv, PageOK, AnswersKnown, AwaitedFit, LoadingFits

LEMMA CalculatedKeepsPage ==
  ASSUME PageInv, NEW c \in calls, NEW a \in {c.answer, Failed}, Calculated(c, a)
  PROVE  PageInv'
<1>1. /\ c \in Asking("calculate") /\ calls' = calls \ {c} /\ crossed' = crossed
      /\ IF a = Failed THEN page' = [page EXCEPT !.error = Failed, !.loading = FALSE]
         ELSE page' = [page EXCEPT !.result = a, !.loading = FALSE]
  BY DEF Calculated, Answered, Asking
<1>2. /\ PageOK' /\ page'.subnets = page.subnets /\ page'.loading = FALSE
      /\ page'.result = IF a = Failed THEN page.result ELSE a
  BY <1>1 DEF PageInv, PageOK
<1>3. /\ Asking("calculate")' = Asking("calculate") \ {c}
      /\ Asking("subnets")' = Asking("subnets")
  BY <1>1 DEF Asking
<1>4. AnswersKnown'
  BY <1>3 DEF PageInv, AnswersKnown
<1>5. AwaitedFit'
  BY <1>1, <1>2, <1>3 DEF PageInv, AwaitedFit, Overtaken
<1> QED BY <1>2, <1>4, <1>5 DEF PageInv, LoadingFits

LEMMA SubnetsKeepPage ==
  ASSUME PageInv, NEW c \in calls, NEW a \in {c.answer, Failed}, SubnetsCalculated(c, a)
  PROVE  PageInv'
<1>1. /\ c \in Asking("subnets") /\ calls' = calls \ {c} /\ crossed' = crossed
      /\ \/ page' = [page EXCEPT !.error = Failed, !.subnetLoading = FALSE]
         \/ /\ page' = [page EXCEPT !.subnets = <<a>>, !.showSubnets = TRUE,
                                    !.subnetLoading = FALSE]
            /\ a = c.answer
  BY DEF SubnetsCalculated, Answered, Asking
<1>2. /\ PageOK' /\ page'.result = page.result /\ page'.loading = page.loading
      /\ page'.subnets = page.subnets \/ page'.subnets = <<c.answer>>
  BY <1>1 DEF PageInv, PageOK
<1>3. /\ Asking("calculate")' = Asking("calculate")
      /\ Asking("subnets")' = Asking("subnets") \ {c}
  BY <1>1 DEF Asking
<1>4. AnswersKnown'
  BY <1>3 DEF PageInv, AnswersKnown
<1>5. AwaitedFit'
  <2>1. CASE page'.subnets = page.subnets
    BY <1>1, <1>2, <1>3, <2>1 DEF PageInv, AwaitedFit, Overtaken
  <2>2. CASE page'.subnets = <<c.answer>>
    <3>1. page'.subnets[1] = c.answer
      BY <2>2
    <3> QED BY <1>1, <1>2, <1>3, <3>1 DEF PageInv, AwaitedFit, Overtaken
  <2> QED BY <1>2, <2>1, <2>2
<1> QED BY <1>1, <1>2, <1>4, <1>5 DEF PageInv, LoadingFits

LEMMA SupernetKeepsPage ==
  ASSUME PageInv, NEW c \in calls, NEW a, SupernetCalculated(c, a)
  PROVE  PageInv'
<1>1. /\ c.kind = "supernet" /\ calls' = calls \ {c} /\ crossed' = crossed
      /\ \/ page' = [page EXCEPT !.error = Failed]
         \/ page' = [page EXCEPT !.supernet = [of |-> c.question, is |-> a]]
  BY DEF SupernetCalculated, Answered
<1>2. /\ PageOK' /\ page'.result = page.result /\ page'.loading = page.loading
      /\ page'.subnets = page.subnets
  BY <1>1 DEF PageInv, PageOK
<1>3. Asking("calculate")' = Asking("calculate") /\ Asking("subnets")' = Asking("subnets")
  BY <1>1 DEF Asking
<1> QED BY <1>1, <1>2, <1>3 DEF PageInv, AnswersKnown, AwaitedFit, LoadingFits, Overtaken

LEMMA PageStep ==
  ASSUME PageInv, [SubnetsNext]_subnetVars
  PROVE  PageInv'
<1>1. CASE UNCHANGED subnetVars
  BY <1>1 DEF subnetVars, PageInv, PageOK, AnswersKnown, AwaitedFit, LoadingFits, Overtaken, Asking
<1> QED
  BY <1>1, CalculateKeepsPage, CalcSubnetsKeepsPage, CalcSupernetKeepsPage, CalculatedKeepsPage,
     SubnetsKeepPage, SupernetKeepsPage DEF SubnetsNext

(* What the calculator's page shows belongs together (cidrReducer and the  *)
(* three calls of cidr-calculator-page.tsx), for any number of calls whose *)
(* answers come in any order or not at all, unless one was overtaken by a  *)
(* later question.                                                         *)
THEOREM PageSound == SubnetsSpec => []PageConsistent
<1>1. SubnetsSpec => []PageInv
  BY PageStarts, PageStep, PTL DEF SubnetsSpec
<1>2. PageInv => PageConsistent
  BY DEF PageInv, AwaitedFit, LoadingFits, Overtaken, BaseOf, PageConsistent
<1> QED BY <1>1, <1>2, PTL

-----------------------------------------------------------------------------
(* The subnet calculator: the arithmetic. *)

Cidr == [ip : Ips, len : PrefixLengths]

LEMMA Sizes ==
  ASSUME NEW len \in PrefixLengths
  PROVE  /\ Width \in Nat /\ len \in 0 .. Width
         /\ BlockSize(len) \in Nat \ {0} /\ 2 ^ len \in Nat \ {0} /\ 2 ^ Width \in Nat \ {0}
         /\ 2 ^ Width = BlockSize(len) * 2 ^ len
         /\ len < Width - 1 => BlockSize(len) >= 4
<1>1. Width \in Nat /\ len \in 0 .. Width /\ Width - len \in Nat /\ (Width - len) + len = Width
  BY AddressingAssumption DEF PrefixLengths
<1>2. BlockSize(len) \in Nat \ {0} /\ 2 ^ len \in Nat \ {0} /\ 2 ^ Width \in Nat \ {0}
  BY <1>1, PowerPositive DEF BlockSize
<1>3. 2 ^ Width = BlockSize(len) * 2 ^ len
  <2>1. 2 ^ ((Width - len) + len) = 2 ^ (Width - len) * 2 ^ len
    BY <1>1, PowerSum
  <2> QED BY <2>1, <1>1 DEF BlockSize
<1>4. ASSUME len < Width - 1
      PROVE  BlockSize(len) >= 4
  <2>1. Width - len - 2 \in Nat /\ 2 + (Width - len - 2) = Width - len
    BY <1>1, <1>4
  <2>2. 2 ^ (2 + (Width - len - 2)) = 2 ^ 2 * 2 ^ (Width - len - 2)
    BY <2>1, PowerSum
  <2>3. 2 ^ 2 = 4
    BY SMT
  <2> DEFINE t == 2 ^ (Width - len - 2)
  <2>4. t \in Nat \ {0}
    BY <2>1, PowerPositive
  <2>5. BlockSize(len) = 4 * t
    BY <2>1, <2>2, <2>3 DEF BlockSize
  <2> HIDE DEF t
  <2> QED BY <2>4, <2>5
<1> QED BY <1>1, <1>2, <1>3, <1>4

LEMMA FinerSize ==
  ASSUME NEW a \in PrefixLengths, NEW b \in PrefixLengths, a <= b
  PROVE  /\ b - a \in Nat /\ 2 ^ (b - a) \in Nat \ {0}
         /\ BlockSize(a) = BlockSize(b) * 2 ^ (b - a)
         /\ a < b => BlockSize(a) >= 2 * BlockSize(b)
<1>1. /\ a \in Nat /\ b \in Nat /\ b - a \in Nat /\ Width - b \in Nat
      /\ (Width - b) + (b - a) = Width - a
  BY AddressingAssumption DEF PrefixLengths
<1>2. 2 ^ (b - a) \in Nat \ {0}
  BY <1>1, PowerPositive
<1>3. BlockSize(a) = BlockSize(b) * 2 ^ (b - a)
  <2>1. 2 ^ ((Width - b) + (b - a)) = 2 ^ (Width - b) * 2 ^ (b - a)
    BY <1>1, PowerSum
  <2> QED BY <2>1, <1>1 DEF BlockSize
<1>4. ASSUME a < b
      PROVE  BlockSize(a) >= 2 * BlockSize(b)
  <2>1. b - a - 1 \in Nat /\ 1 + (b - a - 1) = b - a
    BY <1>1, <1>4
  <2>2. 2 ^ (1 + (b - a - 1)) = 2 ^ 1 * 2 ^ (b - a - 1) /\ 2 ^ 1 = 2
    <3>1. 2 ^ (1 + (b - a - 1)) = 2 ^ 1 * 2 ^ (b - a - 1)
      BY <2>1, PowerSum
    <3>2. 2 ^ 1 = 2
      BY SMT
    <3> QED BY <3>1, <3>2
  <2> DEFINE t == 2 ^ (b - a - 1)
             s == BlockSize(b)
  <2>3. t \in Nat \ {0} /\ s \in Nat \ {0}
    BY <2>1, PowerPositive, Sizes
  <2>4. 2 ^ (b - a) = 2 * t
    BY <2>1, <2>2
  <2>5. BlockSize(a) = s * (2 * t)
    BY <1>3, <2>4
  <2> HIDE DEF t, s
  <2>6. s * (2 * t) >= 2 * s
    BY <2>3
  <2> QED BY <2>5, <2>6 DEF s
<1> QED BY <1>1, <1>2, <1>3, <1>4

(* What a record of the service says of its block. *)
Block(r) ==
  /\ r.len \in PrefixLengths /\ r.network \in Ips /\ r.broadcast \in Ips
  /\ r.network % BlockSize(r.len) = 0
  /\ r.broadcast = r.network + BlockSize(r.len) - 1

LEMMA ParsedBlock ==
  ASSUME NEW i \in Cidr
  PROVE  /\ Block(ParseCidr(i)) /\ ParseCidr(i).len = i.len
         /\ ParseCidr(i).network = NetworkOf(i.ip, i.len)
<1> DEFINE size == BlockSize(i.len)
           all == 2 ^ Width
           q == i.ip \div size
           t == 2 ^ i.len
<1>1. i.len \in PrefixLengths /\ i.ip \in 0 .. all - 1
  BY DEF Cidr, Ips
<1>2. size \in Nat \ {0} /\ all \in Nat \ {0} /\ t \in Nat \ {0} /\ all = size * t
  BY <1>1, Sizes
<1>3. i.len # NoPrefix
  BY <1>1, AddressingAssumption
<1> HIDE DEF size, all, t
<1>4. i.ip \in Nat
  BY <1>1, <1>2
<1>5. i.ip - (i.ip % size) \in 0 .. i.ip /\ (i.ip - (i.ip % size)) % size = 0
  BY <1>2, <1>4, RoundedDown
<1>6. i.ip - (i.ip % size) = size * q /\ q \in Nat
  BY <1>2, <1>4, Divided
<1> DEFINE net == NetworkOf(i.ip, i.len)
<1>7. net = size * q /\ net \in 0 .. all - 1 /\ net % size = 0
  <2>1. net = i.ip - (i.ip % size)
    BY DEF NetworkOf, size
  <2> QED BY <1>1, <1>2, <1>5, <1>6, <2>1
<1> HIDE DEF q, net
<1>8. size * q + size <= all
  <2>1. q < t
    <3>1. SUFFICES ASSUME q >= t PROVE FALSE
      BY <1>2, <1>6
    <3>2. size * q >= size * t
      BY <3>1, <1>2, <1>6
    <3> QED BY <3>2, <1>2, <1>7
  <2>2. size * (q + 1) <= size * t
    BY <2>1, <1>2, <1>6
  <2> QED BY <2>2, <1>2, <1>6
<1>9. net + size - 1 \in 0 .. all - 1
  BY <1>2, <1>6, <1>7, <1>8
<1> DEFINE r == ParseCidr(i)
<1>10. r.len = i.len /\ r.network = net /\ r.broadcast = net + (size - 1)
  BY <1>3 DEF ParseCidr, net, size
<1> HIDE DEF r
<1>11. net + (size - 1) = net + size - 1
  BY <1>2, <1>7
<1>12. Block(r)
  BY <1>1, <1>7, <1>9, <1>10, <1>11 DEF Block, Ips, all, size
<1> QED BY <1>10, <1>12 DEF r, net

(* A block holds the addresses with its leading bits, and no others. *)
LEMMA BlockHolds ==
  ASSUME NEW r, Block(r), NEW ip \in Ips
  PROVE  ip \in Span(r) <=> InSubnet(ip, r.network, r.len)
<1> DEFINE size == BlockSize(r.len)
           net == r.network
<1>1. size \in Nat \ {0} /\ 2 ^ Width \in Nat \ {0}
  BY Sizes DEF Block
<1>2. ip \in Nat /\ net \in Nat
  BY <1>1 DEF Ips, Block
<1>3. net % size = 0 /\ r.broadcast = net + size - 1
  BY DEF Block
<1>4. NetworkOf(ip, r.len) = ip - (ip % size) /\ NetworkOf(net, r.len) = net - (net % size)
  BY DEF NetworkOf
<1> HIDE DEF size, net
<1>5. ip \in net .. net + size - 1 <=> ip - (ip % size) = net
  BY <1>1, <1>2, <1>3, BlockSpan
<1>6. net - (net % size) = net
  BY <1>2, <1>3
<1> QED BY <1>3, <1>4, <1>5, <1>6 DEF Span, InSubnet, net

(* All that ResultsExact says of the result shown. *)
LEMMA ParsedExact ==
  ASSUME NEW i \in Cidr, NEW r, r = ParseCidr(i)
  PROVE  /\ Span(r) = {ip \in Ips : InSubnet(ip, r.network, r.len)}
         /\ r.mask + r.wildcard = 2 ^ Width - 1
         /\ r.usable = Cardinality(r.first .. r.last)
         /\ r.len < Width - 1 => {r.network, r.broadcast} \cap (r.first .. r.last) = {}
<1> DEFINE size == BlockSize(r.len)
           all == 2 ^ Width
           net == r.network
<1>1. Block(r)
  BY ParsedBlock
<1>2. /\ size \in Nat \ {0} /\ all \in Nat \ {0} /\ Width \in Nat /\ r.len \in 0 .. Width
      /\ r.len < Width - 1 => size >= 4
  BY <1>1, Sizes DEF Block
<1>3. net \in Nat /\ r.broadcast = net + size - 1 /\ \A ip \in Span(r) : ip \in Ips
  <2>1. net \in Nat /\ r.broadcast = net + size - 1 /\ r.broadcast \in 0 .. all - 1
    BY <1>1 DEF Block, Ips
  <2> QED BY <1>2, <2>1 DEF Span, Ips
<1>4. Span(r) = {ip \in Ips : InSubnet(ip, r.network, r.len)}
  BY <1>1, <1>3, BlockHolds
<1>5. i.len # NoPrefix /\ r.len = i.len
  BY ParsedBlock, AddressingAssumption DEF Cidr
<1>6. /\ r.mask = all - size /\ r.wildcard = size - 1
      /\ r.first = IF r.len >= Width - 1 THEN net ELSE net + 1
      /\ r.last = IF r.len >= Width - 1 THEN r.broadcast ELSE r.broadcast - 1
      /\ r.usable = IF r.len < Width - 1 THEN size - 2 ELSE size
  BY <1>5 DEF ParseCidr, MaskOf, Usable
<1> HIDE DEF size, all, net
<1>7. r.mask + r.wildcard = all - 1
  BY <1>2, <1>6
<1>8. CASE r.len >= Width - 1
  <2>1. r.first = net /\ r.last = net + size - 1 /\ r.usable = size
    BY <1>2, <1>3, <1>6, <1>8
  <2>2. Cardinality(net .. net + size - 1) = IF net > net + size - 1 THEN 0 ELSE net + size - 1 - net + 1
    BY <1>2, <1>3, FS_Interval
  <2>3. Cardinality(net .. net + size - 1) = size
    BY <1>2, <1>3, <2>2
  <2> QED BY <1>2, <1>4, <1>7, <1>8, <2>1, <2>3 DEF all
<1>9. CASE r.len < Width - 1
  <2>1. r.first = net + 1 /\ r.last = net + size - 2 /\ r.usable = size - 2
    BY <1>2, <1>3, <1>6, <1>9
  <2>2. Cardinality(net + 1 .. net + size - 2) =
          IF net + 1 > net + size - 2 THEN 0 ELSE net + size - 2 - (net + 1) + 1
    BY <1>2, <1>3, FS_Interval
  <2>3. Cardinality(net + 1 .. net + size - 2) = size - 2
    BY <1>2, <1>3, <1>9, <2>2
  <2>4. {net, net + size - 1} \cap (net + 1 .. net + size - 2) = {}
    BY <1>2, <1>3
  <2> QED BY <1>3, <1>4, <1>7, <2>1, <2>3, <2>4 DEF all, net
<1> QED BY <1>2, <1>8, <1>9

(* What a split is made of, and that it has room when it should. *)
NumberOfParts(base, count, len) ==
  IF count # Unset THEN count
  ELSE IF NewPrefix(base, count, len) < base.len THEN 1
  ELSE 2 ^ (NewPrefix(base, count, len) - base.len)

Roomy(base, count, len) ==
  /\ len = Unset \/ len >= base.len
  /\ count # Unset /\ len # Unset => count * BlockSize(len) <= BlockSize(base.len)

LEMMA BitsEnough ==
  ASSUME NEW n \in Nat
  PROVE  BitsFor(n) \in Nat /\ 2 ^ BitsFor(n) >= n
<1> DEFINE S == {k \in 0 .. n : 2 ^ k >= n}
<1>1. S \in SUBSET Nat /\ n \in S
  BY PowerExceeds
<1>2. BitsFor(n) \in S
  BY <1>1, LeastIsIn DEF BitsFor
<1> QED BY <1>2

LEMMA SplitHasRoom ==
  ASSUME NEW base, Block(base),
         NEW count \in Counts \cup {Unset}, NEW len \in PrefixLengths \cup {Unset},
         GenerateSubnets(base, count, len) # Failed, Roomy(base, count, len),
         NEW new, new = NewPrefix(base, count, len),
         NEW number, number = NumberOfParts(base, count, len)
  PROVE  /\ new \in PrefixLengths /\ base.len <= new /\ number \in Nat
         /\ number * BlockSize(new) <= BlockSize(base.len)
         /\ count = Unset => number * BlockSize(new) = BlockSize(base.len)
<1>1. Width \in Nat /\ base.len \in 0 .. Width
  BY Sizes DEF Block
<1>2. ~ (new > Width)
  BY DEF GenerateSubnets
<1>3. count # Unset => count \in Nat
  BY SubnetsAssumption
<1>4. base.len \in PrefixLengths
  BY DEF Block
<1>5. CASE count = Unset
  <2>1. new \in PrefixLengths /\ base.len <= new
    <3>1. CASE len # Unset
      BY <3>1 DEF NewPrefix, Roomy
    <3>2. CASE len = Unset
      <4>1. new = base.len + 1
        BY <3>2, <1>5 DEF NewPrefix
      <4> QED BY <4>1, <1>1, <1>2 DEF PrefixLengths
    <3> QED BY <3>1, <3>2
  <2>2. number = 2 ^ (new - base.len)
    <3>1. new \in Int /\ base.len \in Int
      BY <2>1, <1>1 DEF PrefixLengths
    <3>2. ~ (new < base.len)
      BY <2>1, <3>1
    <3> QED BY <1>5, <3>2 DEF NumberOfParts
  <2>3. /\ 2 ^ (new - base.len) \in Nat \ {0} /\ BlockSize(new) \in Nat \ {0}
        /\ BlockSize(base.len) = BlockSize(new) * 2 ^ (new - base.len)
    BY <1>4, <2>1, FinerSize, Sizes
  <2> DEFINE s == BlockSize(new)
             t == BlockSize(base.len)
  <2>4. number \in Nat /\ s \in Nat /\ t = s * number
    BY <2>2, <2>3
  <2> HIDE DEF s, t
  <2>5. number * s = t
    BY <2>4
  <2>6. number * s <= t
    BY <2>4, <2>5
  <2> QED BY <2>1, <2>4, <2>5, <2>6 DEF s, t
<1>6. CASE count # Unset /\ len # Unset
  <2>1. new = len /\ number = count
    BY <1>6 DEF NewPrefix, NumberOfParts
  <2> QED BY <2>1, <1>3, <1>6 DEF Roomy
<1>7. CASE count # Unset /\ len = Unset
  <2> DEFINE bits == BitsFor(count)
  <2>1. bits \in Nat /\ 2 ^ bits >= count
    BY <1>3, <1>7, BitsEnough
  <2> HIDE DEF bits
  <2>2. new = base.len + bits /\ number = count
    BY <1>7 DEF NewPrefix, NumberOfParts, bits
  <2>3. new \in PrefixLengths /\ base.len <= new /\ new - base.len = bits
    BY <1>1, <1>2, <2>1, <2>2 DEF PrefixLengths
  <2>4. /\ 2 ^ bits \in Nat \ {0} /\ BlockSize(new) \in Nat \ {0}
        /\ BlockSize(base.len) = BlockSize(new) * 2 ^ bits
    BY <1>4, <2>3, FinerSize, Sizes
  <2> DEFINE s == BlockSize(new)
             t == 2 ^ bits
  <2>5. number \in Nat /\ s \in Nat /\ t \in Nat /\ number <= t
    BY <1>3, <1>7, <2>1, <2>2, <2>4
  <2>6. BlockSize(base.len) = s * t
    BY <2>4
  <2> HIDE DEF s, t
  <2>7. number * s <= s * t
    BY <2>5
  <2> QED BY <1>7, <2>3, <2>5, <2>6, <2>7 DEF s
<1> QED BY <1>5, <1>6, <1>7

(* The parts of a split, one after the other. *)
LEMMA SplitParts ==
  ASSUME NEW base, Block(base),
         NEW count \in Counts \cup {Unset}, NEW len \in PrefixLengths \cup {Unset},
         GenerateSubnets(base, count, len) # Failed, Roomy(base, count, len),
         NEW new, new = NewPrefix(base, count, len),
         NEW number, number = NumberOfParts(base, count, len),
         NEW items, items = GenerateSubnets(base, count, len)
  PROVE  /\ DOMAIN items = 1 .. number
         /\ \A j \in 1 .. number :
              /\ items[j].network = base.network + (j - 1) * BlockSize(new)
              /\ items[j].broadcast = items[j].network + BlockSize(new) - 1
              /\ items[j].network + BlockSize(new) <= base.network + BlockSize(base.len)
<1> DEFINE S == BlockSize(new)
           T == BlockSize(base.len)
           all == 2 ^ Width
           net == base.network
           At(j) == [ip |-> (net + (j - 1) * S) % all, len |-> new]
<1>1. /\ new \in PrefixLengths /\ base.len <= new /\ number \in Nat /\ number * S <= T
  BY SplitHasRoom
<1>2. ~ (new > Width)
  BY DEF GenerateSubnets
<1>3. items = [j \in 1 .. number |-> ParseCidr(At(j))]
  BY <1>2 DEF GenerateSubnets, NumberOfParts
<1>4. /\ S \in Nat \ {0} /\ T \in Nat \ {0} /\ all \in Nat \ {0}
      /\ net \in 0 .. all - 1 /\ net % T = 0 /\ net + T - 1 \in 0 .. all - 1
  BY <1>1, Sizes DEF Block, Ips
<1> DEFINE t == 2 ^ (new - base.len)
<1>5. t \in Nat \ {0} /\ T = S * t
  BY <1>1, FinerSize DEF Block
<1> HIDE DEF S, T, all, net, t, At
<1> DEFINE q == net \div T
<1>6. q \in Nat /\ net = T * q
  <2>1. net \in Nat /\ net % T = 0
    BY <1>4
  <2>2. net \div T \in Nat /\ net = T * (net \div T) + (net % T)
    BY <2>1, <1>4, Divided
  <2> QED BY <2>1, <2>2, <1>4
<1> HIDE DEF q
<1>7. net = S * (t * q) /\ t * q \in Nat
  BY <1>4, <1>5, <1>6
<1>8. ASSUME NEW j \in 1 .. number
      PROVE  /\ items[j].network = net + (j - 1) * S
             /\ items[j].broadcast = items[j].network + S - 1
             /\ items[j].network + S <= net + T
  <2> DEFINE x == net + (j - 1) * S
             m == t * q + (j - 1)
  <2>1. (j - 1) * S \in Nat /\ (j - 1) * S + S <= number * S
    <3>1. j - 1 \in Nat /\ j <= number
      BY <1>1
    <3>2. (j - 1) * S + S = j * S
      BY <3>1, <1>4
    <3>3. j * S <= number * S
      BY <3>1, <1>1, <1>4
    <3> QED BY <3>1, <3>2, <3>3, <1>4
  <2>2. x \in 0 .. all - 1 /\ x + S <= net + T
    BY <2>1, <1>1, <1>4
  <2>3. m \in Nat /\ x = S * m
    BY <1>4, <1>7
  <2>4. x % S = 0
    <3>1. (m * S) % S = 0
      BY <2>3, <1>4, MultipleDivides
    <3>2. x = m * S
      BY <2>3, <1>4
    <3> QED BY <3>1, <3>2
  <2> HIDE DEF x, m
  <2>5. x % all = x
    BY <2>2, <1>4
  <2>6. At(j) = [ip |-> x, len |-> new]
    BY <2>5 DEF At, x
  <2>7. At(j) \in Cidr /\ At(j).ip = x /\ At(j).len = new
    BY <2>2, <2>6, <1>1 DEF Cidr, Ips, all
  <2>8. /\ Block(ParseCidr(At(j))) /\ ParseCidr(At(j)).len = new
        /\ ParseCidr(At(j)).network = NetworkOf(x, new)
    BY <2>7, ParsedBlock
  <2>9. NetworkOf(x, new) = x
    <3>1. x - (x % S) = x
      BY <2>2, <2>4, <1>4
    <3> QED BY <3>1 DEF NetworkOf, S
  <2>10. items[j] = ParseCidr(At(j))
    BY <1>3
  <2>11. items[j].network = x /\ items[j].broadcast = x + S - 1
    BY <2>8, <2>9, <2>10 DEF Block, S
  <2> QED BY <2>2, <2>11 DEF x
<1> QED BY <1>3, <1>8 DEF S, T, net

(* The parts are disjoint, within the network, and all of it if no number  *)
(* was asked for.                                                          *)
LEMMA SplitExact ==
  ASSUME NEW base, Block(base),
         NEW count \in Counts \cup {Unset}, NEW len \in PrefixLengths \cup {Unset},
         GenerateSubnets(base, count, len) # Failed, Roomy(base, count, len),
         NEW items, items = GenerateSubnets(base, count, len)
  PROVE  /\ \A i, j \in DOMAIN items : i < j => items[i].broadcast < items[j].network
         /\ \A i \in DOMAIN items : Span(items[i]) \subseteq Span(base)
         /\ count = Unset => UNION {Span(x) : x \in Range(items)} = Span(base)
<1> DEFINE new == NewPrefix(base, count, len)
           number == NumberOfParts(base, count, len)
           S == BlockSize(new)
           T == BlockSize(base.len)
           net == base.network
<1>1. /\ new \in PrefixLengths /\ number \in Nat
      /\ count = Unset => number * S = T
  BY SplitHasRoom
<1>2. /\ DOMAIN items = 1 .. number
      /\ \A j \in 1 .. number :
           /\ items[j].network = net + (j - 1) * S
           /\ items[j].broadcast = items[j].network + S - 1
           /\ items[j].network + S <= net + T
  BY SplitParts
<1>3. S \in Nat \ {0} /\ T \in Nat \ {0} /\ net \in Nat /\ Span(base) = net .. net + T - 1
  BY <1>1, Sizes DEF Block, Ips, Span
<1> HIDE DEF new, number, S, T, net
<1> DEFINE at == [j \in 1 .. number |-> net + (j - 1) * S]
<1>4. \A j \in 1 .. number :
        /\ at[j] \in Nat /\ at[j] >= net /\ at[j] + S <= net + T
        /\ items[j].network = at[j] /\ items[j].broadcast = at[j] + S - 1
        /\ Span(items[j]) = at[j] .. at[j] + S - 1
  <2>1. TAKE j \in 1 .. number
  <2>2. (j - 1) * S \in Nat
    BY <1>1, <1>3
  <2> QED BY <2>2, <1>2, <1>3 DEF Span
<1>5. ASSUME NEW i \in 1 .. number, NEW j \in 1 .. number, i < j
      PROVE  items[i].broadcast < items[j].network
  <2>1. (j - 1) * S >= (i - 1) * S + S
    <3>1. i \in Nat /\ j \in Nat /\ i <= j - 1
      BY <1>1, <1>5
    <3>2. (i - 1) * S + S = i * S
      BY <3>1, <1>3
    <3>3. i * S <= (j - 1) * S
      BY <3>1, <1>3
    <3> QED BY <3>1, <3>2, <3>3, <1>3
  <2>2. at[i] + S <= at[j]
    <3>1. (j - 1) * S \in Int /\ (i - 1) * S \in Int
      BY <1>1, <1>3
    <3> QED BY <2>1, <3>1, <1>3
  <2> HIDE DEF at
  <2> QED BY <1>3, <1>4, <2>2
<1> HIDE DEF at
<1>6. \A i \in 1 .. number : Span(items[i]) \subseteq Span(base)
  BY <1>3, <1>4
<1>7. ASSUME count = Unset
      PROVE  Span(base) \subseteq UNION {Span(x) : x \in Range(items)}
  <2>1. SUFFICES ASSUME NEW a \in Span(base)
                 PROVE  \E x \in Range(items) : a \in Span(x)
    OBVIOUS
  <2> DEFINE k == (a - net) \div S
  <2>2. a - net \in Nat /\ a - net < number * S
    BY <1>1, <1>3, <1>7
  <2>3. k \in Nat /\ (a - net) % S \in 0 .. S - 1 /\ a - net = S * k + ((a - net) % S)
    BY <2>2, <1>3, Divided
  <2> HIDE DEF k
  <2>4. k < number
    <3>1. SUFFICES ASSUME k >= number PROVE FALSE
      BY <2>3, <1>1
    <3>2. S * k >= number * S
      BY <3>1, <2>3, <1>1, <1>3
    <3>3. S * k \in Nat /\ number * S \in Nat
      BY <2>3, <1>1, <1>3
    <3> QED BY <3>2, <3>3, <2>2, <2>3
  <2>5. k + 1 \in 1 .. number /\ at[k + 1] = net + S * k
    BY <2>3, <2>4, <1>1, <1>3 DEF at
  <2>6. S * k \in Nat /\ a \in Int
    BY <2>3, <1>3
  <2>7. a \in at[k + 1] .. at[k + 1] + S - 1
    BY <2>3, <2>5, <2>6, <1>3
  <2>8. a \in Span(items[k + 1]) /\ items[k + 1] \in Range(items)
    BY <2>5, <2>7, <1>2, <1>4 DEF Range
  <2> QED BY <2>8
<1>8. UNION {Span(x) : x \in Range(items)} \subseteq Span(base)
  <2>1. SUFFICES ASSUME NEW x \in Range(items) PROVE Span(x) \subseteq Span(base)
    OBVIOUS
  <2>2. PICK j \in 1 .. number : x = items[j]
    BY <1>2 DEF Range
  <2> QED BY <2>2, <1>6
<1> QED BY <1>2, <1>5, <1>6, <1>7, <1>8

-----------------------------------------------------------------------------
(* Two addresses are in one subnet iff they have its leading bits in common. *)
LEMMA SubnetDigits ==
  ASSUME NEW a \in Ips, NEW b \in Ips, NEW len \in PrefixLengths
  PROVE  InSubnet(a, b, len) <=> \A i \in Width - len .. Width - 1 : Bit(a, i) = Bit(b, i)
<1> DEFINE k == Width - len
           s == 2 ^ k
<1>1. Width \in Nat /\ k \in 0 .. Width
  BY AddressingAssumption DEF PrefixLengths
<1>2. a \in 0 .. 2 ^ Width - 1 /\ b \in 0 .. 2 ^ Width - 1
  BY DEF Ips
<1>3. a \in Nat /\ b \in Nat /\ s \in Nat \ {0}
  <2>1. 2 ^ Width \in Nat \ {0} /\ 2 ^ k \in Nat \ {0}
    BY <1>1, PowerPositive
  <2> QED BY <1>2, <2>1
<1>4. InSubnet(a, b, len) <=> a - (a % s) = b - (b % s)
  BY DEF InSubnet, NetworkOf, BlockSize
<1> HIDE DEF k
<1>5. a \div 2 ^ k = b \div 2 ^ k <=>
        \A i \in k .. Width - 1 : (a \div 2 ^ i) % 2 = (b \div 2 ^ i) % 2
  BY <1>1, <1>2, HighDigits
<1>6. a - (a % s) = b - (b % s) <=> a \div s = b \div s
  <2> HIDE DEF s
  <2> QED BY <1>3, SameBlock
<1> QED BY <1>4, <1>5, <1>6 DEF k, Bit

LEMMA CoarserSubnet ==
  ASSUME NEW a \in Ips, NEW b \in Ips, NEW len \in PrefixLengths, NEW k \in PrefixLengths,
         k <= len, InSubnet(a, b, len)
  PROVE  InSubnet(a, b, k)
<1>1. \A i \in Width - k .. Width - 1 : i \in Width - len .. Width - 1
  BY AddressingAssumption DEF PrefixLengths
<1> QED BY <1>1, SubnetDigits

LEMMA CommonBitsHold ==
  ASSUME NEW nets \in SUBSET Ips
  PROVE  /\ CommonBits(nets) \in PrefixLengths
         /\ \A m, n \in nets : InSubnet(m, n, CommonBits(nets))
         /\ \A len \in PrefixLengths :
              (\A m, n \in nets : InSubnet(m, n, len)) => len <= CommonBits(nets)
<1> DEFINE differing == {i \in 0 .. Width - 1 : \E m, n \in nets : Bit(m, i) # Bit(n, i)}
           bits == CommonBits(nets)
<1>1. Width \in Nat /\ Width # 0
  BY AddressingAssumption
<1>2. bits = IF differing = {} THEN Width ELSE Width - 1 - Max(differing)
  BY DEF CommonBits
<1>3. differing # {} => Max(differing) \in differing /\ \A i \in differing : Max(differing) >= i
  <2>1. Width - 1 \in Nat /\ differing \in SUBSET (0 .. Width - 1)
    BY <1>1
  <2> HIDE DEF differing
  <2> QED BY <2>1, GreatestIsIn
<1> HIDE DEF bits
<1>4. bits \in PrefixLengths
  BY <1>1, <1>2, <1>3 DEF PrefixLengths
<1>5. ASSUME NEW m \in nets, NEW n \in nets
      PROVE  InSubnet(m, n, bits)
  <2>1. \A i \in Width - bits .. Width - 1 : i \notin differing
    <3> HIDE DEF differing
    <3>1. CASE differing = {}
      BY <3>1
    <3>2. CASE differing # {}
      <4> DEFINE M == Max(differing)
      <4>1. M \in 0 .. Width - 1 /\ \A i \in differing : M >= i
        BY <3>2, <1>3 DEF differing
      <4>2. bits = Width - 1 - M
        BY <3>2, <1>2
      <4> HIDE DEF M
      <4> QED BY <4>1, <4>2, <1>1
    <3> QED BY <3>1, <3>2
  <2>2. \A i \in Width - bits .. Width - 1 : i \in 0 .. Width - 1
    BY <1>1, <1>4 DEF PrefixLengths
  <2>3. \A i \in Width - bits .. Width - 1 : Bit(m, i) = Bit(n, i)
    BY <2>1, <2>2
  <2> QED BY <2>3, <1>4, SubnetDigits
<1>6. ASSUME NEW len \in PrefixLengths, \A m, n \in nets : InSubnet(m, n, len)
      PROVE  len <= bits
  <2>1. CASE differing = {}
    BY <2>1, <1>1, <1>2 DEF PrefixLengths
  <2>2. CASE differing # {}
    <3>1. PICK M \in differing : M = Max(differing)
      BY <2>2, <1>3
    <3>2. PICK m \in nets, n \in nets : Bit(m, M) # Bit(n, M)
      BY <3>1
    <3>3. M \in 0 .. Width - 1 /\ bits = Width - 1 - M
      BY <2>2, <3>1, <1>2
    <3>4. \A i \in Width - len .. Width - 1 : Bit(m, i) = Bit(n, i)
      BY <1>6, SubnetDigits
    <3>5. M \notin Width - len .. Width - 1
      BY <3>2, <3>4
    <3> HIDE DEF differing
    <3> QED BY <3>3, <3>5, <1>1 DEF PrefixLengths
  <2> QED BY <2>1, <2>2
<1> QED BY <1>4, <1>5, <1>6 DEF bits

(* No subnet that is longer than a block holds all of it. *)
LEMMA BlockTooLarge ==
  ASSUME NEW p, Block(p), NEW net \in Ips, NEW len \in PrefixLengths,
         \A a \in Span(p) : InSubnet(a, net, len)
  PROVE  len <= p.len
<1> DEFINE S == BlockSize(len)
           T == BlockSize(p.len)
           m == p.network
           n == p.broadcast
<1>1. SUFFICES ASSUME p.len < len PROVE FALSE
  BY AddressingAssumption DEF Block, PrefixLengths
<1>2. p.len \in PrefixLengths /\ p.len <= len
  BY <1>1, AddressingAssumption DEF Block, PrefixLengths
<1>3. S \in Nat \ {0} /\ T \in Nat \ {0} /\ T >= 2 * S /\ 2 ^ Width \in Nat \ {0}
  BY <1>1, <1>2, Sizes, FinerSize
<1>4. m \in Nat /\ n \in Nat /\ n = m + T - 1
  BY <1>3 DEF Block, Ips
<1> HIDE DEF T
<1>5. m \in Span(p) /\ n \in Span(p)
  BY <1>3, <1>4 DEF Span
<1>6. m - (m % S) = n - (n % S)
  <2>1. InSubnet(m, net, len) /\ InSubnet(n, net, len)
    BY <1>5
  <2> QED BY <2>1 DEF InSubnet, NetworkOf
<1> HIDE DEF S, m, n
<1>7. m % S \in 0 .. S - 1 /\ n % S \in 0 .. S - 1
  BY <1>3, <1>4, Divided
<1> QED BY <1>3, <1>4, <1>6, <1>7

(* The supernet holds the networks it was asked for, and nothing smaller   *)
(* does.                                                                   *)
LEMMA SupernetExact ==
  ASSUME NEW of \in SUBSET Inputs, FindSupernet(of) # Failed,
         NEW is, is = FindSupernet(of),
         NEW all, all = UNION {Span(ParseCidr(i)) : i \in of}
  PROVE  /\ all \subseteq Span(is)
         /\ \A len \in PrefixLengths, net \in Ips :
              (\A a \in all : InSubnet(a, net, len)) => len <= is.len
<1> DEFINE parsed == {ParseCidr(i) : i \in of}
           nets == {p.network : p \in parsed}
           lens == {p.len : p \in parsed}
           some == CHOOSE p \in parsed : TRUE
           bits == CommonBits(nets)
           sup == SuperPrefix(parsed)
<1>1. /\ Failed \notin parsed /\ of # {}
      /\ is = ParseCidr([ip |-> some.network, len |-> sup])
  BY DEF FindSupernet
<1>2. \A p \in parsed : Block(p)
  <2>1. TAKE p \in parsed
  <2>2. PICK i \in of : p = ParseCidr(i)
    OBVIOUS
  <2>3. i.len # NoPrefix
    BY <1>1, <2>2 DEF ParseCidr
  <2>4. i \in Cidr
    BY <2>3, SubnetsAssumption DEF Cidr
  <2> QED BY <2>2, <2>4, ParsedBlock
<1>3. some \in parsed
  BY <1>1
<1>4. all = UNION {Span(p) : p \in parsed}
  OBVIOUS
<1>5. sup = Min({bits} \cup lens)
  BY DEF SuperPrefix
<1> HIDE DEF parsed, some, sup
<1>6. nets \in SUBSET Ips /\ lens \in SUBSET PrefixLengths
  BY <1>2 DEF Block
<1>7. /\ bits \in PrefixLengths /\ \A m, n \in nets : InSubnet(m, n, bits)
      /\ \A len \in PrefixLengths : (\A m, n \in nets : InSubnet(m, n, len)) => len <= bits
  <2> HIDE DEF nets
  <2> QED BY <1>6, CommonBitsHold
<1>8. /\ sup \in {bits} \cup lens /\ sup \in PrefixLengths
      /\ sup <= bits /\ \A l \in lens : sup <= l
  <2> DEFINE all2 == {bits} \cup lens
  <2>1. PrefixLengths \in SUBSET Nat
    BY AddressingAssumption DEF PrefixLengths
  <2>2. all2 \subseteq PrefixLengths
    BY <1>6, <1>7
  <2>3. all2 # {}
    OBVIOUS
  <2> HIDE DEF all2
  <2>4. Min(all2) \in all2 /\ \A b \in all2 : Min(all2) <= b
    <3>1. all2 \in SUBSET Nat
      BY <2>1, <2>2
    <3> QED BY <2>3, <3>1, LeastIsIn
  <2> QED BY <1>5, <2>2, <2>4 DEF all2
<1>9. some.network \in Ips /\ some.network \in nets
  BY <1>2, <1>3 DEF Block
<1>10. Block(is) /\ is.len = sup /\ is.network = NetworkOf(some.network, sup)
  <2>1. [ip |-> some.network, len |-> sup] \in Cidr
    BY <1>8, <1>9 DEF Cidr
  <2> QED BY <1>1, <2>1, ParsedBlock
<1>11. ASSUME NEW p \in parsed, NEW a \in Span(p)
       PROVE  a \in Span(is)
  <2>1. Block(p) /\ p.network \in nets /\ p.len \in lens
    BY <1>2
  <2>2. a \in Ips
    <3>1. 2 ^ Width \in Nat \ {0}
      BY <1>8, Sizes
    <3> QED BY <3>1, <2>1 DEF Block, Span, Ips
  <2>3. p.len \in PrefixLengths /\ p.network \in Ips /\ sup <= p.len
    BY <1>8, <2>1 DEF Block
  <2>4. InSubnet(a, p.network, p.len)
    BY <2>1, <2>2, BlockHolds
  <2>5. InSubnet(a, p.network, sup)
    BY <1>8, <2>2, <2>3, <2>4, CoarserSubnet
  <2>6. InSubnet(p.network, some.network, bits)
    BY <1>7, <1>9, <2>1
  <2>7. InSubnet(p.network, some.network, sup)
    BY <1>7, <1>8, <1>9, <2>3, <2>6, CoarserSubnet
  <2>8. NetworkOf(a, sup) = is.network
    BY <2>5, <2>7, <1>10 DEF InSubnet
  <2>9. NetworkOf(is.network, sup) = is.network
    <3>1. is.network % BlockSize(sup) = 0 /\ is.network \in Ips /\ 2 ^ Width \in Nat \ {0}
      BY <1>8, <1>10, Sizes DEF Block
    <3>2. is.network \in Int
      BY <3>1 DEF Ips
    <3> QED BY <3>1, <3>2 DEF NetworkOf
  <2> QED BY <2>2, <2>8, <2>9, <1>10, BlockHolds DEF InSubnet
<1>12. ASSUME NEW len \in PrefixLengths, NEW net \in Ips, \A a \in all : InSubnet(a, net, len)
       PROVE  len <= sup
  <2>1. CASE sup \in lens
    <3>1. PICK p \in parsed : sup = p.len
      BY <2>1
    <3>2. \A a \in Span(p) : InSubnet(a, net, len)
      BY <1>4, <1>12
    <3> QED BY <3>1, <3>2, <1>2, BlockTooLarge
  <2>2. CASE sup = bits
    <3>1. ASSUME NEW p \in parsed
          PROVE  InSubnet(p.network, net, len)
      <4>1. p.network \in Span(p)
        <5>1. BlockSize(p.len) \in Nat \ {0} /\ 2 ^ Width \in Nat \ {0}
          BY <1>2, Sizes DEF Block
        <5>2. p.network \in Nat /\ p.broadcast = p.network + BlockSize(p.len) - 1
          BY <1>2, <5>1 DEF Block, Ips
        <5> QED BY <5>1, <5>2 DEF Span
      <4> QED BY <4>1, <1>4, <1>12
    <3>2. \A m, n \in nets : InSubnet(m, n, len)
      BY <3>1 DEF InSubnet
    <3> QED BY <3>2, <2>2, <1>7
  <2> QED BY <2>1, <2>2, <1>8
<1> QED BY <1>4, <1>10, <1>11, <1>12

-----------------------------------------------------------------------------
IsSplit(a) ==
  \E b \in Cidr : \E count \in Counts \cup {Unset}, len \in PrefixLengths \cup {Unset} :
    a = [asked |-> [base |-> b, count |-> count, len |-> len],
         items |-> GenerateSubnets(ParseCidr(b), count, len)]

(* What the page holds, and what it will hold, is what the service made of *)
(* some question.                                                          *)
AnswersRight ==
  \A c \in calls :
    /\ c.kind = "calculate" => c.answer \in {ParseCidr(i) : i \in Inputs}
    /\ c.kind = "subnets" => IsSplit(c.answer)
    /\ c.kind = "supernet" =>
         c.question \in SUBSET Inputs /\ c.answer \in {Failed, FindSupernet(c.question)}

ShownRight ==
  /\ page.result # Unset => \E i \in Cidr : page.result = ParseCidr(i)
  /\ page.subnets # <<>> =>
       IsSplit(page.subnets[1]) /\ page.subnets[1].items # Failed
  /\ page.supernet # Unset =>
       /\ page.supernet.of \in SUBSET Inputs
       /\ page.supernet.is = FindSupernet(page.supernet.of) /\ page.supernet.is # Failed

CalcInv == PageOK /\ AnswersRight /\ ShownRight

LEMMA CalcStarts == SubnetsInit => CalcInv
BY DEF SubnetsInit, CalcInv, PageOK, AnswersRight, ShownRight

LEMMA CalculateKeepsCalc ==
  ASSUME CalcInv, NEW i \in Inputs, Calculate(i)
  PROVE  CalcInv'
<1> DEFINE c == [kind |-> "calculate", no |-> asked + 1, question |-> {i},
                 answer |-> ParseCidr(i)]
<1>1. calls' = calls \cup {c} /\ page' = Cleared(page)
  BY DEF Calculate, Call
<1>2. AnswersRight'
  BY <1>1 DEF CalcInv, AnswersRight
<1>3. PageOK' /\ ShownRight'
  BY <1>1 DEF CalcInv, PageOK, ShownRight, Cleared
<1> QED BY <1>2, <1>3 DEF CalcInv

LEMMA CalcSubnetsKeepsCalc ==
  ASSUME CalcInv, NEW n \in Counts \cup {Unset}, NEW p \in PrefixLengths \cup {Unset},
         CalcSubnets(n, p)
  PROVE  CalcInv'
<1> DEFINE b == [ip |-> page.result.network, len |-> page.result.len]
           a == [asked |-> [base |-> b, count |-> n, len |-> p],
                 items |-> GenerateSubnets(page.result, n, p)]
           c == [kind |-> "subnets", no |-> asked + 1, question |-> {b}, answer |-> a]
<1>1. /\ calls' = calls \cup {c} /\ page' = [page EXCEPT !.subnetLoading = TRUE]
      /\ page.result # Unset
  BY DEF CalcSubnets, Call
<1>2. PICK i \in Cidr : page.result = ParseCidr(i)
  BY <1>1 DEF CalcInv, ShownRight
<1>3. b \in Cidr /\ ParseCidr(b) = page.result
  <2>1. Block(page.result) /\ page.result.len = i.len /\ i.len # NoPrefix
    BY <1>2, ParsedBlock, AddressingAssumption DEF Cidr
  <2>2. b \in Cidr /\ b.len = i.len /\ b.ip = page.result.network
    BY <2>1 DEF Cidr, Block
  <2>3. NetworkOf(page.result.network, i.len) = page.result.network
    <3>1. page.result.network \in Ips /\ page.result.network % BlockSize(i.len) = 0
      BY <2>1 DEF Block
    <3>2. 2 ^ Width \in Nat \ {0}
      BY Sizes DEF Cidr
    <3>3. page.result.network \in Int
      BY <3>1, <3>2 DEF Ips
    <3> QED BY <3>1, <3>3 DEF NetworkOf
  <2>4. page.result.network = NetworkOf(i.ip, i.len)
    BY <1>2, ParsedBlock
  <2> HIDE DEF b
  <2> QED BY <1>2, <2>1, <2>2, <2>3, <2>4 DEF ParseCidr
<1>4. IsSplit(a)
  BY <1>3 DEF IsSplit
<1> HIDE DEF a
<1>5. AnswersRight'
  BY <1>1, <1>4 DEF CalcInv, AnswersRight
<1>6. PageOK' /\ ShownRight'
  BY <1>1 DEF CalcInv, PageOK, ShownRight
<1> QED BY <1>5, <1>6 DEF CalcInv

LEMMA CalcSupernetKeepsCalc ==
  ASSUME CalcInv, NEW is \in SUBSET Inputs, CalcSupernet(is)
  PROVE  CalcInv'
<1> DEFINE a == IF Cardinality(is) < 2 THEN Failed ELSE FindSupernet(is)
           c == [kind |-> "supernet", no |-> asked + 1, question |-> is, answer |-> a]
<1>1. calls' = calls \cup {c} /\ page' = page
  BY DEF CalcSupernet, Call
<1>2. a \in {Failed, FindSupernet(is)}
  OBVIOUS
<1> HIDE DEF a
<1>3. AnswersRight'
  BY <1>1, <1>2 DEF CalcInv, AnswersRight
<1>4. PageOK' /\ ShownRight'
  BY <1>1 DEF CalcInv, PageOK, ShownRight
<1> QED BY <1>3, <1>4 DEF CalcInv

LEMMA AnswerKeepsCalc ==
  ASSUME CalcInv, NEW c \in calls, NEW a \in {c.answer, Failed},
         Calculated(c, a) \/ SubnetsCalculated(c, a) \/ SupernetCalculated(c, a)
  PROVE  CalcInv'
<1>1. calls' = calls \ {c}
  BY DEF Calculated, SubnetsCalculated, SupernetCalculated, Answered
<1>2. AnswersRight'
  BY <1>1 DEF CalcInv, AnswersRight
<1>3. ASSUME NEW e, page' = [page EXCEPT !.error = e, !.loading = FALSE]
                      \/ page' = [page EXCEPT !.error = e, !.subnetLoading = FALSE]
                      \/ page' = [page EXCEPT !.error = e]
      PROVE  PageOK' /\ ShownRight'
  BY <1>3 DEF CalcInv, PageOK, ShownRight
<1>4. ASSUME Calculated(c, a)
      PROVE  PageOK' /\ ShownRight'
  <2>1. CASE a = Failed
    BY <2>1, <1>3, <1>4 DEF Calculated
  <2>2. CASE a # Failed
    <3>1. c.kind = "calculate" /\ page' = [page EXCEPT !.result = a, !.loading = FALSE]
      BY <2>2, <1>4 DEF Calculated
    <3>2. PICK i \in Inputs : a = ParseCidr(i)
      BY <2>2, <3>1 DEF CalcInv, AnswersRight
    <3>3. i.len # NoPrefix
      BY <2>2, <3>2 DEF ParseCidr
    <3>4. i \in Cidr
      BY <3>3, SubnetsAssumption DEF Cidr
    <3> QED BY <3>1, <3>2, <3>4 DEF CalcInv, PageOK, ShownRight
  <2> QED BY <2>1, <2>2
<1>5. ASSUME SubnetsCalculated(c, a)
      PROVE  PageOK' /\ ShownRight'
  <2>1. CASE a = Failed \/ a.items = Failed
    BY <2>1, <1>3, <1>5 DEF SubnetsCalculated
  <2>2. CASE ~ (a = Failed \/ a.items = Failed)
    <3>1. /\ c.kind = "subnets"
          /\ page' = [page EXCEPT !.subnets = <<a>>, !.showSubnets = TRUE,
                                  !.subnetLoading = FALSE]
      BY <2>2, <1>5 DEF SubnetsCalculated
    <3>2. IsSplit(a) /\ a.items # Failed
      BY <2>2, <3>1 DEF CalcInv, AnswersRight
    <3>3. PageOK' /\ page'.subnets = <<a>> /\ page'.result = page.result
          /\ page'.supernet = page.supernet
      BY <3>1 DEF CalcInv, PageOK
    <3> QED BY <3>2, <3>3 DEF CalcInv, ShownRight
  <2> QED BY <2>1, <2>2
<1>6. ASSUME SupernetCalculated(c, a)
      PROVE  PageOK' /\ ShownRight'
  <2>1. CASE a = Failed
    BY <2>1, <1>3, <1>6 DEF SupernetCalculated
  <2>2. CASE a # Failed
    <3>1. /\ c.kind = "supernet"
          /\ page' = [page EXCEPT !.supernet = [of |-> c.question, is |-> a]]
      BY <2>2, <1>6 DEF SupernetCalculated
    <3>2. c.question \in SUBSET Inputs /\ a = FindSupernet(c.question)
      BY <2>2, <3>1 DEF CalcInv, AnswersRight
    <3>3. /\ PageOK' /\ page'.supernet = [of |-> c.question, is |-> a]
          /\ page'.result = page.result /\ page'.subnets = page.subnets
      BY <3>1 DEF CalcInv, PageOK
    <3> QED BY <2>2, <3>2, <3>3 DEF CalcInv, ShownRight
  <2> QED BY <2>1, <2>2
<1>7. PageOK' /\ ShownRight'
  BY <1>4, <1>5, <1>6
<1> QED BY <1>2, <1>7 DEF CalcInv

LEMMA CalcStep ==
  ASSUME CalcInv, [SubnetsNext]_subnetVars
  PROVE  CalcInv'
<1>1. CASE UNCHANGED subnetVars
  BY <1>1 DEF subnetVars, CalcInv, PageOK, AnswersRight, ShownRight
<1>2. \A i, j \in Inputs : {i, j} \in SUBSET Inputs
  OBVIOUS
<1> QED
  BY <1>1, <1>2, CalculateKeepsCalc, CalcSubnetsKeepsCalc, CalcSupernetKeepsCalc,
     AnswerKeepsCalc DEF SubnetsNext

LEMMA CalcExact == CalcInv => CalculatorExact
<1> SUFFICES ASSUME CalcInv PROVE CalculatorExact
  OBVIOUS
<1>1. ResultsExact
  <2>1. SUFFICES ASSUME page.result # Unset PROVE ResultsExact
    BY DEF ResultsExact
  <2>2. PICK i \in Cidr : page.result = ParseCidr(i)
    BY <2>1 DEF CalcInv, ShownRight
  <2> QED BY <2>2, ParsedExact DEF ResultsExact
<1>2. SubnetsExact
  <2>1. SUFFICES ASSUME page.subnets # <<>> PROVE SubnetsExact
    BY DEF SubnetsExact
  <2> DEFINE s == page.subnets[1]
  <2>2. IsSplit(s) /\ s.items # Failed
    BY <2>1 DEF CalcInv, ShownRight
  <2> HIDE DEF s
  <2>3. PICK b \in Cidr, count \in Counts \cup {Unset}, len \in PrefixLengths \cup {Unset} :
          s = [asked |-> [base |-> b, count |-> count, len |-> len],
               items |-> GenerateSubnets(ParseCidr(b), count, len)]
    BY <2>2 DEF IsSplit
  <2> DEFINE base == ParseCidr(b)
             items == GenerateSubnets(base, count, len)
  <2>4. /\ s.asked.base = b /\ s.asked.count = count /\ s.asked.len = len
        /\ s.items = items /\ items # Failed /\ Block(base)
    BY <2>2, <2>3, ParsedBlock
  <2> HIDE DEF base
  <2>5. Roomy(base, count, len) =>
          /\ \A i, j \in DOMAIN items : i < j => items[i].broadcast < items[j].network
          /\ \A i \in DOMAIN items : Span(items[i]) \subseteq Span(base)
          /\ count = Unset => UNION {Span(x) : x \in Range(items)} = Span(base)
    BY <2>4, SplitExact
  <2> HIDE DEF items
  <2> QED BY <2>4, <2>5 DEF SubnetsExact, Roomy, s, base
<1>3. SupernetSmallest
  <2>1. SUFFICES ASSUME page.supernet # Unset PROVE SupernetSmallest
    BY DEF SupernetSmallest
  <2>2. /\ page.supernet.of \in SUBSET Inputs
        /\ page.supernet.is = FindSupernet(page.supernet.of) /\ page.supernet.is # Failed
    BY <2>1 DEF CalcInv, ShownRight
  <2> QED BY <2>2, SupernetExact DEF SupernetSmallest
<1> QED BY <1>1, <1>2, <1>3 DEF CalculatorExact

(* Whatever the calculator shows describes exactly the addresses it stands *)
(* for (cidr-service.ts): a network, the parts it is split into, and the   *)
(* smallest network around several others; for addresses of any width, any *)
(* inputs and numbers of parts, and answers that come in any order.        *)
THEOREM CalculatorSound == SubnetsSpec => []CalculatorExact
<1>1. SubnetsSpec => []CalcInv
  BY CalcStarts, CalcStep, PTL DEF SubnetsSpec
<1> QED BY <1>1, CalcExact, PTL

-----------------------------------------------------------------------------
(* The guided build: what a finished checklist has counted.                *)
GuidedTypeOK == drawing \in Canvas

LEMMA GuidedTyped == GuidedSpec => []GuidedTypeOK
<1>1. GuidedInit => GuidedTypeOK
  BY GuidedAssumption DEF GuidedInit, GuidedTypeOK
<1>2. GuidedTypeOK /\ [GuidedNext]_guidedVars => GuidedTypeOK'
  <2> SUFFICES ASSUME GuidedTypeOK, [GuidedNext]_guidedVars PROVE drawing' \in Canvas
    BY DEF GuidedTypeOK
  <2>1. drawing \in Canvas
    BY DEF GuidedTypeOK
  <2>2. CASE UNCHANGED drawing
    BY <2>1, <2>2
  <2>3. ASSUME NEW clear \in BOOLEAN, StartBuilding(clear) PROVE drawing' \in Canvas
    BY <2>1, <2>3 DEF StartBuilding, EmptyCanvas, Canvas
  <2>4. CASE Build
    <3>1. CASE \E p \in Parts \ drawing.parts : drawing' = [drawing EXCEPT !.parts = @ \cup {p}]
      BY <2>1, <3>1 DEF Canvas
    <3>2. CASE \E w \in Cabling : drawing' = [drawing EXCEPT !.wires = (@ \cup {w}) \ (@ \cap {w})]
      BY <2>1, <3>2 DEF Canvas
    <3>3. CASE \E p \in PartsOf({"firewall"}) \ drawing.rules :
                 drawing' = [drawing EXCEPT !.rules = @ \cup {p}]
      BY <2>1, <3>3 DEF Canvas, PartsOf
    <3>4. CASE \E p \in PartsOf({"dns"}) \ drawing.records :
                 drawing' = [drawing EXCEPT !.records = @ \cup {p}]
      BY <2>1, <3>4 DEF Canvas, PartsOf
    <3>5. CASE drawing' = [drawing EXCEPT !.online = PartsOf(EndpointTypes)]
      BY <2>1, <3>5 DEF Canvas, PartsOf
    <3> QED BY <2>4, <3>1, <3>2, <3>3, <3>4, <3>5 DEF Build
  <2> QED BY <2>2, <2>3, <2>4 DEF GuidedNext, OpenGuide, CloseGuide, guidedVars
<1> QED BY <1>1, <1>2, PTL DEF GuidedSpec

LEMMA CountsAdd ==
  ASSUME NEW A, NEW B, IsFiniteSet(A), IsFiniteSet(B), A \cap B = {},
         NEW m \in Nat, NEW n \in Nat, Cardinality(A) >= m, Cardinality(B) >= n
  PROVE  IsFiniteSet(A \cup B) /\ Cardinality(A \cup B) >= m + n
<1>1. /\ IsFiniteSet(A \cup B)
      /\ Cardinality(A \cup B) = Cardinality(A) + Cardinality(B) - Cardinality(A \cap B)
  BY FS_Union
<1>2. Cardinality(A \cap B) = 0
  BY FS_EmptySet
<1>3. Cardinality(A) \in Nat /\ Cardinality(B) \in Nat
  BY FS_CardinalityType
<1> QED BY <1>1, <1>2, <1>3

LEMMA SomeCounted ==
  ASSUME NEW A, IsFiniteSet(A), NEW x \in A
  PROVE  Cardinality(A) >= 1
<1>1. Cardinality({x}) = 1 /\ IsFiniteSet({x})
  BY FS_Singleton
<1>2. Cardinality({x}) <= Cardinality(A)
  BY FS_Subset
<1>3. Cardinality(A) \in Nat
  BY FS_CardinalityType
<1> QED BY <1>1, <1>2, <1>3

LEMMA TwoCounted ==
  ASSUME NEW A, IsFiniteSet(A), NEW x \in A, NEW y \in A, x # y
  PROVE  Cardinality(A) >= 2
<1>1. Cardinality({x}) = 1 /\ IsFiniteSet({x}) /\ Cardinality({y}) = 1 /\ IsFiniteSet({y})
  BY FS_Singleton
<1>2. IsFiniteSet({x} \cup {y}) /\ Cardinality({x} \cup {y}) >= 1 + 1
  BY <1>1, CountsAdd
<1>3. Cardinality({x} \cup {y}) <= Cardinality(A) /\ Cardinality({x} \cup {y}) \in Nat
  <2>1. {x} \cup {y} \subseteq A
    OBVIOUS
  <2> QED BY <2>1, FS_Subset, FS_CardinalityType
<1>4. Cardinality(A) \in Nat
  BY FS_CardinalityType
<1> QED BY <1>2, <1>3, <1>4

(* Devices of disjoint kinds are counted apart. *)
LEMMA KindsAdd ==
  ASSUME GuidedTypeOK, NEW S, NEW T, S \cap T = {}, NEW m \in Nat, NEW n \in Nat,
         CountOf(S) >= m, CountOf(T) >= n
  PROVE  CountOf(S \cup T) >= m + n
<1>1. \A K : IsFiniteSet(PartsOf(K))
  <2>1. drawing.parts \subseteq Parts /\ IsFiniteSet(Parts)
    BY GuidedAssumption DEF GuidedTypeOK, Canvas
  <2>2. \A K : PartsOf(K) \subseteq Parts
    BY <2>1 DEF PartsOf
  <2> QED BY <2>1, <2>2, FS_Subset
<1>2. PartsOf(S \cup T) = PartsOf(S) \cup PartsOf(T) /\ PartsOf(S) \cap PartsOf(T) = {}
  BY DEF PartsOf
<1>3. Cardinality(PartsOf(S) \cup PartsOf(T)) >= m + n
  <2>1. Cardinality(PartsOf(S)) >= m /\ Cardinality(PartsOf(T)) >= n
    BY DEF CountOf
  <2> QED BY <1>1, <1>2, <2>1, CountsAdd
<1> QED BY <1>2, <1>3 DEF CountOf

(* A finished site with no device too many has one firewall.               *)
LEMMA OneFirewall ==
  ASSUME GuidedTypeOK, CountOf(PartTypes) = MinDevices, AllDone,
         NEW f \in PartsOf({"firewall"}), NEW g \in PartsOf({"firewall"})
  PROVE  f = g
<1> SUFFICES ASSUME f # g PROVE FALSE
  OBVIOUS
<1>1. \A K : IsFiniteSet(PartsOf(K))
  <2>1. drawing.parts \subseteq Parts /\ IsFiniteSet(Parts)
    BY GuidedAssumption DEF GuidedTypeOK, Canvas
  <2>2. \A K : PartsOf(K) \subseteq Parts
    BY <2>1 DEF PartsOf
  <2> QED BY <2>1, <2>2, FS_Subset
<1>2. \A K : PartsOf(K) # {} => CountOf(K) >= 1
  BY <1>1, SomeCounted DEF CountOf
<1>3. CountOf({"firewall"}) >= 2
  BY <1>1, TwoCounted DEF CountOf
<1>4. /\ \E t \in InternetTypes : Has(t)
      /\ Has("router") /\ Has("dhcp") /\ Has("dns") /\ Has("server")
      /\ CountOf({"switch"}) >= 2 /\ CountOf(EndpointTypes) >= 3
  BY DEF AllDone, Tasks
<1>5. CountOf(InternetTypes) >= 1
  <2>1. PICK t \in InternetTypes : PartsOf({t}) # {}
    BY <1>4 DEF Has
  <2>2. PartsOf({t}) \subseteq PartsOf(InternetTypes)
    BY DEF PartsOf
  <2> QED BY <2>1, <2>2, <1>2
<1>6. /\ CountOf({"router"}) >= 1 /\ CountOf({"dhcp"}) >= 1 /\ CountOf({"dns"}) >= 1
      /\ CountOf({"server"}) >= 1
  BY <1>2, <1>4 DEF Has
<1> DEFINE a == InternetTypes \cup {"router"}
           b == a \cup {"firewall"}
           c == b \cup {"switch"}
           d == c \cup {"dhcp"}
           e == d \cup {"dns"}
           h == e \cup EndpointTypes
           k == h \cup {"server"}
<1>7. /\ InternetTypes \cap {"router"} = {} /\ a \cap {"firewall"} = {} /\ b \cap {"switch"} = {}
      /\ c \cap {"dhcp"} = {} /\ d \cap {"dns"} = {} /\ e \cap EndpointTypes = {}
      /\ h \cap {"server"} = {}
  BY DEF InternetTypes, EndpointTypes
<1>8. k = PartTypes
  BY DEF InternetTypes, EndpointTypes, PartTypes
<1>9. CountOf(a) >= 2
  <2>1. CountOf(InternetTypes \cup {"router"}) >= 1 + 1
    BY <1>5, <1>6, <1>7, KindsAdd
  <2> QED BY <2>1
<1> HIDE DEF a
<1>10. CountOf(b) >= 4
  <2>1. CountOf(a \cup {"firewall"}) >= 2 + 2
    BY <1>3, <1>7, <1>9, KindsAdd
  <2> QED BY <2>1
<1> HIDE DEF b
<1>11. CountOf(c) >= 6
  <2>1. CountOf(b \cup {"switch"}) >= 4 + 2
    BY <1>4, <1>7, <1>10, KindsAdd
  <2> QED BY <2>1
<1> HIDE DEF c
<1>12. CountOf(d) >= 7
  <2>1. CountOf(c \cup {"dhcp"}) >= 6 + 1
    BY <1>6, <1>7, <1>11, KindsAdd
  <2> QED BY <2>1
<1> HIDE DEF d
<1>13. CountOf(e) >= 8
  <2>1. CountOf(d \cup {"dns"}) >= 7 + 1
    BY <1>6, <1>7, <1>12, KindsAdd
  <2> QED BY <2>1
<1> HIDE DEF e
<1>14. CountOf(h) >= 11
  <2>1. CountOf(e \cup EndpointTypes) >= 8 + 3
    BY <1>4, <1>7, <1>13, KindsAdd
  <2> QED BY <2>1
<1> HIDE DEF h
<1>15. CountOf(k) >= 12
  <2>1. CountOf(h \cup {"server"}) >= 11 + 1
    BY <1>6, <1>7, <1>14, KindsAdd
  <2> QED BY <2>1
<1> QED BY <1>8, <1>15 DEF MinDevices

(* The wires between two kinds of devices. *)
Between(S, T) == {w \in drawing.wires : Joins(w, S, T)}

LEMMA WiresTyped ==
  ASSUME GuidedTypeOK
  PROVE  /\ IsFiniteSet(drawing.wires)
         /\ \A w \in drawing.wires : w \subseteq Parts
         /\ \A w \in drawing.wires : \A x, y, z \in w : x = y \/ x = z \/ y = z
<1>1. drawing.wires \subseteq Cabling
  BY DEF GuidedTypeOK, Canvas
<1>2. \A w \in Cabling : w \in SUBSET Parts /\ Cardinality(w) = 2
  BY GuidedAssumption
<1>3. IsFiniteSet(SUBSET Parts) /\ IsFiniteSet(Parts)
  BY GuidedAssumption, FS_SUBSET
<1>4. drawing.wires \in SUBSET (SUBSET Parts)
  BY <1>1, <1>2
<1>5. IsFiniteSet(drawing.wires)
  BY <1>3, <1>4, FS_Subset
<1>6. ASSUME NEW w \in drawing.wires, NEW x \in w, NEW y \in w, NEW z \in w, x # y, x # z, y # z
      PROVE  FALSE
  <2>1. IsFiniteSet(w) /\ Cardinality(w) = 2
    BY <1>1, <1>2, <1>3, FS_Subset
  <2>2. IsFiniteSet(w \ {x}) /\ Cardinality(w \ {x}) = Cardinality(w) - 1
    BY <2>1, FS_RemoveElement
  <2>3. y \in w \ {x} /\ z \in w \ {x}
    BY <1>6
  <2>4. Cardinality(w \ {x}) >= 2
    BY <2>2, <2>3, <1>6, TwoCounted
  <2> QED BY <2>1, <2>2, <2>4
<1> QED BY <1>1, <1>2, <1>5, <1>6

LEMMA BetweenApart ==
  ASSUME GuidedTypeOK, NEW S, NEW T, NEW U, NEW V,
         S \cap U = {} \/ T \cap V = {}, S \cap V = {} \/ T \cap U = {}
  PROVE  Between(S, T) \cap Between(U, V) = {}
<1> SUFFICES ASSUME NEW w \in drawing.wires, Joins(w, S, T), Joins(w, U, V) PROVE FALSE
  BY DEF Between
<1>1. PICK p, q \in w : p # q /\ PartType[p] \in S /\ PartType[q] \in T
  BY DEF Joins
<1>2. PICK x, y \in w : x # y /\ PartType[x] \in U /\ PartType[y] \in V
  BY DEF Joins
<1>3. (x = p /\ y = q) \/ (x = q /\ y = p)
  BY <1>1, <1>2, WiresTyped
<1> QED BY <1>1, <1>2, <1>3

(* The wires that the checklist asks for.                                  *)
Asked(w) ==
  \/ Joins(w, {"router"}, InternetTypes)
  \/ Joins(w, {"firewall"}, {"router"})
  \/ Joins(w, {"switch"}, {"firewall"})
  \/ Joins(w, {"switch"}, {"dhcp"})
  \/ Joins(w, {"switch"}, {"dns"})
  \/ Joins(w, {"switch"}, {"switch"})
  \/ Joins(w, EndpointTypes, {"switch"})
  \/ Joins(w, {"firewall"}, {"server"})

(* A finished site with no wire too many has no other ones.                *)
LEMMA WiresAsked ==
  ASSUME GuidedTypeOK, Cardinality(drawing.wires) = MinDevices - 1, AllDone,
         NEW w \in drawing.wires
  PROVE  Asked(w)
<1> DEFINE c1 == Between({"router"}, InternetTypes)
           c2 == Between({"firewall"}, {"router"})
           c3 == Between({"switch"}, {"firewall"})
           c4 == Between({"switch"}, {"dhcp"})
           c5 == Between({"switch"}, {"dns"})
           c6 == Between({"switch"}, {"switch"})
           c7 == Between(EndpointTypes, {"switch"})
           c8 == Between({"firewall"}, {"server"})
           u2 == c1 \cup c2
           u3 == u2 \cup c3
           u4 == u3 \cup c4
           u5 == u4 \cup c5
           u6 == u5 \cup c6
           u7 == u6 \cup c7
           u8 == u7 \cup c8
<1>1. IsFiniteSet(drawing.wires)
  BY WiresTyped
<1>2. \A S, T : Between(S, T) \subseteq drawing.wires /\ IsFiniteSet(Between(S, T))
  <2>1. \A S, T : Between(S, T) \subseteq drawing.wires
    BY DEF Between
  <2> QED BY <2>1, <1>1, FS_Subset
<1>3. \A S, T : EdgeBetweenTypes(S, T) => Cardinality(Between(S, T)) >= 1
  <2> SUFFICES ASSUME NEW S, NEW T, EdgeBetweenTypes(S, T) PROVE Cardinality(Between(S, T)) >= 1
    OBVIOUS
  <2>1. PICK v \in drawing.wires : Joins(v, S, T)
    BY DEF EdgeBetweenTypes
  <2>2. v \in Between(S, T)
    BY <2>1 DEF Between
  <2> QED BY <2>2, <1>2, SomeCounted
<1>4. \A S, T : EdgesBetweenCount(S, T) = Cardinality(Between(S, T))
  BY DEF EdgesBetweenCount, Between
<1>5. /\ Cardinality(c1) >= 1 /\ Cardinality(c2) >= 1 /\ Cardinality(c3) >= 1
      /\ Cardinality(c4) >= 1 /\ Cardinality(c5) >= 1 /\ Cardinality(c6) >= 1
      /\ Cardinality(c7) >= 3 /\ Cardinality(c8) >= 1
  <2>1. /\ EdgeBetweenTypes({"router"}, InternetTypes)
        /\ EdgeBetweenTypes({"firewall"}, {"router"}) /\ EdgeBetweenTypes({"switch"}, {"firewall"})
        /\ EdgeBetweenTypes({"switch"}, {"dhcp"}) /\ EdgeBetweenTypes({"switch"}, {"dns"})
        /\ EdgesBetweenCount({"switch"}, {"switch"}) >= 1
        /\ EdgesBetweenCount(EndpointTypes, {"switch"}) >= 3
        /\ EdgeBetweenTypes({"firewall"}, {"server"})
    BY DEF AllDone, Tasks, PerimeterDone
  <2> QED BY <2>1, <1>3, <1>4
<1>6. c1 \cap c2 = {}
  <2>1. c1 \cap c2 = {}
    BY BetweenApart DEF InternetTypes, EndpointTypes
  <2> QED BY <2>1
<1>7. c1 \cap c3 = {} /\ c2 \cap c3 = {}
  <2>1. c1 \cap c3 = {}
    BY BetweenApart DEF InternetTypes, EndpointTypes
  <2>2. c2 \cap c3 = {}
    BY BetweenApart DEF InternetTypes, EndpointTypes
  <2> QED BY <2>1, <2>2
<1>8. c1 \cap c4 = {} /\ c2 \cap c4 = {} /\ c3 \cap c4 = {}
  <2>1. c1 \cap c4 = {}
    BY BetweenApart DEF InternetTypes, EndpointTypes
  <2>2. c2 \cap c4 = {}
    BY BetweenApart DEF InternetTypes, EndpointTypes
  <2>3. c3 \cap c4 = {}
    BY BetweenApart DEF InternetTypes, EndpointTypes
  <2> QED BY <2>1, <2>2, <2>3
<1>9. c1 \cap c5 = {} /\ c2 \cap c5 = {} /\ c3 \cap c5 = {} /\ c4 \cap c5 = {}
  <2>1. c1 \cap c5 = {}
    BY BetweenApart DEF InternetTypes, EndpointTypes
  <2>2. c2 \cap c5 = {}
    BY BetweenApart DEF InternetTypes, EndpointTypes
  <2>3. c3 \cap c5 = {}
    BY BetweenApart DEF InternetTypes, EndpointTypes
  <2>4. c4 \cap c5 = {}
    BY BetweenApart DEF InternetTypes, EndpointTypes
  <2> QED BY <2>1, <2>2, <2>3, <2>4
<1>10. c1 \cap c6 = {} /\ c2 \cap c6 = {} /\ c3 \cap c6 = {} /\ c4 \cap c6 = {} /\ c5 \cap c6 = {}
  <2>1. c1 \cap c6 = {}
    BY BetweenApart DEF InternetTypes, EndpointTypes
  <2>2. c2 \cap c6 = {}
    BY BetweenApart DEF InternetTypes, EndpointTypes
  <2>3. c3 \cap c6 = {}
    BY BetweenApart DEF InternetTypes, EndpointTypes
  <2>4. c4 \cap c6 = {}
    BY BetweenApart DEF InternetTypes, EndpointTypes
  <2>5. c5 \cap c6 = {}
    BY BetweenApart DEF InternetTypes, EndpointTypes
  <2> QED BY <2>1, <2>2, <2>3, <2>4, <2>5
<1>11. /\ c1 \cap c7 = {} /\ c2 \cap c7 = {} /\ c3 \cap c7 = {} /\ c4 \cap c7 = {}
       /\ c5 \cap c7 = {} /\ c6 \cap c7 = {}
  <2>1. c1 \cap c7 = {}
    BY BetweenApart DEF InternetTypes, EndpointTypes
  <2>2. c2 \cap c7 = {}
    BY BetweenApart DEF InternetTypes, EndpointTypes
  <2>3. c3 \cap c7 = {}
    BY BetweenApart DEF InternetTypes, EndpointTypes
  <2>4. c4 \cap c7 = {}
    BY BetweenApart DEF InternetTypes, EndpointTypes
  <2>5. c5 \cap c7 = {}
    BY BetweenApart DEF InternetTypes, EndpointTypes
  <2>6. c6 \cap c7 = {}
    BY BetweenApart DEF InternetTypes, EndpointTypes
  <2> QED BY <2>1, <2>2, <2>3, <2>4, <2>5, <2>6
<1>12. /\ c1 \cap c8 = {} /\ c2 \cap c8 = {} /\ c3 \cap c8 = {} /\ c4 \cap c8 = {}
       /\ c5 \cap c8 = {} /\ c6 \cap c8 = {} /\ c7 \cap c8 = {}
  <2>1. c1 \cap c8 = {}
    BY BetweenApart DEF InternetTypes, EndpointTypes
  <2>2. c2 \cap c8 = {}
    BY BetweenApart DEF InternetTypes, EndpointTypes
  <2>3. c3 \cap c8 = {}
    BY BetweenApart DEF InternetTypes, EndpointTypes
  <2>4. c4 \cap c8 = {}
    BY BetweenApart DEF InternetTypes, EndpointTypes
  <2>5. c5 \cap c8 = {}
    BY BetweenApart DEF InternetTypes, EndpointTypes
  <2>6. c6 \cap c8 = {}
    BY BetweenApart DEF InternetTypes, EndpointTypes
  <2>7. c7 \cap c8 = {}
    BY BetweenApart DEF InternetTypes, EndpointTypes
  <2> QED BY <2>1, <2>2, <2>3, <2>4, <2>5, <2>6, <2>7
<1>13. /\ c1 \subseteq drawing.wires /\ IsFiniteSet(c1) /\ c2 \subseteq drawing.wires /\ IsFiniteSet(c2)
       /\ c3 \subseteq drawing.wires /\ IsFiniteSet(c3) /\ c4 \subseteq drawing.wires /\ IsFiniteSet(c4)
       /\ c5 \subseteq drawing.wires /\ IsFiniteSet(c5) /\ c6 \subseteq drawing.wires /\ IsFiniteSet(c6)
       /\ c7 \subseteq drawing.wires /\ IsFiniteSet(c7) /\ c8 \subseteq drawing.wires /\ IsFiniteSet(c8)
  BY <1>2
<1>14. \A v : v \in u8 => Asked(v)
  BY DEF Between, Asked
<1> HIDE DEF c1, c2, c3, c4, c5, c6, c7, c8
<1>15. IsFiniteSet(u2) /\ Cardinality(u2) >= 2
  <2>1. c1 \cap c2 = {}
    BY <1>6
  <2>2. IsFiniteSet(c1 \cup c2) /\ Cardinality(c1 \cup c2) >= 1 + 1
    BY <2>1, <1>5, <1>13, CountsAdd
  <2> QED BY <2>2
<1>16. IsFiniteSet(u3) /\ Cardinality(u3) >= 3
  <2>1. u2 \cap c3 = {}
    BY <1>7
  <2> HIDE DEF u2
  <2>2. IsFiniteSet(u2 \cup c3) /\ Cardinality(u2 \cup c3) >= 2 + 1
    BY <2>1, <1>5, <1>13, <1>15, CountsAdd
  <2> QED BY <2>2
<1>17. IsFiniteSet(u4) /\ Cardinality(u4) >= 4
  <2>1. u3 \cap c4 = {}
    BY <1>8
  <2> HIDE DEF u3
  <2>2. IsFiniteSet(u3 \cup c4) /\ Cardinality(u3 \cup c4) >= 3 + 1
    BY <2>1, <1>5, <1>13, <1>16, CountsAdd
  <2> QED BY <2>2
<1>18. IsFiniteSet(u5) /\ Cardinality(u5) >= 5
  <2>1. u4 \cap c5 = {}
    BY <1>9
  <2> HIDE DEF u4
  <2>2. IsFiniteSet(u4 \cup c5) /\ Cardinality(u4 \cup c5) >= 4 + 1
    BY <2>1, <1>5, <1>13, <1>17, CountsAdd
  <2> QED BY <2>2
<1>19. IsFiniteSet(u6) /\ Cardinality(u6) >= 6
  <2>1. u5 \cap c6 = {}
    BY <1>10
  <2> HIDE DEF u5
  <2>2. IsFiniteSet(u5 \cup c6) /\ Cardinality(u5 \cup c6) >= 5 + 1
    BY <2>1, <1>5, <1>13, <1>18, CountsAdd
  <2> QED BY <2>2
<1>20. IsFiniteSet(u7) /\ Cardinality(u7) >= 9
  <2>1. u6 \cap c7 = {}
    BY <1>11
  <2> HIDE DEF u6
  <2>2. IsFiniteSet(u6 \cup c7) /\ Cardinality(u6 \cup c7) >= 6 + 3
    BY <2>1, <1>5, <1>13, <1>19, CountsAdd
  <2> QED BY <2>2
<1>21. IsFiniteSet(u8) /\ Cardinality(u8) >= 10
  <2>1. u7 \cap c8 = {}
    BY <1>12
  <2> HIDE DEF u7
  <2>2. IsFiniteSet(u7 \cup c8) /\ Cardinality(u7 \cup c8) >= 9 + 1
    BY <2>1, <1>5, <1>13, <1>20, CountsAdd
  <2> QED BY <2>2
<1>22. u8 \subseteq drawing.wires
  BY <1>13
<1> HIDE DEF u8
<1>23. u8 = drawing.wires
  <2>1. Cardinality(u8) <= Cardinality(drawing.wires) /\ Cardinality(u8) \in Nat
    BY <1>21, <1>22, <1>1, FS_Subset, FS_CardinalityType
  <2>2. Cardinality(u8) = Cardinality(drawing.wires)
    BY <2>1, <1>21 DEF MinDevices
  <2> QED BY <2>2, <1>22, <1>1, FS_Subset
<1> QED BY <1>14, <1>23

(* What a wire joins, told from one of its ends.                           *)
LEMMA WireEnds ==
  ASSUME GuidedTypeOK, Cardinality(drawing.wires) = MinDevices - 1, AllDone,
         NEW w \in drawing.wires, NEW x \in w, NEW y \in w, x # y
  PROVE  /\ PartType[x] \in InternetTypes => PartType[y] = "router"
         /\ PartType[x] = "router" => PartType[y] \in InternetTypes \cup {"firewall"}
         /\ PartType[x] \in EndpointTypes => PartType[y] = "switch"
<1> DEFINE s == PartType[x]
           t == PartType[y]
           Ends(S, T) == (s \in S /\ t \in T) \/ (t \in S /\ s \in T)
<1>1. \A S, T : Joins(w, S, T) => Ends(S, T)
  <2> SUFFICES ASSUME NEW S, NEW T, Joins(w, S, T)
               PROVE  Ends(S, T)
    OBVIOUS
  <2>1. PICK p, q \in w : p # q /\ PartType[p] \in S /\ PartType[q] \in T
    BY DEF Joins
  <2>2. (x = p /\ y = q) \/ (x = q /\ y = p)
    BY <2>1, WiresTyped
  <2> QED BY <2>1, <2>2
<1>2. Asked(w)
  BY WiresAsked
<1> HIDE DEF s, t
<1>3. \/ (s = "router" /\ t \in InternetTypes) \/ (t = "router" /\ s \in InternetTypes)
      \/ (s = "firewall" /\ t = "router") \/ (t = "firewall" /\ s = "router")
      \/ (s = "switch" /\ t \in {"firewall", "dhcp", "dns", "switch"} \cup EndpointTypes)
      \/ (t = "switch" /\ s \in {"firewall", "dhcp", "dns", "switch"} \cup EndpointTypes)
      \/ (s = "firewall" /\ t = "server") \/ (t = "firewall" /\ s = "server")
  <2>1. Joins(w, {"router"}, InternetTypes) => Ends({"router"}, InternetTypes)
    BY <1>1
  <2>2. Joins(w, {"firewall"}, {"router"}) => Ends({"firewall"}, {"router"})
    BY <1>1
  <2>3. Joins(w, {"switch"}, {"firewall"}) => Ends({"switch"}, {"firewall"})
    BY <1>1
  <2>4. Joins(w, {"switch"}, {"dhcp"}) => Ends({"switch"}, {"dhcp"})
    BY <1>1
  <2>5. Joins(w, {"switch"}, {"dns"}) => Ends({"switch"}, {"dns"})
    BY <1>1
  <2>6. Joins(w, {"switch"}, {"switch"}) => Ends({"switch"}, {"switch"})
    BY <1>1
  <2>7. Joins(w, EndpointTypes, {"switch"}) => Ends(EndpointTypes, {"switch"})
    BY <1>1
  <2>8. Joins(w, {"firewall"}, {"server"}) => Ends({"firewall"}, {"server"})
    BY <1>1
  <2> HIDE DEF s, t
  <2> QED BY <1>2, <2>1, <2>2, <2>3, <2>4, <2>5, <2>6, <2>7, <2>8 DEF Asked
<1>4. /\ s \in InternetTypes => t = "router"
      /\ s = "router" => t \in InternetTypes \cup {"firewall"}
      /\ s \in EndpointTypes => t = "switch"
  BY <1>3 DEF InternetTypes, EndpointTypes
<1> QED BY <1>4 DEF s, t

LEMMA GuidedIsGuarded == GuidedTypeOK => TickedMeansGuarded
<1> SUFFICES ASSUME GuidedTypeOK, CountOf(PartTypes) = MinDevices,
                    Cardinality(drawing.wires) = MinDevices - 1, AllDone
             PROVE  /\ \A p \in PartsOf(InternetTypes) : \A f \in PartsOf({"firewall"}) :
                         Reachable(p, {w \in drawing.wires : f \notin w})
                           \subseteq PartsOf(InternetTypes \cup {"router"})
                    /\ \A p \in PartsOf(EndpointTypes) :
                         \E q \in PartsOf({"switch"}) : {p, q} \in drawing.wires
  BY DEF TickedMeansGuarded
<1> DEFINE D == drawing.parts
           W == drawing.wires
<1>1. /\ IsFiniteSet(W) /\ \A w \in W : w \subseteq Parts
      /\ \A w \in W : \A x, y, z \in w : x = y \/ x = z \/ y = z
  BY WiresTyped
<1>2. PICK t \in InternetTypes : PartsOf({t}) # {}
  BY DEF AllDone, Tasks, Has
<1>3. PICK r : r \in D /\ PartType[r] \in InternetTypes
  BY <1>2 DEF PartsOf
<1>4. \A p \in D : Reachable(p, W) = D
  <2> DEFINE first == CHOOSE p \in D : TRUE
  <2>1. Reachable(first, W) = D
    BY DEF AllDone, Tasks, IsConnected
  <2> HIDE DEF first
  <2> QED BY <2>1, <1>1, OneComponent
(* Wires lead from device to device of the site. *)
<1>5. \A x \in D : Adjacent(W, x) \subseteq D
  <2> SUFFICES ASSUME NEW x \in D PROVE Adjacent(W, x) \subseteq D
    OBVIOUS
  <2>1. NoWireLeaves(W, Reachable(x, W))
    BY <1>1, ReachableIsComponent
  <2> QED BY <2>1, <1>4 DEF NoWireLeaves
<1>6. ASSUME NEW p \in PartsOf(InternetTypes), NEW f \in PartsOf({"firewall"})
      PROVE  Reachable(p, {w \in W : f \notin w}) \subseteq PartsOf(InternetTypes \cup {"router"})
  <2> DEFINE V == {w \in W : f \notin w}
             T == PartsOf(InternetTypes \cup {"router"})
  <2>1. IsFiniteSet(V)
    BY <1>1, FS_Subset
  <2>2. p \in T
    BY <1>6 DEF PartsOf
  <2>3. ASSUME NEW x \in T, NEW y \in Adjacent(V, x) PROVE y \in T
    <3>1. PICK w \in W : x \in w /\ y \in w /\ y # x /\ f \notin w
      BY DEF Adjacent
    <3>2. x \in D /\ PartType[x] \in InternetTypes \cup {"router"}
      BY DEF PartsOf
    <3>3. y \in D
      <4>1. y \in Adjacent(W, x)
        BY <3>1 DEF Adjacent
      <4> QED BY <4>1, <3>2, <1>5
    <3>4. PartType[y] \in InternetTypes \cup {"router", "firewall"}
      BY <3>1, <3>2, WireEnds
    <3>5. PartType[y] # "firewall"
      <4> SUFFICES ASSUME PartType[y] = "firewall" PROVE FALSE
        OBVIOUS
      <4>1. y \in PartsOf({"firewall"})
        BY <3>3 DEF PartsOf
      <4>2. y = f
        BY <4>1, OneFirewall
      <4> QED BY <4>2, <3>1
    <3> QED BY <3>3, <3>4, <3>5 DEF PartsOf
  <2>4. NoWireLeaves(V, T)
    BY <2>3 DEF NoWireLeaves
  <2> HIDE DEF V, T
  <2>5. Reachable(p, V) \subseteq T
    BY <2>1, <2>2, <2>4, ReachableIsComponent
  <2> QED BY <2>5 DEF V, T
<1>7. ASSUME NEW p \in PartsOf(EndpointTypes)
      PROVE  \E q \in PartsOf({"switch"}) : {p, q} \in W
  <2>1. p \in D /\ PartType[p] \in EndpointTypes
    BY DEF PartsOf
  <2>2. r # p
    BY <2>1, <1>3 DEF InternetTypes, EndpointTypes
  <2>3. ASSUME Adjacent(W, p) = {} PROVE FALSE
    <3>1. NoWireLeaves(W, {p})
      BY <2>3 DEF NoWireLeaves
    <3>2. Reachable(p, W) \subseteq {p}
      BY <3>1, <1>1, ReachableIsComponent
    <3> QED BY <3>2, <2>1, <2>2, <1>3, <1>4
  <2>4. PICK q : q \in Adjacent(W, p)
    BY <2>3
  <2>5. PICK w \in W : p \in w /\ q \in w /\ q # p
    BY <2>4 DEF Adjacent
  <2>6. PartType[q] = "switch"
    BY <2>1, <2>5, WireEnds
  <2>7. w = {p, q}
    BY <2>5, <1>1
  <2>8. q \in PartsOf({"switch"})
    BY <2>1, <2>4, <2>6, <1>5 DEF PartsOf
  <2> QED BY <2>5, <2>7, <2>8
<1> QED BY <1>6, <1>7

(* TickedMeansGuarded: a finished site with no device and no wire too many *)
(* keeps everything but its router behind the firewall, and its office     *)
(* devices hang on switches, whatever the user did to build it.            *)
THEOREM SiteGuarded == GuidedSpec => []TickedMeansGuarded
<1>1. GuidedTypeOK => TickedMeansGuarded
  BY GuidedIsGuarded
<1> QED BY <1>1, GuidedTyped, PTL
=============================================================================
