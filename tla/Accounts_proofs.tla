--------------------------- MODULE Accounts_proofs --------------------------
(***************************************************************************)
(* TLAPS proofs about Accounts, for any sets of ids, identities and        *)
(* requests, and about account erasure (module Erasure), for any number of *)
(* writers.  The inductive invariant AccountsInv adds to the properties    *)
(*   - what is known of ids (an id once handed out is never a new account),*)
(*   - what a handler still knows when it writes, as long as no two        *)
(*     demotions or deletions overlapped: some other administrator exists. *)
(***************************************************************************)
EXTENDS Erasure, FiniteSetTheorems, TLAPS

(* Every account, and every account being erased, has an issued id. *)
IdsIssued ==
  /\ Live \subseteq issued
  /\ \A r \in Requests :
       req[r].pc \in {"count_for_delete", "delete_user"} => req[r].id \in issued

(* The write this handler issues next may remove an administrator. *)
AboutToRemove(r) ==
  \/ req[r].pc = "delete_user"
  \/ req[r].pc = "save_role" /\ req[r].role # "admin"

OneRemover ==
  \A q, r \in Requests : MayRemoveAdmin(q) /\ MayRemoveAdmin(r) => q = r

(* A sign-in that saw an account still would: accounts do not vanish. *)
LaterSignUp ==
  \A r \in Requests : req[r].pc = "create" /\ req[r].role # "admin" => Live # {}

AnotherAdmin ==
  \A r \in Requests : AboutToRemove(r) => \E a \in Admins : a # req[r].id

SerialInv ==
  ~ overlapped => AdminExists /\ OneRemover /\ LaterSignUp /\ AnotherAdmin

AccountsInv ==
  /\ TypeOK
  /\ OneAccountPerIdentity
  /\ IdsIssued
  /\ SweepOnlyAfterRemoval
  /\ SerialInv
-----------------------------------------------------------------------------
(* The initial state satisfies the invariant: nothing exists yet. *)
LEMMA InitInv == Init => AccountsInv
<1> SUFFICES ASSUME Init PROVE AccountsInv
  OBVIOUS
<1> USE NoneAssumption DEF Init
<1>1. TypeOK
  BY DEF TypeOK, InHand, Idle, Request, Phases
<1>2. Live = {}
  BY DEF Live
<1>3. \A r \in Requests : req[r].pc = "idle"
  BY DEF Idle
<1>4. OneAccountPerIdentity
  BY <1>2 DEF OneAccountPerIdentity
<1>5. IdsIssued
  BY <1>2, <1>3 DEF IdsIssued
<1>6. SweepOnlyAfterRemoval
  BY <1>3 DEF SweepOnlyAfterRemoval
<1>7. SerialInv
  BY <1>2, <1>3 DEF SerialInv, AdminExists, OneRemover, LaterSignUp,
     AnotherAdmin, MayRemoveAdmin, AboutToRemove
<1> QED BY <1>1, <1>4, <1>5, <1>6, <1>7 DEF AccountsInv

(* Case analysis over the actions, for the proofs that follow. *)
LEMMA NextCases ==
  ASSUME NEW P,
         [Next]_vars,
         \A r \in Requests, who \in Identities :
           SignInKnown(r, who) \/ SignInUnknown(r, who) => P,
         \A r \in Requests :
           \/ CountUsers(r) \/ CreateUser(r) \/ CreateUserRefused(r)
           \/ CountForRole(r) \/ SaveRole(r)
           \/ CountForDelete(r) \/ DeleteUser(r)
           => P,
         \A r \in Requests, actor, id \in Ids, role \in Roles :
           FindForRole(r, actor, id, role) => P,
         \A r \in Requests, actor, id \in Ids : FindForErase(r, actor, id) => P,
         \A r \in Requests, c \in Collections : Sweep(r, c) => P,
         \A id \in Ids : EndSession(id) => P,
         Restart => P,
         UNCHANGED vars => P
  PROVE  P
BY DEF Next, SignIn, SetUserRole, RemoveUser

(* Replacing one well-formed request record by another. *)
LEMMA PutRequest ==
  ASSUME TypeOK, NEW r \in Requests, NEW n \in Request, InHand(n),
         req' = [req EXCEPT ![r] = n]
  PROVE  /\ req' \in [Requests -> Request]
         /\ \A q \in Requests : InHand(req'[q])
<1>1. req' \in [Requests -> Request]
  BY DEF TypeOK
<1>2. \A q \in Requests : req'[q] = n \/ req'[q] = req[q]
  BY DEF TypeOK
<1> QED BY <1>1, <1>2 DEF TypeOK

(* A handler that moves to phase p keeps what else it has in hand. *)
LEMMA MoveOn ==
  ASSUME NEW q \in Request, NEW p \in Phases
  PROVE  /\ [q EXCEPT !.pc = p] \in Request
         /\ [q EXCEPT !.pc = p].pc = p
         /\ [q EXCEPT !.pc = p].id = q.id
         /\ [q EXCEPT !.pc = p].role = q.role
BY DEF Request

LEMMA IdleTyped == Idle \in Request /\ InHand(Idle)
BY DEF Idle, Request, Phases, InHand

(* A step that replaces one request record and keeps the other variables in *)
(* their types.                                                             *)
LEMMA TypeKept ==
  ASSUME TypeOK, NEW r \in Requests, NEW n \in Request, InHand(n),
         req' = [req EXCEPT ![r] = n],
         account' \in [Ids -> User \cup {None}], issued' \subseteq Ids,
         session' \in [Ids -> Roles \cup {None}], overlapped' \in BOOLEAN
  PROVE  TypeOK'
BY PutRequest DEF TypeOK

(* Every step keeps every variable in its type. *)
LEMMA TypeStep == TypeOK /\ [Next]_vars => TypeOK'
<1> SUFFICES ASSUME TypeOK, [Next]_vars PROVE TypeOK'
  OBVIOUS
<1>a. /\ account \in [Ids -> User \cup {None}] /\ issued \subseteq Ids
      /\ session \in [Ids -> Roles \cup {None}] /\ overlapped \in BOOLEAN
      /\ \A r \in Requests : req[r] \in Request /\ InHand(req[r])
  BY DEF TypeOK
<1>1. ASSUME NEW r \in Requests, NEW who \in Identities,
             SignInKnown(r, who) \/ SignInUnknown(r, who)
      PROVE  TypeOK'
  <2>1. CASE SignInKnown(r, who)
    <3>1. PICK id \in Ids : account[id] # None
                          /\ session' = [session EXCEPT ![id] = account[id].role]
      BY <2>1 DEF SignInKnown, Holders, Live
    <3>2. account[id].role \in Roles
      BY <1>a, <3>1 DEF User
    <3>3. session' \in [Ids -> Roles \cup {None}]
      BY <1>a, <3>1, <3>2
    <3> QED BY <2>1, <3>3 DEF SignInKnown, TypeOK
  <2>2. CASE SignInUnknown(r, who)
    <3> DEFINE n == [Idle EXCEPT !.pc = "count_users", !.who = who]
    <3>1. n \in Request /\ InHand(n)
      BY DEF Idle, Request, Phases, InHand
    <3>2. req' = [req EXCEPT ![r] = n]
      BY <2>2 DEF SignInUnknown
    <3> HIDE DEF n
    <3> QED BY <1>a, <2>2, <3>1, <3>2, TypeKept DEF SignInUnknown
  <2> QED BY <1>1, <2>1, <2>2
<1>2. ASSUME NEW r \in Requests,
             \/ CountUsers(r) \/ CreateUser(r) \/ CreateUserRefused(r)
             \/ CountForRole(r) \/ SaveRole(r)
             \/ CountForDelete(r) \/ DeleteUser(r)
      PROVE  TypeOK'
  <2>1. CASE CountUsers(r)
    <3>1. RoleOfNewUser \in Roles
      BY DEF RoleOfNewUser, Roles
    <3> DEFINE n == [req[r] EXCEPT !.pc = "create", !.role = RoleOfNewUser]
    <3>2. n \in Request /\ n.pc = "create" /\ n.who = req[r].who
          /\ n.role = RoleOfNewUser
      BY <1>a, <3>1 DEF Request, Phases
    <3>3. req' = [req EXCEPT ![r] = n]
      BY <2>1 DEF CountUsers
    <3> HIDE DEF n
    <3>4. req[r].who \in Identities
      BY <1>a, <2>1 DEF CountUsers, InHand
    <3>5. InHand(n)
      BY <3>1, <3>2, <3>4 DEF InHand
    <3> QED BY <1>a, <2>1, <3>2, <3>3, <3>5, TypeKept DEF CountUsers
  <2>2. CASE CreateUser(r)
    <3>1. PICK id \in Ids \ issued :
            /\ account' = [account EXCEPT ![id] =
                 [who |-> req[r].who, role |-> req[r].role]]
            /\ issued' = issued \cup {id}
            /\ session' = [session EXCEPT ![id] = req[r].role]
      BY <2>2 DEF CreateUser
    <3>2. req[r].who \in Identities /\ req[r].role \in Roles
      BY <1>a, <2>2 DEF CreateUser, InHand
    <3>3. [who |-> req[r].who, role |-> req[r].role] \in User
      BY <3>2 DEF User
    <3>4. account' \in [Ids -> User \cup {None}]
      BY <1>a, <3>1, <3>3
    <3>5. issued' \subseteq Ids /\ session' \in [Ids -> Roles \cup {None}]
      BY <1>a, <3>1, <3>2
    <3> QED BY <1>a, <2>2, <3>4, <3>5, IdleTyped, TypeKept DEF CreateUser, Finish
  <2>3. CASE CreateUserRefused(r)
    BY <1>a, <2>3, IdleTyped, TypeKept DEF CreateUserRefused, Finish
  <2>4. CASE CountForRole(r)
    <3> DEFINE n == [req[r] EXCEPT !.pc = "save_role"]
    <3>1. "save_role" \in Phases
      BY DEF Phases
    <3>2. n \in Request /\ n.pc = "save_role" /\ n.id = req[r].id
          /\ n.role = req[r].role
      BY <1>a, <3>1, MoveOn
    <3>3. \/ req' = [req EXCEPT ![r] = Idle]
          \/ req' = [req EXCEPT ![r] = n]
      BY <2>4 DEF CountForRole, Finish
    <3> HIDE DEF n
    <3>4. InHand(n)
      BY <1>a, <2>4, <3>2 DEF InHand, CountForRole
    <3> QED BY <1>a, <2>4, <3>2, <3>3, <3>4, IdleTyped, TypeKept DEF CountForRole
  <2>5. CASE SaveRole(r)
    <3>1. account' \in [Ids -> User \cup {None}]
      <4>1. CASE req[r].id \in Live
        <5>1. account' = [account EXCEPT ![req[r].id].role = req[r].role]
          BY <2>5, <4>1 DEF SaveRole
        <5>2. account[req[r].id] \in User /\ req[r].role \in Roles
          BY <1>a, <2>5, <4>1 DEF SaveRole, InHand, Live
        <5>3. [account[req[r].id] EXCEPT !.role = req[r].role] \in User
          BY <5>2 DEF User
        <5> QED BY <1>a, <5>1, <5>3
      <4>2. CASE req[r].id \notin Live
        BY <1>a, <2>5, <4>2 DEF SaveRole
      <4> QED BY <4>1, <4>2
    <3> QED BY <1>a, <2>5, <3>1, IdleTyped, TypeKept DEF SaveRole, Finish
  <2>6. CASE CountForDelete(r)
    <3> DEFINE n == [req[r] EXCEPT !.pc = "delete_user"]
    <3>1. "delete_user" \in Phases
      BY DEF Phases
    <3>2. n \in Request /\ n.pc = "delete_user" /\ n.id = req[r].id
      BY <1>a, <3>1, MoveOn
    <3>3. \/ req' = [req EXCEPT ![r] = Idle]
          \/ req' = [req EXCEPT ![r] = n]
      BY <2>6 DEF CountForDelete, Finish
    <3> HIDE DEF n
    <3>4. InHand(n)
      BY <1>a, <2>6, <3>2 DEF InHand, CountForDelete
    <3> QED BY <1>a, <2>6, <3>2, <3>3, <3>4, IdleTyped, TypeKept DEF CountForDelete
  <2>7. CASE DeleteUser(r)
    <3> DEFINE n == [req[r] EXCEPT !.pc = "sweep", !.todo = Collections]
    <3>1. n \in Request /\ n.pc = "sweep" /\ n.id = req[r].id
      BY <1>a DEF Request, Phases
    <3>2. req' = [req EXCEPT ![r] = n]
      BY <2>7 DEF DeleteUser
    <3> HIDE DEF n
    <3>3. InHand(n)
      BY <1>a, <2>7, <3>1 DEF InHand, DeleteUser
    <3>4. account' \in [Ids -> User \cup {None}]
      BY <1>a, <2>7 DEF DeleteUser
    <3> QED BY <1>a, <2>7, <3>1, <3>2, <3>3, <3>4, TypeKept DEF DeleteUser
  <2> QED BY <1>2, <2>1, <2>2, <2>3, <2>4, <2>5, <2>6, <2>7
<1>3. ASSUME NEW r \in Requests, NEW actor \in Ids, NEW id \in Ids,
             NEW role \in Roles, FindForRole(r, actor, id, role)
      PROVE  TypeOK'
  <2> DEFINE n == [Idle EXCEPT !.pc = NextForRole(account[id].role, role),
                               !.id = id, !.role = role]
  <2>1. n \in Request /\ InHand(n)
    BY DEF Idle, Request, Phases, InHand, NextForRole
  <2>2. req' = [req EXCEPT ![r] = n]
    BY <1>3 DEF FindForRole
  <2> HIDE DEF n
  <2>3. overlapped' \in BOOLEAN
    BY <1>a, <1>3 DEF FindForRole, NoteOverlap
  <2> QED BY <1>a, <1>3, <2>1, <2>2, <2>3, TypeKept DEF FindForRole
<1>4. ASSUME NEW r \in Requests, NEW actor \in Ids, NEW id \in Ids,
             FindForErase(r, actor, id)
      PROVE  TypeOK'
  <2> DEFINE n == [Idle EXCEPT !.pc = NextForDelete(account[id].role), !.id = id]
  <2>1. n \in Request /\ InHand(n)
    BY DEF Idle, Request, Phases, InHand, NextForDelete
  <2>2. req' = [req EXCEPT ![r] = n]
    BY <1>4 DEF FindForErase
  <2> HIDE DEF n
  <2>3. overlapped' \in BOOLEAN
    BY <1>a, <1>4 DEF FindForErase, NoteOverlap
  <2> QED BY <1>a, <1>4, <2>1, <2>2, <2>3, TypeKept DEF FindForErase
<1>5. ASSUME NEW r \in Requests, NEW c \in Collections, Sweep(r, c)
      PROVE  TypeOK'
  <2> DEFINE n == [req[r] EXCEPT !.todo = @ \ {c}]
  <2>1. n \in Request /\ n.pc = "sweep" /\ n.id = req[r].id
    BY <1>a, <1>5 DEF Request, Sweep
  <2>2. \/ req' = [req EXCEPT ![r] = Idle]
        \/ req' = [req EXCEPT ![r] = n]
    BY <1>5 DEF Sweep, Finish
  <2> HIDE DEF n
  <2>3. InHand(n)
    BY <1>a, <1>5, <2>1 DEF InHand, Sweep
  <2>4. session' \in [Ids -> Roles \cup {None}]
    BY <1>a, <1>5 DEF Sweep
  <2> QED BY <1>a, <1>5, <2>1, <2>2, <2>3, <2>4, IdleTyped, TypeKept DEF Sweep
<1>6. ASSUME NEW id \in Ids, EndSession(id) PROVE TypeOK'
  BY <1>6 DEF EndSession, TypeOK
<1>7. CASE Restart
  BY <1>7, IdleTyped DEF Restart, TypeOK
<1>8. CASE UNCHANGED vars
  BY <1>8 DEF vars, TypeOK
<1> QED BY <1>1, <1>2, <1>3, <1>4, <1>5, <1>6, <1>7, <1>8, NextCases

-----------------------------------------------------------------------------
(* Which accounts exist changes only in CreateUser and DeleteUser, and what *)
(* identity an account belongs to never changes.                            *)
LEMMA AccountSteps ==
  ASSUME TypeOK, [Next]_vars
  PROVE  \/ UNCHANGED account
         \/ \E r \in Requests : CreateUser(r)
         \/ \E r \in Requests : DeleteUser(r)
         \/ \E r \in Requests : SaveRole(r)
BY DEF Next, vars, SignIn, SetUserRole, RemoveUser, SignInKnown, SignInUnknown,
   CountUsers, CreateUserRefused, CountForRole, CountForDelete, FindForRole,
   FindForErase, Sweep, EndSession, Restart

(* SaveRole replaces the role of one live account and nothing else. *)
LEMMA SaveRoleEffect ==
  ASSUME TypeOK, NEW r \in Requests, SaveRole(r)
  PROVE  /\ Live' = Live
         /\ \A a \in Live : account'[a].who = account[a].who
         /\ \A a \in Live : a # req[r].id => account'[a] = account[a]
         /\ req[r].id \in Live => account'[req[r].id].role = req[r].role
<1>1. CASE req[r].id \in Live
  <2>1. account' = [account EXCEPT ![req[r].id].role = req[r].role]
    BY <1>1 DEF SaveRole
  <2>2. \A a \in Ids : account[a] # None => account[a] \in User
    BY DEF TypeOK
  <2>3. /\ req[r].id \in Ids
        /\ account[req[r].id] \in User
        /\ req[r].role \in Roles
    BY <1>1, <2>2 DEF Live, TypeOK, InHand, SaveRole
  <2>4. /\ account'[req[r].id].who = account[req[r].id].who
        /\ account'[req[r].id].role = req[r].role
        /\ account'[req[r].id] \in User
    BY <2>1, <2>3 DEF TypeOK, User
  <2>5. \A a \in Ids : a # req[r].id => account'[a] = account[a]
    BY <2>1 DEF TypeOK
  <2>6. Live' = Live
    BY <1>1, <2>4, <2>5, NoneAssumption DEF Live
  <2> QED BY <2>4, <2>5, <2>6 DEF Live
<1>2. CASE req[r].id \notin Live
  BY <1>2 DEF SaveRole, Live
<1> QED BY <1>1, <1>2

(* DeleteUser removes one account. *)
LEMMA DeleteUserEffect ==
  ASSUME TypeOK, NEW r \in Requests, DeleteUser(r)
  PROVE  /\ Live' = Live \ {req[r].id}
         /\ \A a \in Live' : account'[a] = account[a]
BY DEF DeleteUser, Live, TypeOK, InHand

(* CreateUser adds one account, under an id never used before. *)
LEMMA CreateUserEffect ==
  ASSUME TypeOK, NEW r \in Requests, CreateUser(r)
  PROVE  \E id \in Ids \ issued :
           /\ issued' = issued \cup {id}
           /\ Live' = Live \cup {id}
           /\ account'[id] = [who |-> req[r].who, role |-> req[r].role]
           /\ \A a \in Live : a # id => account'[a] = account[a]
<1>1. PICK id \in Ids \ issued :
        /\ account' = [account EXCEPT ![id] =
                          [who |-> req[r].who, role |-> req[r].role]]
        /\ issued' = issued \cup {id}
  BY DEF CreateUser
<1>2. [who |-> req[r].who, role |-> req[r].role] \in User
  BY DEF CreateUser, TypeOK, InHand, User
<1>3. Live' = Live \cup {id}
  BY <1>1, <1>2, NoneAssumption DEF Live, TypeOK
<1> QED BY <1>1, <1>3 DEF Live, TypeOK

(* No interleaving of sign-ins gives an identity a second account. *)
LEMMA OneAccountStep ==
  TypeOK /\ OneAccountPerIdentity /\ [Next]_vars => OneAccountPerIdentity'
<1> SUFFICES ASSUME TypeOK, OneAccountPerIdentity, [Next]_vars
             PROVE  OneAccountPerIdentity'
  OBVIOUS
<1>1. CASE UNCHANGED account
  BY <1>1 DEF OneAccountPerIdentity, Live
<1>2. ASSUME NEW r \in Requests, CreateUser(r) PROVE OneAccountPerIdentity'
  <2>1. PICK id \in Ids \ issued :
          /\ Live' = Live \cup {id}
          /\ account'[id] = [who |-> req[r].who, role |-> req[r].role]
          /\ \A a \in Live : a # id => account'[a] = account[a]
    BY <1>2, CreateUserEffect
  <2>2. \A a \in Live : account[a].who # req[r].who
    BY <1>2 DEF CreateUser, IdentityTaken, Holders
  <2>3. account'[id].who = req[r].who
    BY <2>1
  <2> QED BY <2>1, <2>2, <2>3 DEF OneAccountPerIdentity
<1>3. ASSUME NEW r \in Requests, DeleteUser(r) PROVE OneAccountPerIdentity'
  BY <1>3, DeleteUserEffect DEF OneAccountPerIdentity
<1>4. ASSUME NEW r \in Requests, SaveRole(r) PROVE OneAccountPerIdentity'
  BY <1>4, SaveRoleEffect DEF OneAccountPerIdentity
<1> QED BY <1>1, <1>2, <1>3, <1>4, AccountSteps

(* A step that removes no id and starts no sweep, and whose handlers only  *)
(* move on to a deletion of the account they had found.                    *)
LEMMA IdsKept ==
  ASSUME TypeOK, IdsIssued, SweepOnlyAfterRemoval, UNCHANGED <<account, issued>>,
         \A q \in Requests :
           \/ req'[q] = req[q]
           \/ req'[q].pc \notin {"count_for_delete", "delete_user", "sweep"}
           \/ /\ req'[q].pc = "delete_user" /\ req[q].pc = "count_for_delete"
              /\ req'[q].id = req[q].id
           \/ /\ req'[q].pc = "sweep" /\ req[q].pc = "sweep"
              /\ req'[q].id = req[q].id
  PROVE  IdsIssued' /\ SweepOnlyAfterRemoval'
<1>1. Live' = Live
  BY DEF Live
<1> QED BY <1>1 DEF IdsIssued, SweepOnlyAfterRemoval

(* Ids stay issued, and an id being swept never names an account again. *)
LEMMA IdsStep ==
  TypeOK /\ IdsIssued /\ SweepOnlyAfterRemoval /\ [Next]_vars
    => IdsIssued' /\ SweepOnlyAfterRemoval'
<1> SUFFICES ASSUME TypeOK, IdsIssued, SweepOnlyAfterRemoval, [Next]_vars
             PROVE  IdsIssued' /\ SweepOnlyAfterRemoval'
  OBVIOUS
<1> USE DEF IdsIssued, SweepOnlyAfterRemoval
<1>1. ASSUME NEW r \in Requests, NEW who \in Identities,
             SignInKnown(r, who) \/ SignInUnknown(r, who)
      PROVE  IdsIssued' /\ SweepOnlyAfterRemoval'
  <2>1. \A q \in Requests : req'[q] = req[q] \/ req'[q].pc = "count_users"
    BY <1>1 DEF SignInKnown, SignInUnknown, Idle, TypeOK
  <2> QED BY <1>1, <2>1, IdsKept DEF SignInKnown, SignInUnknown
<1>2. ASSUME NEW r \in Requests,
             \/ CountUsers(r) \/ CreateUser(r) \/ CreateUserRefused(r)
             \/ CountForRole(r) \/ SaveRole(r)
             \/ CountForDelete(r) \/ DeleteUser(r)
      PROVE  IdsIssued' /\ SweepOnlyAfterRemoval'
  <2>1. CASE CountUsers(r)
    BY <2>1 DEF CountUsers, TypeOK, Live
  <2>2. CASE CreateUser(r)
    <3>1. PICK id \in Ids \ issued :
            issued' = issued \cup {id} /\ Live' = Live \cup {id}
      BY <2>2, CreateUserEffect
    <3>2. \A q \in Requests : req'[q] = req[q] \/ req'[q].pc = "idle"
      BY <2>2 DEF CreateUser, Finish, Idle, TypeOK
    <3> QED BY <3>1, <3>2
  <2>3. CASE CreateUserRefused(r)
    BY <2>3 DEF CreateUserRefused, Finish, Idle, TypeOK, Live
  <2>4. CASE CountForRole(r)
    <3>1. \A q \in Requests : q # r => req'[q] = req[q]
      BY <2>4 DEF CountForRole, Finish, TypeOK
    <3>2. req'[r].pc \in {"idle", "save_role"}
      BY <2>4 DEF CountForRole, Finish, Idle, TypeOK, Request
    <3> QED BY <2>4, <3>1, <3>2, IdsKept DEF CountForRole
  <2>5. CASE SaveRole(r)
    <3>1. Live' = Live
      BY <2>5, SaveRoleEffect
    <3>2. \A q \in Requests : req'[q] = req[q] \/ req'[q].pc = "idle"
      BY <2>5 DEF SaveRole, Finish, Idle, TypeOK
    <3> QED BY <2>5, <3>1, <3>2 DEF SaveRole
  <2>6. CASE CountForDelete(r)
    <3>1. \A q \in Requests : q # r => req'[q] = req[q]
      BY <2>6 DEF CountForDelete, Finish, TypeOK
    <3>2. \/ req'[r].pc = "idle"
          \/ req'[r].pc = "delete_user" /\ req'[r].id = req[r].id
      BY <2>6 DEF CountForDelete, Finish, Idle, TypeOK, Request
    <3> QED BY <2>6, <3>1, <3>2, IdsKept DEF CountForDelete
  <2>7. CASE DeleteUser(r)
    <3>1. Live' = Live \ {req[r].id}
      BY <2>7, DeleteUserEffect
    <3>2. \A q \in Requests : q # r => req'[q] = req[q]
      BY <2>7 DEF DeleteUser, TypeOK
    <3>3. req'[r].pc = "sweep" /\ req'[r].id = req[r].id
      BY <2>7 DEF DeleteUser, TypeOK, Request
    <3>4. req[r].id \in issued
      BY <2>7 DEF DeleteUser
    <3>5. issued' = issued
      BY <2>7 DEF DeleteUser
    <3>6. IdsIssued'
      BY <3>1, <3>2, <3>3, <3>5
    <3>7. SweepOnlyAfterRemoval'
      BY <3>1, <3>2, <3>3, <3>4, <3>5
    <3> QED BY <3>6, <3>7
  <2> QED BY <1>2, <2>1, <2>2, <2>3, <2>4, <2>5, <2>6, <2>7
<1>3. ASSUME NEW r \in Requests, NEW actor \in Ids, NEW id \in Ids,
             NEW role \in Roles, FindForRole(r, actor, id, role)
      PROVE  IdsIssued' /\ SweepOnlyAfterRemoval'
  BY <1>3 DEF FindForRole, NextForRole, TypeOK, Live, Idle
<1>4. ASSUME NEW r \in Requests, NEW actor \in Ids, NEW id \in Ids,
             FindForErase(r, actor, id)
      PROVE  IdsIssued' /\ SweepOnlyAfterRemoval'
  BY <1>4 DEF FindForErase, NextForDelete, TypeOK, Live, Idle
<1>5. ASSUME NEW r \in Requests, NEW c \in Collections, Sweep(r, c)
      PROVE  IdsIssued' /\ SweepOnlyAfterRemoval'
  <2>1. \A q \in Requests : q # r => req'[q] = req[q]
    BY <1>5 DEF Sweep, Finish, TypeOK
  <2>2. \/ req'[r].pc = "idle"
        \/ req'[r].pc = "sweep" /\ req'[r].id = req[r].id
    BY <1>5 DEF Sweep, Finish, Idle, TypeOK, Request
  <2> QED BY <1>5, <2>1, <2>2, IdsKept DEF Sweep
<1>6. ASSUME NEW id \in Ids, EndSession(id)
      PROVE  IdsIssued' /\ SweepOnlyAfterRemoval'
  BY <1>6 DEF EndSession, Live
<1>7. CASE Restart
  BY <1>7 DEF Restart, Idle, Live
<1>8. CASE UNCHANGED vars
  BY <1>8 DEF vars, Live
<1> QED BY <1>1, <1>2, <1>3, <1>4, <1>5, <1>6, <1>7, <1>8, NextCases

-----------------------------------------------------------------------------
(* What countAdmins() > 1 tells the handler of request r. *)
LEMMA NotLastAdmin ==
  ASSUME ~ LastAdmin, NEW id
  PROVE  \E a \in Admins : a # id
<1> SUFFICES ASSUME \A a \in Admins : a = id PROVE FALSE
  OBVIOUS
<1>1. CASE Admins = {}
  BY <1>1, FS_EmptySet DEF LastAdmin
<1>2. CASE Admins # {}
  <2>1. Admins = {id}
    BY <1>2
  <2>2. Cardinality(Admins) = 1
    BY <2>1, FS_Singleton
  <2> QED BY <2>2 DEF LastAdmin
<1> QED BY <1>1, <1>2

(* Steps that leave accounts alone and take no request towards a removal. *)
LEMMA SerialKept ==
  ASSUME TypeOK, SerialInv, UNCHANGED <<account, overlapped>>,
         \A q \in Requests :
           \/ req'[q] = req[q]
           \/ req'[q].pc # "create" /\ ~ MayRemoveAdmin(q)'
  PROVE  SerialInv'
<1>1. Live' = Live /\ Admins' = Admins
  BY DEF Live, Admins
<1>2. \A q \in Requests : MayRemoveAdmin(q)' => MayRemoveAdmin(q)
  BY DEF MayRemoveAdmin
<1>3. \A q \in Requests : AboutToRemove(q)' => AboutToRemove(q) /\ req'[q] = req[q]
  BY DEF AboutToRemove, MayRemoveAdmin
<1> QED BY <1>1, <1>2, <1>3
   DEF SerialInv, AdminExists, OneRemover, LaterSignUp, AnotherAdmin

(* A step of r that leaves accounts alone and takes r from its count to its *)
(* write, allowed by a count that saw another administrator.                *)
LEMMA SerialCounted ==
  ASSUME TypeOK, SerialInv, UNCHANGED <<account, overlapped>>, ~ LastAdmin,
         NEW r \in Requests, MayRemoveAdmin(r) \/ ~ MayRemoveAdmin(r)',
         req'[r].pc # "create",
         \A q \in Requests : q # r => req'[q] = req[q]
  PROVE  SerialInv'
<1>1. Live' = Live /\ Admins' = Admins
  BY DEF Live, Admins
<1>2. \A q \in Requests : MayRemoveAdmin(q)' => MayRemoveAdmin(q)
  BY DEF MayRemoveAdmin
<1>3. \A q \in Requests \ {r} : AboutToRemove(q)' => AboutToRemove(q)
  BY DEF AboutToRemove
<1>4. \E a \in Admins : a # req'[r].id
  BY NotLastAdmin
<1> QED BY <1>1, <1>2, <1>3, <1>4
   DEF SerialInv, AdminExists, OneRemover, LaterSignUp, AnotherAdmin

(* A step in which r has found the account it may demote or delete. *)
LEMMA SerialFound ==
  ASSUME TypeOK, SerialInv, NEW r \in Requests, NEW id \in Live,
         UNCHANGED account, NoteOverlap(r),
         req'[r].id = id, req'[r].pc # "create",
         AboutToRemove(r)' => account[id].role # "admin",
         \A q \in Requests : q # r => req'[q] = req[q]
  PROVE  SerialInv'
<1>1. SUFFICES ASSUME ~ overlapped'
               PROVE  (AdminExists /\ OneRemover /\ LaterSignUp /\ AnotherAdmin)'
  BY DEF SerialInv
<1>2. ~ overlapped /\ \A q \in Requests \ {r} : ~ MayRemoveAdmin(q)
  BY <1>1 DEF NoteOverlap
<1>3. Live' = Live /\ Admins' = Admins
  BY DEF Live, Admins
<1>4. \A q \in Requests \ {r} : ~ MayRemoveAdmin(q)'
  BY <1>2 DEF MayRemoveAdmin
<1>5. \A q \in Requests \ {r} : ~ AboutToRemove(q)'
  BY <1>4 DEF MayRemoveAdmin, AboutToRemove
<1>6. AboutToRemove(r)' => \E a \in Admins : a # id
  BY <1>2 DEF SerialInv, AdminExists, Admins
<1> QED BY <1>2, <1>3, <1>4, <1>5, <1>6
   DEF SerialInv, AdminExists, OneRemover, LaterSignUp, AnotherAdmin

(* A new account leaves every administrator in place, and is one itself if *)
(* the count that preceded it saw no account.                              *)
LEMMA SerialCreated ==
  ASSUME TypeOK, IdsIssued, SerialInv, NEW r \in Requests, CreateUser(r)
  PROVE  SerialInv'
<1>1. SUFFICES ASSUME ~ overlapped
               PROVE  (AdminExists /\ OneRemover /\ LaterSignUp /\ AnotherAdmin)'
  BY DEF SerialInv, CreateUser
<1>2. PICK id \in Ids \ issued :
        /\ Live' = Live \cup {id}
        /\ account'[id] = [who |-> req[r].who, role |-> req[r].role]
        /\ \A a \in Live : a # id => account'[a] = account[a]
  BY CreateUserEffect
<1>3. Admins \subseteq Admins'
  BY <1>2 DEF Admins, IdsIssued
<1>4. Admins' # {}
  <2>1. CASE req[r].role = "admin"
    BY <1>2, <2>1 DEF Admins
  <2>2. CASE req[r].role # "admin"
    BY <1>1, <1>3, <2>2 DEF SerialInv, LaterSignUp, AdminExists, CreateUser
  <2> QED BY <2>1, <2>2
<1>5. \A q \in Requests : req'[q] = req[q] \/ req'[q].pc = "idle"
  BY DEF CreateUser, Finish, Idle, TypeOK
<1>6. \A q \in Requests : MayRemoveAdmin(q)' => MayRemoveAdmin(q)
  BY <1>5 DEF MayRemoveAdmin
<1>7. \A q \in Requests : AboutToRemove(q)' => AboutToRemove(q) /\ req'[q] = req[q]
  BY <1>5 DEF AboutToRemove
<1>8. LaterSignUp'
  BY <1>2, <1>5 DEF LaterSignUp
<1> QED BY <1>1, <1>3, <1>4, <1>6, <1>7, <1>8
   DEF SerialInv, AdminExists, OneRemover, AnotherAdmin

(* Removing, demoting or promoting one account, when another administrator *)
(* is known or the account does not lose the role.                         *)
LEMMA SerialWritten ==
  ASSUME TypeOK, SerialInv, NEW r \in Requests, UNCHANGED overlapped,
         Admins \ {req[r].id} \subseteq Admins',
         AboutToRemove(r) \/ Admins \subseteq Admins',
         Live = {} => Live' = {},
         ~ MayRemoveAdmin(r)', req'[r].pc # "create",
         AboutToRemove(r) => MayRemoveAdmin(r),
         \A q \in Requests : q # r => req'[q] = req[q]
  PROVE  SerialInv'
<1>1. SUFFICES ASSUME ~ overlapped
               PROVE  (AdminExists /\ OneRemover /\ LaterSignUp /\ AnotherAdmin)'
  BY DEF SerialInv
<1>2. \A q \in Requests : MayRemoveAdmin(q)' => q # r /\ MayRemoveAdmin(q)
  BY DEF MayRemoveAdmin
<1>3. \A q \in Requests :
        AboutToRemove(q)' => q # r /\ AboutToRemove(q) /\ MayRemoveAdmin(q)
  BY DEF MayRemoveAdmin, AboutToRemove
<1>4. Live # {} => Admins' # {}
  BY <1>1 DEF SerialInv, AdminExists, AnotherAdmin
<1>5. (\E q \in Requests : AboutToRemove(q)') => Admins \subseteq Admins'
  BY <1>1, <1>3 DEF SerialInv, OneRemover
<1>6. Admins' \subseteq Live'
  BY DEF Admins
<1> QED BY <1>1, <1>2, <1>3, <1>4, <1>5, <1>6
   DEF SerialInv, AdminExists, OneRemover, LaterSignUp, AnotherAdmin

(* The guard of setUserRole and deleteUser works while removals do not overlap. *)
LEMMA SerialStep ==
  TypeOK /\ IdsIssued /\ SerialInv /\ [Next]_vars => SerialInv'
<1> SUFFICES ASSUME TypeOK, IdsIssued, SerialInv, [Next]_vars PROVE SerialInv'
  OBVIOUS
<1>1. ASSUME NEW r \in Requests, NEW who \in Identities,
             SignInKnown(r, who) \/ SignInUnknown(r, who)
      PROVE  SerialInv'
  <2>1. \A q \in Requests : req'[q] = req[q] \/ req'[q].pc = "count_users"
    BY <1>1 DEF SignInKnown, SignInUnknown, Idle, TypeOK
  <2> QED BY <1>1, <2>1, SerialKept DEF SignInKnown, SignInUnknown, MayRemoveAdmin
<1>2. ASSUME NEW r \in Requests,
             \/ CountUsers(r) \/ CreateUser(r) \/ CreateUserRefused(r)
             \/ CountForRole(r) \/ SaveRole(r)
             \/ CountForDelete(r) \/ DeleteUser(r)
      PROVE  SerialInv'
  <2>1. CASE CountUsers(r)
    <3>1. Live' = Live /\ Admins' = Admins /\ overlapped' = overlapped
      BY <2>1 DEF CountUsers, Live, Admins
    <3>2. \A q \in Requests : q # r => req'[q] = req[q]
      BY <2>1 DEF CountUsers, TypeOK
    <3>3. req'[r].pc = "create" /\ req'[r].role = RoleOfNewUser
      BY <2>1 DEF CountUsers, TypeOK, Request
    <3>4. RoleOfNewUser # "admin" => Live # {}
      BY DEF RoleOfNewUser
    <3>5. \A q \in Requests : MayRemoveAdmin(q)' => MayRemoveAdmin(q)
      BY <3>2, <3>3 DEF MayRemoveAdmin
    <3>6. \A q \in Requests : AboutToRemove(q)' => AboutToRemove(q) /\ q # r
      BY <3>2, <3>3 DEF AboutToRemove
    <3> QED BY <3>1, <3>2, <3>3, <3>4, <3>5, <3>6
       DEF SerialInv, AdminExists, OneRemover, LaterSignUp, AnotherAdmin
  <2>2. CASE CreateUser(r)
    BY <2>2, SerialCreated
  <2>3. CASE CreateUserRefused(r)
    <3>1. \A q \in Requests : req'[q] = req[q] \/ req'[q].pc = "idle"
      BY <2>3 DEF CreateUserRefused, Finish, Idle, TypeOK
    <3> QED BY <2>3, <3>1, SerialKept DEF CreateUserRefused, MayRemoveAdmin
  <2>4. CASE CountForRole(r)
    <3>1. \A q \in Requests : q # r => req'[q] = req[q]
      BY <2>4 DEF CountForRole, Finish, TypeOK
    <3>2. CASE LastAdmin
      <4>1. req'[r].pc = "idle"
        BY <2>4, <3>2 DEF CountForRole, Finish, Idle, TypeOK
      <4> QED BY <2>4, <3>1, <4>1, SerialKept DEF CountForRole, MayRemoveAdmin
    <3>3. CASE ~ LastAdmin
      <4>1. req'[r].pc = "save_role" /\ req'[r].role = req[r].role
        BY <2>4, <3>3 DEF CountForRole, TypeOK, Request
      <4>2. MayRemoveAdmin(r) \/ ~ MayRemoveAdmin(r)'
        BY <2>4, <4>1 DEF CountForRole, MayRemoveAdmin
      <4> QED BY <2>4, <3>1, <3>3, <4>1, <4>2, SerialCounted DEF CountForRole
    <3> QED BY <3>2, <3>3
  <2>5. CASE SaveRole(r)
    <3>1. /\ Live' = Live
          /\ \A a \in Live : a # req[r].id => account'[a] = account[a]
          /\ req[r].id \in Live => account'[req[r].id].role = req[r].role
      BY <2>5, SaveRoleEffect
    <3>2. Admins \ {req[r].id} \subseteq Admins'
      BY <3>1 DEF Admins
    <3>3. req[r].role = "admin" => Admins \subseteq Admins'
      BY <3>1 DEF Admins
    <3>4. req'[r].pc = "idle" /\ \A q \in Requests : q # r => req'[q] = req[q]
      BY <2>5 DEF SaveRole, Finish, Idle, TypeOK
    <3>5. AboutToRemove(r) <=> req[r].role # "admin"
      BY <2>5 DEF SaveRole, AboutToRemove
    <3>6. AboutToRemove(r) => MayRemoveAdmin(r)
      BY DEF AboutToRemove, MayRemoveAdmin
    <3>7. ~ MayRemoveAdmin(r)'
      BY <3>4 DEF MayRemoveAdmin
    <3>8. UNCHANGED overlapped
      BY <2>5 DEF SaveRole
    <3> QED BY <3>1, <3>2, <3>3, <3>4, <3>5, <3>6, <3>7, <3>8, SerialWritten
  <2>6. CASE CountForDelete(r)
    <3>1. \A q \in Requests : q # r => req'[q] = req[q]
      BY <2>6 DEF CountForDelete, Finish, TypeOK
    <3>2. CASE LastAdmin
      <4>1. req'[r].pc = "idle"
        BY <2>6, <3>2 DEF CountForDelete, Finish, Idle, TypeOK
      <4> QED BY <2>6, <3>1, <4>1, SerialKept DEF CountForDelete, MayRemoveAdmin
    <3>3. CASE ~ LastAdmin
      <4>1. req'[r].pc = "delete_user"
        BY <2>6, <3>3 DEF CountForDelete, TypeOK, Request
      <4>2. MayRemoveAdmin(r)
        BY <2>6 DEF CountForDelete, MayRemoveAdmin
      <4> QED BY <2>6, <3>1, <3>3, <4>1, <4>2, SerialCounted DEF CountForDelete
    <3> QED BY <3>2, <3>3
  <2>7. CASE DeleteUser(r)
    <3>1. /\ Live' = Live \ {req[r].id}
          /\ \A a \in Live' : account'[a] = account[a]
      BY <2>7, DeleteUserEffect
    <3>2. Admins \ {req[r].id} \subseteq Admins'
      BY <3>1 DEF Admins
    <3>3. \A q \in Requests : q # r => req'[q] = req[q]
      BY <2>7 DEF DeleteUser, TypeOK
    <3>4. req'[r].pc = "sweep"
      BY <2>7 DEF DeleteUser, TypeOK, Request
    <3>5. AboutToRemove(r) /\ MayRemoveAdmin(r)
      BY <2>7 DEF DeleteUser, AboutToRemove, MayRemoveAdmin
    <3>6. ~ MayRemoveAdmin(r)'
      BY <3>4 DEF MayRemoveAdmin
    <3>7. UNCHANGED overlapped
      BY <2>7 DEF DeleteUser
    <3> QED BY <3>1, <3>2, <3>3, <3>4, <3>5, <3>6, <3>7, SerialWritten
  <2> QED BY <1>2, <2>1, <2>2, <2>3, <2>4, <2>5, <2>6, <2>7
<1>3. ASSUME NEW r \in Requests, NEW actor \in Ids, NEW id \in Ids,
             NEW role \in Roles, FindForRole(r, actor, id, role)
      PROVE  SerialInv'
  <2>1. \A q \in Requests : q # r => req'[q] = req[q]
    BY <1>3 DEF FindForRole, TypeOK
  <2>2. /\ req'[r].pc = NextForRole(account[id].role, role)
        /\ req'[r].id = id /\ req'[r].role = role
    BY <1>3 DEF FindForRole, TypeOK, Idle
  <2>3. req'[r].pc \in {"count_for_role", "save_role"}
    BY <2>2 DEF NextForRole
  <2>4. CASE role = "admin"
    <3>1. ~ MayRemoveAdmin(r)'
      BY <2>2, <2>3, <2>4 DEF MayRemoveAdmin
    <3> QED BY <1>3, <2>1, <2>3, <2>4, <3>1, SerialKept DEF FindForRole
  <2>5. CASE role # "admin"
    <3>1. AboutToRemove(r)' => account[id].role # "admin"
      BY <2>2, <2>5 DEF AboutToRemove, NextForRole
    <3> QED BY <1>3, <2>1, <2>2, <2>3, <2>5, <3>1, SerialFound DEF FindForRole
  <2> QED BY <2>4, <2>5
<1>4. ASSUME NEW r \in Requests, NEW actor \in Ids, NEW id \in Ids,
             FindForErase(r, actor, id)
      PROVE  SerialInv'
  <2>1. \A q \in Requests : q # r => req'[q] = req[q]
    BY <1>4 DEF FindForErase, TypeOK
  <2>2. req'[r].pc = NextForDelete(account[id].role) /\ req'[r].id = id
    BY <1>4 DEF FindForErase, TypeOK, Idle
  <2>3. AboutToRemove(r)' => account[id].role # "admin"
    BY <2>2 DEF AboutToRemove, NextForDelete
  <2>4. req'[r].pc # "create"
    BY <2>2 DEF NextForDelete
  <2> QED BY <1>4, <2>1, <2>2, <2>3, <2>4, SerialFound DEF FindForErase
<1>5. ASSUME NEW r \in Requests, NEW c \in Collections, Sweep(r, c)
      PROVE  SerialInv'
  <2>1. \A q \in Requests : q # r => req'[q] = req[q]
    BY <1>5 DEF Sweep, Finish, TypeOK
  <2>2. req'[r].pc \in {"idle", "sweep"}
    BY <1>5 DEF Sweep, Finish, Idle, TypeOK, Request
  <2> QED BY <1>5, <2>1, <2>2, SerialKept DEF Sweep, MayRemoveAdmin
<1>6. ASSUME NEW id \in Ids, EndSession(id) PROVE SerialInv'
  BY <1>6, SerialKept DEF EndSession
<1>7. CASE Restart
  <2>1. \A q \in Requests : req'[q].pc = "idle"
    BY <1>7 DEF Restart, Idle
  <2> QED BY <1>7, <2>1, SerialKept DEF Restart, MayRemoveAdmin
<1>8. CASE UNCHANGED vars
  BY <1>8, SerialKept DEF vars
<1> QED BY <1>1, <1>2, <1>3, <1>4, <1>5, <1>6, <1>7, <1>8, NextCases

-----------------------------------------------------------------------------
(* AccountsInv holds in every reachable state. *)
LEMMA Invariance == Spec => []AccountsInv
<1>1. AccountsInv /\ [Next]_vars => AccountsInv'
  BY TypeStep, OneAccountStep, IdsStep, SerialStep DEF AccountsInv
<1> QED BY <1>1, InitInv, PTL DEF Spec

(* Every variable keeps its type (the documents and request records of     *)
(* auth-service.ts).                                                       *)
THEOREM TypeCorrect == Spec => []TypeOK
<1>1. AccountsInv => TypeOK
  BY DEF AccountsInv
<1> QED BY <1>1, Invariance, PTL

(* However sign-ins interleave (auth-service.ts:38-54), no identity ever   *)
(* has two accounts.                                                       *)
THEOREM IdentityUnique == Spec => []OneAccountPerIdentity
<1>1. AccountsInv => OneAccountPerIdentity
  BY DEF AccountsInv
<1> QED BY <1>1, Invariance, PTL

(* The last-admin guard of setUserRole and deleteUser (auth-service.ts:77  *)
(* and 89) keeps an administrator, whatever else runs, as long as no two   *)
(* demotions or deletions are in flight at once.                           *)
THEOREM GuardSound == Spec => []SerialGuardKeepsAdmin
<1>1. AccountsInv => SerialGuardKeepsAdmin
  BY DEF AccountsInv, SerialInv, SerialGuardKeepsAdmin
<1> QED BY <1>1, Invariance, PTL

(* Data is deleted only for accounts that are gone for good                *)
(* (auth-service.ts:102-106).                                              *)
THEOREM SweepSound == Spec => []SweepOnlyAfterRemoval
<1>1. AccountsInv => SweepOnlyAfterRemoval
  BY DEF AccountsInv
<1> QED BY <1>1, Invariance, PTL

-----------------------------------------------------------------------------
(* Erasure: what it leaves behind and what it never touches.  A step of    *)
(* Erasure is a step of Accounts, or leaves its variables alone.           *)

(* A request that is about to insert knows for whom. *)
WritersKnow == \A w \in Writers : writer[w].pc # "idle" => writer[w].id \in Ids

ErasureInv ==
  /\ AccountsInv
  /\ ErasureTypeOK /\ WritersKnow
  /\ Orphans \subseteq dropped \cup late

(* A step of Accounts that leaves every pending sweep pending, and removes *)
(* an account only when it puts its sweeps up.                             *)
KeepsSweeps ==
  /\ \A c \in Collections, id \in Ids : SweepPending(c, id) => SweepPending(c, id)'
  /\ \A c \in Collections, id \in Live : id \in Live' \/ SweepPending(c, id)'

AccountStep ==
  \/ \E r \in Requests : SignIn(r) \/ SetUserRole(r) \/ RemoveUser(r)
  \/ \E id \in Ids : EndSession(id)

-----------------------------------------------------------------------------
LEMMA AccountsUnderneath == [ErasureNext]_evars => [Next]_vars
  BY DEF ErasureNext, Next, evars, SweepData, SweepFails, RestartAll, BeginTopology, BeginVersion,
         Insert, DeleteLastTopology

LEMMA AccountsKept == AccountsInv /\ [Next]_vars => AccountsInv'
  BY TypeStep, OneAccountStep, IdsStep, SerialStep DEF AccountsInv

(* No handler that sweeps is interrupted by a step of another. *)
LEMMA OthersKeepSweeps ==
  ASSUME TypeOK, NEW r \in Requests, req[r].pc # "sweep",
         \A q \in Requests \ {r} : req'[q] = req[q]
  PROVE  \A c \in Collections, id \in Ids : SweepPending(c, id) => SweepPending(c, id)'
  BY DEF SweepPending

LEMMA AccountStepKeepsSweeps ==
  ASSUME TypeOK, AccountStep
  PROVE  KeepsSweeps
<1>1. ASSUME NEW r \in Requests, SignIn(r) \/ SetUserRole(r) \/ RemoveUser(r)
      PROVE  /\ req[r].pc # "sweep" \/ UNCHANGED req
             /\ \A q \in Requests \ {r} : req'[q] = req[q]
  <2>1. \A n : req' = [req EXCEPT ![r] = n] => \A q \in Requests \ {r} : req'[q] = req[q]
    BY DEF TypeOK
  <2>2. CASE SignIn(r)
    BY <2>1, <2>2 DEF SignIn, SignInKnown, SignInUnknown, CountUsers, CreateUser,
                      CreateUserRefused, Finish
  <2>3. CASE SetUserRole(r)
    BY <2>1, <2>3 DEF SetUserRole, FindForRole, CountForRole, SaveRole, Finish
  <2>4. CASE RemoveUser(r)
    BY <2>1, <2>4 DEF RemoveUser, FindForErase, CountForDelete, DeleteUser, Finish
  <2> QED BY <1>1, <2>2, <2>3, <2>4
<1>2. \A c \in Collections, id \in Ids : SweepPending(c, id) => SweepPending(c, id)'
  <2>1. ASSUME UNCHANGED req
        PROVE  \A c \in Collections, id \in Ids : SweepPending(c, id) => SweepPending(c, id)'
    BY <2>1 DEF SweepPending
  <2>2. ASSUME NEW id \in Ids, EndSession(id) PROVE UNCHANGED req
    BY <2>2 DEF EndSession
  <2> QED BY <1>1, <2>1, <2>2, OthersKeepSweeps DEF AccountStep
<1>3. [Next]_vars
  BY DEF AccountStep, Next
<1>4. \A c \in Collections, id \in Live : id \in Live' \/ SweepPending(c, id)'
  <2>1. CASE UNCHANGED account
    BY <2>1 DEF Live
  <2>2. ASSUME NEW r \in Requests, CreateUser(r) PROVE Live \subseteq Live'
    BY <2>2, CreateUserEffect
  <2>3. ASSUME NEW r \in Requests, SaveRole(r) PROVE Live' = Live
    BY <2>3, SaveRoleEffect
  <2>4. ASSUME NEW r \in Requests, DeleteUser(r), NEW c \in Collections, NEW id \in Live,
               id \notin Live'
        PROVE  SweepPending(c, id)'
    <3>1. id = req[r].id
      BY <2>4, DeleteUserEffect
    <3>2. req'[r].pc = "sweep" /\ req'[r].id = req[r].id /\ req'[r].todo = Collections
      BY <2>4 DEF DeleteUser, TypeOK, Request
    <3> QED BY <2>4, <3>1, <3>2 DEF SweepPending
  <2> QED BY <1>3, <2>1, <2>2, <2>3, <2>4, AccountSteps
<1> QED BY <1>2, <1>4 DEF KeepsSweeps

(* One deleteMany: only its own sweep is done with, and the account it     *)
(* belonged to is gone.                                                    *)
LEMMA SweepEffect ==
  ASSUME AccountsInv, NEW r \in Requests, NEW c \in Collections, Sweep(r, c)
  PROVE  /\ Live' = Live /\ req[r].id \notin Live /\ req[r].id \in Ids
         /\ \A d \in Collections, id \in Ids :
              SweepPending(d, id) => SweepPending(d, id)' \/ (d = c /\ id = req[r].id)
<1>1. TypeOK /\ SweepOnlyAfterRemoval
  BY DEF AccountsInv
<1>2. req[r].id \notin Live /\ req[r].id \in Ids /\ Live' = Live
  BY <1>1 DEF Sweep, SweepOnlyAfterRemoval, TypeOK, InHand, Live
<1>3. \A q \in Requests \ {r} : req'[q] = req[q]
  BY <1>1 DEF Sweep, Finish, TypeOK
<1>4. ASSUME NEW d \in Collections, d \in req[r].todo, d # c
      PROVE  req'[r].pc = "sweep" /\ req'[r].id = req[r].id /\ d \in req'[r].todo
  <2>1. req[r].todo # {c} /\ req[r] \in Request
    BY <1>1, <1>4 DEF TypeOK
  <2>2. req' = [req EXCEPT ![r].todo = @ \ {c}] /\ req[r].pc = "sweep"
    BY <2>1 DEF Sweep
  <2> QED BY <1>1, <1>4, <2>1, <2>2 DEF TypeOK, Request
<1>5. ASSUME NEW d \in Collections, NEW id \in Ids, SweepPending(d, id),
             d # c \/ id # req[r].id
      PROVE  SweepPending(d, id)'
  <2>1. PICK q \in Requests : req[q].pc = "sweep" /\ req[q].id = id /\ d \in req[q].todo
    BY <1>5 DEF SweepPending
  <2>2. CASE q # r
    BY <1>3, <2>1, <2>2 DEF SweepPending
  <2>3. CASE q = r
    BY <1>4, <1>5, <2>1, <2>3 DEF SweepPending
  <2> QED BY <2>2, <2>3
<1> QED BY <1>2, <1>5

-----------------------------------------------------------------------------
LEMMA InitErasure == ErasureInit => ErasureInv
<1> SUFFICES ASSUME ErasureInit PROVE ErasureInv
  OBVIOUS
<1>1. AccountsInv
  BY InitInv DEF ErasureInit
<1>2. ErasureTypeOK /\ WritersKnow
  BY <1>1 DEF ErasureInit, ErasureTypeOK, WritersKnow, AccountsInv, Quiet, Write
<1>3. Orphans = {}
  BY DEF ErasureInit, Orphans
<1> QED BY <1>1, <1>2, <1>3 DEF ErasureInv

LEMMA ErasureTypeStep ==
  ASSUME ErasureInv, ErasureNext, TypeOK'
  PROVE  ErasureTypeOK' /\ WritersKnow'
<1> USE DEF ErasureInv, ErasureTypeOK, WritersKnow
<1>1. CASE UNCHANGED dataVars
  BY <1>1 DEF dataVars
<1>2. ASSUME NEW r \in Requests, NEW c \in Collections, SweepData(r, c)
      PROVE  ErasureTypeOK' /\ WritersKnow'
  BY <1>2 DEF SweepData
<1>7. ASSUME NEW r \in Requests, NEW c \in Collections, SweepFails(r, c)
      PROVE  ErasureTypeOK' /\ WritersKnow'
  <2>1. req[r].id \in Ids
    BY <1>7 DEF SweepFails, Sweep, ErasureInv, AccountsInv, TypeOK, InHand
  <2> QED BY <1>7, <2>1 DEF SweepFails
<1>3. ASSUME NEW w \in Writers, NEW id \in Ids, BeginTopology(w, id) \/ BeginVersion(w, id)
      PROVE  ErasureTypeOK' /\ WritersKnow'
  BY <1>3 DEF BeginTopology, BeginVersion, Write
<1>4. ASSUME NEW w \in Writers, Insert(w) PROVE ErasureTypeOK' /\ WritersKnow'
  <2>1. writer[w].pc \in Collections /\ writer[w].id \in Ids
    BY <1>4 DEF Insert, Write, Collections
  <2>2. <<writer[w].pc, writer[w].id>> \in Collections \X Ids
    BY <2>1
  <2>3. late' \subseteq Collections \X Ids
    BY <1>4, <2>2 DEF Insert
  <2>4. data' \in [Collections -> SUBSET Ids]
    BY <1>4, <2>1 DEF Insert
  <2>5. writer' \in [Writers -> Write] /\ \A v \in Writers : writer'[v] = Quiet \/ writer'[v] = writer[v]
    BY <1>4 DEF Insert, Quiet, Write
  <2> QED BY <1>4, <2>3, <2>4, <2>5 DEF Insert, Quiet
<1>5. ASSUME NEW id \in Ids, DeleteLastTopology(id) PROVE ErasureTypeOK' /\ WritersKnow'
  BY <1>5 DEF DeleteLastTopology, Collections
<1>6. CASE RestartAll
  BY <1>6 DEF RestartAll, Quiet, Write
<1> QED BY <1>1, <1>2, <1>3, <1>4, <1>5, <1>6, <1>7 DEF ErasureNext

LEMMA OrphansStep ==
  ASSUME ErasureInv, ErasureNext, NEW p \in Orphans'
  PROVE  p \in dropped' \cup late'
<1> DEFINE c == p[1]
           id == p[2]
<1>1. /\ p \in Collections \X Ids /\ c \in Collections /\ id \in Ids /\ p = <<c, id>>
      /\ id \in data'[c] /\ id \notin Live' /\ ~ SweepPending(c, id)'
  BY DEF Orphans
<1>2. TypeOK /\ AccountsInv /\ data \in [Collections -> SUBSET Ids]
  BY DEF ErasureInv, ErasureTypeOK
<1>3. id \in data[c] /\ id \notin Live /\ ~ SweepPending(c, id) => p \in dropped \cup late
  BY <1>1 DEF ErasureInv, Orphans
<1> HIDE DEF c, id
<1>4. CASE AccountStep /\ UNCHANGED dataVars
  <2>1. KeepsSweeps
    BY <1>2, <1>4, AccountStepKeepsSweeps
  <2> QED BY <1>1, <1>3, <1>4, <2>1 DEF KeepsSweeps, dataVars
<1>5. ASSUME NEW r \in Requests, NEW d \in Collections, SweepData(r, d)
      PROVE  p \in dropped' \cup late'
  <2>1. /\ Live' = Live
        /\ SweepPending(c, id) => SweepPending(c, id)' \/ (c = d /\ id = req[r].id)
    BY <1>1, <1>2, <1>5, SweepEffect DEF SweepData
  <2>2. id \in data[c] /\ ~ (c = d /\ id = req[r].id)
    BY <1>1, <1>2, <1>5 DEF SweepData
  <2> QED BY <1>1, <1>3, <1>5, <2>1, <2>2 DEF SweepData
<1>10. ASSUME NEW r \in Requests, NEW d \in Collections, SweepFails(r, d)
       PROVE  p \in dropped' \cup late'
  <2>1. /\ Live' = Live
        /\ SweepPending(c, id) => SweepPending(c, id)' \/ (c = d /\ id = req[r].id)
    BY <1>1, <1>2, <1>10, SweepEffect DEF SweepFails
  <2>2. CASE c = d /\ id = req[r].id
    BY <1>1, <1>10, <2>2 DEF SweepFails
  <2>3. CASE ~ (c = d /\ id = req[r].id)
    BY <1>1, <1>3, <1>10, <2>1, <2>3 DEF SweepFails
  <2> QED BY <2>2, <2>3
<1>6. ASSUME NEW w \in Writers, NEW i \in Ids, BeginTopology(w, i) \/ BeginVersion(w, i)
      PROVE  p \in dropped' \cup late'
  BY <1>1, <1>3, <1>6 DEF BeginTopology, BeginVersion, vars, Live, SweepPending
<1>7. ASSUME NEW w \in Writers, Insert(w)
      PROVE  p \in dropped' \cup late'
  <2>1. Live' = Live /\ (SweepPending(c, id) <=> SweepPending(c, id)') /\ dropped' = dropped
        /\ late \subseteq late'
    BY <1>7 DEF Insert, vars, Live, SweepPending
  <2>2. CASE id \in data[c]
    BY <1>1, <1>3, <2>1, <2>2
  <2>3. CASE id \notin data[c]
    <3>1. c = writer[w].pc /\ id = writer[w].id
      BY <1>1, <1>2, <1>7, <2>3 DEF Insert
    <3>2. <<c, id>> \in late'
      BY <1>1, <1>7, <2>1, <3>1 DEF Insert
    <3> QED BY <1>1, <3>2
  <2> QED BY <2>2, <2>3
<1>8. ASSUME NEW i \in Ids, DeleteLastTopology(i)
      PROVE  p \in dropped' \cup late'
  <2>1. Live' = Live /\ (SweepPending(c, id) <=> SweepPending(c, id)')
        /\ UNCHANGED <<dropped, late>>
    BY <1>8 DEF DeleteLastTopology, vars, Live, SweepPending
  <2>2. id \in data[c]
    BY <1>1, <1>2, <1>8 DEF DeleteLastTopology
  <2> QED BY <1>1, <1>3, <2>1, <2>2
<1>9. CASE RestartAll
  <2>1. Live' = Live /\ UNCHANGED <<data, late>>
        /\ dropped' = dropped \cup {q \in Collections \X Ids : SweepPending(q[1], q[2])}
    BY <1>9 DEF RestartAll, Restart, Live
  <2>2. CASE SweepPending(c, id)
    BY <1>1, <2>1, <2>2
  <2>3. CASE ~ SweepPending(c, id)
    BY <1>1, <1>3, <2>1, <2>3
  <2> QED BY <2>2, <2>3
<1> QED BY <1>4, <1>5, <1>6, <1>7, <1>8, <1>9, <1>10 DEF ErasureNext, AccountStep

LEMMA ErasureStep == ErasureInv /\ [ErasureNext]_evars => ErasureInv'
<1> SUFFICES ASSUME ErasureInv, [ErasureNext]_evars PROVE ErasureInv'
  OBVIOUS
<1>1. AccountsInv' /\ TypeOK'
  BY AccountsUnderneath, AccountsKept DEF ErasureInv, AccountsInv
<1>2. CASE ErasureNext
  <2>1. Orphans' \subseteq dropped' \cup late'
    BY <1>2, OrphansStep
  <2> QED BY <1>1, <1>2, <2>1, ErasureTypeStep DEF ErasureInv
<1>3. CASE UNCHANGED evars
  <2>1. Orphans' = Orphans
    BY <1>3 DEF evars, vars, dataVars, Orphans, Live, SweepPending
  <2> QED
    BY <1>1, <1>3, <2>1 DEF evars, dataVars, ErasureInv, ErasureTypeOK, WritersKnow
<1> QED BY <1>2, <1>3

LEMMA ErasureInvariance == ErasureSpec => []ErasureInv
  BY InitErasure, ErasureStep, PTL DEF ErasureSpec

-----------------------------------------------------------------------------
(* The erasure sequence of auth-service.ts:117-120 overlooks no document:  *)
(* what an erased account leaves behind was dropped by a restart of the    *)
(* server or refused by the database, or written by a session that         *)
(* outlived the account.                                                   *)
THEOREM ErasureSound == ErasureSpec => []OrphansExplained
<1>1. ErasureInv => OrphansExplained
  BY DEF ErasureInv, OrphansExplained
<1> QED BY <1>1, ErasureInvariance, PTL

(* No sweep takes anything from an account that exists: its documents go   *)
(* only when its own session deletes a topology (auth-service.ts:102-106). *)
THEOREM LiveDataSafe == ErasureSpec => LiveDataOnlyLeavesByOwner
<1> DEFINE Kept == \A c \in Collections : \A id \in data[c] \cap Live :
                     id \notin data'[c] => c = "topologies" /\ MayModify(id)
<1>1. ASSUME ErasureInv, ErasureNext PROVE Kept
  <2> SUFFICES ASSUME NEW c \in Collections, NEW id \in data[c] \cap Live,
                      id \notin data'[c]
               PROVE  c = "topologies" /\ MayModify(id)
    OBVIOUS
  <2>1. data \in [Collections -> SUBSET Ids] /\ AccountsInv
    BY <1>1 DEF ErasureInv, ErasureTypeOK
  <2>2. data' # data
    OBVIOUS
  <2>3. ASSUME NEW r \in Requests, NEW d \in Collections, SweepData(r, d) PROVE FALSE
    <3>1. req[r].id \notin Live
      BY <2>1, <2>3, SweepEffect DEF SweepData
    <3> QED BY <2>1, <2>3, <3>1 DEF SweepData
  <2>4. ASSUME NEW w \in Writers, Insert(w) PROVE FALSE
    BY <2>1, <2>4 DEF Insert
  <2>5. ASSUME NEW i \in Ids, DeleteLastTopology(i) PROVE c = "topologies" /\ MayModify(id)
    BY <2>1, <2>5 DEF DeleteLastTopology
  <2> QED
    BY <1>1, <2>2, <2>3, <2>4, <2>5 DEF ErasureNext, dataVars, BeginTopology, BeginVersion,
                                        RestartAll, SweepFails
<1>2. ErasureInv /\ [ErasureNext]_evars => [Kept]_evars
  BY <1>1
<1> QED
  BY <1>2, ErasureInvariance, PTL DEF ErasureSpec, LiveDataOnlyLeavesByOwner
=============================================================================
