------------------------------ MODULE Accounts ------------------------------
(***************************************************************************)
(* Accounts, roles and sessions of the NetViz server.                      *)
(*                                                                         *)
(* services/auth-service.ts reads and writes the users collection with one *)
(* awaited database call at a time; between two awaits any other request   *)
(* may run.  Every awaited call is one action here, and the values a       *)
(* handler keeps in local variables across an await (the account it found, *)
(* the role a new account will get) are fields of its request record.      *)
(*                                                                         *)
(* Sessions are stateless JWTs (lib/jwt.ts): session[id] is the role claim *)
(* that the account's browsers hold, which nothing refreshes when the      *)
(* stored role changes or the account goes.                                *)
(***************************************************************************)
EXTENDS Naturals, FiniteSets

CONSTANTS
  Ids,          \* the uuids the server may hand out (bounds the sign-ups)
  Identities,   \* (provider, providerId) pairs that people sign in with
  Requests,     \* requests that may be in flight at the same time
  None          \* no account, no session, unused request field

Roles == {"admin", "editor", "viewer"}

Collections == {"topologies", "versions"}

User == [who : Identities, role : Roles]

ASSUME NoneAssumption ==
  None \notin User \cup Ids \cup Identities \cup Roles

VARIABLES
  account,      \* the users collection: id -> document, None if absent
  issued,       \* ids ever handed out (uuidv4 never repeats)
  session,      \* id -> role claim of the JWT its browser holds, or None
  req,          \* request -> where its handler stands and what it has read
  overlapped    \* history: two demotions or deletions were in flight at once

vars == <<account, issued, session, req, overlapped>>

-----------------------------------------------------------------------------

Live   == {id \in Ids : account[id] # None}
Admins == {id \in Live : account[id].role = "admin"}

(* The documents findOne({provider, providerId}) can return. *)
Holders(who) == {id \in Live : account[id].who = who}

Idle == [pc |-> "idle", id |-> None, who |-> None, role |-> None, todo |-> {}]

(* pc names the database call the handler awaits next. *)
Phases == {"idle", "count_users", "create", "count_for_role", "save_role",
           "count_for_delete", "delete_user", "sweep"}

Request == [pc : Phases, id : Ids \cup {None}, who : Identities \cup {None},
            role : Roles \cup {None}, todo : SUBSET Collections]

(* A request that may take an admin away and has read the account it works *)
(* on, but has not yet written.                                            *)
MayRemoveAdmin(q) ==
  \/ req[q].pc \in {"count_for_delete", "delete_user"}
  \/ req[q].pc \in {"count_for_role", "save_role"} /\ req[q].role # "admin"

Finish(r) == req' = [req EXCEPT ![r] = Idle]

Init ==
  /\ account = [id \in Ids |-> None]
  /\ issued = {}
  /\ session = [id \in Ids |-> None]
  /\ req = [r \in Requests |-> Idle]
  /\ overlapped = FALSE

-----------------------------------------------------------------------------
(* Signing in: devLogin and the OAuth callback, through findOrCreateUser.  *)

(* The identity has an account: its stored role goes into a fresh JWT. *)
SignInKnown(r, who) ==
  /\ req[r].pc = "idle"
  /\ \E id \in Holders(who) :
       session' = [session EXCEPT ![id] = account[id].role]
  /\ UNCHANGED <<account, issued, req, overlapped>>

SignInUnknown(r, who) ==
  /\ req[r].pc = "idle"
  /\ Holders(who) = {}
  /\ req' = [req EXCEPT ![r] = [Idle EXCEPT !.pc = "count_users", !.who = who]]
  /\ UNCHANGED <<account, issued, session, overlapped>>

(* Faulty variant: the first account gets a role that does not exist. *)
RootForFirst == IF Live = {} THEN "root" ELSE "editor"

RoleOfNewUser == IF Live = {} THEN "admin" ELSE "editor"

CountUsers(r) ==
  /\ req[r].pc = "count_users"
  /\ req' = [req EXCEPT ![r].pc = "create", ![r].role = RoleOfNewUser]
  /\ UNCHANGED <<account, issued, session, overlapped>>

(* Faulty variant: no unique index. *)
NeverTaken(who) == who \notin Identities

(* The unique index on (provider, providerId) refuses a second document. *)
IdentityTaken(who) == Holders(who) # {}

CreateUser(r) ==
  /\ req[r].pc = "create"
  /\ ~ IdentityTaken(req[r].who)
  /\ \E id \in Ids \ issued :
       /\ account' = [account EXCEPT ![id] =
                         [who |-> req[r].who, role |-> req[r].role]]
       /\ issued' = issued \cup {id}
       /\ session' = [session EXCEPT ![id] = req[r].role]
  /\ Finish(r)
  /\ UNCHANGED overlapped

CreateUserRefused(r) ==
  /\ req[r].pc = "create"
  /\ IdentityTaken(req[r].who)
  /\ Finish(r)
  /\ UNCHANGED <<account, issued, session, overlapped>>

(* Sign-out drops the cookie; expiry (jwtTtl) makes the server refuse it. *)
EndSession(id) ==
  /\ session[id] # None
  /\ session' = [session EXCEPT ![id] = None]
  /\ UNCHANGED <<account, issued, req, overlapped>>

-----------------------------------------------------------------------------
(* PATCH /api/users/:id, admin only: setUserRole.  requireRole looks at the *)
(* JWT's claim; the handler then reads the target account.  A target that   *)
(* is gone is a 404 and leaves no trace.                                    *)

AuthorisedAdmin(actor) == session[actor] = "admin"

(* What setUserRole does next, from the role it read and the one asked for. *)
NextForRole(current, role) ==
  IF current = "admin" /\ role # "admin" THEN "count_for_role" ELSE "save_role"

NoteOverlap(r) ==
  overlapped' = (overlapped \/ \E q \in Requests \ {r} : MayRemoveAdmin(q))

FindForRole(r, actor, id, role) ==
  /\ req[r].pc = "idle"
  /\ AuthorisedAdmin(actor)
  /\ id \in Live
  /\ req' = [req EXCEPT ![r] =
       [Idle EXCEPT !.pc = NextForRole(account[id].role, role),
                    !.id = id, !.role = role]]
  /\ IF role = "admin" THEN UNCHANGED overlapped ELSE NoteOverlap(r)
  /\ UNCHANGED <<account, issued, session>>

(* Faulty variant: the last administrator is not counted. *)
NoAdmin == Cardinality(Admins) < 1

LastAdmin == Cardinality(Admins) <= 1

CountForRole(r) ==
  /\ req[r].pc = "count_for_role"
  /\ IF LastAdmin THEN Finish(r)
                  ELSE req' = [req EXCEPT ![r].pc = "save_role"]
  /\ UNCHANGED <<account, issued, session, overlapped>>

(* save() of a document deleted meanwhile fails and creates nothing. *)
SaveRole(r) ==
  /\ req[r].pc = "save_role"
  /\ IF req[r].id \in Live
     THEN account' = [account EXCEPT ![req[r].id].role = req[r].role]
     ELSE UNCHANGED account
  /\ Finish(r)
  /\ UNCHANGED <<issued, session, overlapped>>

-----------------------------------------------------------------------------
(* DELETE /api/users/:id (admin) and DELETE /api/me (the account itself):   *)
(* eraseUserAndOwnedData, which is deleteUser and then deleteAllTopologies. *)

MayErase(actor, id) ==
  \/ AuthorisedAdmin(actor)
  \/ actor = id /\ session[id] # None

NextForDelete(current) ==
  IF current = "admin" THEN "count_for_delete" ELSE "delete_user"

FindForErase(r, actor, id) ==
  /\ req[r].pc = "idle"
  /\ MayErase(actor, id)
  /\ id \in Live
  /\ req' = [req EXCEPT ![r] =
       [Idle EXCEPT !.pc = NextForDelete(account[id].role), !.id = id]]
  /\ NoteOverlap(r)
  /\ UNCHANGED <<account, issued, session>>

CountForDelete(r) ==
  /\ req[r].pc = "count_for_delete"
  /\ IF LastAdmin THEN Finish(r)
                  ELSE req' = [req EXCEPT ![r].pc = "delete_user"]
  /\ UNCHANGED <<account, issued, session, overlapped>>

(* Faulty variant: the data goes first and the account stays till later. *)
SweepBeforeDelete(r) ==
  /\ req[r].pc = "delete_user"
  /\ req' = [req EXCEPT ![r].pc = "sweep", ![r].todo = Collections]
  /\ UNCHANGED <<account, issued, session, overlapped>>

(* deleteOne of a document that is already gone is not an error. *)
DeleteUser(r) ==
  /\ req[r].pc = "delete_user"
  /\ account' = [account EXCEPT ![req[r].id] = None]
  /\ req' = [req EXCEPT ![r].pc = "sweep", ![r].todo = Collections]
  /\ UNCHANGED <<issued, session, overlapped>>

(* Promise.all issues both deleteMany calls; they finish in either order.  *)
(* DELETE /api/me then clears the cookie of the browser that asked, which  *)
(* may or may not be the last one signed in to the account.                *)
Sweep(r, c) ==
  /\ req[r].pc = "sweep"
  /\ c \in req[r].todo
  /\ \/ /\ req[r].todo # {c}
        /\ req' = [req EXCEPT ![r].todo = @ \ {c}]
        /\ UNCHANGED session
     \/ /\ req[r].todo = {c}
        /\ Finish(r)
        /\ session' \in {session, [session EXCEPT ![req[r].id] = None]}
  /\ UNCHANGED <<account, issued, overlapped>>

-----------------------------------------------------------------------------
(* A crash or redeployment drops every handler; documents and JWTs stay. *)
Restart ==
  /\ req # [r \in Requests |-> Idle]
  /\ req' = [r \in Requests |-> Idle]
  /\ UNCHANGED <<account, issued, session, overlapped>>

SignIn(r) ==
  \/ \E who \in Identities : SignInKnown(r, who) \/ SignInUnknown(r, who)
  \/ CountUsers(r)
  \/ CreateUser(r)
  \/ CreateUserRefused(r)

SetUserRole(r) ==
  \/ \E actor, id \in Ids, role \in Roles : FindForRole(r, actor, id, role)
  \/ CountForRole(r)
  \/ SaveRole(r)

RemoveUser(r) ==
  \/ \E actor, id \in Ids : FindForErase(r, actor, id)
  \/ CountForDelete(r)
  \/ DeleteUser(r)

Next ==
  \/ \E r \in Requests : SignIn(r) \/ SetUserRole(r) \/ RemoveUser(r)
  \/ \E r \in Requests, c \in Collections : Sweep(r, c)
  \/ \E id \in Ids : EndSession(id)
  \/ Restart

Spec == Init /\ [][Next]_vars

-----------------------------------------------------------------------------
(* What a handler has in hand at each of its awaits. *)
InHand(q) ==
  /\ q.pc \in {"count_users", "create"} => q.who \in Identities
  /\ q.pc \in {"create", "count_for_role", "save_role"} => q.role \in Roles
  /\ q.pc \in {"count_for_role", "save_role", "count_for_delete", "delete_user",
               "sweep"} => q.id \in Ids

TypeOK ==
  /\ account \in [Ids -> User \cup {None}]
  /\ issued \subseteq Ids
  /\ session \in [Ids -> Roles \cup {None}]
  /\ req \in [Requests -> Request]
  /\ \A r \in Requests : InHand(req[r])
  /\ overlapped \in BOOLEAN

(* Two people cannot end up with two accounts for one identity, however    *)
(* their first sign-ins interleave (the index of user.model.ts:26 and the  *)
(* failing create of auth-service.ts:42).                                  *)
OneAccountPerIdentity ==
  \A a, b \in Live : account[a].who = account[b].who => a = b

(* As long as there is any account, somebody can administer the instance   *)
(* (auth-service.ts:73 and 85, "no lock-out").                             *)
AdminExists == Live # {} => Admins # {}

(* The guard of setUserRole and deleteUser does keep an administrator as   *)
(* long as no two demotions or deletions were in flight at the same time,  *)
(* whatever sign-ins, promotions and restarts run beside them.             *)
SerialGuardKeepsAdmin == ~ overlapped => AdminExists

(* Only a handler whose deleteUser has gone through may delete data: no    *)
(* account that still exists, or will exist again, has its data swept      *)
(* (the order the comment of auth-service.ts:102-106 asks for).            *)
SweepOnlyAfterRemoval ==
  \A r \in Requests : req[r].pc = "sweep" => req[r].id \in issued \ Live

(* An administrator who was demoted or deleted is refused by the very next *)
(* administrative request (account-lifecycle.md, section 5).               *)
DemotedLosesAdmin ==
  [][\A r \in Requests, actor, id \in Ids, role \in Roles :
       FindForRole(r, actor, id, role) => actor \in Admins]_vars
=============================================================================
