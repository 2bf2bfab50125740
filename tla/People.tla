------------------------------- MODULE People -------------------------------
(***************************************************************************)
(* What the API keeps about people: the platform's users and their roles,  *)
(* their links to projects, the accounts tracked in a project and the      *)
(* notes of performance reviews (resolvers.ts, auth.ts,                    *)
(* performanceReviewService.ts).  ImportUsers and ReviewView are the pages *)
(* through which an administrator or manager changes them.                 *)
(*                                                                         *)
(* A Jira account and the user made of it are one value; Admins are users  *)
(* without an account.                                                     *)
(***************************************************************************)
EXTENDS Integers, FiniteSets

CONSTANTS
  Projects, Accounts, Admins,
  UserRoles,   \* ADMIN, MANAGER and USER; what is here asks only who is ADMIN
  Seed,        \* the user with ADMIN_EMAIL
  Me,          \* the administrator whose browser tab ImportUsers and ReviewView model
  Assignable,  \* the accounts that may be assigned issues, per project
  Tracked,     \* the accounts tracked at first, per project
  Handled,     \* bound: the users that are mapped by hand
  None

ASSUME PeopleAssumption ==
  /\ {Seed, Me} \subseteq Admins /\ Handled \subseteq Accounts \cup Admins /\ Admins \cap Accounts = {}
  /\ Assignable \in [Projects -> SUBSET Accounts] /\ Tracked \in [Projects -> SUBSET Accounts]
  /\ "ADMIN" \in UserRoles /\ None \notin Accounts \cup Admins \cup Projects \cup UserRoles

VARIABLES
  role,      \* of the users; None for an account that no user was made of
  link,      \* the Jira account a user is linked with, per project
  tracked,   \* the rows of ProjectTrackedUser, per project
  notes,     \* per teammate of a project, whom the text of its PerformanceReviewNote is about
  changing,  \* of the users, an updateUserRole request that passed the check of the requester
  contested  \* history: two changes of roles were under way at once

server == <<role, link, tracked, notes, changing, contested>>

Users == Accounts \cup Admins
Keys == Projects \X Accounts
IsAdmin(u) == role[u] = "ADMIN"

ServerInit ==
  /\ role = [u \in Users |-> IF u \in Admins THEN "ADMIN" ELSE None]
  /\ link = [u \in Users |-> [p \in Projects |-> None]]
  /\ tracked = Tracked
  /\ notes = [k \in Keys |-> None]
  /\ changing = [a \in Users |-> None] /\ contested = FALSE

(* updateUserRole: the request carries who sent it and their role then.    *)
MayChangeAnyone(a, u) == IsAdmin(a)
MayChange(a, u) == IsAdmin(a) /\ a # u

RequestRole(a, u, r) ==
  /\ changing[a] = None /\ MayChange(a, u) /\ role[u] # None
  /\ changing' = [changing EXCEPT ![a] = [user |-> u, role |-> r]]
  /\ contested' = (contested \/ \E b \in Users : changing[b] # None)
  /\ UNCHANGED <<role, link, tracked, notes>>

UpdateUserRole(a) ==
  /\ changing[a] # None
  /\ role' = [role EXCEPT ![changing[a].user] = changing[a].role]
  /\ changing' = [changing EXCEPT ![a] = None]
  /\ UNCHANGED <<link, tracked, notes, contested>>

SeedAdminUser ==
  /\ role' = [role EXCEPT ![Seed] = "ADMIN"]
  /\ UNCHANGED <<link, tracked, notes, changing, contested>>

(* createUser; whether its invitation is sent shows only in the answer.    *)
CanCreate(u) == IsAdmin(Me) /\ role[u] = None
CreateUser(u) ==
  /\ \E r \in UserRoles : role' = [role EXCEPT ![u] = r]
  /\ UNCHANGED <<link, tracked, notes, changing, contested>>

MapUserToProject(u, p, account) ==
  /\ link' = [link EXCEPT ![u][p] = account]
  /\ UNCHANGED <<role, tracked, notes, changing, contested>>

UnlinkUserFromProject(u, p) ==
  /\ link[u][p] # None
  /\ link' = [link EXCEPT ![u][p] = None]
  /\ UNCHANGED <<role, tracked, notes, changing, contested>>

(* Unselected rows are deleted, which a note on one of them forbids.       *)
Deletable(p, accounts) == \A a \in accounts : notes[<<p, a>>] = None
SetProjectTrackedUsers(p, chosen) ==
  /\ chosen # tracked[p] /\ Deletable(p, tracked[p] \ chosen)
  /\ tracked' = [tracked EXCEPT ![p] = chosen]
  /\ UNCHANGED <<role, link, notes, changing, contested>>

(* The requests of the review page: the row and the access to its project. *)
MayReview(k) == k[2] \in tracked[k[1]] /\ (IsAdmin(Me) \/ link[Me][k[1]] # None)

SavePerformanceNote(k, text) ==
  /\ notes' = [notes EXCEPT ![k] = text]
  /\ UNCHANGED <<role, link, tracked, changing, contested>>

AskForRole == \E a, u \in Users, r \in UserRoles : RequestRole(a, u, r)
ChangeRoles == SeedAdminUser \/ \E a \in Users : UpdateUserRole(a)

(* CreateUserModal, MapUserModal, the table of mappings and                *)
(* ProjectUsersModal, of any administrator                                 *)
MakeUser == \E u \in Users : role[u] = None /\ CreateUser(u)
MapUser ==
  \E u \in Handled, p \in Projects : \E a \in tracked[p] : role[u] # None /\ MapUserToProject(u, p, a)
Unlink == \E u \in Users, p \in Projects : UnlinkUserFromProject(u, p)
SetTrackedUsers ==
  \E p \in Projects : \E chosen \in SUBSET (Assignable[p] \cup tracked[p]) : SetProjectTrackedUsers(p, chosen)

EditPeople(kind) ==
  /\ \E a \in Users : IsAdmin(a)
  /\ \/ kind = "users" /\ MakeUser
     \/ kind = "links" /\ (MapUser \/ Unlink)
     \/ kind = "rows" /\ SetTrackedUsers
-----------------------------------------------------------------------------
(* There is always an administrator: nobody can take their own role away,  *)
(* and only an administrator can take another's; two requests that crossed *)
(* may still take each other's, until the API is started again             *)
(* (updateUserRole checks the requester before the update).                *)
AdminRemains == contested \/ \E u \in Users : IsAdmin(u)
=============================================================================
