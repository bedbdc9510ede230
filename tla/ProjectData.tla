----------------------------- MODULE ProjectData -----------------------------
(***************************************************************************)
(* The rows of one project that its members' requests share: the project,  *)
(* its roles (UserRole), and the place of each request's handler between   *)
(* two awaits.  Membership and TaskBoard extend it, Workspace composes     *)
(* them.                                                                   *)
(*                                                                         *)
(* A request makes at most one row of a table; the others were there       *)
(* before.                                                                 *)
(***************************************************************************)
EXTENDS Naturals, FiniteSets, Handlers

CONSTANTS
  Users,
  Creator,       \* the user who created the project: Project.ownerId
  OwnerRow, MemberRow,   \* roles that POST /projects made
  NoRole, NoRow, NoUser

ASSUME ProjectAssumption ==
  /\ Creator \in Users
  /\ OwnerRow # MemberRow
  /\ {OwnerRow, MemberRow} \cap Requests = {}
  /\ NoRow \notin {OwnerRow, MemberRow} \cup Requests
  /\ NoUser \notin Users

Rows  == {OwnerRow, MemberRow} \cup Requests
Kinds == {"PROJECT_OWNER", "PROJECT_MANAGER", "EMPLOYEE"}

VARIABLES
  project,    \* "live" or "deleted"
  role        \* UserRole, by id

shared == <<project, role>>

Live(x)     == role[x] # NoRole
RolesOf(u)  == {x \in Rows : Live(x) /\ role[x].user = u}
OwnerRows   == {x \in Rows : Live(x) /\ role[x].kind = "PROJECT_OWNER"}
Holds(u, K) == \E x \in RolesOf(u) : role[x].kind \in K

(* checkProjectAccess: the creator, or whoever holds an ACTIVE role.       *)
HasAccess(u) == \/ u = Creator
                \/ \E x \in RolesOf(u) : role[x].status = "ACTIVE"

(* checkProjectRole: the primary role of a user who has access.            *)
HasProjectRole(u, K) ==
  /\ HasAccess(u)
  /\ \/ u = Creator \/ Holds(u, {"PROJECT_OWNER"})
     \/ ~Holds(u, {"PROJECT_OWNER"}) /\ "PROJECT_MANAGER" \in K
          /\ Holds(u, {"PROJECT_MANAGER"})
     \/ ~Holds(u, {"PROJECT_OWNER", "PROJECT_MANAGER"}) /\ "EMPLOYEE" \in K
          /\ Holds(u, {"EMPLOYEE"})

Leads == {"PROJECT_OWNER", "PROJECT_MANAGER"}

(* Who may create tasks; the status of the role is not asked for.          *)
Manages(u) == u = Creator \/ Holds(u, Leads)
=============================================================================
