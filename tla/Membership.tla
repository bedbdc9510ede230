----------------------------- MODULE Membership -----------------------------
(***************************************************************************)
(* Who is on a project's team: invites and their three ways of acceptance, *)
(* roles added, changed and removed, the payment terms that come with a    *)
(* role, and the deletion of the project.  One action per database call    *)
(* that writes; the reads before a handler's first write are one step.     *)
(***************************************************************************)
EXTENDS ProjectData

CONSTANTS
  FirstInvites, NoInvite,
  GivenKinds, OfferedTerms    \* the kinds and payment terms requests ask for

Invites  == FirstInvites \cup Requests
Statuses == {"PENDING", "ACCEPTED", "DECLINED", "EXPIRED"}
Terms    == {"none", "SALARY", "OTHER"}
Roles    == [user : Users, kind : Kinds, status : {"ACTIVE", "PENDING"},
             invite : Invites \cup {NoInvite}]

ASSUME InviteAssumption ==
  /\ FirstInvites \cap Requests = {} /\ NoInvite \notin Invites
  /\ GivenKinds \subseteq Kinds /\ OfferedTerms \subseteq Terms
  /\ NoRole \notin Roles

VARIABLES
  invite,     \* ProjectInvite, by id
  config,     \* UserRolePayment.paymentType, one per role
  salaries,   \* RecurringPayment rows of a role; pausing, resuming and
              \* cancelling one are RecurringPayments'
  arg,        \* what a handler read or was given
  (* history *)
  accepted,   \* users who accepted an invite
  extra,      \* salaries of a role that requests asked for beside its terms
  made,       \* roles made from an invite
  excuses,    \* reasons there are for an invite to make more than one
  excused     \* whether the project may have lost its last owner row

members == <<invite, config, salaries, extra, accepted, made, excuses, excused>>

Invitation == [status : Statuses \cup {"none"}, kind : Kinds, email : Users,
               linked : Users \cup {NoUser}, terms : Terms, late : BOOLEAN]
Unsent == [status |-> "none", kind |-> "EMPLOYEE", email |-> Creator,
           linked |-> NoUser, terms |-> "none", late |-> FALSE]

Arguments == [user : Users, kind : Kinds, row : Rows \cup {NoRow},
              inv : Invites \cup {NoInvite}, terms : Terms]
NoArg == [user |-> Creator, kind |-> "EMPLOYEE", row |-> NoRow, inv |-> NoInvite,
          terms |-> "none"]

RoleOf(u, k, s, i) == [user |-> u, kind |-> k, status |-> s, invite |-> i]

Accepting(i) == {r \in Requests : arg[r].inv = i /\ pc[r] \in {"role", "settle", "tx", "patch"}}
Removing     == {r \in Requests : pc[r] \in {"pick", "remove"}}

(* The teams POST /projects makes in its transaction.  If the body names   *)
(* no owner the creator gets an ACTIVE role; every role it names by user   *)
(* id is PENDING, and one it names by e-mail is only an invite.            *)
TeamIsCreated ==
  LET Named(K) == {NoRole} \cup {x \in Roles : /\ x.kind \in K /\ x.status = "PENDING"
                                               /\ x.invite = NoInvite}
      Team(first, second) == role = [x \in Rows |-> CASE x = OwnerRow  -> first
                                                      [] x = MemberRow -> second
                                                      [] OTHER         -> NoRole]
  IN \/ \E second \in Named(GivenKinds \ {"PROJECT_OWNER"}) :
          Team(RoleOf(Creator, "PROJECT_OWNER", "ACTIVE", NoInvite), second)
     \/ \E first \in Named({"PROJECT_OWNER"}), second \in Named(GivenKinds) :
          Team(first, second)

(* Invites there are none, or one that was sent.                           *)
InviteIsSent ==
  \/ invite = [i \in Invites |-> Unsent]
  \/ \E k \in GivenKinds \ {"PROJECT_OWNER"}, u \in Users \ {Creator}, t \in OfferedTerms :
       invite = [i \in Invites |->
                   IF i \in FirstInvites
                   THEN [Unsent EXCEPT !.status = "PENDING", !.kind = k, !.email = u, !.terms = t]
                   ELSE Unsent]

InitMembership ==
  /\ project = "live"
  /\ TeamIsCreated
  /\ excused = (OwnerRows = {})
  /\ InviteIsSent
  /\ config = [x \in Rows |-> "none"]
  /\ salaries = [x \in Rows |-> 0] /\ extra = [x \in Rows |-> 0]
  /\ pc = [r \in Requests |-> "idle"]
  /\ arg = [r \in Requests |-> NoArg]
  /\ accepted = {}
  /\ made = [i \in Invites |-> 0]
  /\ excuses = [i \in Invites |-> 0]

-----------------------------------------------------------------------------
(* Invites                                                                 *)

(* POST /invites: an owner invites managers and employees, a manager only  *)
(* employees; no second PENDING invite for an e-mail.                      *)
InviteCheck(r) ==
  /\ pc[r] = "idle"
  /\ \E c, u \in Users, k \in GivenKinds \ {"PROJECT_OWNER"}, t \in OfferedTerms :
       /\ \/ Holds(c, {"PROJECT_OWNER"})
          \/ Holds(c, {"PROJECT_MANAGER"}) /\ k = "EMPLOYEE"
       /\ ~\E i \in Invites : invite[i].status = "PENDING" /\ invite[i].email = u
       /\ arg' = [arg EXCEPT ![r] = [NoArg EXCEPT !.user = u, !.kind = k, !.terms = t]]
  /\ Goto(r, "invite")
  /\ UNCHANGED <<shared, members>>

(* POST /projects/:id/invites expires old invites of the e-mail ...        *)
ExpireInvites(r) ==
  /\ pc[r] = "idle"
  /\ project = "live"
  /\ \E u \in Users, k \in GivenKinds :
       /\ invite' = [i \in Invites |->
            IF /\ invite[i].status = "PENDING"
               /\ invite[i].email = u /\ invite[i].late
            THEN [invite[i] EXCEPT !.status = "EXPIRED"] ELSE invite[i]]
       /\ arg' = [arg EXCEPT ![r] = [NoArg EXCEPT !.user = u, !.kind = k]]
  /\ Goto(r, "duplicate")
  /\ UNCHANGED <<shared, config, salaries, extra, accepted, made, excuses, excused>>

(* ... and refuses if one is left that is PENDING or ACCEPTED.             *)
DuplicateCheck(r) ==
  /\ pc[r] = "duplicate"
  /\ IF \E i \in Invites : /\ invite[i].status \in {"PENDING", "ACCEPTED"}
                           /\ invite[i].email = arg[r].user
     THEN Answer(r) ELSE Goto(r, "send")
  /\ UNCHANGED <<shared, members, arg>>

(* Both insert the invite, if its foreign key finds the project; POST      *)
(* /invites has looked up the user, and knows the terms.                   *)
Insert(r, linked) ==
  /\ invite' = IF project = "live"
               THEN [invite EXCEPT ![r] =
                      [Unsent EXCEPT !.status = "PENDING", !.kind = arg[r].kind,
                                     !.email = arg[r].user, !.terms = arg[r].terms,
                                     !.linked = linked]]
               ELSE invite
  /\ Answer(r)
  /\ UNCHANGED <<shared, arg, config, salaries, extra, accepted, made, excuses, excused>>

InviteWrite(r) == pc[r] = "invite" /\ Insert(r, arg[r].user)
SendInvite(r)  == pc[r] = "send" /\ Insert(r, NoUser)

(* expiresAt goes by.                                                      *)
Lapse(i) ==
  /\ invite[i].status # "none" /\ ~invite[i].late
  /\ invite' = [invite EXCEPT ![i].late = TRUE]
  /\ UNCHANGED <<shared, pc, arg, config, salaries, extra, accepted, made, excuses, excused>>

(* PUT /invites/:id, which leaves the status alone.                        *)
EditInvite(r, i) ==
  /\ pc[r] = "idle"
  /\ invite[i].status # "none"
  /\ \E c \in Users : Holds(c, Leads)
  /\ \E k \in GivenKinds, later \in BOOLEAN :
       invite' = [invite EXCEPT ![i].kind = k, ![i].late = @ /\ ~later]
  /\ Answer(r)
  /\ UNCHANGED <<shared, arg, config, salaries, extra, accepted, made, excuses, excused>>

(* DELETE /invites/:id: roles made from it lose their inviteId (SetNull).  *)
DeleteInvite(r, i) ==
  /\ pc[r] = "idle"
  /\ invite[i].status # "none"
  /\ \E c \in Users : Holds(c, Leads)
  /\ invite' = [invite EXCEPT ![i] = Unsent]
  /\ role' = [x \in Rows |-> IF Live(x) /\ role[x].invite = i
                             THEN [role[x] EXCEPT !.invite = NoInvite] ELSE role[x]]
  /\ Answer(r)
  /\ UNCHANGED <<project, arg, config, salaries, extra, accepted, made, excuses,
                 excused>>

-----------------------------------------------------------------------------
(* Acceptance                                                              *)

(* Whoever starts to accept an invite that is not PENDING, or that another *)
(* handler is accepting, gives it a reason to make a second role.          *)
StartAccepting(r, i, u, place) ==
  /\ arg' = [arg EXCEPT ![r] = [user |-> u, kind |-> invite[i].kind, row |-> r,
                                inv |-> i, terms |-> invite[i].terms]]
  /\ excuses' = [excuses EXCEPT ![i] =
       IF invite[i].status = "PENDING" /\ Accepting(i) = {} THEN @ ELSE @ + 1]
  /\ Goto(r, place)

(* PUT /invites/:id/respond                                                *)
RespondCheck(r, i) ==
  /\ pc[r] = "idle"
  /\ invite[i].status = "PENDING" /\ ~invite[i].late
  /\ \E u \in Users :
       /\ invite[i].email = u \/ invite[i].linked \in {NoUser, u}
       /\ \/ StartAccepting(r, i, u, "role")
          \/ /\ arg' = [arg EXCEPT ![r] = [NoArg EXCEPT !.inv = i]]
             /\ Goto(r, "decline")
             /\ UNCHANGED excuses
  /\ UNCHANGED <<shared, invite, config, salaries, extra, accepted, made, excused>>

DeclineInvite(r) ==
  /\ pc[r] = "decline"
  /\ invite' = [invite EXCEPT ![arg[r].inv].status =
                  IF @ = "none" THEN @ ELSE "DECLINED"]
  /\ Answer(r)
  /\ UNCHANGED <<shared, arg, config, salaries, extra, accepted, made, excuses, excused>>

(* The role is ACTIVE; its foreign keys want the project and the invite.   *)
RespondRole(r) ==
  LET a == arg[r]
  IN /\ pc[r] = "role"
     /\ \/ /\ project = "live" /\ invite[a.inv].status # "none"
           /\ role' = [role EXCEPT ![r] = RoleOf(a.user, a.kind, "ACTIVE", a.inv)]
           /\ accepted' = accepted \cup {a.user}
           /\ made' = [made EXCEPT ![a.inv] = @ + 1]
           /\ Goto(r, "settle")
        \/ /\ project = "deleted" \/ invite[a.inv].status = "none"
           /\ Answer(r)
           /\ UNCHANGED <<role, accepted, made>>
     /\ UNCHANGED <<project, invite, config, salaries, extra, arg, excuses, excused>>

(* Mutant: the role is made, but the invite stays PENDING.                 *)
RespondSettlePending(r) ==
  /\ pc[r] = "settle"
  /\ Answer(r)
  /\ UNCHANGED <<shared, arg, members>>

(* The invite, if it is still there, becomes ACCEPTED after the role.      *)
RespondSettle(r) ==
  LET a == arg[r]
  IN /\ pc[r] = "settle"
     /\ \/ /\ invite[a.inv].status # "none"
           /\ invite' = [invite EXCEPT ![a.inv].status = "ACCEPTED",
                                       ![a.inv].linked = a.user]
           /\ Goto(r, IF a.terms = "none" THEN "done" ELSE "config")
        \/ /\ invite[a.inv].status = "none"
           /\ Answer(r)
           /\ UNCHANGED invite
     /\ UNCHANGED <<shared, arg, config, salaries, extra, accepted, made, excuses, excused>>

(* POST payment-config: an upsert of the terms of any role; then, as in    *)
(* respond, a SALARY makes a recurring payment.                            *)
ConfigCheck(r, x) ==
  /\ pc[r] = "idle"
  /\ Live(x)
  /\ \E t \in OfferedTerms \ {"none"} :
       arg' = [arg EXCEPT ![r] = [NoArg EXCEPT !.row = x, !.terms = t]]
  /\ Goto(r, "config")
  /\ UNCHANGED <<shared, members>>

(* Mutant: respond's create is an upsert as well.                          *)
WriteConfigUpsert(r) ==
  LET a == arg[r]
  IN /\ pc[r] = "config"
     /\ \/ /\ Live(a.row)
           /\ config' = [config EXCEPT ![a.row] = a.terms]
           /\ extra' = [extra EXCEPT ![a.row] =
                IF a.inv = NoInvite /\ config[a.row] # "none" THEN @ + 1 ELSE @]
           /\ Goto(r, IF a.terms = "SALARY" THEN "salary" ELSE "done")
        \/ ~Live(a.row) /\ Answer(r) /\ UNCHANGED <<config, extra>>
     /\ UNCHANGED <<shared, arg, invite, salaries, accepted, made, excuses, excused>>

(* Two acceptances never share a role, so respond's create is an upsert    *)
(* too, but for a configuration that came first: then it throws.  SALARY   *)
(* stands for terms with an amount and a frequency; without them no salary *)
(* is started.                                                             *)
WriteConfig(r) ==
  LET a      == arg[r]
      upsert == a.inv = NoInvite
      again  == config[a.row] # "none"
  IN /\ pc[r] = "config"
     /\ \/ /\ Live(a.row) /\ (upsert \/ ~again)
           /\ config' = [config EXCEPT ![a.row] = a.terms]
           /\ extra' = [extra EXCEPT ![a.row] =
                           IF again /\ a.terms = "SALARY" THEN @ + 1 ELSE @]
           /\ Goto(r, IF a.terms = "SALARY" THEN "salary" ELSE "done")
        \/ /\ ~Live(a.row) \/ (~upsert /\ again)
           /\ Answer(r)
           /\ UNCHANGED <<config, extra>>
     /\ UNCHANGED <<shared, arg, invite, salaries, accepted, made, excuses, excused>>

StartSalary(r) ==
  /\ pc[r] = "salary"
  /\ salaries' = [salaries EXCEPT ![arg[r].row] = IF Live(arg[r].row) THEN @ + 1 ELSE @]
  /\ Answer(r)
  /\ UNCHANGED <<shared, arg, invite, config, extra, accepted, made, excuses, excused>>

(* POST /projects/:id/recurring-payments: the creator gives any role a     *)
(* salary, whatever its terms and whatever it has.                         *)
GiveSalary(r, x) ==
  /\ pc[r] = "idle"
  /\ Live(x)
  /\ salaries' = [salaries EXCEPT ![x] = @ + 1]
  /\ extra' = [extra EXCEPT ![x] = @ + 1]
  /\ Answer(r)
  /\ UNCHANGED <<shared, arg, invite, config, accepted, made, excuses, excused>>

(* PUT /projects/:id/invites/:id/accept                                    *)
AcceptCheck(r, i) ==
  /\ pc[r] = "idle"
  /\ invite[i].status = "PENDING"
  /\ \E u \in Users :
       IF invite[i].late
       THEN /\ arg' = [arg EXCEPT ![r] = [NoArg EXCEPT !.inv = i]]
            /\ Goto(r, "expire")
            /\ UNCHANGED excuses
       ELSE StartAccepting(r, i, u, "tx")
  /\ UNCHANGED <<shared, invite, config, salaries, extra, accepted, made, excused>>

(* PATCH /projects/:id/invites/:id accepts an invite of any status, ...    *)
PatchAccept(r, i) ==
  /\ pc[r] = "idle"
  /\ invite[i].status # "none"
  /\ \E u \in Users :
       IF invite[i].late
       THEN /\ arg' = [arg EXCEPT ![r] = [NoArg EXCEPT !.inv = i]]
            /\ Goto(r, "expire")
            /\ UNCHANGED excuses
       ELSE StartAccepting(r, i, u, "patch")
  /\ UNCHANGED <<shared, invite, config, salaries, extra, accepted, made, excused>>

(* ... or writes whatever status it is given; PENDING opens it again.      *)
PatchStatus(r, i) ==
  /\ pc[r] = "idle"
  /\ invite[i].status # "none"
  /\ \E s \in Statuses :
       /\ invite' = [invite EXCEPT ![i].status = s]
       /\ excuses' = [excuses EXCEPT ![i] = IF s = "PENDING" THEN @ + 1 ELSE @]
  /\ Answer(r)
  /\ UNCHANGED <<shared, arg, config, salaries, extra, accepted, made, excused>>

ExpireInvite(r) ==
  /\ pc[r] = "expire"
  /\ invite' = [invite EXCEPT ![arg[r].inv].status = IF @ = "none" THEN @ ELSE "EXPIRED"]
  /\ Answer(r)
  /\ UNCHANGED <<shared, arg, config, salaries, extra, accepted, made, excuses, excused>>

(* Both accept in a transaction: the role, PENDING by default and without  *)
(* inviteId, and the invite.                                               *)
AcceptInTx(r) ==
  LET a == arg[r]
  IN /\ \/ /\ project = "live" /\ invite[a.inv].status # "none"
           /\ role' = [role EXCEPT ![r] = RoleOf(a.user, a.kind, "PENDING", NoInvite)]
           /\ invite' = [invite EXCEPT ![a.inv].status = "ACCEPTED",
                                       ![a.inv].linked = a.user]
           /\ accepted' = accepted \cup {a.user}
           /\ made' = [made EXCEPT ![a.inv] = @ + 1]
        \/ /\ project = "deleted" \/ invite[a.inv].status = "none"
           /\ UNCHANGED <<role, invite, accepted, made>>
     /\ Answer(r)
     /\ UNCHANGED <<project, config, salaries, extra, arg, excuses, excused>>

AcceptWrite(r) == pc[r] = "tx" /\ AcceptInTx(r)
PatchWrite(r)  == pc[r] = "patch" /\ AcceptInTx(r)

-----------------------------------------------------------------------------
(* Roles                                                                   *)

(* POST /projects/:id/users: nobody who has a role gets another.           *)
AddCheck(r) ==
  /\ pc[r] = "idle"
  /\ project = "live"
  /\ \E u \in Users, k \in GivenKinds :
       /\ RolesOf(u) = {}
       /\ arg' = [arg EXCEPT ![r] = [NoArg EXCEPT !.user = u, !.kind = k]]
  /\ Goto(r, "add")
  /\ UNCHANGED <<shared, members>>

AddUser(r) ==
  /\ pc[r] = "add"
  /\ role' = IF project = "live"
             THEN [role EXCEPT ![r] = RoleOf(arg[r].user, arg[r].kind, "PENDING", NoInvite)]
             ELSE role
  /\ Answer(r)
  /\ UNCHANGED <<project, arg, members>>

(* POST /projects/:id/bulk does not look, and writes its entries one after *)
(* the other: here a role by user id and then perhaps an invite by e-mail. *)
BulkCheck(r) ==
  /\ pc[r] = "idle"
  /\ project = "live"
  /\ \E u \in Users, k \in GivenKinds :
       arg' = [arg EXCEPT ![r] = [NoArg EXCEPT !.user = u, !.kind = k]]
  /\ Goto(r, "bulk")
  /\ UNCHANGED <<shared, members>>

(* Mutant: a role added by somebody else is ACTIVE at once.                *)
AddRoleActive(r) ==
  /\ pc[r] = "bulk"
  /\ project = "live"
  /\ role' = [role EXCEPT ![r] = RoleOf(arg[r].user, arg[r].kind, "ACTIVE", NoInvite)]
  /\ Answer(r)
  /\ UNCHANGED <<project, arg, members>>

AddRole(r) ==
  /\ pc[r] = "bulk"
  /\ \/ /\ project = "live"
        /\ role' = [role EXCEPT ![r] =
                      RoleOf(arg[r].user, arg[r].kind, "PENDING", NoInvite)]
        /\ \/ Answer(r) /\ UNCHANGED arg
           \/ /\ Goto(r, "send")
              /\ \E u \in Users, k \in GivenKinds :
                   arg' = [arg EXCEPT ![r].user = u, ![r].kind = k]
     \/ project = "deleted" /\ UNCHANGED <<role, arg>> /\ Answer(r)
  /\ UNCHANGED <<project, members>>

(* PUT /user-roles/:id keeps managers off owners; PATCH                    *)
(* /projects/:id/users/:userId takes any one role of the user.  Neither    *)
(* minds who is the last owner, and both leave the status alone.           *)
ChangeCheck(r, x) ==
  /\ pc[r] = "idle"
  /\ Live(x)
  /\ \E k \in GivenKinds :
       arg' = [arg EXCEPT ![r] = [NoArg EXCEPT !.row = x, !.kind = k]]
  /\ Goto(r, "change")
  /\ UNCHANGED <<shared, members>>

ChangeRole(r) ==
  LET x == arg[r].row
      k == arg[r].kind
  IN /\ pc[r] = "change"
     /\ \/ /\ Live(x)
           /\ role' = [role EXCEPT ![x].kind = k]
           /\ excused' = (excused \/ (x \in OwnerRows /\ k # "PROJECT_OWNER"))
        \/ ~Live(x) /\ UNCHANGED <<role, excused>>
     /\ Answer(r)
     /\ UNCHANGED <<project, invite, config, salaries, extra, arg, accepted, made,
                    excuses>>

(* DELETE /projects/:id/users/:userId refuses a user with an owner's role, *)
(* then finds any role of the user ...                                     *)
LeaveCheck(r) ==
  /\ pc[r] = "idle"
  /\ \E u \in Users :
       /\ ~Holds(u, {"PROJECT_OWNER"})
       /\ arg' = [arg EXCEPT ![r] = [NoArg EXCEPT !.user = u]]
  /\ Goto(r, "pick")
  /\ UNCHANGED <<shared, members>>

PickRole(r) ==
  /\ pc[r] = "pick"
  /\ \/ \E x \in RolesOf(arg[r].user) :
          /\ arg' = [arg EXCEPT ![r].row = x]
          /\ Goto(r, "remove")
     \/ RolesOf(arg[r].user) = {} /\ Answer(r) /\ UNCHANGED arg
  /\ UNCHANGED <<shared, members>>

(* Mutant: the last owner counts as one too many.                          *)
RemoveCheckOffByOne(r, x) ==
  /\ pc[r] = "idle"
  /\ Live(x)
  /\ role[x].kind = "PROJECT_OWNER" => Cardinality(OwnerRows) >= 1
  /\ arg' = [arg EXCEPT ![r] = [NoArg EXCEPT !.row = x, !.kind = role[x].kind]]
  /\ Goto(r, "remove")
  /\ UNCHANGED <<shared, members>>

(* DELETE /projects/:id/:userRoleId counts the owners before it removes    *)
(* one of them, ...                                                        *)
RemoveCheck(r, x) ==
  /\ pc[r] = "idle"
  /\ Live(x)
  /\ role[x].kind = "PROJECT_OWNER" => Cardinality(OwnerRows) > 1
  /\ arg' = [arg EXCEPT ![r] = [NoArg EXCEPT !.row = x, !.kind = role[x].kind]]
  /\ Goto(r, "remove")
  /\ UNCHANGED <<shared, members>>

(* ... and so does DELETE /user-roles/:id, for those who lead.             *)
DismissCheck(r, x) ==
  /\ \E c \in Users : \/ Holds(c, {"PROJECT_OWNER"})
                      \/ Holds(c, {"PROJECT_MANAGER"}) /\ x \notin OwnerRows
  /\ RemoveCheck(r, x)

(* The payment configuration and the salaries go with the role (Cascade).  *)
(* An owner's role that was not read as one, or that goes while others are *)
(* being removed, may be the last.                                         *)
RemoveRole(r) ==
  LET x == arg[r].row
  IN /\ pc[r] = "remove"
     /\ role' = [role EXCEPT ![x] = NoRole]
     /\ config' = [config EXCEPT ![x] = "none"]
     /\ salaries' = [salaries EXCEPT ![x] = 0]
     /\ excused' = \/ excused
                   \/ /\ x \in OwnerRows
                      /\ Removing # {r} \/ arg[r].kind # "PROJECT_OWNER"
     /\ Answer(r)
     /\ UNCHANGED <<project, invite, arg, extra, accepted, made, excuses>>

-----------------------------------------------------------------------------
(* DELETE /projects/:id: a transaction over every table but the ledger's,  *)
(* whose rows hold the project back (Restrict).                            *)
DropCheck(r) ==
  /\ pc[r] = "idle"
  /\ project = "live"
  /\ Goto(r, "drop")
  /\ UNCHANGED <<shared, arg, members>>

DropProject(r) ==
  /\ pc[r] = "drop"
  /\ \/ /\ project = "live"
        /\ project' = "deleted"
        /\ role' = [x \in Rows |-> NoRole]
        /\ invite' = [i \in Invites |-> Unsent]
        /\ config' = [x \in Rows |-> "none"]
        /\ salaries' = [x \in Rows |-> 0]
     \/ UNCHANGED <<project, role, invite, config, salaries>>
  /\ Answer(r)
  /\ UNCHANGED <<arg, extra, accepted, made, excuses, excused>>

(* The database or the process fails between two calls of a handler.  Once *)
(* the role is made and the invite is not settled, it can be made again.   *)
HandlerFails(r) ==
  /\ pc[r] \notin {"idle", "done"}
  /\ excuses' = [i \in Invites |-> IF pc[r] = "settle" /\ i = arg[r].inv
                                   THEN excuses[i] + 1 ELSE excuses[i]]
  /\ Answer(r)
  /\ UNCHANGED <<shared, arg, invite, config, salaries, extra, accepted, made, excused>>

-----------------------------------------------------------------------------
(* What a request does to the team alone; RemoveRole, DropProject and      *)
(* HandlerFails also touch the board.                                      *)
TeamStep(r) ==
  \/ InviteCheck(r) \/ ExpireInvites(r) \/ DuplicateCheck(r)
  \/ InviteWrite(r) \/ SendInvite(r)
  \/ \E i \in Invites : \/ EditInvite(r, i) \/ DeleteInvite(r, i)
                        \/ RespondCheck(r, i) \/ AcceptCheck(r, i)
                        \/ PatchAccept(r, i) \/ PatchStatus(r, i)
  \/ DeclineInvite(r) \/ RespondRole(r) \/ RespondSettle(r)
  \/ WriteConfig(r) \/ StartSalary(r)
  \/ ExpireInvite(r) \/ AcceptWrite(r) \/ PatchWrite(r)
  \/ AddCheck(r) \/ AddUser(r) \/ BulkCheck(r) \/ AddRole(r) \/ ChangeRole(r)
  \/ \E x \in Rows : GiveSalary(r, x) \/ ConfigCheck(r, x) \/ ChangeCheck(r, x) \/ RemoveCheck(r, x)
                     \/ DismissCheck(r, x)
  \/ LeaveCheck(r) \/ PickRole(r)
  \/ DropCheck(r)

-----------------------------------------------------------------------------
(* What the rest of the program may rely on                                *)

TeamTypeOK ==
  /\ project \in {"live", "deleted"}
  /\ role \in [Rows -> {NoRole} \cup Roles]
  /\ invite \in [Invites -> Invitation]
  /\ config \in [Rows -> Terms] /\ salaries \in [Rows -> Nat]
  /\ extra \in [Rows -> Nat]
  /\ arg \in [Requests -> Arguments]
  /\ accepted \subseteq Users
  /\ made \in [Invites -> Nat] /\ excuses \in [Invites -> Nat]
  /\ excused \in BOOLEAN

(* A role is ACTIVE only if it is the creator's or its user accepted an    *)
(* invite, in whatever order requests add, change and remove roles.  This  *)
(* keeps the others from what checkProjectAccess guards, and from nothing  *)
(* else: routes/tasks.ts, invites.ts and user-roles.ts take a PENDING role *)
(* for an ACTIVE one.                                                      *)
ActiveMeansAccepted ==
  \A x \in Rows : Live(x) /\ role[x].status = "ACTIVE"
                  => role[x].user = Creator \/ role[x].user \in accepted

(* An invite makes a second role only for a reason: two acceptances that   *)
(* overlap, one of an invite already decided, an invite opened again, or a *)
(* failure between the role and the invite.                                *)
AcceptancesNeedCause == \A i \in Invites : made[i] <= 1 + excuses[i]

(* A project keeps an owner's role until two removals overlap, an owner's  *)
(* role is changed into another, or it is deleted unseen.                  *)
LastOwnerNeedsCause == project = "live" => OwnerRows # {} \/ excused

(* A role has one salary for its terms, however an acceptance and          *)
(* configurations of the role overlap, and one more for every request that *)
(* asked for another: SALARY terms written over earlier terms              *)
(* (payment-config.ts starts one each time) and POST recurring-payments,   *)
(* which asks for no terms.  None outlives the role.                       *)
SalariesNeedCause ==
  \A x \in Rows :
    /\ salaries[x] <= extra[x] + (IF config[x] = "none" THEN 0 ELSE 1)
    /\ salaries[x] > 0 => Live(x)

=============================================================================
