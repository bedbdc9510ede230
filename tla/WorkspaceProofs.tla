--------------------------- MODULE WorkspaceProofs ---------------------------
(***************************************************************************)
(* Proofs about module Workspace: its types and the safety properties of   *)
(* team, tags and board, for any number of requests, users, invites, tags, *)
(* departments and tasks.                                                  *)
(***************************************************************************)
EXTENDS Workspace, FiniteSetTheorems, WellFoundedInduction, TLAPS

-----------------------------------------------------------------------------
(* The inductive invariant                                                 *)

(* Handlers by what they are about to do: make the role that bears their   *)
(* name, write the terms of a role, accept an invite.                      *)
AtMake   == {"idle", "role", "tx", "patch", "add", "bulk"}
AtTerms  == {"settle", "config", "salary"}
AtAccept == {"role", "settle", "tx", "patch"}
AtOffer  == {"role", "tx", "patch"}
AtInvite == AtAccept \cup {"decline", "expire"}
AtRow    == AtTerms \cup {"change", "remove"}

(* What a handler holds at its place.                                      *)
PlaceInv ==
  /\ DOMAIN pc = Requests
  /\ \A r \in Requests :
       /\ At(r, AtInvite) => arg[r].inv \in Invites
       /\ At(r, AtRow) => arg[r].row \in Rows
       /\ At(r, {"role", "settle"}) => arg[r].row = r
       /\ At(r, {"config"}) => arg[r].terms # "none"
       /\ At(r, {"pick"}) => arg[r].kind # "PROJECT_OWNER"

(* While one owner is being removed there is another.                      *)
OwnerInv ==
  project = "live" /\ ~excused =>
    /\ OwnerRows # {}
    /\ \A r \in Requests : At(r, {"remove"}) /\ arg[r].kind = "PROJECT_OWNER"
                           => \E y \in OwnerRows : y # arg[r].row

(* The salaries of a role and those about to be started are no more than   *)
(* were asked for; only a role there is has any.                           *)
Starting(x) == {s \in Requests : pc[s] = "salary" /\ arg[s].row = x}
Allowed(x)  == extra[x] + (IF config[x] = "none" THEN 0 ELSE 1)

SalariesInv ==
  \A x \in Rows :
    /\ salaries[x] \in Nat /\ extra[x] \in Nat /\ IsFiniteSet(Starting(x))
    /\ salaries[x] > 0 => Live(x)
    /\ Live(x) => salaries[x] + Cardinality(Starting(x)) <= Allowed(x)

(* A role is made once and before its terms, and a salary after them.      *)
TermsInv ==
  /\ \A r, s \in Requests : At(r, AtMake) => ~Live(r) /\ (At(s, AtTerms) => arg[s].row # r)
  /\ SalariesInv

(* Those who will make a role of an invite count as roles made, and an     *)
(* invite that can be accepted has one to spare; a request makes its own   *)
(* invite with its last step.                                              *)
Offered(i) == {r \in Requests : arg[r].inv = i /\ pc[r] \in AtOffer}

MadeInv ==
  /\ \A i \in Invites :
       /\ IsFiniteSet(Offered(i))
       /\ made[i] + Cardinality(Offered(i)) <= 1 + excuses[i]
       /\ invite[i].status = "PENDING" /\ Accepting(i) = {} => made[i] <= excuses[i]
  /\ \A r \in Requests : pc[r] # "done" => invite[r].status = "none" /\ made[r] = 0

TeamInv == PlaceInv /\ TeamTypeOK /\ ActiveMeansAccepted /\ OwnerInv /\ TermsInv /\ MadeInv

(* What handlers of the board hold.                                        *)
Hands == [task : Tasks \cup {NoTask}, dept : Depts \cup {NoDept}, column : Columns,
          place : Nat, assignee : Rows \cup {NoRow}, moved : BOOLEAN,
          todo : SUBSET ((Tasks \cup Depts) \X Nat)]

AtTask == {"edit", "assign", "move", "neighbours", "shift", "log"}

HandInv ==
  /\ hand \in [Requests -> Hands]
  /\ \A r \in Requests :
       /\ At(r, {"newtask"}) => hand[r].dept \in Depts
       /\ At(r, {"move"}) /\ hand[r].moved => hand[r].dept \in Depts
       /\ At(r, AtTask) => hand[r].task \in Tasks
       /\ At(r, {"log"}) => hand[r].task \in FirstTasks
       /\ At(r, {"each", "log"}) => hand[r].todo \subseteq FirstTasks \X Nat
       /\ At(r, {"shift"}) => hand[r].todo \subseteq Tasks \X Nat
       /\ At(r, {"reorder"}) => hand[r].todo \subseteq Depts \X Nat

(* Only an open transaction has written anything, no two the same task,    *)
(* and none who does it; a request makes its own task with its last step.  *)
DraftInv ==
  /\ \A r \in Requests :
       /\ Drafted(r) # {} => At(r, {"neighbours", "shift"})
       /\ \A q \in Requests \ {r} : Drafted(r) \cap Drafted(q) = {}
       /\ \A t \in Drafted(r) : draft[r][t].assignee = task[t].assignee
       /\ pc[r] # "done" => ~HasTask(r)

Logging(t) == {r \in Requests : pc[r] = "log" /\ hand[r].task = t /\ HasTask(t)}

LogInv == /\ \A t \in Tasks : IsFiniteSet(Logging(t))
          /\ LogAccountsForChanges

BoardInv == BoardTypeOK /\ HandInv /\ DraftInv /\ TasksAreHoused /\ LogInv

(* A move that nothing disturbs has drafted the task where it is wanted,   *)
(* and of the tasks behind it all, one further, but for those it has still *)
(* to do.                                                                  *)
Behind(r, x) == /\ x \in InDept(hand[r].dept) /\ x # hand[r].task
                /\ task[x].column = hand[r].column /\ task[x].place >= hand[r].place

Placed(r) == hand[r].task \in Drafted(r) /\ draft[r][hand[r].task].place = hand[r].place

Halfway(r) ==
  /\ Placed(r)
  /\ \A do \in hand[r].todo : Behind(r, do[1]) /\ do[2] = task[do[1]].place
  /\ \A x \in Drafted(r) \ {hand[r].task} :
       Behind(r, x) /\ draft[r][x].place = task[x].place + 1
  /\ \A x \in Tasks : Behind(r, x) => x \in Drafted(r) \/ <<x, task[x].place>> \in hand[r].todo

CleanAt(r) == /\ pc[r] = "neighbours" => Placed(r) /\ Drafted(r) = {hand[r].task}
              /\ pc[r] = "shift" => Halfway(r)

CleanInv == \A r \in clean : CleanAt(r)

(* The tags of the one edit under way, with those it has still to make,    *)
(* are the tags asked for.                                                 *)
TagInv ==
  /\ TagTypeOK
  /\ project = "deleted" => tags = {} /\ asked = {}
  /\ project = "live" /\ ~muddled =>
       /\ Making = {} => tags = asked
       /\ \A r \in Making : Making = {r} /\ tags \cup wanted[r] = asked

-----------------------------------------------------------------------------
(* Steps, seen from one place.                                             *)
Moves(r, q)   == /\ DOMAIN pc' = Requests
                 /\ \A s \in Requests : pc'[s] = IF s = r THEN q ELSE pc[s]
Takes(r, a)   == \A s \in Requests : arg'[s] = IF s = r THEN a ELSE arg[s]

LEMMA GotoMoves ==
  ASSUME PlaceInv, NEW r \in Requests, NEW q, Goto(r, q)
  PROVE  Moves(r, q)
  BY DEF PlaceInv, Goto, Moves

LEMMA ArgTakes ==
  ASSUME TeamTypeOK, NEW r \in Requests, NEW a, arg' = [arg EXCEPT ![r] = a]
  PROVE  Takes(r, a)
  BY DEF TeamTypeOK, Takes

LEMMA ArgStays ==
  ASSUME NEW r \in Requests, arg' = arg
  PROVE  Takes(r, arg[r])
  BY DEF Takes

(* A handler that leaves roles, terms and the record of acceptances alone  *)
(* disturbs nothing but, perhaps, the invites.                             *)
Fits(r, q, a) ==
  /\ q \in AtInvite => a.inv \in Invites
  /\ q \in AtRow => a.row \in Rows
  /\ q \in {"role", "settle"} => a.row = r
  /\ q = "config" => a.terms # "none"
  /\ q = "pick" => a.kind # "PROJECT_OWNER"

LEMMA PlaceStep ==
  ASSUME PlaceInv, NEW r \in Requests, NEW q, NEW a, Moves(r, q), Takes(r, a), Fits(r, q, a)
  PROVE  PlaceInv'
  BY DEF PlaceInv, Moves, Takes, Fits, At, AtInvite, AtAccept, AtRow, AtTerms

LEMMA SalariesStay ==
  ASSUME SalariesInv,
         \A x \in Rows :
           /\ extra'[x] = extra[x] /\ salaries'[x] \in {0, salaries[x]}
           /\ salaries'[x] > 0 => Live(x)'
           /\ Live(x)' => Live(x) /\ config'[x] = config[x]
           /\ Starting(x)' \subseteq Starting(x)
  PROVE  SalariesInv'
  <1>1. ASSUME NEW x \in Rows
        PROVE  /\ salaries'[x] \in Nat /\ extra'[x] \in Nat /\ IsFiniteSet(Starting(x)')
               /\ Live(x)' => salaries'[x] + Cardinality(Starting(x)') <= Allowed(x)'
    <2>1. /\ salaries[x] \in Nat /\ extra[x] \in Nat /\ IsFiniteSet(Starting(x))
          /\ Live(x) => salaries[x] + Cardinality(Starting(x)) <= Allowed(x)
      BY DEF SalariesInv
    <2>2. /\ IsFiniteSet(Starting(x)') /\ Cardinality(Starting(x)') <= Cardinality(Starting(x))
          /\ Cardinality(Starting(x)) \in Nat /\ Cardinality(Starting(x)') \in Nat
      BY <2>1, FS_Subset, FS_CardinalityType
    <2>3. salaries'[x] \in Nat /\ salaries'[x] <= salaries[x]
      BY <2>1
    <2>4. ASSUME Live(x)' PROVE Live(x) /\ Allowed(x)' = Allowed(x)
      BY <2>4 DEF Allowed
    <2>5. ASSUME Live(x)' PROVE salaries'[x] + Cardinality(Starting(x)') <= Allowed(x)'
      <3>1. Allowed(x) \in Nat
        BY <2>1 DEF Allowed
      <3> QED
        BY <2>1, <2>2, <2>3, <2>4, <2>5, <3>1
    <2> QED
      BY <2>1, <2>2, <2>3, <2>5
  <1> QED
    BY <1>1 DEF SalariesInv

Quiet(r, q, a) ==
  /\ Moves(r, q) /\ Takes(r, a) /\ Fits(r, q, a)
  /\ UNCHANGED <<project, role, config, salaries, extra, accepted, excused>>
  /\ q \in AtMake => pc[r] \in AtMake
  /\ q \in AtTerms => \/ pc[r] \in AtTerms /\ a.row = arg[r].row
                      \/ Live(a.row)
  /\ q = "salary" => pc[r] = "salary" /\ a = arg[r]
  /\ q = "remove" /\ a.kind = "PROJECT_OWNER"
       => \/ pc[r] = "remove" /\ a = arg[r]
          \/ OwnerRows # {} => \E y \in OwnerRows : y # a.row

LEMMA QuietStep ==
  ASSUME PlaceInv, ActiveMeansAccepted, OwnerInv, TermsInv, NEW r \in Requests, NEW q, NEW a,
         Quiet(r, q, a)
  PROVE  PlaceInv' /\ ActiveMeansAccepted' /\ OwnerInv' /\ TermsInv'
  <1> USE DEF Quiet
  <1>1. PlaceInv'
    BY PlaceStep
  <1>2. ActiveMeansAccepted'
    BY DEF ActiveMeansAccepted, Live
  <1>3. OwnerRows' = OwnerRows
    BY DEF OwnerRows, Live
  <1>4. OwnerInv'
    BY <1>3 DEF OwnerInv, Moves, Takes, At
  <1>5. TermsInv'
    <2>1. ASSUME NEW x \in Requests, NEW s \in Requests, At(x, AtMake)'
          PROVE  (~Live(x) /\ (At(s, AtTerms) => arg[s].row # x))'
      <3>1. At(x, AtMake)
        BY <2>1 DEF Moves, At, AtMake
      <3>2. ~Live(x) /\ \A t \in Requests : At(t, AtTerms) => arg[t].row # x
        BY <3>1 DEF TermsInv
      <3>3. CASE s = r
        BY <3>2, <3>3 DEF Moves, Takes, At, Live
      <3>4. CASE s # r
        BY <3>2, <3>4 DEF Moves, Takes, At, Live
      <3> QED
        BY <3>3, <3>4
    <2>2. \A x \in Rows : Starting(x)' \subseteq Starting(x)
      BY DEF Starting, Moves, Takes
    <2>3. \A x \in Rows : Live(x)' = Live(x)
      BY DEF Live
    <2>4. SalariesInv'
      BY <2>2, <2>3, SalariesStay DEF TermsInv, SalariesInv
    <2> QED
      BY <2>1, <2>4 DEF TermsInv
  <1> QED
    BY <1>1, <1>2, <1>4, <1>5

(* The role that bears the handler's name is made.                         *)
LEMMA MakeStep ==
  ASSUME PlaceInv, TeamTypeOK, ActiveMeansAccepted, OwnerInv, TermsInv,
         NEW r \in Requests, NEW q, NEW a, NEW new \in Roles,
         Moves(r, q), Takes(r, a), Fits(r, q, a),
         role' = [role EXCEPT ![r] = new], accepted \subseteq accepted',
         new.status = "ACTIVE" => new.user \in accepted',
         UNCHANGED <<project, config, salaries, extra, excused>>,
         At(r, AtMake), q \in {"settle", "send", "done"}
  PROVE  PlaceInv' /\ ActiveMeansAccepted' /\ OwnerInv' /\ TermsInv'
  <1> r \in Rows
    BY DEF Rows
  <1>1. PlaceInv'
    BY PlaceStep
  <1>2. \A x \in Rows : role'[x] = IF x = r THEN new ELSE role[x]
    BY DEF TeamTypeOK
  <1>3. ActiveMeansAccepted'
    BY <1>2 DEF ActiveMeansAccepted, Live
  <1>4. ~Live(r) /\ new # NoRole
    BY InviteAssumption DEF TermsInv
  <1>5. OwnerRows \subseteq OwnerRows'
    BY <1>2, <1>4 DEF OwnerRows, Live
  <1>6. OwnerInv'
    BY <1>5 DEF OwnerInv, Moves, Takes, At
  <1>7. TermsInv'
    <2>1. ASSUME NEW x \in Requests, NEW s \in Requests, At(x, AtMake)'
          PROVE  (~Live(x) /\ (At(s, AtTerms) => arg[s].row # x))'
      <3>1. At(x, AtMake) /\ x # r
        BY <2>1 DEF Moves, At, AtMake
      <3>2. x \in Rows
        BY DEF Rows
      <3>3. ~Live(x) /\ \A t \in Requests : At(t, AtTerms) => arg[t].row # x
        BY <3>1 DEF TermsInv
      <3>4. At(s, AtTerms)' => arg'[s].row # x
        BY <3>1, <3>3 DEF Moves, Takes, At, Fits, AtTerms
      <3> QED
        BY <1>2, <3>1, <3>2, <3>3, <3>4 DEF Live
    <2>2. ASSUME NEW x \in Rows
          PROVE  /\ salaries'[x] \in Nat /\ extra'[x] \in Nat /\ IsFiniteSet(Starting(x)')
                 /\ salaries'[x] > 0 => Live(x)'
                 /\ Live(x)' => salaries'[x] + Cardinality(Starting(x)') <= Allowed(x)'
      <3>1. /\ salaries[x] \in Nat /\ extra[x] \in Nat /\ IsFiniteSet(Starting(x))
            /\ salaries[x] > 0 => Live(x)
            /\ Live(x) => salaries[x] + Cardinality(Starting(x)) <= Allowed(x)
        BY DEF TermsInv, SalariesInv
      <3>2. salaries' = salaries /\ extra' = extra /\ Allowed(x)' = Allowed(x)
        BY DEF Allowed
      <3>3. Starting(x)' = Starting(x)
        BY DEF Starting, Moves, Takes, At, AtMake
      <3>4. CASE x = r
        <4>1. Starting(x) = {}
          BY <3>4 DEF TermsInv, Starting, At, AtTerms
        <4>2. Allowed(x) \in Nat /\ Cardinality(Starting(x)) = 0
          BY <3>1, <4>1, FS_EmptySet DEF Allowed
        <4>3. salaries[x] = 0
          BY <1>4, <3>1, <3>4
        <4> QED
          BY <3>1, <3>2, <3>3, <4>2, <4>3
      <3>5. CASE x # r
        <4>1. Live(x)' = Live(x)
          BY <1>2, <3>5 DEF Live
        <4> QED
          BY <3>1, <3>2, <3>3, <4>1
      <3> QED
        BY <3>4, <3>5
    <2>3. SalariesInv'
      BY <2>2 DEF SalariesInv
    <2> QED
      BY <2>1, <2>3 DEF TermsInv
  <1> QED
    BY <1>1, <1>3, <1>6, <1>7

(* Invites stay as they are, or one is no longer PENDING: nobody accepts   *)
(* more or less than before.                                               *)
LEMMA MadeQuiet ==
  ASSUME MadeInv, NEW r \in Requests, NEW q, NEW a, Moves(r, q), Takes(r, a),
         pc[r] \notin AtAccept, q \notin AtAccept,
         pc[r] = "done" => q = "done",
         UNCHANGED <<made, excuses>>,
         \A i \in Invites : /\ invite'[i].status = "PENDING" => invite[i].status = "PENDING"
                            /\ invite[i].status = "none" => invite'[i].status = "none"
  PROVE  MadeInv'
  <1>1. \A i \in Invites : Offered(i)' = Offered(i) /\ Accepting(i)' = Accepting(i)
    BY DEF Offered, Accepting, Moves, Takes, AtAccept, AtOffer
  <1>2. \A s \in Requests : pc'[s] # "done" => pc[s] # "done"
    BY DEF Moves
  <1> QED
    BY <1>1, <1>2 DEF MadeInv, Invites

(* An acceptance begins; if it is not the only one, or the invite is not   *)
(* PENDING, it has its excuse.                                             *)
LEMMA MadeStart ==
  ASSUME PlaceInv, TeamTypeOK, MadeInv, NEW r \in Requests, NEW i \in Invites, NEW u,
         NEW place \in AtOffer, pc[r] = "idle", StartAccepting(r, i, u, place),
         UNCHANGED <<invite, made>>
  PROVE  MadeInv'
  <1> DEFINE a == [user |-> u, kind |-> invite[i].kind, row |-> r, inv |-> i,
                   terms |-> invite[i].terms]
  <1>1. Moves(r, place) /\ Takes(r, a)
    BY GotoMoves, ArgTakes DEF StartAccepting
  <1>2. ASSUME NEW j \in Invites
        PROVE  /\ Offered(j)' = IF j = i THEN Offered(j) \cup {r} ELSE Offered(j)
               /\ Accepting(j)' = IF j = i THEN Accepting(j) \cup {r} ELSE Accepting(j)
               /\ r \notin Offered(j) /\ r \notin Accepting(j)
    BY <1>1 DEF Offered, Accepting, Moves, Takes, AtOffer
  <1>3. \A j \in Invites : excuses'[j] =
          IF j = i /\ ~(invite[i].status = "PENDING" /\ Accepting(i) = {})
          THEN excuses[j] + 1 ELSE excuses[j]
    BY DEF StartAccepting, TeamTypeOK
  <1>4. ASSUME NEW j \in Invites
        PROVE  /\ IsFiniteSet(Offered(j)')
               /\ made[j] + Cardinality(Offered(j)') <= 1 + excuses'[j]
               /\ invite[j].status = "PENDING" /\ Accepting(j)' = {} => made[j] <= excuses'[j]
    <2>1. made[j] \in Nat /\ excuses[j] \in Nat
      BY DEF TeamTypeOK
    <2>2. IsFiniteSet(Offered(j)) /\ made[j] + Cardinality(Offered(j)) <= 1 + excuses[j]
      BY DEF MadeInv
    <2>3. CASE j # i
      BY <1>2, <1>3, <2>3 DEF MadeInv
    <2>4. CASE j = i
      <3>1. Offered(j)' = Offered(j) \cup {r} /\ r \notin Offered(j) /\ r \in Accepting(j)'
        BY <1>2, <2>4
      <3>2. IsFiniteSet(Offered(j)') /\ Cardinality(Offered(j)') = Cardinality(Offered(j)) + 1
        BY <2>2, <3>1, FS_AddElement
      <3>3. CASE invite[i].status = "PENDING" /\ Accepting(i) = {}
        <4>1. Offered(j) = {}
          BY <2>4, <3>3 DEF Offered, Accepting, AtOffer
        <4>2. made[j] <= excuses[j] /\ excuses'[j] = excuses[j]
          BY <1>3, <2>4, <3>3 DEF MadeInv
        <4> QED
          BY <2>1, <3>1, <3>2, <4>1, <4>2, FS_EmptySet
      <3>4. CASE ~(invite[i].status = "PENDING" /\ Accepting(i) = {})
        <4>1. excuses'[j] = excuses[j] + 1
          BY <1>3, <2>4, <3>4
        <4>2. Cardinality(Offered(j)) \in Nat
          BY <2>2, FS_CardinalityType
        <4> QED
          BY <2>1, <2>2, <3>1, <3>2, <4>1, <4>2
      <3> QED
        BY <3>3, <3>4
    <2> QED
      BY <2>3, <2>4
  <1>5. \A s \in Requests : pc'[s] # "done" => pc[s] # "done"
    BY <1>1 DEF Moves, AtOffer
  <1> QED
    BY <1>4, <1>5 DEF MadeInv

(* An acceptance ends without a role, or goes on with one.                 *)
Ends(r, q, i) ==
  /\ pc[r] \in AtOffer /\ i = arg[r].inv /\ q \in {"settle", "done"}
  /\ Moves(r, q) /\ Takes(r, arg[r]) /\ UNCHANGED excuses
  /\ \/ q = "done" /\ UNCHANGED <<made, invite>>
     \/ /\ invite[i].status # "none" /\ made' = [made EXCEPT ![i] = @ + 1]
        /\ \/ q = "settle" /\ UNCHANGED invite
           \/ /\ q = "done"
              /\ \A j \in Invites : invite'[j].status = IF j = i THEN "ACCEPTED"
                                                        ELSE invite[j].status

LEMMA MadeEnds ==
  ASSUME PlaceInv, TeamTypeOK, MadeInv, NEW r \in Requests, NEW q, NEW i, Ends(r, q, i)
  PROVE  MadeInv'
  <1> USE DEF Ends
  <1>1. i \in Invites
    BY DEF PlaceInv, At, AtInvite, AtAccept, AtOffer
  <1>2. ASSUME NEW j \in Invites
        PROVE  /\ Offered(j)' = IF j = i THEN Offered(j) \ {r} ELSE Offered(j)
               /\ Accepting(j)' = IF j = i /\ q = "done" THEN Accepting(j) \ {r} ELSE Accepting(j)
               /\ r \in Offered(i) /\ r \in Accepting(i)
    BY DEF Offered, Accepting, Moves, Takes, AtOffer
  <1>3. ASSUME NEW j \in Invites
        PROVE  /\ made[j] \in Nat /\ excuses[j] \in Nat
               /\ IsFiniteSet(Offered(j)) /\ Cardinality(Offered(j)) \in Nat
               /\ made[j] + Cardinality(Offered(j)) <= 1 + excuses[j]
    BY FS_CardinalityType DEF TeamTypeOK, MadeInv
  <1>4. /\ IsFiniteSet(Offered(i)')
        /\ Cardinality(Offered(i)') = Cardinality(Offered(i)) - 1
        /\ Cardinality(Offered(i)') \in Nat
    BY <1>1, <1>2, <1>3, FS_RemoveElement, FS_CardinalityType
  <1>5. made'[i] \in {made[i], made[i] + 1}
    BY <1>1 DEF TeamTypeOK
  <1>6. \A j \in Invites : j # i => made'[j] = made[j]
    BY DEF TeamTypeOK
  <1>7. ASSUME NEW j \in Invites
        PROVE  /\ IsFiniteSet(Offered(j)')
               /\ made'[j] + Cardinality(Offered(j)') <= 1 + excuses'[j]
    <2>1. CASE j = i
      BY <1>1, <1>3, <1>4, <1>5, <2>1
    <2>2. CASE j # i
      BY <1>2, <1>3, <1>6, <2>2
    <2> QED
      BY <2>1, <2>2
  <1>8. ASSUME NEW j \in Invites, invite'[j].status = "PENDING", Accepting(j)' = {}
        PROVE  made'[j] <= excuses'[j]
    <2>1. CASE j = i
      <3>1. q = "done" /\ made' = made
        BY <1>2, <1>8, <2>1
      <3> QED
        BY <1>1, <1>3, <1>4, <2>1, <3>1
    <2>2. CASE j # i
      <3>1. invite[j].status = "PENDING" /\ Accepting(j) = {}
        BY <1>2, <1>8, <2>2
      <3> QED
        BY <1>6, <2>2, <3>1 DEF MadeInv
    <2> QED
      BY <2>1, <2>2
  <1>9. ASSUME NEW s \in Requests, pc'[s] # "done"
        PROVE  invite'[s].status = "none" /\ made'[s] = 0
    <2>1. s \in Invites
      BY DEF Invites
    <2>2. invite[s].status = "none" /\ made[s] = 0
      BY <1>9 DEF MadeInv, Moves, AtOffer
    <2>3. CASE made' = made /\ invite' = invite
      BY <2>2, <2>3
    <2>4. CASE invite[i].status # "none"
      BY <1>6, <2>1, <2>2, <2>4
    <2> QED
      BY <2>3, <2>4
  <1> QED
    BY <1>7, <1>8, <1>9 DEF MadeInv

-----------------------------------------------------------------------------
(* The steps of the team                                                   *)

(* A step that writes no row and neither begins nor ends an acceptance.    *)
LEMMA LookStep ==
  ASSUME TeamInv, NEW r \in Requests, NEW q, NEW a \in Arguments,
         Moves(r, q), Takes(r, a), arg' \in [Requests -> Arguments], Fits(r, q, a),
         UNCHANGED <<shared, members>>,
         pc[r] \notin AtAccept \cup {"done"}, q \notin AtMake \cup {"settle", "salary"},
         q = "config" => Live(a.row),
         q = "remove" /\ a.kind = "PROJECT_OWNER"
           => (OwnerRows # {} => \E y \in OwnerRows : y # a.row)
  PROVE  TeamInv'
  <1> USE DEF TeamInv, shared, members
  <1>u. /\ UNCHANGED <<project, role, config, salaries, extra, accepted, excused>>
        /\ UNCHANGED <<made, excuses>> /\ invite' = invite
    OBVIOUS
  <1>p. q \notin AtMake /\ q # "settle" /\ q # "salary"
    OBVIOUS
  <1>t. q \in AtTerms => Live(a.row)
    BY <1>p DEF AtTerms
  <1> HIDE DEF shared, members
  <1>1. PlaceInv' /\ ActiveMeansAccepted' /\ OwnerInv' /\ TermsInv'
    <2>1. Quiet(r, q, a)
      BY <1>u, <1>p, <1>t DEF Quiet
    <2> QED
      BY <2>1, QuietStep
  <1>2. MadeInv'
    BY MadeQuiet, <1>u, <1>p DEF AtAccept, AtMake
  <1>3. TeamTypeOK'
    BY <1>u DEF TeamTypeOK
  <1> QED
    BY <1>1, <1>2, <1>3

LEMMA GivenTerms ==
  ASSUME NEW u \in Users, NEW k \in Kinds, NEW t \in Terms
  PROVE  [NoArg EXCEPT !.user = u, !.kind = k, !.terms = t] \in Arguments
  BY ProjectAssumption DEF NoArg, Arguments, Kinds, Terms

LEMMA GivenKind ==
  ASSUME NEW u \in Users, NEW k \in Kinds
  PROVE  [NoArg EXCEPT !.user = u, !.kind = k] \in Arguments
  BY ProjectAssumption DEF NoArg, Arguments, Kinds, Terms

LEMMA GivenUser ==
  ASSUME NEW u \in Users
  PROVE  [NoArg EXCEPT !.user = u] \in Arguments
  BY ProjectAssumption DEF NoArg, Arguments, Kinds, Terms

LEMMA GivenRowKind ==
  ASSUME NEW x \in Rows, NEW k \in Kinds
  PROVE  [NoArg EXCEPT !.row = x, !.kind = k] \in Arguments
  BY ProjectAssumption DEF NoArg, Arguments, Kinds, Terms

LEMMA GivenRowTerms ==
  ASSUME NEW x \in Rows, NEW t \in Terms
  PROVE  [NoArg EXCEPT !.row = x, !.terms = t] \in Arguments
  BY ProjectAssumption DEF NoArg, Arguments, Kinds, Terms

LEMMA GivenInvite ==
  ASSUME NEW i \in Invites
  PROVE  [NoArg EXCEPT !.inv = i] \in Arguments
  BY ProjectAssumption DEF NoArg, Arguments, Kinds, Terms

LEMMA MoreThanOne ==
  ASSUME NEW S, NEW x, Cardinality(S) > 1
  PROVE  \E y \in S : y # x
  <1> SUFFICES ASSUME S \subseteq {x} PROVE FALSE
    OBVIOUS
  <1>1. S = {} \/ S = {x}
    OBVIOUS
  <1>2. Cardinality({}) = 0 /\ Cardinality({x}) = 1
    BY FS_EmptySet, FS_Singleton
  <1> QED
    BY <1>1, <1>2

LEMMA LookSteps ==
  ASSUME TeamInv, NEW r \in Requests,
         \/ InviteCheck(r) \/ DuplicateCheck(r) \/ AddCheck(r) \/ BulkCheck(r)
         \/ \E x \in Rows : ConfigCheck(r, x) \/ ChangeCheck(r, x) \/ RemoveCheck(r, x)
         \/ LeaveCheck(r) \/ PickRole(r) \/ DropCheck(r)
  PROVE  TeamInv'
  <1> USE DEF TeamInv
  <1>t. TeamTypeOK /\ PlaceInv /\ arg \in [Requests -> Arguments]
    BY DEF TeamTypeOK
  <1> GivenKinds \subseteq Kinds /\ OfferedTerms \subseteq Terms
    BY InviteAssumption
  <1> DEFINE Look(q, a) == /\ pc[r] \notin AtAccept \cup {"done"}
                           /\ Goto(r, q) /\ UNCHANGED <<shared, members>>
                           /\ arg' = [arg EXCEPT ![r] = a] /\ a \in Arguments
  <1>0. ASSUME NEW q, NEW a, Look(q, a), Fits(r, q, a),
               q \notin AtMake \cup {"settle", "salary"}, q = "config" => Live(a.row),
               q = "remove" /\ a.kind = "PROJECT_OWNER"
                 => (OwnerRows # {} => \E y \in OwnerRows : y # a.row)
        PROVE  TeamInv'
    <2>1. Moves(r, q) /\ Takes(r, a)
      BY <1>0, <1>t, GotoMoves, ArgTakes
    <2>2. arg' \in [Requests -> Arguments]
      BY <1>0, <1>t
    <2> QED
      BY <1>0, <2>1, <2>2, LookStep
  <1>1. ASSUME InviteCheck(r) PROVE TeamInv'
    <2>1. PICK u \in Users, k \in Kinds, t \in Terms :
            arg' = [arg EXCEPT ![r] = [NoArg EXCEPT !.user = u, !.kind = k, !.terms = t]]
      BY <1>1 DEF InviteCheck
    <2>2. Look("invite", [NoArg EXCEPT !.user = u, !.kind = k, !.terms = t])
      BY <1>1, <2>1, GivenTerms DEF InviteCheck, AtAccept
    <2> QED
      BY <2>2, <1>0 DEF Fits, AtInvite, AtRow, AtAccept, AtTerms, AtMake
  <1>2. ASSUME DuplicateCheck(r) PROVE TeamInv'
    <2>1. PICK q \in {"send", "done"} : Goto(r, q)
      BY <1>2 DEF DuplicateCheck, Answer
    <2>2. arg' = [arg EXCEPT ![r] = arg[r]] /\ arg[r] \in Arguments
      BY <1>2, <1>t DEF DuplicateCheck
    <2>3. Look(q, arg[r])
      BY <1>2, <2>1, <2>2 DEF DuplicateCheck, AtAccept
    <2> QED
      BY <2>3, <1>0 DEF Fits, AtInvite, AtRow, AtAccept, AtTerms, AtMake
  <1>3. ASSUME AddCheck(r) PROVE TeamInv'
    <2>1. PICK u \in Users, k \in Kinds :
            arg' = [arg EXCEPT ![r] = [NoArg EXCEPT !.user = u, !.kind = k]]
      BY <1>3 DEF AddCheck
    <2>2. Moves(r, "add") /\ Takes(r, [NoArg EXCEPT !.user = u, !.kind = k])
      BY <1>3, <1>t, <2>1, GotoMoves, ArgTakes DEF AddCheck
    <2>3. Fits(r, "add", [NoArg EXCEPT !.user = u, !.kind = k])
      BY DEF Fits, AtInvite, AtRow, AtAccept, AtTerms
    <2>4. pc[r] = "idle" /\ UNCHANGED <<shared, members>>
      BY <1>3 DEF AddCheck
    <2>u. /\ pc[r] \in AtMake
          /\ UNCHANGED <<project, role, config, salaries, extra, accepted, excused>>
      BY <2>4 DEF shared, members, AtMake
    <2>5. PlaceInv' /\ ActiveMeansAccepted' /\ OwnerInv' /\ TermsInv'
      <3>1. Quiet(r, "add", [NoArg EXCEPT !.user = u, !.kind = k])
        BY <2>2, <2>3, <2>u DEF Quiet, AtTerms
      <3> QED
        BY <3>1, QuietStep
    <2>6. MadeInv'
      BY <2>2, <2>4, MadeQuiet DEF members, AtAccept
    <2>7. TeamTypeOK'
      <3>1. arg' \in [Requests -> Arguments]
        BY <1>t, <2>1, GivenKind
      <3> QED
        BY <1>t, <2>4, <3>1 DEF TeamTypeOK, shared, members
    <2> QED
      BY <2>5, <2>6, <2>7
  <1>4. ASSUME BulkCheck(r) PROVE TeamInv'
    <2>1. PICK u \in Users, k \in Kinds :
            arg' = [arg EXCEPT ![r] = [NoArg EXCEPT !.user = u, !.kind = k]]
      BY <1>4 DEF BulkCheck
    <2>2. Moves(r, "bulk") /\ Takes(r, [NoArg EXCEPT !.user = u, !.kind = k])
      BY <1>4, <1>t, <2>1, GotoMoves, ArgTakes DEF BulkCheck
    <2>3. Fits(r, "bulk", [NoArg EXCEPT !.user = u, !.kind = k])
      BY DEF Fits, AtInvite, AtRow, AtAccept, AtTerms
    <2>4. pc[r] = "idle" /\ UNCHANGED <<shared, members>>
      BY <1>4 DEF BulkCheck
    <2>u. /\ pc[r] \in AtMake
          /\ UNCHANGED <<project, role, config, salaries, extra, accepted, excused>>
      BY <2>4 DEF shared, members, AtMake
    <2>5. PlaceInv' /\ ActiveMeansAccepted' /\ OwnerInv' /\ TermsInv'
      <3>1. Quiet(r, "bulk", [NoArg EXCEPT !.user = u, !.kind = k])
        BY <2>2, <2>3, <2>u DEF Quiet, AtTerms
      <3> QED
        BY <3>1, QuietStep
    <2>6. MadeInv'
      BY <2>2, <2>4, MadeQuiet DEF members, AtAccept
    <2>7. TeamTypeOK'
      <3>1. arg' \in [Requests -> Arguments]
        BY <1>t, <2>1, GivenKind
      <3> QED
        BY <1>t, <2>4, <3>1 DEF TeamTypeOK, shared, members
    <2> QED
      BY <2>5, <2>6, <2>7
  <1>5. ASSUME NEW x \in Rows, ConfigCheck(r, x) PROVE TeamInv'
    <2>1. PICK t \in Terms \ {"none"} :
            arg' = [arg EXCEPT ![r] = [NoArg EXCEPT !.row = x, !.terms = t]]
      BY <1>5 DEF ConfigCheck
    <2>2. Look("config", [NoArg EXCEPT !.row = x, !.terms = t])
      BY <1>5, <2>1, GivenRowTerms DEF ConfigCheck, AtAccept
    <2>3. [NoArg EXCEPT !.row = x, !.terms = t].row = x
          /\ [NoArg EXCEPT !.row = x, !.terms = t].terms = t
      BY DEF NoArg
    <2>4. Fits(r, "config", [NoArg EXCEPT !.row = x, !.terms = t])
      BY <2>3 DEF Fits, AtInvite, AtAccept
    <2> QED
      BY <1>5, <2>2, <2>3, <2>4, <1>0 DEF ConfigCheck, AtMake
  <1>6. ASSUME NEW x \in Rows, ChangeCheck(r, x) PROVE TeamInv'
    <2>1. PICK k \in Kinds :
            arg' = [arg EXCEPT ![r] = [NoArg EXCEPT !.row = x, !.kind = k]]
      BY <1>6 DEF ChangeCheck
    <2>2. Look("change", [NoArg EXCEPT !.row = x, !.kind = k])
      BY <1>6, <2>1, GivenRowKind DEF ChangeCheck, AtAccept
    <2>3. Fits(r, "change", [NoArg EXCEPT !.row = x, !.kind = k])
      BY DEF Fits, AtInvite, AtAccept, AtRow, AtTerms, NoArg
    <2> QED
      BY <2>2, <2>3, <1>0 DEF AtMake
  <1>7. ASSUME NEW x \in Rows, RemoveCheck(r, x) PROVE TeamInv'
    <2> DEFINE a == [NoArg EXCEPT !.row = x, !.kind = role[x].kind]
    <2>1. role[x].kind \in Kinds
      BY <1>7 DEF RemoveCheck, TeamTypeOK, Live, Roles
    <2>2. Look("remove", a)
      BY <1>7, <2>1, GivenRowKind DEF RemoveCheck, AtAccept
    <2>3. a.row = x /\ a.kind = role[x].kind
      BY DEF NoArg
    <2>4. Fits(r, "remove", a)
      BY <2>3 DEF Fits, AtInvite, AtAccept
    <2>5. a.kind = "PROJECT_OWNER" => \E y \in OwnerRows : y # a.row
      <3>1. Cardinality(OwnerRows) > 1 => \E y \in OwnerRows : y # x
        BY MoreThanOne
      <3>2. role[x].kind = "PROJECT_OWNER" => Cardinality(OwnerRows) > 1
        BY <1>7 DEF RemoveCheck
      <3> QED
        BY <2>3, <3>1, <3>2
    <2> QED
      BY <2>2, <2>4, <2>5, <1>0 DEF AtMake
  <1>8. ASSUME LeaveCheck(r) PROVE TeamInv'
    <2>1. PICK u \in Users : arg' = [arg EXCEPT ![r] = [NoArg EXCEPT !.user = u]]
      BY <1>8 DEF LeaveCheck
    <2>2. Look("pick", [NoArg EXCEPT !.user = u])
      BY <1>8, <2>1, GivenUser DEF LeaveCheck, AtAccept
    <2>3. Fits(r, "pick", [NoArg EXCEPT !.user = u])
      BY DEF Fits, AtInvite, AtAccept, AtRow, AtTerms, NoArg
    <2> QED
      BY <2>2, <2>3, <1>0 DEF AtMake
  <1>9. ASSUME PickRole(r) PROVE TeamInv'
    <2>1. pc[r] = "pick" /\ UNCHANGED <<shared, members>> /\ arg[r].kind # "PROJECT_OWNER"
      BY <1>9 DEF PickRole, PlaceInv, At
    <2>2. CASE Answer(r) /\ UNCHANGED arg
      <3>1. Look("done", arg[r])
        BY <1>t, <2>1, <2>2 DEF Answer, AtAccept
      <3> QED
        BY <3>1, <1>0 DEF Fits, AtInvite, AtRow, AtAccept, AtTerms, AtMake
    <2>3. ASSUME NEW x \in RolesOf(arg[r].user), arg' = [arg EXCEPT ![r].row = x],
                 Goto(r, "remove")
          PROVE TeamInv'
      <3> DEFINE a == [arg[r] EXCEPT !.row = x]
      <3>1. x \in Rows
        BY DEF RolesOf
      <3>2. a \in Arguments /\ a.row = x /\ a.kind = arg[r].kind
        BY <1>t, <3>1 DEF Arguments
      <3>3. arg' = [arg EXCEPT ![r] = a]
        BY <1>t, <2>3
      <3>4. Look("remove", a)
        BY <2>1, <2>3, <3>2, <3>3 DEF AtAccept
      <3>5. Fits(r, "remove", a)
        BY <3>1, <3>2 DEF Fits, AtInvite, AtAccept
      <3> QED
        BY <2>1, <3>2, <3>4, <3>5, <1>0 DEF AtMake
    <2> QED
      BY <1>9, <2>2, <2>3 DEF PickRole
  <1>10. ASSUME DropCheck(r) PROVE TeamInv'
    <2>1. Look("drop", arg[r])
      BY <1>10, <1>t DEF DropCheck, AtAccept
    <2> QED
      BY <2>1, <1>0 DEF Fits, AtInvite, AtRow, AtAccept, AtTerms, AtMake
  <1> QED
    BY <1>1, <1>2, <1>3, <1>4, <1>5, <1>6, <1>7, <1>8, <1>9, <1>10

(* Of the invites, one that becomes PENDING again or that loses the last   *)
(* handler about to settle it has an excuse, or made no role yet.          *)
LEMMA MadeFree ==
  ASSUME TeamTypeOK, MadeInv, NEW r \in Requests, NEW q, NEW a, Moves(r, q), Takes(r, a),
         pc[r] \notin AtOffer \cup {"done"}, q \notin AtAccept,
         made' = made, excuses' \in [Invites -> Nat],
         \A i \in Invites :
           /\ excuses'[i] >= excuses[i]
           /\ invite'[i].status = "PENDING" =>
                \/ excuses'[i] >= excuses[i] + 1
                \/ made[i] = 0
                \/ invite[i].status = "PENDING" /\ ~(pc[r] = "settle" /\ arg[r].inv = i)
           /\ invite[i].status = "none" => invite'[i].status = "none" \/ (i = r /\ q = "done")
  PROVE  MadeInv'
  <1>1. ASSUME NEW i \in Invites
        PROVE  /\ Offered(i)' = Offered(i)
               /\ Accepting(i) \subseteq IF pc[r] = "settle" /\ arg[r].inv = i
                                         THEN Accepting(i)' \cup {r} ELSE Accepting(i)'
    BY DEF Offered, Accepting, Moves, Takes, AtAccept, AtOffer
  <1>2. ASSUME NEW i \in Invites
        PROVE  /\ made[i] \in Nat /\ excuses[i] \in Nat /\ excuses'[i] \in Nat
               /\ IsFiniteSet(Offered(i)) /\ Cardinality(Offered(i)) \in Nat
               /\ made[i] + Cardinality(Offered(i)) <= 1 + excuses[i]
    BY FS_CardinalityType DEF TeamTypeOK, MadeInv
  <1>3. ASSUME NEW i \in Invites
        PROVE  /\ IsFiniteSet(Offered(i)')
               /\ made'[i] + Cardinality(Offered(i)') <= 1 + excuses'[i]
    BY <1>1, <1>2
  <1>4. ASSUME NEW i \in Invites, invite'[i].status = "PENDING", Accepting(i)' = {}
        PROVE  made'[i] <= excuses'[i]
    <2>1. CASE excuses'[i] >= excuses[i] + 1
      BY <1>2, <2>1
    <2>2. CASE made[i] = 0
      BY <1>2, <2>2
    <2>3. CASE invite[i].status = "PENDING" /\ ~(pc[r] = "settle" /\ arg[r].inv = i)
      <3>1. Accepting(i) = {}
        BY <1>1, <1>4, <2>3
      <3>2. made[i] <= excuses[i]
        BY <2>3, <3>1 DEF MadeInv
      <3> QED
        BY <1>2, <3>2
    <2> QED
      BY <1>4, <2>1, <2>2, <2>3
  <1>5. ASSUME NEW s \in Requests, pc'[s] # "done"
        PROVE  invite'[s].status = "none" /\ made'[s] = 0
    <2>1. pc[s] # "done" /\ (s # r \/ q # "done") /\ s \in Invites
      BY <1>5 DEF Moves, Invites
    <2> QED
      BY <2>1 DEF MadeInv
  <1> QED
    BY <1>3, <1>4, <1>5 DEF MadeInv

(* A handler that ends, and leaves what it held.                           *)
LEMMA EndStep ==
  ASSUME PlaceInv, NEW r \in Requests, Answer(r), UNCHANGED arg,
         UNCHANGED <<project, role, config, salaries, extra, accepted, excused>>
  PROVE  Quiet(r, "done", arg[r])
  BY GotoMoves, ArgStays
     DEF Answer, Quiet, Fits, AtMake, AtTerms, AtInvite, AtRow, AtAccept

(* Steps that write an invite only, and end.                               *)
LEMMA InviteSteps ==
  ASSUME TeamInv, NEW r \in Requests,
         \/ InviteWrite(r) \/ SendInvite(r) \/ DeclineInvite(r) \/ ExpireInvite(r)
         \/ \E i \in Invites : EditInvite(r, i) \/ PatchStatus(r, i)
  PROVE  TeamInv'
  <1> USE DEF TeamInv
  <1>1. Answer(r) /\ UNCHANGED arg /\ UNCHANGED <<shared, config, salaries, extra, accepted, excused, made>>
    BY DEF InviteWrite, SendInvite, Insert, DeclineInvite, ExpireInvite, EditInvite, PatchStatus
  <1>2. Quiet(r, "done", arg[r])
    BY <1>1, EndStep DEF shared
  <1>3. PlaceInv' /\ ActiveMeansAccepted' /\ OwnerInv' /\ TermsInv'
    BY <1>2, QuietStep
  <1>4. pc[r] \notin AtAccept \cup {"done"} /\ r \in Invites
    BY DEF InviteWrite, SendInvite, DeclineInvite, ExpireInvite, EditInvite, PatchStatus,
           AtAccept, Invites
  <1>5. arg[r] \in Arguments /\ invite \in [Invites -> Invitation] /\ excuses \in [Invites -> Nat]
    BY DEF TeamTypeOK
  <1>6. invite[r].status = "none" /\ made[r] = 0
    BY <1>4 DEF MadeInv
  <1> DEFINE Fair == /\ invite' \in [Invites -> Invitation]
                     /\ excuses' \in [Invites -> Nat]
                     /\ \A i \in Invites :
                          /\ excuses'[i] >= excuses[i]
                          /\ invite'[i].status = "PENDING" =>
                               \/ excuses'[i] >= excuses[i] + 1
                               \/ made[i] = 0
                               \/ invite[i].status = "PENDING"
                          /\ invite[i].status = "none" => invite'[i].status = "none" \/ i = r
  <1>7. Fair
    <2>1. ASSUME NEW u \in Users \cup {NoUser}, Insert(r, u) PROVE Fair
      <3> DEFINE new == [Unsent EXCEPT !.status = "PENDING", !.kind = arg[r].kind,
                                       !.email = arg[r].user, !.terms = arg[r].terms,
                                       !.linked = u]
      <3>1. new \in Invitation
        BY <1>5, ProjectAssumption DEF Unsent, Invitation, Arguments, Statuses, Terms, Kinds
      <3>2. excuses' = excuses /\ (invite' = invite \/ invite' = [invite EXCEPT ![r] = new])
        BY <2>1 DEF Insert
      <3> HIDE DEF new
      <3> QED
        BY <1>4, <1>5, <1>6, <3>1, <3>2
    <2>2. CASE InviteWrite(r)
      BY <1>5, <2>1, <2>2 DEF InviteWrite, Arguments
    <2>3. CASE SendInvite(r)
      BY <2>1, <2>3 DEF SendInvite
    <2>4. ASSUME NEW i \in Invites, NEW s \in {"DECLINED", "EXPIRED"}, excuses' = excuses,
                 invite' = [invite EXCEPT ![i].status = IF @ = "none" THEN @ ELSE s]
          PROVE  Fair
      BY <1>5, <2>4 DEF Invitation, Statuses
    <2>5. CASE DeclineInvite(r)
      <3>1. arg[r].inv \in Invites
        BY <2>5 DEF DeclineInvite, PlaceInv, At, AtInvite
      <3> QED
        BY <2>4, <2>5, <3>1 DEF DeclineInvite
    <2>6. CASE ExpireInvite(r)
      <3>1. arg[r].inv \in Invites
        BY <2>6 DEF ExpireInvite, PlaceInv, At, AtInvite
      <3> QED
        BY <2>4, <2>6, <3>1 DEF ExpireInvite
    <2>7. ASSUME NEW i \in Invites, EditInvite(r, i) PROVE Fair
      <3>1. PICK k \in GivenKinds, later \in BOOLEAN :
              invite' = [invite EXCEPT ![i].kind = k, ![i].late = @ /\ ~later]
        BY <2>7 DEF EditInvite
      <3>2. excuses' = excuses /\ k \in Kinds
        BY <2>7, <3>1, InviteAssumption DEF EditInvite
      <3> DEFINE edited == [[invite[i] EXCEPT !.kind = k] EXCEPT !.late = @ /\ ~later]
      <3>3. (invite[i].late /\ ~later) \in BOOLEAN
        OBVIOUS
      <3>4. edited \in Invitation /\ edited.status = invite[i].status
        BY <1>5, <3>2, <3>3 DEF Invitation
      <3>5. invite' = [invite EXCEPT ![i] = edited]
        BY <1>5, <3>1
      <3> HIDE DEF edited
      <3> QED
        BY <1>5, <3>2, <3>4, <3>5
    <2>8. ASSUME NEW i \in Invites, PatchStatus(r, i) PROVE Fair
      <3>1. PICK s \in Statuses :
              /\ invite' = [invite EXCEPT ![i].status = s]
              /\ excuses' = [excuses EXCEPT ![i] = IF s = "PENDING" THEN @ + 1 ELSE @]
        BY <2>8 DEF PatchStatus
      <3>2. invite[i].status # "none"
        BY <2>8 DEF PatchStatus
      <3>3. invite' \in [Invites -> Invitation]
        BY <1>5, <3>1 DEF Invitation
      <3>4. \A j \in Invites : /\ invite'[j].status = IF j = i THEN s ELSE invite[j].status
                               /\ excuses[j] \in Nat
                               /\ excuses'[j] = IF j = i /\ s = "PENDING"
                                                THEN excuses[j] + 1 ELSE excuses[j]
        BY <1>5, <3>1 DEF Invitation
      <3>5. excuses' \in [Invites -> Nat]
        BY <1>5, <3>1
      <3> QED
        BY <3>2, <3>3, <3>4, <3>5
    <2> QED
      BY <2>2, <2>3, <2>5, <2>6, <2>7, <2>8
  <1>8. MadeInv'
    BY <1>1, <1>2, <1>4, <1>7, MadeFree DEF Quiet, AtAccept, AtOffer
  <1>9. TeamTypeOK'
    BY <1>1, <1>7 DEF TeamTypeOK, shared
  <1> QED
    BY <1>3, <1>8, <1>9

LEMMA ExpireStep ==
  ASSUME TeamInv, NEW r \in Requests, ExpireInvites(r)
  PROVE  TeamInv'
  <1> USE DEF TeamInv
  <1>1. PICK u \in Users, k \in Kinds :
          /\ invite' = [i \in Invites |->
               IF /\ invite[i].status = "PENDING"
                  /\ invite[i].email = u /\ invite[i].late
               THEN [invite[i] EXCEPT !.status = "EXPIRED"] ELSE invite[i]]
          /\ arg' = [arg EXCEPT ![r] = [NoArg EXCEPT !.user = u, !.kind = k]]
    BY InviteAssumption DEF ExpireInvites
  <1> DEFINE a == [NoArg EXCEPT !.user = u, !.kind = k]
  <1>2. /\ pc[r] = "idle" /\ Goto(r, "duplicate")
        /\ UNCHANGED <<shared, config, salaries, extra, accepted, made, excuses, excused>>
    BY DEF ExpireInvites
  <1>3. a \in Arguments
    BY GivenKind
  <1>4. Moves(r, "duplicate") /\ Takes(r, a)
    BY <1>1, <1>2, GotoMoves, ArgTakes
  <1>5. Quiet(r, "duplicate", a)
    BY <1>2, <1>4 DEF Quiet, Fits, AtInvite, AtAccept, AtRow, AtTerms, AtMake, shared
  <1>6. \A i \in Invites : /\ invite'[i].status \in {invite[i].status, "EXPIRED"}
                           /\ invite[i].status = "none" => invite'[i].status = "none"
    BY <1>1 DEF TeamTypeOK, Invitation
  <1>7. MadeInv'
    BY <1>2, <1>4, <1>6, MadeQuiet DEF AtAccept
  <1>8. invite' \in [Invites -> Invitation]
    <2>1. ASSUME NEW i \in Invites
          PROVE  invite[i] \in Invitation /\ [invite[i] EXCEPT !.status = "EXPIRED"] \in Invitation
      BY DEF TeamTypeOK, Invitation, Statuses
    <2> QED
      BY <1>1, <2>1
  <1>9. arg' \in [Requests -> Arguments]
    BY <1>1, <1>3 DEF TeamTypeOK
  <1> QED
    BY <1>2, <1>5, <1>7, <1>8, <1>9, QuietStep DEF TeamTypeOK, shared

LEMMA LapseStep ==
  ASSUME TeamInv, NEW i \in Invites, Lapse(i)
  PROVE  TeamInv'
  <1> USE DEF TeamInv
  <1>1. /\ UNCHANGED <<shared, pc, arg, config, salaries, extra, accepted, made, excuses, excused>>
        /\ invite' = [invite EXCEPT ![i].late = TRUE]
    BY DEF Lapse
  <1>2. invite' \in [Invites -> Invitation]
    BY <1>1 DEF TeamTypeOK, Invitation
  <1>3. TeamTypeOK'
    BY <1>1, <1>2 DEF TeamTypeOK, shared
  <1>4. PlaceInv' /\ ActiveMeansAccepted'
    BY <1>1 DEF PlaceInv, ActiveMeansAccepted, At, Live, shared
  <1>5. OwnerInv'
    BY <1>1 DEF OwnerInv, OwnerRows, At, Live, shared
  <1>6. TermsInv'
    <2>1. \A x \in Rows : Starting(x)' = Starting(x) /\ Allowed(x)' = Allowed(x)
      BY <1>1 DEF Starting, Allowed
    <2>2. SalariesInv'
      BY <1>1, <2>1 DEF TermsInv, SalariesInv, Live, shared
    <2> QED
      BY <1>1, <2>2 DEF TermsInv, At, Live, shared
  <1>7. \A j \in Invites : /\ invite'[j].status = invite[j].status
                           /\ Offered(j)' = Offered(j) /\ Accepting(j)' = Accepting(j)
    BY <1>1 DEF TeamTypeOK, Invitation, Offered, Accepting
  <1>8. MadeInv'
    BY <1>1, <1>7 DEF MadeInv, Invites
  <1> QED
    BY <1>3, <1>4, <1>5, <1>6, <1>8

LEMMA BeginSteps ==
  ASSUME TeamInv, NEW r \in Requests, NEW i \in Invites,
         RespondCheck(r, i) \/ AcceptCheck(r, i) \/ PatchAccept(r, i)
  PROVE  TeamInv'
  <1> USE DEF TeamInv
  <1>1. /\ pc[r] = "idle"
        /\ UNCHANGED <<shared, invite, config, salaries, extra, accepted, made, excused>>
    BY DEF RespondCheck, AcceptCheck, PatchAccept
  <1>2. ASSUME NEW u \in Users, NEW q \in AtOffer, StartAccepting(r, i, u, q)
        PROVE  TeamInv'
    <2> DEFINE a == [user |-> u, kind |-> invite[i].kind, row |-> r, inv |-> i,
                     terms |-> invite[i].terms]
    <2>1. a \in Arguments
      BY DEF TeamTypeOK, Invitation, Arguments, Rows
    <2>2. /\ Goto(r, q) /\ arg' = [arg EXCEPT ![r] = a]
          /\ excuses' = [excuses EXCEPT ![i] =
               IF invite[i].status = "PENDING" /\ Accepting(i) = {} THEN @ ELSE @ + 1]
      BY <1>2 DEF StartAccepting
    <2>3. Moves(r, q) /\ Takes(r, a)
      BY <2>2, GotoMoves, ArgTakes
    <2>4. Quiet(r, q, a)
      BY <1>1, <2>3 DEF Quiet, Fits, AtInvite, AtAccept, AtRow, AtTerms, AtMake, AtOffer, shared
    <2>5. MadeInv'
      BY <1>1, <1>2, MadeStart
    <2>6. excuses' \in [Invites -> Nat]
      BY <2>2 DEF TeamTypeOK
    <2>7. arg' \in [Requests -> Arguments]
      BY <2>1, <2>2 DEF TeamTypeOK
    <2> QED
      BY <1>1, <2>4, <2>5, <2>6, <2>7, QuietStep DEF TeamTypeOK, shared
  <1>3. ASSUME arg' = [arg EXCEPT ![r] = [NoArg EXCEPT !.inv = i]], excuses' = excuses,
               NEW q \in {"decline", "expire"}, Goto(r, q)
        PROVE  TeamInv'
    <2> DEFINE a == [NoArg EXCEPT !.inv = i]
    <2>1. a \in Arguments /\ a.inv = i
      BY GivenInvite DEF NoArg
    <2>2. Moves(r, q) /\ Takes(r, a)
      BY <1>3, GotoMoves, ArgTakes
    <2>3. arg' \in [Requests -> Arguments]
      BY <1>3, <2>1 DEF TeamTypeOK
    <2>4. Fits(r, q, a)
      BY <2>1 DEF Fits, AtRow, AtTerms
    <2>5. UNCHANGED <<shared, members>>
      BY <1>1, <1>3 DEF members
    <2> HIDE DEF a
    <2> QED
      BY <1>1, <2>1, <2>2, <2>3, <2>4, <2>5, LookStep DEF AtAccept, AtMake
  <1> QED
    BY <1>2, <1>3 DEF RespondCheck, AcceptCheck, PatchAccept, AtOffer

LEMMA AcceptedInvite ==
  ASSUME invite \in [Invites -> Invitation], NEW i \in Invites, NEW u \in Users,
         invite' = [invite EXCEPT ![i].status = "ACCEPTED", ![i].linked = u]
  PROVE  /\ invite' \in [Invites -> Invitation]
         /\ \A j \in Invites : invite'[j].status = IF j = i THEN "ACCEPTED"
                                                   ELSE invite[j].status
  <1> DEFINE new == [[invite[i] EXCEPT !.status = "ACCEPTED"] EXCEPT !.linked = u]
  <1>1. new \in Invitation /\ new.status = "ACCEPTED"
    BY DEF Invitation, Statuses
  <1>2. invite' = [invite EXCEPT ![i] = new]
    OBVIOUS
  <1> HIDE DEF new
  <1> QED
    BY <1>1, <1>2

LEMMA SettleStep ==
  ASSUME TeamInv, NEW r \in Requests, RespondSettle(r)
  PROVE  TeamInv'
  <1> USE DEF TeamInv
  <1> DEFINE i == arg[r].inv
  <1>1. /\ pc[r] = "settle" /\ i \in Invites /\ arg[r].row = r /\ arg[r].row \in Rows
        /\ UNCHANGED <<shared, arg, config, salaries, extra, accepted, made, excuses, excused>>
    BY DEF RespondSettle, PlaceInv, At, AtInvite, AtAccept, AtRow, AtTerms
  <1>2. PICK q \in {"done", "config"} :
          /\ Goto(r, q)
          /\ q = "config" => arg[r].terms # "none"
          /\ \/ invite[i].status = "none" /\ invite' = invite
             \/ invite' = [invite EXCEPT ![i].status = "ACCEPTED", ![i].linked = arg[r].user]
                /\ invite[i].status # "none"
    BY DEF RespondSettle, Answer
  <1>3. Moves(r, q) /\ Takes(r, arg[r])
    BY <1>1, <1>2, GotoMoves, ArgStays
  <1>4. Quiet(r, q, arg[r])
    BY <1>1, <1>2, <1>3 DEF Quiet, Fits, AtInvite, AtAccept, AtRow, AtTerms, AtMake, shared
  <1>5. arg[r].user \in Users
    BY DEF TeamTypeOK, Arguments
  <1>6. /\ invite' \in [Invites -> Invitation]
        /\ \A j \in Invites : invite'[j].status = IF j = i /\ invite[i].status # "none"
                                                  THEN "ACCEPTED" ELSE invite[j].status
    BY <1>1, <1>2, <1>5, AcceptedInvite DEF TeamTypeOK
  <1>7. MadeInv'
    <2>1. excuses' \in [Invites -> Nat] /\ \A j \in Invites : excuses'[j] >= excuses[j]
      BY <1>1 DEF TeamTypeOK
    <2> QED
      BY <1>1, <1>2, <1>3, <1>6, <2>1, MadeFree DEF AtOffer, AtAccept
  <1> QED
    BY <1>1, <1>4, <1>6, <1>7, QuietStep DEF TeamTypeOK, shared

-----------------------------------------------------------------------------
(* Steps that write roles and terms.                                       *)
LEMMA MakeSteps ==
  ASSUME TeamInv, NEW r \in Requests,
         RespondRole(r) \/ AcceptWrite(r) \/ PatchWrite(r)
  PROVE  TeamInv'
  <1> USE DEF TeamInv
  <1> DEFINE i == arg[r].inv
  <1>1. /\ pc[r] \in AtOffer /\ i \in Invites /\ r \in Rows
        /\ UNCHANGED <<project, config, salaries, extra, arg, excuses, excused>>
    BY DEF RespondRole, AcceptWrite, PatchWrite, AcceptInTx, PlaceInv, At, AtOffer, AtInvite,
           AtAccept, Rows
  <1>2. arg[r] \in Arguments
    BY DEF TeamTypeOK
  <1>3. ASSUME NEW new \in Roles, NEW q \in {"settle", "done"}, Goto(r, q),
               q = "settle" => pc[r] = "role",
               role' = [role EXCEPT ![r] = new],
               new.status = "ACTIVE" => new.user = arg[r].user,
               accepted' = accepted \cup {arg[r].user},
               made' = [made EXCEPT ![i] = @ + 1],
               invite[i].status # "none",
               \/ q = "settle" /\ UNCHANGED invite
               \/ /\ q = "done"
                  /\ invite' = [invite EXCEPT ![i].status = "ACCEPTED",
                                              ![i].linked = arg[r].user]
        PROVE  TeamInv'
    <2>1. Moves(r, q) /\ Takes(r, arg[r])
      BY <1>1, <1>3, GotoMoves, ArgStays
    <2>2. Fits(r, q, arg[r])
      BY <1>1, <1>3 DEF PlaceInv, At, Fits, AtInvite, AtAccept, AtRow, AtTerms
    <2>3. PlaceInv' /\ ActiveMeansAccepted' /\ OwnerInv' /\ TermsInv'
      <3>1. At(r, AtMake) /\ q \in {"settle", "send", "done"}
        BY <1>1, <1>3 DEF At, AtMake, AtOffer
      <3>2. accepted \subseteq accepted' /\ (new.status = "ACTIVE" => new.user \in accepted')
        BY <1>3
      <3> QED
        BY <1>1, <1>3, <2>1, <2>2, <3>1, <3>2, MakeStep
    <2>5. q = "done" => \A j \in Invites : invite'[j].status =
                          IF j = i THEN "ACCEPTED" ELSE invite[j].status
      BY <1>1, <1>2, <1>3, AcceptedInvite DEF TeamTypeOK, Arguments
    <2>i. invite' \in [Invites -> Invitation]
      BY <1>1, <1>2, <1>3, AcceptedInvite DEF TeamTypeOK, Arguments
    <2>6. MadeInv'
      <3>1. Ends(r, q, i)
        BY <1>1, <1>3, <2>1, <2>5 DEF Ends
      <3> QED
        BY <3>1, MadeEnds
    <2>7. made' \in [Invites -> Nat] /\ accepted' \subseteq Users
      BY <1>1, <1>2, <1>3 DEF TeamTypeOK, Arguments
    <2>8. role' \in [Rows -> {NoRole} \cup Roles]
      BY <1>3 DEF TeamTypeOK
    <2> QED
      BY <1>1, <2>3, <2>i, <2>6, <2>7, <2>8 DEF TeamTypeOK
  <1>4. ASSUME Answer(r), UNCHANGED <<role, invite, accepted, made>> PROVE TeamInv'
    <2>1. Quiet(r, "done", arg[r])
      BY <1>1, <1>4, EndStep
    <2>2. MadeInv'
      <3>1. Ends(r, "done", i)
        BY <1>1, <1>4, <2>1 DEF Ends, Quiet
      <3> QED
        BY <3>1, MadeEnds
    <2> QED
      BY <1>1, <1>4, <2>1, <2>2, QuietStep DEF TeamTypeOK
  <1>5. ASSUME NEW s \in {"ACTIVE", "PENDING"}
        PROVE  /\ RoleOf(arg[r].user, arg[r].kind, s, i) \in Roles
               /\ RoleOf(arg[r].user, arg[r].kind, s, NoInvite) \in Roles
               /\ RoleOf(arg[r].user, arg[r].kind, s, i).user = arg[r].user
               /\ RoleOf(arg[r].user, arg[r].kind, s, NoInvite).status = s
    BY <1>1, <1>2 DEF RoleOf, Roles, Arguments
  <1>6. CASE RespondRole(r)
    <2>1. pc[r] = "role" /\ UNCHANGED invite
      BY <1>6 DEF RespondRole
    <2>2. CASE /\ project = "live" /\ invite[i].status # "none"
               /\ role' = [role EXCEPT ![r] = RoleOf(arg[r].user, arg[r].kind, "ACTIVE", i)]
               /\ accepted' = accepted \cup {arg[r].user}
               /\ made' = [made EXCEPT ![i] = @ + 1]
               /\ Goto(r, "settle")
      BY <1>3, <1>5, <2>1, <2>2
    <2> QED
      BY <1>4, <1>6, <2>1, <2>2 DEF RespondRole
  <1>7. CASE AcceptInTx(r)
    <2>1. Answer(r)
      BY <1>7 DEF AcceptInTx
    <2>2. CASE /\ project = "live" /\ invite[i].status # "none"
               /\ role' = [role EXCEPT ![r] = RoleOf(arg[r].user, arg[r].kind, "PENDING", NoInvite)]
               /\ invite' = [invite EXCEPT ![i].status = "ACCEPTED",
                                           ![i].linked = arg[r].user]
               /\ accepted' = accepted \cup {arg[r].user}
               /\ made' = [made EXCEPT ![i] = @ + 1]
      BY <1>3, <1>5, <2>1, <2>2 DEF Answer
    <2> QED
      BY <1>4, <1>7, <2>1, <2>2 DEF AcceptInTx
  <1> QED
    BY <1>6, <1>7 DEF AcceptWrite, PatchWrite

LEMMA AddSteps ==
  ASSUME TeamInv, NEW r \in Requests, AddUser(r) \/ AddRole(r)
  PROVE  TeamInv'
  <1> USE DEF TeamInv
  <1> DEFINE new == RoleOf(arg[r].user, arg[r].kind, "PENDING", NoInvite)
  <1>1. /\ pc[r] \in {"add", "bulk"} /\ UNCHANGED <<project, members>> /\ r \in Rows
        /\ arg[r] \in Arguments
    BY DEF AddUser, AddRole, Rows, TeamTypeOK
  <1>2. new \in Roles /\ new.status = "PENDING"
    BY <1>1 DEF RoleOf, Roles, Arguments
  <1> HIDE DEF new
  <1>3. ASSUME NEW a \in Arguments, NEW q \in {"done", "send"}, Moves(r, q), Takes(r, a),
               arg' \in [Requests -> Arguments],
               role' = role \/ role' = [role EXCEPT ![r] = new]
        PROVE  TeamInv'
    <2>1. Fits(r, q, a)
      BY DEF Fits, AtInvite, AtAccept, AtRow, AtTerms
    <2>2. CASE role' = role
      <3>1. Quiet(r, q, a)
        BY <1>1, <1>3, <2>1, <2>2 DEF Quiet, members, AtMake, AtTerms
      <3>2. MadeInv'
        BY <1>1, <1>3, MadeQuiet DEF members, AtAccept
      <3> QED
        BY <1>1, <1>3, <2>2, <3>1, <3>2, QuietStep DEF TeamTypeOK, members
    <2>3. CASE role' = [role EXCEPT ![r] = new]
      <3>1. At(r, AtMake) /\ q \in {"settle", "send", "done"} /\ accepted' = accepted
            /\ UNCHANGED <<project, config, salaries, extra, excused>>
        BY <1>1 DEF At, AtMake, members
      <3>2. PlaceInv' /\ ActiveMeansAccepted' /\ OwnerInv' /\ TermsInv'
        BY <1>2, <1>3, <2>1, <2>3, <3>1, MakeStep
      <3>3. MadeInv'
        BY <1>1, <1>3, MadeQuiet DEF members, AtAccept
      <3>4. role' \in [Rows -> {NoRole} \cup Roles]
        BY <1>2, <2>3 DEF TeamTypeOK
      <3> QED
        BY <1>1, <1>3, <3>2, <3>3, <3>4 DEF TeamTypeOK, members
    <2> QED
      BY <1>3, <2>2, <2>3
  <1>4. role' = role \/ role' = [role EXCEPT ![r] = new]
    BY DEF AddUser, AddRole, new
  <1>5. CASE Answer(r) /\ UNCHANGED arg
    <2>1. Moves(r, "done") /\ Takes(r, arg[r]) /\ arg' \in [Requests -> Arguments]
      BY <1>5, GotoMoves, ArgStays DEF Answer, TeamTypeOK
    <2> QED
      BY <1>1, <1>3, <1>4, <2>1
  <1>6. ASSUME NEW u \in Users, NEW k \in GivenKinds, Goto(r, "send"),
               arg' = [arg EXCEPT ![r].user = u, ![r].kind = k]
        PROVE  TeamInv'
    <2> DEFINE a == [arg[r] EXCEPT !.user = u, !.kind = k]
    <2>1. a \in Arguments
      BY <1>1, InviteAssumption DEF Arguments
    <2>2. arg' = [arg EXCEPT ![r] = a]
      BY <1>1, <1>6 DEF TeamTypeOK
    <2> HIDE DEF a
    <2>3. Moves(r, "send") /\ Takes(r, a) /\ arg' \in [Requests -> Arguments]
      BY <1>6, <2>1, <2>2, GotoMoves, ArgTakes DEF TeamTypeOK
    <2> QED
      BY <1>3, <1>4, <2>1, <2>3
  <1> QED
    BY <1>5, <1>6 DEF AddUser, AddRole

(* Rows that are there, and their terms, were there before.                *)
Shrinks == \A x \in Rows :
  /\ Live(x)' => /\ Live(x) /\ config'[x] = config[x]
                 /\ role'[x].user = role[x].user /\ role'[x].status = role[x].status
  /\ salaries'[x] \in {0, salaries[x]} /\ extra'[x] = extra[x]
  /\ salaries'[x] > 0 => Live(x)'

LEMMA ShrinkStep ==
  ASSUME PlaceInv, ActiveMeansAccepted, TermsInv, NEW r \in Requests, Answer(r),
         UNCHANGED <<arg, accepted>>, Shrinks
  PROVE  PlaceInv' /\ ActiveMeansAccepted' /\ TermsInv'
  <1>1. Moves(r, "done") /\ Takes(r, arg[r])
    BY GotoMoves, ArgStays DEF Answer
  <1>2. Fits(r, "done", arg[r])
    BY DEF Fits, AtInvite, AtAccept, AtRow, AtTerms
  <1>3. PlaceInv'
    BY <1>1, <1>2, PlaceStep
  <1>4. ActiveMeansAccepted'
    BY DEF ActiveMeansAccepted, Shrinks
  <1>5. ASSUME NEW x \in Requests, NEW s \in Requests, At(x, AtMake)'
        PROVE  (~Live(x) /\ (At(s, AtTerms) => arg[s].row # x))'
    <2>1. At(x, AtMake) /\ x \in Rows /\ (At(s, AtTerms)' => At(s, AtTerms))
      BY <1>1, <1>5 DEF Moves, At, AtMake, AtTerms, Rows
    <2> QED
      BY <2>1 DEF TermsInv, Shrinks
  <1>6. \A x \in Rows : Starting(x)' \subseteq Starting(x)
    BY <1>1 DEF Starting, Moves
  <1>7. SalariesInv'
    BY <1>6, SalariesStay DEF TermsInv, Shrinks
  <1> QED
    BY <1>3, <1>4, <1>5, <1>7 DEF TermsInv

LEMMA DeleteStep ==
  ASSUME TeamInv, NEW r \in Requests, NEW i \in Invites, DeleteInvite(r, i)
  PROVE  TeamInv'
  <1> USE DEF TeamInv
  <1>1. /\ pc[r] = "idle" /\ Answer(r)
        /\ invite' = [invite EXCEPT ![i] = Unsent]
        /\ UNCHANGED <<project, arg, config, salaries, extra, accepted, made, excuses, excused>>
    BY DEF DeleteInvite
  <1>2. \A x \in Rows :
          role'[x] = IF Live(x) /\ role[x].invite = i
                     THEN [role[x] EXCEPT !.invite = NoInvite] ELSE role[x]
    BY DEF DeleteInvite
  <1>3. ASSUME NEW x \in Rows
        PROVE  /\ Live(x)' <=> Live(x)
               /\ Live(x) => /\ role'[x] \in Roles /\ role'[x].user = role[x].user
                             /\ role'[x].kind = role[x].kind
                             /\ role'[x].status = role[x].status
    <2>1. Live(x) => role[x] \in Roles
      BY DEF TeamTypeOK, Live
    <2>2. ASSUME Live(x), role[x].invite = i PROVE [role[x] EXCEPT !.invite = NoInvite] \in Roles
      BY <2>1, <2>2 DEF Roles
    <2> QED
      BY <1>2, <2>1, <2>2, InviteAssumption DEF Live, Roles
  <1>4. role' \in [Rows -> {NoRole} \cup Roles]
    <2>1. role' = [x \in Rows |-> role'[x]]
      BY DEF DeleteInvite
    <2>2. \A x \in Rows : role'[x] \in {NoRole} \cup Roles
      BY <1>3 DEF Live
    <2> QED
      BY <2>1, <2>2
  <1>5. Shrinks
    BY <1>1, <1>3 DEF Shrinks, TermsInv, SalariesInv
  <1>6. PlaceInv' /\ ActiveMeansAccepted' /\ TermsInv'
    BY <1>1, <1>5, ShrinkStep
  <1>7. Moves(r, "done") /\ Takes(r, arg[r])
    BY <1>1, GotoMoves, ArgStays DEF Answer
  <1>8. OwnerRows' = OwnerRows
    BY <1>3 DEF OwnerRows
  <1>9. OwnerInv'
    BY <1>1, <1>7, <1>8 DEF OwnerInv, Moves, At
  <1>10. Unsent \in Invitation /\ Unsent.status = "none"
    BY ProjectAssumption DEF Unsent, Invitation, Kinds, Terms
  <1>11. MadeInv'
    BY <1>1, <1>7, <1>10, MadeQuiet DEF AtAccept, TeamTypeOK
  <1>12. invite' \in [Invites -> Invitation]
    BY <1>1, <1>10 DEF TeamTypeOK
  <1>13. TeamTypeOK'
    BY <1>1, <1>4, <1>12 DEF TeamTypeOK
  <1> QED
    BY <1>6, <1>9, <1>11, <1>13

LEMMA ChangeStep ==
  ASSUME TeamInv, NEW r \in Requests, ChangeRole(r)
  PROVE  TeamInv'
  <1> USE DEF TeamInv
  <1> DEFINE x == arg[r].row
             k == arg[r].kind
  <1>1. /\ pc[r] = "change" /\ Answer(r) /\ x \in Rows /\ k \in Kinds
        /\ UNCHANGED <<project, invite, config, salaries, extra, arg, accepted, made, excuses>>
    BY DEF ChangeRole, PlaceInv, At, AtRow, TeamTypeOK, Arguments
  <1>2. \/ /\ Live(x) /\ role' = [role EXCEPT ![x].kind = k]
           /\ excused' = (excused \/ (x \in OwnerRows /\ k # "PROJECT_OWNER"))
        \/ UNCHANGED <<role, excused>>
    BY DEF ChangeRole
  <1>3. ASSUME NEW y \in Rows
        PROVE  /\ Live(y)' <=> Live(y)
               /\ Live(y) => /\ role'[y] \in Roles /\ role'[y].user = role[y].user
                             /\ role'[y].kind = IF role' # role /\ y = x THEN k ELSE role[y].kind
                             /\ role'[y].status = role[y].status
    <2>1. Live(y) => role[y] \in Roles
      BY DEF TeamTypeOK, Live
    <2>2. CASE role' = role
      BY <2>1, <2>2 DEF Live
    <2>3. CASE role' # role /\ y = x
      <3>1. role'[y] = [role[y] EXCEPT !.kind = k] /\ Live(y)
        BY <1>1, <1>2, <2>3 DEF TeamTypeOK
      <3> QED
        BY <1>1, <2>1, <2>3, <3>1, InviteAssumption DEF Roles, Live
    <2>4. CASE role' # role /\ y # x
      BY <1>2, <2>1, <2>4 DEF TeamTypeOK, Live
    <2> QED
      BY <2>2, <2>3, <2>4
  <1>4. role' \in [Rows -> {NoRole} \cup Roles]
    <2>1. role' = [y \in Rows |-> role'[y]]
      BY <1>2 DEF TeamTypeOK
    <2>2. \A y \in Rows : role'[y] \in {NoRole} \cup Roles
      BY <1>3 DEF Live
    <2> QED
      BY <2>1, <2>2
  <1>5. Shrinks
    BY <1>1, <1>3 DEF Shrinks, TermsInv, SalariesInv
  <1>6. PlaceInv' /\ ActiveMeansAccepted' /\ TermsInv'
    BY <1>1, <1>5, ShrinkStep
  <1>7. Moves(r, "done") /\ Takes(r, arg[r])
    BY <1>1, GotoMoves, ArgStays DEF Answer
  <1>8. OwnerInv'
    <2>1. ~excused' => ~excused /\ OwnerRows \subseteq OwnerRows'
      BY <1>2, <1>3 DEF OwnerRows, TeamTypeOK
    <2> QED
      BY <1>1, <1>7, <2>1 DEF OwnerInv, Moves, At
  <1>9. MadeInv'
    BY <1>1, <1>7, MadeQuiet DEF AtAccept
  <1>10. excused' \in BOOLEAN
    <2>1. CASE excused' = excused
      BY <2>1 DEF TeamTypeOK
    <2>2. CASE excused' = (excused \/ (x \in OwnerRows /\ k # "PROJECT_OWNER"))
      BY <2>2
    <2> QED
      BY <1>2, <2>1, <2>2
  <1>11. TeamTypeOK'
    BY <1>1, <1>4, <1>10 DEF TeamTypeOK
  <1> QED
    BY <1>6, <1>8, <1>9, <1>11

LEMMA RemoveStep ==
  ASSUME TeamInv, NEW r \in Requests, RemoveRole(r)
  PROVE  TeamInv'
  <1> USE DEF TeamInv
  <1> DEFINE x == arg[r].row
  <1>1. /\ pc[r] = "remove" /\ Answer(r) /\ x \in Rows
        /\ role' = [role EXCEPT ![x] = NoRole]
        /\ config' = [config EXCEPT ![x] = "none"]
        /\ salaries' = [salaries EXCEPT ![x] = 0]
        /\ excused' = \/ excused
                      \/ /\ x \in OwnerRows
                         /\ Removing # {r} \/ arg[r].kind # "PROJECT_OWNER"
        /\ UNCHANGED <<project, invite, arg, extra, accepted, made, excuses>>
    BY DEF RemoveRole, PlaceInv, At, AtRow
  <1>2. ASSUME NEW y \in Rows
        PROVE  /\ role'[y] = IF y = x THEN NoRole ELSE role[y]
               /\ config'[y] = IF y = x THEN "none" ELSE config[y]
               /\ salaries'[y] = IF y = x THEN 0 ELSE salaries[y]
    BY <1>1 DEF TeamTypeOK
  <1>3. Shrinks
    <2>1. extra' = extra /\ \A y \in Rows : salaries[y] > 0 => Live(y)
      BY <1>1 DEF TermsInv, SalariesInv
    <2> QED
      BY <1>2, <2>1 DEF Shrinks, Live
  <1>4. PlaceInv' /\ ActiveMeansAccepted' /\ TermsInv'
    BY <1>1, <1>3, ShrinkStep
  <1>5. Moves(r, "done") /\ Takes(r, arg[r])
    BY <1>1, GotoMoves, ArgStays DEF Answer
  <1>6. OwnerRows' = OwnerRows \ {x}
    BY <1>2 DEF OwnerRows, Live
  <1>7. OwnerInv'
    <2>1. SUFFICES ASSUME project = "live", ~excused'
                   PROVE  /\ OwnerRows' # {}
                          /\ \A s \in Requests :
                               At(s, {"remove"})' /\ arg[s].kind = "PROJECT_OWNER"
                               => \E y \in OwnerRows' : y # arg[s].row
      BY <1>1 DEF OwnerInv
    <2>2. ~excused
      BY <1>1, <2>1
    <2>3. CASE x \notin OwnerRows
      <3>1. OwnerRows' = OwnerRows
        BY <1>6, <2>3
      <3> QED
        BY <1>5, <2>1, <2>2, <3>1 DEF OwnerInv, Moves, At
    <2>4. CASE x \in OwnerRows
      <3>1. Removing = {r} /\ arg[r].kind = "PROJECT_OWNER"
        BY <1>1, <2>1, <2>4
      <3>2. PICK y \in OwnerRows : y # x
        BY <1>1, <2>1, <2>2, <3>1 DEF OwnerInv, At
      <3>3. ASSUME NEW s \in Requests PROVE ~At(s, {"remove"})'
        BY <1>5, <3>1 DEF Removing, Moves, At
      <3> QED
        BY <1>6, <3>2, <3>3
    <2> QED
      BY <2>3, <2>4
  <1>8. MadeInv'
    BY <1>1, <1>5, MadeQuiet DEF AtAccept
  <1>9. excused' \in BOOLEAN
    BY <1>1
  <1>10. /\ role' \in [Rows -> {NoRole} \cup Roles]
         /\ config' \in [Rows -> Terms] /\ salaries' \in [Rows -> Nat]
    BY <1>1 DEF TeamTypeOK, Terms
  <1>11. TeamTypeOK'
    BY <1>1, <1>9, <1>10 DEF TeamTypeOK
  <1> QED
    BY <1>4, <1>7, <1>8, <1>11

LEMMA DropStep ==
  ASSUME TeamInv, NEW r \in Requests, DropProject(r)
  PROVE  TeamInv'
  <1> USE DEF TeamInv
  <1>1. /\ pc[r] = "drop" /\ Answer(r)
        /\ UNCHANGED <<arg, extra, accepted, made, excuses, excused>>
    BY DEF DropProject
  <1>2. Moves(r, "done") /\ Takes(r, arg[r])
    BY <1>1, GotoMoves, ArgStays DEF Answer
  <1>3. CASE UNCHANGED <<project, role, invite, config, salaries>>
    <2>1. Quiet(r, "done", arg[r])
      BY <1>1, <1>3, EndStep
    <2>2. MadeInv'
      BY <1>1, <1>2, <1>3, MadeQuiet DEF AtAccept
    <2> QED
      BY <1>1, <1>3, <2>1, <2>2, QuietStep DEF TeamTypeOK
  <1>4. CASE /\ project' = "deleted"
             /\ role' = [x \in Rows |-> NoRole]
             /\ invite' = [i \in Invites |-> Unsent]
             /\ config' = [x \in Rows |-> "none"]
             /\ salaries' = [x \in Rows |-> 0]
    <2>1. Shrinks
      BY <1>1, <1>4 DEF Shrinks, Live
    <2>2. PlaceInv' /\ ActiveMeansAccepted' /\ TermsInv'
      BY <1>1, <2>1, ShrinkStep
    <2>3. OwnerInv'
      BY <1>4 DEF OwnerInv
    <2>4. Unsent \in Invitation /\ Unsent.status = "none"
      BY ProjectAssumption DEF Unsent, Invitation, Kinds, Terms
    <2>5. \A i \in Invites : invite'[i].status = "none"
      BY <1>4, <2>4
    <2>6. MadeInv'
      BY <1>1, <1>2, <2>5, MadeQuiet DEF AtAccept
    <2>7. TeamTypeOK'
      BY <1>1, <1>4, <2>4 DEF TeamTypeOK, Terms
    <2> QED
      BY <2>2, <2>3, <2>6, <2>7
  <1> QED
    BY <1>3, <1>4 DEF DropProject

(* A step that moves one row's salaries, terms or the requests for them.   *)
LEMMA SalariesOfRow ==
  ASSUME SalariesInv, role' = role, NEW x \in Rows,
         \A y \in Rows \ {x} : /\ salaries'[y] = salaries[y] /\ extra'[y] = extra[y]
                               /\ config'[y] = config[y] /\ Starting(y)' = Starting(y),
         salaries'[x] \in Nat, extra'[x] \in Nat, IsFiniteSet(Starting(x)'),
         salaries'[x] > 0 => Live(x),
         Live(x) => salaries'[x] + Cardinality(Starting(x)') <= Allowed(x)'
  PROVE  SalariesInv'
  BY DEF SalariesInv, Allowed, Live

LEMMA SalariesOf ==
  ASSUME SalariesInv, NEW x \in Rows
  PROVE  /\ salaries[x] \in Nat /\ extra[x] \in Nat /\ Allowed(x) \in Nat
         /\ IsFiniteSet(Starting(x)) /\ Cardinality(Starting(x)) \in Nat
         /\ salaries[x] > 0 => Live(x)
         /\ Live(x) => salaries[x] + Cardinality(Starting(x)) <= Allowed(x)
  BY FS_CardinalityType DEF SalariesInv, Allowed

LEMMA ConfigStep ==
  ASSUME TeamInv, NEW r \in Requests, WriteConfig(r)
  PROVE  TeamInv'
  <1> USE DEF TeamInv
  <1> DEFINE x == arg[r].row
  <1>1. /\ pc[r] = "config" /\ x \in Rows /\ arg[r].terms # "none"
        /\ arg[r].terms \in Terms
        /\ UNCHANGED <<shared, arg, invite, salaries, accepted, made, excuses, excused>>
        /\ config \in [Rows -> Terms] /\ extra \in [Rows -> Nat]
    BY DEF WriteConfig, PlaceInv, At, AtRow, AtTerms, TeamTypeOK, Arguments
  <1>2. PICK q \in {"done", "salary"} :
          /\ Goto(r, q)
          /\ \/ /\ Live(x) /\ config' = [config EXCEPT ![x] = arg[r].terms]
                /\ extra' = [extra EXCEPT ![x] =
                                IF config[x] # "none" /\ arg[r].terms = "SALARY" THEN @ + 1 ELSE @]
                /\ q = "salary" <=> arg[r].terms = "SALARY"
             \/ q = "done" /\ UNCHANGED <<config, extra>>
    BY DEF WriteConfig, Answer
  <1>3. Moves(r, q) /\ Takes(r, arg[r])
    BY <1>1, <1>2, GotoMoves, ArgStays
  <1>4. PlaceInv'
    <2>1. Fits(r, q, arg[r])
      BY <1>1 DEF Fits, AtInvite, AtAccept
    <2> QED
      BY <1>3, <2>1, PlaceStep
  <1>5. ActiveMeansAccepted'
    BY <1>1 DEF ActiveMeansAccepted, Live, shared
  <1>6. OwnerInv'
    <2>1. OwnerRows' = OwnerRows
      BY <1>1 DEF OwnerRows, Live, shared
    <2> QED
      BY <1>1, <1>3, <2>1 DEF OwnerInv, Moves, At, shared
  <1>7. Starting(x)' = (IF q = "salary" THEN Starting(x) \cup {r} ELSE Starting(x)) /\ r \notin Starting(x)
    BY <1>1, <1>3 DEF Starting, Moves, Takes
  <1>8. TermsInv'
    <2>1. ASSUME NEW y \in Requests, NEW s \in Requests, At(y, AtMake)'
          PROVE  (~Live(y) /\ (At(s, AtTerms) => arg[s].row # y))'
      <3>1. At(y, AtMake) /\ (At(s, AtTerms)' => At(s, AtTerms)) /\ arg' = arg /\ role' = role
        BY <1>1, <1>3, <2>1 DEF Moves, At, AtMake, AtTerms, shared
      <3> QED
        BY <3>1 DEF TermsInv, Live
    <2>2. SalariesInv /\ role' = role /\ salaries' = salaries
      BY <1>1 DEF TermsInv, shared
    <2>3. \A y \in Rows \ {x} : /\ extra'[y] = extra[y] /\ config'[y] = config[y]
                                /\ Starting(y)' = Starting(y)
      BY <1>1, <1>2, <1>3 DEF Starting, Moves, Takes
    <2>4. /\ IsFiniteSet(Starting(x)')
          /\ Cardinality(Starting(x)') = IF q = "salary" THEN Cardinality(Starting(x)) + 1
                                                        ELSE Cardinality(Starting(x))
      <3>1. IsFiniteSet(Starting(x))
        BY <1>1, <2>2, SalariesOf
      <3>2. /\ IsFiniteSet(Starting(x) \cup {r})
            /\ Cardinality(Starting(x) \cup {r}) = Cardinality(Starting(x)) + 1
        BY <1>7, <3>1, FS_AddElement
      <3> QED
        BY <1>7, <3>1, <3>2
    <2>5. extra'[x] \in Nat /\ Allowed(x)' \in Nat
          /\ Allowed(x)' >= IF q = "salary" THEN Allowed(x) + 1 ELSE Allowed(x)
      <3>1. CASE q = "done" /\ UNCHANGED <<config, extra>>
        BY <1>1, <3>1 DEF Allowed
      <3>2. CASE /\ config' = [config EXCEPT ![x] = arg[r].terms]
                 /\ extra' = [extra EXCEPT ![x] =
                                IF config[x] # "none" /\ arg[r].terms = "SALARY" THEN @ + 1 ELSE @]
                 /\ q = "salary" <=> arg[r].terms = "SALARY"
        <4>1. config'[x] = arg[r].terms
          BY <1>1, <3>2
        <4>2. /\ extra[x] \in Nat
              /\ extra'[x] = IF config[x] # "none" /\ arg[r].terms = "SALARY"
                             THEN extra[x] + 1 ELSE extra[x]
          BY <1>1, <3>2
        <4> QED
          BY <1>1, <3>2, <4>1, <4>2 DEF Allowed
      <3> QED
        BY <1>2, <3>1, <3>2
    <2>6. SalariesInv'
      <3>1. Live(x) => salaries'[x] + Cardinality(Starting(x)') <= Allowed(x)'
        BY <1>1, <2>2, <2>4, <2>5, SalariesOf
      <3>2. salaries'[x] \in Nat /\ (salaries'[x] > 0 => Live(x))
        BY <1>1, <2>2, SalariesOf
      <3> QED
        BY <1>1, <2>2, <2>3, <2>4, <2>5, <3>1, <3>2, SalariesOfRow
    <2> QED
      BY <2>1, <2>6 DEF TermsInv
  <1>9. MadeInv'
    BY <1>1, <1>3, MadeQuiet DEF AtAccept
  <1>10. config' \in [Rows -> Terms] /\ extra' \in [Rows -> Nat]
    <2>1. \/ UNCHANGED <<config, extra>>
          \/ /\ config' = [config EXCEPT ![x] = arg[r].terms]
             /\ \E n \in {extra[x], extra[x] + 1} : extra' = [extra EXCEPT ![x] = n]
      BY <1>1, <1>2
    <2> QED
      BY <1>1, <2>1
  <1>11. TeamTypeOK'
    BY <1>1, <1>10 DEF TeamTypeOK, shared
  <1> QED
    BY <1>4, <1>5, <1>6, <1>8, <1>9, <1>11

LEMMA SalaryStep ==
  ASSUME TeamInv, NEW r \in Requests, StartSalary(r)
  PROVE  TeamInv'
  <1> USE DEF TeamInv
  <1> DEFINE x == arg[r].row
  <1>1. /\ pc[r] = "salary" /\ x \in Rows /\ Answer(r)
        /\ salaries' = [salaries EXCEPT ![x] = IF Live(x) THEN @ + 1 ELSE @]
        /\ UNCHANGED <<shared, arg, invite, config, extra, accepted, made, excuses, excused>>
        /\ salaries \in [Rows -> Nat]
    BY DEF StartSalary, TeamTypeOK, PlaceInv, At, AtRow, AtTerms
  <1>2. Moves(r, "done") /\ Takes(r, arg[r])
    BY <1>1, GotoMoves, ArgStays DEF Answer
  <1>3. PlaceInv'
    <2>1. Fits(r, "done", arg[r])
      BY DEF Fits, AtInvite, AtAccept, AtRow, AtTerms
    <2> QED
      BY <1>2, <2>1, PlaceStep
  <1>4. ActiveMeansAccepted'
    BY <1>1 DEF ActiveMeansAccepted, Live, shared
  <1>5. OwnerInv'
    <2>1. OwnerRows' = OwnerRows
      BY <1>1 DEF OwnerRows, Live, shared
    <2> QED
      BY <1>1, <1>2, <2>1 DEF OwnerInv, Moves, At, shared
  <1>6. Starting(x)' = Starting(x) \ {r} /\ r \in Starting(x)
    BY <1>1, <1>2 DEF Starting, Moves, Takes
  <1>7. TermsInv'
    <2>1. \A s \in Requests : pc'[s] # "done" => pc'[s] = pc[s]
      BY <1>2 DEF Moves
    <2>2. UNCHANGED <<arg, role, config, extra>> /\ SalariesInv
      BY <1>1 DEF TermsInv, shared
    <2>3. \A y \in Rows \ {x} : salaries'[y] = salaries[y] /\ Starting(y)' = Starting(y)
      BY <1>1, <1>2 DEF Starting, Moves, Takes
    <2>4. IsFiniteSet(Starting(x)') /\ Cardinality(Starting(x)') = Cardinality(Starting(x)) - 1
      <3>1. IsFiniteSet(Starting(x))
        BY <1>1, <2>2, SalariesOf
      <3>2. /\ IsFiniteSet(Starting(x) \ {r})
            /\ Cardinality(Starting(x) \ {r}) = Cardinality(Starting(x)) - 1
        BY <1>6, <3>1, FS_RemoveElement
      <3> QED
        BY <1>6, <3>2
    <2>5. salaries'[x] = IF Live(x) THEN salaries[x] + 1 ELSE salaries[x]
      BY <1>1
    <2>6. Allowed(x)' = Allowed(x)
      BY <2>2 DEF Allowed
    <2>7. /\ salaries'[x] \in Nat /\ extra'[x] \in Nat /\ (salaries'[x] > 0 => Live(x))
          /\ Live(x) => salaries'[x] + Cardinality(Starting(x)') <= Allowed(x)'
      BY <1>1, <2>2, <2>4, <2>5, <2>6, SalariesOf
    <2>8. SalariesInv'
      BY <1>1, <2>2, <2>3, <2>4, <2>7, SalariesOfRow
    <2> QED
      BY <2>1, <2>2, <2>8 DEF TermsInv, At, AtMake, AtTerms, Live
  <1>9. MadeInv'
    BY <1>1, <1>2, MadeQuiet DEF AtAccept
  <1>10. salaries' \in [Rows -> Nat]
    BY <1>1 DEF TeamTypeOK
  <1>11. TeamTypeOK'
    BY <1>1, <1>10 DEF TeamTypeOK, shared
  <1> QED
    BY <1>3, <1>4, <1>5, <1>7, <1>9, <1>11

LEMMA GiveStep ==
  ASSUME TeamInv, NEW r \in Requests, NEW x \in Rows, GiveSalary(r, x)
  PROVE  TeamInv'
  <1> USE DEF TeamInv
  <1>1. /\ pc[r] = "idle" /\ Answer(r) /\ Live(x)
        /\ salaries' = [salaries EXCEPT ![x] = @ + 1] /\ extra' = [extra EXCEPT ![x] = @ + 1]
        /\ UNCHANGED <<shared, arg, invite, config, accepted, made, excuses, excused>>
        /\ salaries \in [Rows -> Nat] /\ extra \in [Rows -> Nat]
    BY DEF GiveSalary, TeamTypeOK
  <1>2. Moves(r, "done") /\ Takes(r, arg[r])
    BY <1>1, GotoMoves, ArgStays DEF Answer
  <1>3. PlaceInv'
    <2>1. Fits(r, "done", arg[r])
      BY DEF Fits, AtInvite, AtAccept, AtRow, AtTerms
    <2> QED
      BY <1>2, <2>1, PlaceStep
  <1>4. ActiveMeansAccepted'
    BY <1>1 DEF ActiveMeansAccepted, Live, shared
  <1>5. OwnerInv'
    <2>1. OwnerRows' = OwnerRows
      BY <1>1 DEF OwnerRows, Live, shared
    <2> QED
      BY <1>1, <1>2, <2>1 DEF OwnerInv, Moves, At, shared
  <1>6. \A y \in Rows : Starting(y)' = Starting(y)
    BY <1>1, <1>2 DEF Starting, Moves, Takes
  <1>7. TermsInv'
    <2>1. \A s \in Requests : pc'[s] # "done" => pc'[s] = pc[s]
      BY <1>2 DEF Moves
    <2>2. UNCHANGED <<arg, role, config>> /\ SalariesInv
      BY <1>1 DEF TermsInv, shared
    <2>3. \A y \in Rows \ {x} : salaries'[y] = salaries[y] /\ extra'[y] = extra[y]
      BY <1>1
    <2>4. salaries'[x] = salaries[x] + 1 /\ extra'[x] = extra[x] + 1
      BY <1>1
    <2>5. Allowed(x)' = Allowed(x) + 1
      BY <1>1, <2>2, <2>4 DEF Allowed
    <2>6. /\ salaries'[x] \in Nat /\ extra'[x] \in Nat /\ IsFiniteSet(Starting(x)')
          /\ salaries'[x] + Cardinality(Starting(x)') <= Allowed(x)'
      BY <1>1, <1>6, <2>2, <2>4, <2>5, SalariesOf
    <2>7. SalariesInv'
      BY <1>1, <1>6, <2>2, <2>3, <2>6, SalariesOfRow
    <2> QED
      BY <2>1, <2>2, <2>7 DEF TermsInv, At, AtMake, AtTerms, Live
  <1>8. MadeInv'
    BY <1>1, <1>2, MadeQuiet DEF AtAccept
  <1>9. salaries' \in [Rows -> Nat] /\ extra' \in [Rows -> Nat]
    BY <1>1
  <1>10. TeamTypeOK'
    BY <1>1, <1>9 DEF TeamTypeOK, shared
  <1> QED
    BY <1>3, <1>4, <1>5, <1>7, <1>8, <1>10

LEMMA FailStep ==
  ASSUME TeamInv, NEW r \in Requests, HandlerFails(r)
  PROVE  TeamInv'
  <1> USE DEF TeamInv
  <1>1. /\ pc[r] \notin {"idle", "done"} /\ Answer(r)
        /\ excuses' = [i \in Invites |-> IF pc[r] = "settle" /\ i = arg[r].inv
                                         THEN excuses[i] + 1 ELSE excuses[i]]
        /\ UNCHANGED <<shared, arg, invite, config, salaries, extra, accepted, made, excused>>
    BY DEF HandlerFails
  <1>2. Quiet(r, "done", arg[r])
    BY <1>1, EndStep DEF shared
  <1>3. PlaceInv' /\ ActiveMeansAccepted' /\ OwnerInv' /\ TermsInv'
    BY <1>2, QuietStep
  <1>4. excuses' \in [Invites -> Nat]
    BY <1>1 DEF TeamTypeOK
  <1>5. MadeInv'
    <2>1. CASE pc[r] \in AtOffer
      <3>1. excuses' = excuses
        BY <1>1, <2>1 DEF TeamTypeOK, AtOffer
      <3>2. Ends(r, "done", arg[r].inv)
        BY <1>1, <1>2, <2>1, <3>1 DEF Ends, Quiet
      <3> QED
        BY <3>2, MadeEnds
    <2>2. CASE pc[r] \notin AtOffer
      <3>1. \A i \in Invites : /\ excuses[i] \in Nat /\ excuses'[i] >= excuses[i]
                               /\ pc[r] = "settle" /\ arg[r].inv = i
                                    => excuses'[i] >= excuses[i] + 1
        BY <1>1 DEF TeamTypeOK
      <3> QED
        BY <1>1, <1>2, <1>4, <2>2, <3>1, MadeFree DEF Quiet, AtAccept
    <2> QED
      BY <2>1, <2>2
  <1>6. TeamTypeOK'
    BY <1>1, <1>4 DEF TeamTypeOK, shared
  <1> QED
    BY <1>3, <1>5, <1>6

-----------------------------------------------------------------------------
(* The team from the first state on                                        *)
AtBoard == {"newdept", "reorder", "dropdept", "newtask", "edit", "assign", "move",
            "neighbours", "shift", "each", "log"}
AtTags  == {"details", "clear", "tags"}

AtTeam  == {"invite", "duplicate", "send", "decline", "role", "settle", "config", "salary",
            "expire", "tx", "patch", "add", "bulk", "change", "pick", "remove", "drop"}

LEMMA TeamPlaces ==
  ASSUME NEW r \in Requests, TeamStep(r)
  PROVE  /\ pc[r] \in {"idle"} \cup AtTeam /\ project' = project
         /\ \E q \in {"done"} \cup AtTeam : Goto(r, q)
  <1> DEFINE Goal == /\ pc[r] \in {"idle"} \cup AtTeam /\ project' = project
                     /\ \E q \in {"done"} \cup AtTeam : Goto(r, q)
  <1> USE DEF Answer, shared, AtTeam
  <1>1. CASE InviteCheck(r) \/ ExpireInvites(r) \/ DuplicateCheck(r)
    BY <1>1 DEF InviteCheck, ExpireInvites, DuplicateCheck
  <1>2. CASE InviteWrite(r) \/ SendInvite(r)
    BY <1>2 DEF InviteWrite, SendInvite, Insert
  <1>3. ASSUME NEW i \in Invites, EditInvite(r, i) \/ DeleteInvite(r, i) \/ PatchStatus(r, i)
        PROVE  Goal
    BY <1>3 DEF EditInvite, DeleteInvite, PatchStatus
  <1>4. ASSUME NEW i \in Invites, RespondCheck(r, i) \/ AcceptCheck(r, i) \/ PatchAccept(r, i)
        PROVE  Goal
    BY <1>4 DEF RespondCheck, AcceptCheck, PatchAccept, StartAccepting
  <1>5. CASE DeclineInvite(r) \/ ExpireInvite(r)
    BY <1>5 DEF DeclineInvite, ExpireInvite
  <1>6. CASE RespondRole(r) \/ AcceptWrite(r) \/ PatchWrite(r)
    BY <1>6 DEF RespondRole, AcceptWrite, PatchWrite, AcceptInTx
  <1>7. CASE RespondSettle(r) \/ WriteConfig(r) \/ StartSalary(r)
    BY <1>7 DEF RespondSettle, WriteConfig, StartSalary
  <1>8. CASE AddCheck(r) \/ AddUser(r) \/ BulkCheck(r) \/ AddRole(r) \/ ChangeRole(r)
    BY <1>8 DEF AddCheck, AddUser, BulkCheck, AddRole, ChangeRole
  <1>9. ASSUME NEW x \in Rows, \/ GiveSalary(r, x) \/ ConfigCheck(r, x) \/ ChangeCheck(r, x)
                                \/ RemoveCheck(r, x) \/ DismissCheck(r, x)
        PROVE  Goal
    BY <1>9 DEF GiveSalary, ConfigCheck, ChangeCheck, RemoveCheck, DismissCheck
  <1>10. CASE LeaveCheck(r) \/ PickRole(r) \/ DropCheck(r)
    BY <1>10 DEF LeaveCheck, PickRole, DropCheck
  <1> QED
    BY <1>1, <1>2, <1>3, <1>4, <1>5, <1>6, <1>7, <1>8, <1>9, <1>10 DEF TeamStep

(* Of the team's own steps none takes a role away.                         *)
LEMMA TeamKeeps ==
  ASSUME TeamInv, NEW r \in Requests, TeamStep(r), NEW x \in Rows, Live(x)
  PROVE  Live(x)'
  <1> USE DEF Live, shared
  <1>r. role \in [Rows -> {NoRole} \cup Roles] /\ arg[r] \in Arguments /\ role[x] \in Roles
    BY DEF TeamInv, TeamTypeOK
  <1>n. \A one \in Roles : one # NoRole
    BY InviteAssumption
  <1>1. CASE InviteCheck(r) \/ ExpireInvites(r) \/ DuplicateCheck(r)
    BY <1>1 DEF InviteCheck, ExpireInvites, DuplicateCheck
  <1>2. CASE InviteWrite(r) \/ SendInvite(r)
    BY <1>2 DEF InviteWrite, SendInvite, Insert
  <1>3. ASSUME NEW i \in Invites, EditInvite(r, i) \/ PatchStatus(r, i) PROVE Live(x)'
    BY <1>3 DEF EditInvite, PatchStatus
  <1>d. ASSUME NEW i \in Invites, DeleteInvite(r, i) PROVE Live(x)'
    <2>1. role'[x] = role[x] \/ role'[x] = [role[x] EXCEPT !.invite = NoInvite]
      BY <1>d DEF DeleteInvite
    <2>2. [role[x] EXCEPT !.invite = NoInvite] \in Roles
      BY <1>r DEF Roles
    <2> QED
      BY <1>n, <2>1, <2>2
  <1>4. ASSUME NEW i \in Invites, RespondCheck(r, i) \/ AcceptCheck(r, i) \/ PatchAccept(r, i)
        PROVE  Live(x)'
    BY <1>4 DEF RespondCheck, AcceptCheck, PatchAccept
  <1>5. CASE DeclineInvite(r) \/ ExpireInvite(r)
    BY <1>5 DEF DeclineInvite, ExpireInvite
  <1>6. ASSUME NEW new \in Roles, role' = role \/ role' = [role EXCEPT ![r] = new]
        PROVE  Live(x)'
    BY <1>r, <1>n, <1>6
  <1>7. CASE RespondRole(r) \/ AcceptWrite(r) \/ PatchWrite(r)
    <2>1. arg[r].inv \in Invites
      BY <1>7 DEF TeamInv, PlaceInv, At, AtInvite, AtAccept, RespondRole, AcceptWrite, PatchWrite
    <2>2. \A s \in {"ACTIVE", "PENDING"} :
            /\ RoleOf(arg[r].user, arg[r].kind, s, arg[r].inv) \in Roles
            /\ RoleOf(arg[r].user, arg[r].kind, s, NoInvite) \in Roles
      BY <1>r, <2>1 DEF RoleOf, Roles, Arguments
    <2>3. \/ role' = role
          \/ role' = [role EXCEPT ![r] = RoleOf(arg[r].user, arg[r].kind, "ACTIVE", arg[r].inv)]
          \/ role' = [role EXCEPT ![r] = RoleOf(arg[r].user, arg[r].kind, "PENDING", NoInvite)]
      BY <1>7 DEF RespondRole, AcceptWrite, PatchWrite, AcceptInTx
    <2> QED
      BY <1>6, <1>n, <1>r, <2>2, <2>3
  <1>8. CASE RespondSettle(r) \/ WriteConfig(r) \/ StartSalary(r)
    BY <1>8 DEF RespondSettle, WriteConfig, StartSalary
  <1>9. CASE AddUser(r) \/ AddRole(r)
    <2>1. RoleOf(arg[r].user, arg[r].kind, "PENDING", NoInvite) \in Roles
      BY <1>r DEF RoleOf, Roles, Arguments
    <2>2. \/ role' = role
          \/ role' = [role EXCEPT ![r] = RoleOf(arg[r].user, arg[r].kind, "PENDING", NoInvite)]
      BY <1>9 DEF AddUser, AddRole
    <2> QED
      BY <1>6, <1>n, <1>r, <2>1, <2>2
  <1>10. CASE AddCheck(r) \/ BulkCheck(r)
    BY <1>10 DEF AddCheck, BulkCheck
  <1>11. CASE ChangeRole(r)
    <2>1. arg[r].row \in Rows
      BY <1>11 DEF TeamInv, PlaceInv, At, AtRow, ChangeRole
    <2>2. role' = role \/ role' = [role EXCEPT ![arg[r].row].kind = arg[r].kind]
      BY <1>11 DEF ChangeRole
    <2>3. role'[x] = role[x] \/ role'[x] = [role[x] EXCEPT !.kind = arg[r].kind]
      BY <1>r, <2>1, <2>2
    <2>4. [role[x] EXCEPT !.kind = arg[r].kind] \in Roles
      BY <1>r DEF Roles, Arguments
    <2> QED
      BY <1>n, <2>3, <2>4
  <1>12. ASSUME NEW y \in Rows, \/ GiveSalary(r, y) \/ ConfigCheck(r, y) \/ ChangeCheck(r, y)
                                 \/ RemoveCheck(r, y) \/ DismissCheck(r, y)
         PROVE  Live(x)'
    BY <1>12 DEF GiveSalary, ConfigCheck, ChangeCheck, RemoveCheck, DismissCheck
  <1>13. CASE LeaveCheck(r) \/ PickRole(r) \/ DropCheck(r)
    BY <1>13 DEF LeaveCheck, PickRole, DropCheck
  <1> QED
    BY <1>1, <1>2, <1>3, <1>d, <1>4, <1>5, <1>7, <1>8, <1>9, <1>10, <1>11, <1>12, <1>13
       DEF TeamStep

LEMMA BoardPlaces ==
  ASSUME NEW r \in Requests, BoardStep(r)
  PROVE  /\ pc[r] \in {"idle"} \cup AtBoard
         /\ pc' = pc \/ \E q \in {"done"} \cup AtBoard : Goto(r, q)
         /\ UNCHANGED shared
  <1> USE DEF AtBoard, Finish, Answer, Write
  <1>1. CASE NewDeptCheck(r) \/ NewDept(r) \/ ReorderCheck(r) \/ ReorderOne(r)
    BY <1>1 DEF NewDeptCheck, NewDept, ReorderCheck, ReorderOne
  <1>2. ASSUME NEW d \in Depts, EditDept(r, d) \/ PutDept(r, d) \/ DropDeptCheck(r, d)
        PROVE  /\ pc[r] \in {"idle"} \cup AtBoard
               /\ pc' = pc \/ \E q \in {"done"} \cup AtBoard : Goto(r, q)
               /\ UNCHANGED shared
    BY <1>2 DEF EditDept, PutDept, DropDeptCheck
  <1>3. CASE DropDept(r) \/ NewTaskCheck(r) \/ NewTask(r) \/ EditTask(r) \/ AssignTask(r)
    BY <1>3 DEF DropDept, NewTaskCheck, NewTask, EditTask, AssignTask
  <1>4. ASSUME NEW t \in Tasks, EditTaskCheck(r, t) \/ AssignCheck(r, t) \/ DeleteTask(r, t)
                                 \/ MoveCheck(r, t)
        PROVE  /\ pc[r] \in {"idle"} \cup AtBoard
               /\ pc' = pc \/ \E q \in {"done"} \cup AtBoard : Goto(r, q)
               /\ UNCHANGED shared
    BY <1>4 DEF EditTaskCheck, AssignCheck, DeleteTask, MoveCheck
  <1>5. CASE MoveTask(r) \/ MoveRead(r)
    BY <1>5 DEF MoveTask, MoveRead
  <1>6. CASE MoveShift(r) \/ MoveCommit(r)
    BY <1>6 DEF MoveShift, MoveCommit
  <1>7. CASE BulkMoveCheck(r) \/ BulkCrossCheck(r)
    BY <1>7 DEF BulkMoveCheck, BulkCrossCheck, BulkHand
  <1>8. CASE BulkUpdate(r)
    BY <1>8 DEF BulkUpdate
  <1>9. CASE BulkLog(r) \/ BulkAnswer(r)
    BY <1>9 DEF BulkLog, BulkAnswer
  <1> QED
    BY <1>1, <1>2, <1>3, <1>4, <1>5, <1>6, <1>7, <1>8, <1>9 DEF BoardStep

LEMMA TagPlaces ==
  ASSUME NEW r \in Requests, TagStep(r)
  PROVE  /\ pc[r] \in {"idle"} \cup AtTags
         /\ pc' = pc \/ \E q \in {"done"} \cup AtTags : Goto(r, q)
         /\ UNCHANGED shared
  <1> USE DEF AtTags, Answer
  <1>1. CASE EditCheck(r) \/ EditProject(r) \/ ClearTags(r)
    BY <1>1 DEF EditCheck, EditProject, ClearTags
  <1>2. CASE MakeTag(r) \/ PostTag(r) \/ DeleteTag(r)
    BY <1>2 DEF MakeTag, PostTag, DeleteTag
  <1> QED
    BY <1>1, <1>2 DEF TagStep

LEMMA AsideStep ==
  ASSUME TeamInv, NEW r \in Requests, UNCHANGED <<shared, arg, members>>,
         pc[r] \in {"idle"} \cup AtBoard \cup AtTags,
         pc' = pc \/ \E q \in {"done"} \cup AtBoard \cup AtTags : Goto(r, q)
  PROVE  TeamInv'
  <1>1. CASE pc' = pc
    <2>1. OwnerRows' = OwnerRows
      BY DEF OwnerRows, Live, shared
    <2>t. \A x \in Rows : Starting(x)' = Starting(x) /\ Allowed(x)' = Allowed(x)
      BY <1>1 DEF Starting, Allowed, members
    <2>s. SalariesInv'
      BY <2>t DEF TeamInv, TermsInv, SalariesInv, Live, shared, members
    <2>2. PlaceInv' /\ ActiveMeansAccepted' /\ TermsInv' /\ TeamTypeOK'
      BY <1>1, <2>s DEF TeamInv, PlaceInv, ActiveMeansAccepted, TermsInv, TeamTypeOK, At, Live,
                        shared, members
    <2>3. OwnerInv'
      BY <1>1, <2>1 DEF TeamInv, OwnerInv, At, shared, members
    <2>4. MadeInv'
      <3>1. \A i \in Invites : Offered(i)' = Offered(i) /\ Accepting(i)' = Accepting(i)
        BY <1>1 DEF Offered, Accepting
      <3> QED
        BY <1>1, <3>1 DEF TeamInv, MadeInv, members
    <2> QED
      BY <2>2, <2>3, <2>4 DEF TeamInv
  <1>2. ASSUME NEW q \in {"done"} \cup AtBoard \cup AtTags, Goto(r, q)
        PROVE  TeamInv'
    <2>1. /\ Moves(r, q) /\ Takes(r, arg[r]) /\ arg[r] \in Arguments
          /\ arg' \in [Requests -> Arguments]
      BY <1>2, GotoMoves, ArgStays DEF TeamInv, TeamTypeOK
    <2>2. Fits(r, q, arg[r])
      BY DEF Fits, AtInvite, AtAccept, AtRow, AtTerms, AtBoard, AtTags
    <2>3. /\ pc[r] \notin AtAccept \cup {"done"}
          /\ q \notin AtMake \cup {"settle", "salary"} /\ q # "config" /\ q # "remove"
      BY DEF AtAccept, AtMake, AtBoard, AtTags
    <2> QED
      BY <2>1, <2>2, <2>3, LookStep
  <1> QED
    BY <1>1, <1>2

LEMMA TeamStepStep ==
  ASSUME TeamInv, NEW r \in Requests, TeamStep(r)
  PROVE  TeamInv'
  <1>1. ASSUME NEW x \in Rows, DismissCheck(r, x) PROVE RemoveCheck(r, x)
    BY <1>1 DEF DismissCheck
  <1> QED
    BY <1>1, LookSteps, InviteSteps, ExpireStep, BeginSteps, SettleStep, MakeSteps, AddSteps,
       DeleteStep, ChangeStep, ConfigStep, SalaryStep, GiveStep DEF TeamStep

LEMMA TeamNext == TeamInv /\ [Next]_vars => TeamInv'
  <1> SUFFICES ASSUME TeamInv, [Next]_vars PROVE TeamInv'
    OBVIOUS
  <1>1. ASSUME NEW r \in Requests, BoardStep(r), UNCHANGED <<arg, members>> PROVE TeamInv'
    BY <1>1, BoardPlaces, AsideStep
  <1>2. ASSUME NEW r \in Requests, TagStep(r), UNCHANGED <<arg, members>> PROVE TeamInv'
    BY <1>2, TagPlaces, AsideStep
  <1>3. ASSUME NEW i \in Invites, Lapse(i) PROVE TeamInv'
    BY <1>3, LapseStep
  <1>4. CASE UNCHANGED vars
    <2>1. UNCHANGED <<project, role, pc, arg, invite, config, salaries, extra, accepted, made, excuses,
                      excused>>
      BY <1>4 DEF vars, shared, members
    <2>2. \A i \in Invites : Offered(i)' = Offered(i) /\ Accepting(i)' = Accepting(i)
      BY <2>1 DEF Offered, Accepting
    <2>3. OwnerRows' = OwnerRows
      BY <2>1 DEF OwnerRows, Live
    <2>4. \A x \in Rows : Starting(x)' = Starting(x) /\ Allowed(x)' = Allowed(x)
      BY <2>1 DEF Starting, Allowed
    <2>5. SalariesInv'
      BY <2>1, <2>4 DEF TeamInv, TermsInv, SalariesInv, Live
    <2> QED
      BY <2>1, <2>2, <2>3, <2>5
         DEF TeamInv, PlaceInv, TeamTypeOK, ActiveMeansAccepted, OwnerInv, TermsInv, MadeInv,
             At, Live
  <1> QED
    BY <1>1, <1>2, <1>3, <1>4, TeamStepStep, RemoveStep, DropStep, FailStep DEF Next, TeamRows

LEMMA TeamInit == Init => TeamInv
  <1> SUFFICES ASSUME InitMembership PROVE TeamInv
    BY DEF Init
  <1> USE DEF InitMembership
  <1>1. PlaceInv
    BY DEF PlaceInv, At, AtInvite, AtAccept, AtRow, AtTerms
  <1> DEFINE First == RoleOf(Creator, "PROJECT_OWNER", "ACTIVE", NoInvite)
             Ones  == {NoRole, First} \cup {x \in Roles : x.status = "PENDING"}
  <1>2. First \in Roles /\ First.user = Creator
    BY ProjectAssumption DEF RoleOf, Roles, Kinds
  <1>3. PICK first \in Ones, second \in Ones :
          role = [x \in Rows |-> CASE x = OwnerRow -> first
                                   [] x = MemberRow -> second
                                   [] OTHER -> NoRole]
    BY DEF TeamIsCreated
  <1>4. \A one \in Ones : /\ one \in {NoRole} \cup Roles
                          /\ one # NoRole /\ one.status = "ACTIVE" => one.user = Creator
    BY <1>2
  <1> HIDE DEF Ones
  <1>5. NoRole \in Ones
    BY DEF Ones
  <1>6. \A x \in Rows : role[x] \in Ones
    BY <1>3, <1>5
  <1>7. \A x \in Requests : role[x] = NoRole
    BY <1>3, ProjectAssumption DEF Rows
  <1>8. ActiveMeansAccepted
    BY <1>4, <1>6 DEF ActiveMeansAccepted, Live
  <1>9. OwnerInv
    BY DEF OwnerInv, At
  <1>10. TermsInv
    <2>1. \A x \in Rows : /\ Starting(x) = {} /\ Allowed(x) = 0
                          /\ salaries[x] = 0 /\ extra[x] = 0
      BY DEF Starting, Allowed
    <2>2. SalariesInv
      BY <2>1, FS_EmptySet DEF SalariesInv
    <2> QED
      BY <1>7, <2>2 DEF TermsInv, At, AtMake, AtTerms, Live
  <1>11. \A i \in Invites : Offered(i) = {} /\ Accepting(i) = {}
    BY DEF Offered, Accepting, AtOffer
  <1>12. Unsent \in Invitation /\ Unsent.status = "none"
    BY ProjectAssumption DEF Unsent, Invitation, Kinds, Terms
  <1>13. /\ invite \in [Invites -> Invitation]
         /\ \A r \in Requests : invite[r].status = "none"
    <2>1. CASE invite = [i \in Invites |-> Unsent]
      BY <1>12, <2>1 DEF Invites
    <2>2. ASSUME NEW k \in GivenKinds \ {"PROJECT_OWNER"}, NEW u \in Users \ {Creator},
                 NEW t \in OfferedTerms,
                 invite = [i \in Invites |->
                   IF i \in FirstInvites
                   THEN [Unsent EXCEPT !.status = "PENDING", !.kind = k, !.email = u, !.terms = t]
                   ELSE Unsent]
          PROVE  /\ invite \in [Invites -> Invitation]
                 /\ \A r \in Requests : invite[r].status = "none"
      <3> DEFINE sent == [Unsent EXCEPT !.status = "PENDING", !.kind = k, !.email = u, !.terms = t]
      <3>1. sent \in Invitation
        BY <1>12, InviteAssumption DEF Invitation, Statuses
      <3> HIDE DEF sent
      <3> QED
        BY <1>12, <2>2, <3>1, InviteAssumption DEF Invites, sent
    <2> QED
      BY <2>1, <2>2 DEF InviteIsSent
  <1>14. MadeInv
    <2>1. \A i \in Invites : made[i] = 0 /\ excuses[i] = 0
      OBVIOUS
    <2>2. IsFiniteSet({}) /\ Cardinality({}) = 0
      BY FS_EmptySet
    <2>3. ASSUME NEW i \in Invites
          PROVE  /\ IsFiniteSet(Offered(i))
                 /\ made[i] + Cardinality(Offered(i)) <= 1 + excuses[i]
      BY <1>11, <2>1, <2>2
    <2>4. \A r \in Requests : r \in Invites
      BY DEF Invites
    <2> QED
      BY <1>13, <2>1, <2>3, <2>4 DEF MadeInv
  <1>15. role \in [Rows -> {NoRole} \cup Roles]
    BY <1>3, <1>4, <1>5
  <1>16. NoArg \in Arguments
    BY ProjectAssumption DEF NoArg, Arguments, Kinds, Terms
  <1>17. excused \in BOOLEAN
    OBVIOUS
  <1>18. TeamTypeOK
    BY <1>13, <1>15, <1>16, <1>17 DEF TeamTypeOK, Terms
  <1> QED
    BY <1>1, <1>8, <1>9, <1>10, <1>14, <1>18 DEF TeamInv

-----------------------------------------------------------------------------
(* The tags                                                                *)
LEMMA TagInit == Init => TagInv
  BY DEF Init, InitMembership, InitTags, TagInv, TagTypeOK, Making

(* Whoever does not touch the tags, and is not making any.                 *)
LEMMA TagQuiet ==
  ASSUME PlaceInv, TagInv, NEW r \in Requests, pc[r] # "tags",
         pc' = pc \/ \E q : q # "tags" /\ Goto(r, q),
         UNCHANGED <<project, tagging>>
  PROVE  TagInv'
  <1>1. Making' = Making
    BY GotoMoves DEF Making, Moves
  <1> QED
    BY <1>1 DEF TagInv, TagTypeOK, tagging

LEMMA TagSteps ==
  ASSUME PlaceInv, TeamTypeOK, TagInv, NEW r \in Requests, TagStep(r)
  PROVE  TagInv'
  <1> USE DEF TagInv
  <1>t. /\ tags \subseteq TagNames /\ asked \subseteq TagNames /\ muddled \in BOOLEAN
        /\ wanted \in [Requests -> SUBSET TagNames]
        /\ \A s \in Making : wanted[s] # {}
        /\ project \in {"live", "deleted"}
    BY DEF TagTypeOK, TeamTypeOK
  <1>1. CASE EditCheck(r)
    <2>1. PICK names \in SUBSET TagNames : wanted' = [wanted EXCEPT ![r] = names]
      BY <1>1 DEF EditCheck
    <2>2. /\ pc[r] = "idle" /\ Goto(r, "details")
          /\ UNCHANGED <<project, tags, asked, muddled>>
      BY <1>1 DEF EditCheck, shared
    <2>3. Making' = Making /\ r \notin Making
      BY <2>2, GotoMoves DEF Making, Moves
    <2>4. \A s \in Making : wanted'[s] = wanted[s]
      BY <1>t, <2>1, <2>3 DEF Making
    <2>5. wanted' \in [Requests -> SUBSET TagNames]
      BY <1>t, <2>1
    <2> QED
      BY <1>t, <2>2, <2>3, <2>4, <2>5 DEF TagTypeOK
  <1>2. CASE EditProject(r)
    <2>1. /\ pc[r] = "details" /\ UNCHANGED <<project, tags, asked, muddled>>
          /\ wanted' = wanted \/ wanted' = [wanted EXCEPT ![r] = {}]
          /\ \E q \in {"clear", "done"} : Goto(r, q)
      BY <1>2 DEF EditProject, Answer, shared
    <2>3. Making' = Making /\ r \notin Making
      BY <2>1, GotoMoves DEF Making, Moves
    <2>4. \A s \in Making : wanted'[s] = wanted[s]
      BY <1>t, <2>1, <2>3 DEF Making
    <2>5. wanted' \in [Requests -> SUBSET TagNames]
      BY <1>t, <2>1
    <2> QED
      BY <1>t, <2>1, <2>3, <2>4, <2>5 DEF TagTypeOK
  <1>3. CASE ClearTags(r)
    <2>1. /\ pc[r] = "clear" /\ tags' = {} /\ UNCHANGED <<project, wanted>>
          /\ asked' = IF project = "live" THEN wanted[r] ELSE {}
          /\ muddled' = (Making # {})
          /\ Goto(r, IF wanted[r] = {} THEN "done" ELSE "tags")
      BY <1>3 DEF ClearTags, shared
    <2>2. Making' = IF wanted[r] = {} THEN Making ELSE Making \cup {r}
      BY <2>1, GotoMoves DEF Making, Moves
    <2>3. muddled' \in BOOLEAN /\ (~muddled' => Making = {})
      BY <2>1
    <2>4. TagTypeOK'
      BY <1>t, <2>1, <2>2, <2>3 DEF TagTypeOK
    <2> QED
      BY <1>t, <2>1, <2>2, <2>3, <2>4
  <1>4. CASE MakeTag(r)
    <2>1. PICK n \in wanted[r] :
            /\ tags' = IF project = "live" THEN tags \cup {n} ELSE tags
            /\ wanted' = [wanted EXCEPT ![r] = @ \ {n}]
            /\ IF wanted[r] = {n} THEN Answer(r) ELSE UNCHANGED pc
      BY <1>4 DEF MakeTag
    <2>2. pc[r] = "tags" /\ UNCHANGED <<project, asked, muddled>> /\ r \in Making
      BY <1>4 DEF MakeTag, shared, Making
    <2>3. Making' = IF wanted[r] = {n} THEN Making \ {r} ELSE Making
      BY <2>1, GotoMoves DEF Making, Moves, Answer
    <2>4. \A s \in Requests : wanted'[s] = IF s = r THEN wanted[r] \ {n} ELSE wanted[s]
      BY <1>t, <2>1
    <2>5. wanted' \in [Requests -> SUBSET TagNames] /\ n \in TagNames
      BY <1>t, <2>1
    <2>6. Making' \subseteq Making /\ Making \subseteq Requests
      BY <2>3 DEF Making
    <2>7. TagTypeOK'
      BY <1>t, <2>1, <2>2, <2>3, <2>4, <2>5, <2>6 DEF TagTypeOK
    <2>8. project = "deleted" => tags' = {} /\ asked' = {}
      BY <1>t, <2>1, <2>2
    <2>9. ASSUME project = "live", ~muddled
          PROVE  /\ Making' = {} => tags' = asked
                 /\ \A s \in Making' : Making' = {s} /\ tags' \cup wanted'[s] = asked
      <3>1. Making = {r} /\ tags \cup wanted[r] = asked /\ tags' = tags \cup {n}
        BY <2>1, <2>2, <2>9
      <3>2. CASE wanted[r] = {n}
        BY <2>3, <3>1, <3>2
      <3>3. CASE wanted[r] # {n}
        BY <2>1, <2>2, <2>3, <2>4, <3>1, <3>3
      <3> QED
        BY <3>2, <3>3
    <2> QED
      BY <2>2, <2>7, <2>8, <2>9
  <1>5. CASE PostTag(r)
    <2>1. PICK n \in TagNames \ tags : tags' = tags \cup {n} /\ asked' = asked \cup {n}
      BY <1>5 DEF PostTag
    <2>2. /\ pc[r] = "idle" /\ project = "live" /\ Goto(r, "done")
          /\ UNCHANGED <<project, wanted, muddled>>
      BY <1>5 DEF PostTag, Answer, shared
    <2>3. Making' = Making
      BY <2>2, GotoMoves DEF Making, Moves
    <2> QED
      BY <1>t, <2>1, <2>2, <2>3 DEF TagTypeOK
  <1>6. CASE DeleteTag(r)
    <2>1. PICK n \in tags : tags' = tags \ {n} /\ asked' = asked \ {n}
      BY <1>6 DEF DeleteTag
    <2>2. /\ pc[r] = "idle" /\ Goto(r, "done") /\ UNCHANGED <<project, wanted>>
          /\ muddled' = (muddled \/ Making # {})
      BY <1>6 DEF DeleteTag, Answer, shared
    <2>3. Making' = Making
      BY <2>2, GotoMoves DEF Making, Moves
    <2>4. muddled' \in BOOLEAN /\ (~muddled' => ~muddled /\ Making = {})
      BY <1>t, <2>2
    <2> QED
      BY <1>t, <2>1, <2>2, <2>3, <2>4 DEF TagTypeOK
  <1> QED
    BY <1>1, <1>2, <1>3, <1>4, <1>5, <1>6 DEF TagStep

(* A project's tags go with it, and a handler that fails half way leaves   *)
(* its mark.                                                               *)
LEMMA TagNext == TeamInv /\ TagInv /\ [Next]_vars => TagInv'
  <1> SUFFICES ASSUME TeamInv, TagInv, [Next]_vars PROVE TagInv'
    OBVIOUS
  <1> PlaceInv /\ TeamTypeOK
    BY DEF TeamInv
  <1>1. ASSUME NEW r \in Requests, TeamStep(r), UNCHANGED tagging PROVE TagInv'
    <2>1. /\ pc[r] # "tags" /\ project' = project
          /\ pc' = pc \/ \E q : q # "tags" /\ Goto(r, q)
      BY <1>1, TeamPlaces DEF AtTeam
    <2> QED
      BY <1>1, <2>1, TagQuiet
  <1>2. ASSUME NEW r \in Requests, RemoveRole(r), UNCHANGED tagging PROVE TagInv'
    BY <1>2, TagQuiet DEF RemoveRole, Answer
  <1>3. ASSUME NEW r \in Requests, DropProject(r),
               IF project' = project THEN UNCHANGED tagging ELSE DropTags
        PROVE  TagInv'
    <2>1. pc[r] = "drop" /\ Goto(r, "done") /\ project' \in {project, "deleted"}
      BY <1>3 DEF DropProject, Answer
    <2>2. CASE project' = project
      BY <1>3, <2>1, <2>2, TagQuiet
    <2>3. CASE project' # project
      <3>1. Making' = Making
        BY <2>1, GotoMoves DEF Making, Moves
      <3> QED
        BY <1>3, <2>1, <2>3, <3>1 DEF TagInv, TagTypeOK, DropTags
    <2> QED
      BY <2>2, <2>3
  <1>4. ASSUME NEW r \in Requests, BoardStep(r), UNCHANGED tagging PROVE TagInv'
    <2>1. /\ pc[r] # "tags" /\ project' = project
          /\ pc' = pc \/ \E q : q # "tags" /\ Goto(r, q)
      BY <1>4, BoardPlaces DEF AtBoard, shared
    <2> QED
      BY <1>4, <2>1, TagQuiet
  <1>5. ASSUME NEW r \in Requests, TagStep(r) PROVE TagInv'
    BY <1>5, TagSteps
  <1>6. ASSUME NEW r \in Requests, HandlerFails(r), TagsFail(r) PROVE TagInv'
    <2>1. /\ Goto(r, "done") /\ project' = project /\ UNCHANGED <<tags, asked>>
          /\ wanted' = [wanted EXCEPT ![r] = {}] /\ muddled' = (muddled \/ pc[r] = "tags")
      BY <1>6 DEF HandlerFails, Answer, TagsFail, shared
    <2>2. Making' = Making \ {r} /\ Making \subseteq Requests
      BY <2>1, GotoMoves DEF Making, Moves
    <2>3. /\ wanted' \in [Requests -> SUBSET TagNames]
          /\ \A s \in Making' : wanted'[s] = wanted[s]
      BY <2>1, <2>2 DEF TagInv, TagTypeOK
    <2>4. muddled' \in BOOLEAN /\ (~muddled' => ~muddled /\ r \notin Making)
      BY <2>1 DEF TagInv, TagTypeOK, Making
    <2>5. ~muddled' => Making' = Making
      BY <2>2, <2>4
    <2> QED
      BY <2>1, <2>2, <2>3, <2>4, <2>5 DEF TagInv, TagTypeOK
  <1>7. ASSUME NEW i \in Invites, Lapse(i), UNCHANGED tagging PROVE TagInv'
    BY <1>7 DEF Lapse, shared, tagging, TagInv, TagTypeOK, Making
  <1>8. CASE UNCHANGED vars
    BY <1>8 DEF vars, shared, tagging, TagInv, TagTypeOK, Making
  <1> QED
    BY <1>1, <1>2, <1>3, <1>4, <1>5, <1>6, <1>7, <1>8 DEF Next

-----------------------------------------------------------------------------
(* The board                                                               *)

(* The greatest of a finite set of numbers: of those, one that the fewest  *)
(* exceed.                                                                 *)
LEMMA LeastNumber ==
  ASSUME NEW T, T \subseteq Nat, T # {}
  PROVE  \E x \in T : \A y \in T : x <= y
  <1>1. IsWellFoundedOn(OpToRel(<, Nat), Nat)
    BY NatLessThanWellFounded
  <1>2. PICK x \in T : \A y \in T : ~(<<y, x>> \in OpToRel(<, Nat))
    BY <1>1, WFMin
  <1>3. ASSUME NEW y \in T PROVE x <= y
    <2>1. x \in Nat /\ y \in Nat
      OBVIOUS
    <2>2. ~(y < x)
      BY <1>2, <2>1 DEF OpToRel
    <2> QED
      BY <2>1, <2>2
  <1> QED
    BY <1>3

LEMMA MaxIsIn ==
  ASSUME NEW S, S \subseteq Nat, IsFiniteSet(S), S # {}
  PROVE  Max(S) \in S
  <1> DEFINE Above(x) == {y \in S : y > x}
             N == {Cardinality(Above(x)) : x \in S}
  <1>1. ASSUME NEW x \in S PROVE IsFiniteSet(Above(x)) /\ Cardinality(Above(x)) \in Nat
    BY FS_Subset, FS_CardinalityType, Above(x) \in SUBSET S
  <1>2. N \subseteq Nat /\ N # {}
    BY <1>1
  <1>3. PICK n \in N : \A m \in N : n <= m
    BY <1>2, LeastNumber
  <1>4. PICK x \in S : n = Cardinality(Above(x))
    BY <1>3
  <1>5. ASSUME NEW y \in S PROVE x >= y
    <2> SUFFICES ASSUME y > x PROVE FALSE
      OBVIOUS
    <2>1. Above(y) \subseteq Above(x) /\ y \in Above(x) /\ y \notin Above(y)
      <3>1. x \in Nat /\ y \in Nat /\ ~(y > y)
        OBVIOUS
      <3>2. ASSUME NEW z \in S, z > y PROVE z > x
        <4>1. z \in Nat
          OBVIOUS
        <4> QED
          BY <3>1, <3>2, <4>1
      <3> QED
        BY <3>1, <3>2
    <2>2. Cardinality(Above(y)) <= Cardinality(Above(x))
          /\ (Cardinality(Above(x)) = Cardinality(Above(y)) => Above(x) = Above(y))
      BY <1>1, <2>1, FS_Subset, Above(y) \in SUBSET Above(x)
    <2>3. Cardinality(Above(x)) <= Cardinality(Above(y))
      BY <1>3, <1>4
    <2> QED
      BY <1>1, <2>1, <2>2, <2>3
  <1> QED
    BY <1>5 DEF Max

LEMMA NextOrderIsNat == ASSUME BoardTypeOK PROVE NextOrder \in Nat
  <1> DEFINE E == {e \in Depts : HasDept(e)}
             S == {0} \cup {dept[d] : d \in E}
  <1>1. IsFiniteSet(E)
    BY BoardAssumption, FS_Subset, E \in SUBSET Depts
  <1>2. IsFiniteSet({dept[d] : d \in E})
    <2> DEFINE f == [d \in E |-> dept[d]]
    <2>1. f \in Surjection(E, {dept[d] : d \in E})
      BY DEF Surjection
    <2> QED
      BY <1>1, <2>1, FS_Surjection
  <1>3. IsFiniteSet(S)
    BY <1>2, FS_AddElement
  <1>4. S \subseteq Nat /\ S # {}
    BY DEF BoardTypeOK, HasDept
  <1> HIDE DEF S
  <1>5. Max(S) \in Nat
    BY <1>3, <1>4, MaxIsIn
  <1> QED
    BY <1>5 DEF NextOrder, S

(* A handler goes to a place with a hand that fits it.                     *)
FitsHand(q, h) ==
  /\ h \in Hands
  /\ q = "newtask" => h.dept \in Depts
  /\ q = "move" /\ h.moved => h.dept \in Depts
  /\ q \in AtTask => h.task \in Tasks
  /\ q = "log" => h.task \in FirstTasks
  /\ q \in {"each", "log"} => h.todo \subseteq FirstTasks \X Nat
  /\ q = "shift" => h.todo \subseteq Tasks \X Nat
  /\ q = "reorder" => h.todo \subseteq Depts \X Nat

Grips(r, q, h) ==
  /\ Moves(r, q) /\ FitsHand(q, h)
  /\ hand' \in [Requests -> Hands]
  /\ \A s \in Requests : hand'[s] = IF s = r THEN h ELSE hand[s]

LEMMA GripStep ==
  ASSUME HandInv, NEW r \in Requests, NEW q, NEW h, Grips(r, q, h)
  PROVE  HandInv'
  BY DEF HandInv, Grips, FitsHand, Moves, At, AtTask

LEMMA Kept ==
  ASSUME HandInv, NEW r \in Requests, NEW q, NEW h, Moves(r, q), FitsHand(q, h),
         hand' = [hand EXCEPT ![r] = h]
  PROVE  Grips(r, q, h)
  BY DEF HandInv, Grips, FitsHand

LEMMA Gripped ==
  ASSUME PlaceInv, HandInv, NEW r \in Requests, NEW q, NEW h, Goto(r, q), FitsHand(q, h),
         hand' = [hand EXCEPT ![r] = h]
  PROVE  Grips(r, q, h)
  BY GotoMoves DEF HandInv, Grips, FitsHand

LEMMA NothingHeld == FitsHand("done", NoHand)
  BY BoardAssumption DEF FitsHand, Hands, NoHand, AtTask

LEMMA Finished ==
  ASSUME PlaceInv, HandInv, NEW r \in Requests, Finish(r)
  PROVE  Grips(r, "done", NoHand)
  BY NothingHeld, Gripped DEF Finish, Answer

(* Handlers that leave the tasks as they are, and the roles; of the        *)
(* departments at most those go that neither have nor will have tasks.     *)
LEMMA SameRows ==
  ASSUME BoardTypeOK, DraftInv, TasksAreHoused, NEW r \in Requests, NEW q, Moves(r, q),
         UNCHANGED <<task, draft>>, \A x \in Rows : Live(x) => Live(x)',
         \A d \in Depts : HasDept(d) => HasDept(d)' \/ (InDept(d) = {} /\ ~LockedDept(d)),
         pc[r] \in {"neighbours", "shift"} => q \in {"neighbours", "shift"},
         pc[r] = "done" => q = "done"
  PROVE  DraftInv' /\ TasksAreHoused'
  <1>1. \A s \in Requests : Drafted(s)' = Drafted(s)
    BY DEF Drafted
  <1>2. \A s \in Requests : At(s, {"neighbours", "shift"}) => At(s, {"neighbours", "shift"})'
    BY DEF Moves, At
  <1>3. \A s \in Requests : pc'[s] # "done" => pc[s] # "done"
    BY DEF Moves
  <1>4. DraftInv'
    BY <1>1, <1>2, <1>3 DEF DraftInv, HasTask
  <1>5. ASSUME NEW x \in Rows \cup {NoRow}, AssignableTo(x) PROVE AssignableTo(x)'
    BY <1>5 DEF AssignableTo
  <1>6. \A row \in TaskRows : row.dept \in Depts /\ row.assignee \in Rows \cup {NoRow}
    BY DEF TaskRows
  <1>7. ASSUME NEW t \in Tasks, HasTask(t)'
        PROVE  HasDept(task[t].dept)' /\ AssignableTo(task[t].assignee)'
    <2>1. HasTask(t) /\ task[t] \in TaskRows
      BY <1>7 DEF HasTask, BoardTypeOK
    <2>2. HasDept(task[t].dept) /\ AssignableTo(task[t].assignee)
      BY <2>1 DEF TasksAreHoused
    <2>3. t \in InDept(task[t].dept)
      BY <2>1 DEF InDept
    <2>4. HasDept(task[t].dept)'
      BY <1>6, <2>1, <2>2, <2>3 DEF HasDept
    <2>5. AssignableTo(task[t].assignee)'
      BY <1>5, <1>6, <2>1, <2>2 DEF AssignableTo
    <2> QED
      BY <2>4, <2>5
  <1>8. ASSUME NEW t \in Tasks, NEW s \in Requests, t \in Drafted(s)'
        PROVE  /\ HasTask(t)' /\ HasDept(draft[s][t].dept)'
               /\ AssignableTo(draft[s][t].assignee)'
    <2>1. t \in Drafted(s) /\ draft[s][t] \in TaskRows
      BY <1>1, <1>8 DEF Drafted, BoardTypeOK
    <2>2. HasTask(t) /\ HasDept(draft[s][t].dept) /\ AssignableTo(draft[s][t].assignee)
      BY <2>1 DEF TasksAreHoused
    <2>3. LockedDept(draft[s][t].dept)
      BY <2>1 DEF LockedDept
    <2>4. HasDept(draft[s][t].dept)'
      BY <1>6, <2>1, <2>2, <2>3 DEF HasDept
    <2>5. AssignableTo(draft[s][t].assignee)'
      BY <1>5, <1>6, <2>1, <2>2 DEF AssignableTo
    <2> QED
      BY <2>2, <2>4, <2>5 DEF HasTask
  <1> QED
    BY <1>4, <1>7, <1>8 DEF TasksAreHoused

LEMMA SameLog ==
  ASSUME HandInv, LogInv, NEW r \in Requests, NEW q, NEW h, Grips(r, q, h),
         pc[r] # "log", q # "log", UNCHANGED <<changes, logged, untold, lost>>,
         \A t \in FirstTasks : HasTask(t)' <=> HasTask(t)
  PROVE  LogInv'
  <1>1. ASSUME NEW t PROVE Logging(t)' = Logging(t)
    <2>1. ASSUME NEW s \in Requests, s \in Logging(t)' PROVE s \in Logging(t)
      BY <2>1 DEF Logging, Grips, Moves, HandInv, At
    <2>2. ASSUME NEW s \in Requests, s \in Logging(t) PROVE s \in Logging(t)'
      BY <2>2 DEF Logging, Grips, Moves, HandInv, At
    <2> QED
      BY <2>1, <2>2 DEF Logging
  <1> QED
    BY <1>1 DEF LogInv, LogAccountsForChanges, Logging

(* A task's activity, in terms of those who are about to log it.           *)
LEMMA LogIs ==
  LogInv <=> \A t \in Tasks :
               /\ IsFiniteSet(Logging(t))
               /\ changes[t] = logged[t] + lost[t] + untold[t] + Cardinality(Logging(t))
  BY DEF LogInv, LogAccountsForChanges, Logging

LEMMA PlusAt ==
  ASSUME NEW f \in [Tasks -> Nat], NEW S
  PROVE  /\ Plus(f, S) \in [Tasks -> Nat]
         /\ \A t \in Tasks : Plus(f, S)[t] = IF t \in S THEN f[t] + 1 ELSE f[t]
  BY DEF Plus

(* Updates that are never told.                                            *)
LEMMA SilentLog ==
  ASSUME BoardTypeOK, HandInv, LogInv, NEW r \in Requests, NEW q, NEW h, Grips(r, q, h),
         pc[r] # "log", q # "log", NEW S, Silently(S), UNCHANGED <<logged, lost>>,
         \A t \in FirstTasks : HasTask(t)' <=> HasTask(t)
  PROVE  LogInv' /\ changes' \in [Tasks -> Nat] /\ untold' \in [Tasks -> Nat]
  <1>1. ASSUME NEW t PROVE Logging(t)' = Logging(t)
    <2>1. ASSUME NEW s \in Requests, s \in Logging(t)' PROVE s \in Logging(t)
      BY <2>1 DEF Logging, Grips, Moves, HandInv, At
    <2>2. ASSUME NEW s \in Requests, s \in Logging(t) PROVE s \in Logging(t)'
      BY <2>2 DEF Logging, Grips, Moves, HandInv, At
    <2> QED
      BY <2>1, <2>2 DEF Logging
  <1>2. /\ changes' \in [Tasks -> Nat] /\ untold' \in [Tasks -> Nat]
        /\ \A t \in Tasks : /\ changes'[t] = IF t \in S THEN changes[t] + 1 ELSE changes[t]
                            /\ untold'[t] = IF t \in S THEN untold[t] + 1 ELSE untold[t]
    <2>1. /\ changes \in [Tasks -> Nat] /\ untold \in [Tasks -> Nat]
          /\ changes' = Plus(changes, S) /\ untold' = Plus(untold, S)
      BY DEF Silently, BoardTypeOK
    <2>2. changes' \in [Tasks -> Nat] /\ untold' \in [Tasks -> Nat]
      BY <2>1, PlusAt
    <2> QED
      BY <2>1, <2>2 DEF Plus
  <1>3. ASSUME NEW t \in Tasks
        PROVE  /\ IsFiniteSet(Logging(t)')
               /\ changes'[t] = logged'[t] + lost'[t] + untold'[t] + Cardinality(Logging(t)')
    <2>1. /\ IsFiniteSet(Logging(t))
          /\ changes[t] = logged[t] + lost[t] + untold[t] + Cardinality(Logging(t))
      BY LogIs
    <2>2. /\ Cardinality(Logging(t)) \in Nat /\ logged[t] \in Nat /\ lost[t] \in Nat
          /\ untold[t] \in Nat /\ changes[t] \in Nat
      BY <2>1, FS_CardinalityType DEF BoardTypeOK
    <2>3. IsFiniteSet(Logging(t)') /\ Cardinality(Logging(t)') = Cardinality(Logging(t))
      BY <1>1, <2>1
    <2>4. logged'[t] = logged[t] /\ lost'[t] = lost[t]
      OBVIOUS
    <2> QED
      BY <1>2, <2>1, <2>2, <2>3, <2>4
  <1>4. LogInv'
    BY <1>3 DEF LogInv, LogAccountsForChanges, Logging
  <1> QED
    BY <1>2, <1>4

(* Steps that write no row of the board.                                   *)
LEMMA LookBoard ==
  ASSUME PlaceInv, BoardInv, NEW r \in Requests, NEW q, NEW h, Goto(r, q),
         hand' = [hand EXCEPT ![r] = h], FitsHand(q, h),
         UNCHANGED <<shared, dept, task, draft, changes, logged, untold, lost>>,
         clean' \subseteq Requests, pc[r] \notin {"log", "done"}, q # "log",
         pc[r] \in {"neighbours", "shift"} => q \in {"neighbours", "shift"}
  PROVE  BoardInv'
  <1> USE DEF BoardInv
  <1>1. Grips(r, q, h)
    BY Gripped
  <1>2. Moves(r, q)
    BY <1>1 DEF Grips
  <1>3. \A x \in Rows : Live(x) => Live(x)'
    BY DEF Live, shared
  <1>10. \A d \in Depts : HasDept(d) => HasDept(d)'
    BY DEF HasDept
  <1>4. DraftInv' /\ TasksAreHoused'
    BY <1>2, <1>3, <1>10, SameRows
  <1>5. \A t \in FirstTasks : HasTask(t)' <=> HasTask(t)
    BY DEF HasTask
  <1>6. LogInv'
    BY <1>1, <1>5, SameLog
  <1>7. HandInv'
    BY <1>1, GripStep
  <1>8. BoardTypeOK'
    BY DEF BoardTypeOK
  <1> QED
    BY <1>4, <1>6, <1>7, <1>8

LEMMA NotEqual == ASSUME NEW x, NEW y PROVE \E b \in BOOLEAN : b = (x # y)
  OBVIOUS

LEMMA BoardLooks ==
  ASSUME PlaceInv, BoardInv, NEW r \in Requests,
         \/ NewDeptCheck(r) \/ ReorderCheck(r) \/ NewTaskCheck(r)
         \/ \E d \in Depts : DropDeptCheck(r, d)
         \/ \E t \in Tasks : EditTaskCheck(r, t) \/ AssignCheck(r, t) \/ MoveCheck(r, t)
         \/ MoveRead(r) \/ BulkMoveCheck(r) \/ BulkCrossCheck(r) \/ BulkAnswer(r)
  PROVE  BoardInv'
  <1>t. BoardTypeOK /\ HandInv
    BY DEF BoardInv
  <1>n. NoHand \in Hands /\ NoHand.moved = FALSE
    BY BoardAssumption DEF NoHand, Hands
  <1>c. clean \subseteq Requests
    BY <1>t DEF BoardTypeOK
  <1>1. ASSUME NewDeptCheck(r) PROVE BoardInv'
    <2>1. PICK n \in Nat : hand' = [hand EXCEPT ![r] = [NoHand EXCEPT !.place = n]]
      BY <1>1, <1>t, NextOrderIsNat, BoardAssumption DEF NewDeptCheck
    <2>2. FitsHand("newdept", [NoHand EXCEPT !.place = n])
      BY <1>n DEF FitsHand, Hands, AtTask
    <2> QED
      BY <1>1, <1>c, <2>1, <2>2, LookBoard DEF NewDeptCheck, board
  <1>2. ASSUME ReorderCheck(r) PROVE BoardInv'
    <2>1. PICK order \in [FirstDepts -> Orders] :
            hand' = [hand EXCEPT ![r] = [NoHand EXCEPT !.todo = {<<d, order[d]>> : d \in FirstDepts}]]
      BY <1>2 DEF ReorderCheck
    <2> DEFINE do == {<<d, order[d]>> : d \in FirstDepts}
    <2>2. do \subseteq Depts \X Nat
      <3>1. ASSUME NEW d \in FirstDepts PROVE d \in Depts /\ order[d] \in Nat
        BY <2>1, BoardAssumption DEF Depts
      <3> QED
        BY <3>1
    <2>3. FitsHand("reorder", [NoHand EXCEPT !.todo = do])
      <3> HIDE DEF do
      <3> QED
        BY <1>n, <2>2 DEF FitsHand, Hands, AtTask
    <2> QED
      BY <1>2, <1>c, <2>1, <2>3, LookBoard DEF ReorderCheck, board
  <1>3. ASSUME NewTaskCheck(r) PROVE BoardInv'
    <2>1. PICK d \in Depts, x \in Rows \cup {NoRow} :
            hand' = [hand EXCEPT ![r] = [NoHand EXCEPT !.dept = d, !.assignee = x]]
      BY <1>3 DEF NewTaskCheck
    <2>2. FitsHand("newtask", [NoHand EXCEPT !.dept = d, !.assignee = x])
      BY <1>n DEF FitsHand, Hands, AtTask
    <2> QED
      BY <1>3, <1>c, <2>1, <2>2, LookBoard DEF NewTaskCheck, board
  <1>4. ASSUME NEW d \in Depts, DropDeptCheck(r, d) PROVE BoardInv'
    <2>1. FitsHand("dropdept", [NoHand EXCEPT !.dept = d])
      BY <1>n DEF FitsHand, Hands, AtTask
    <2> QED
      BY <1>4, <1>c, <2>1, LookBoard DEF DropDeptCheck, board
  <1>5. ASSUME NEW t \in Tasks, EditTaskCheck(r, t) PROVE BoardInv'
    <2>1. PICK d \in Depts \cup {NoDept}, c \in Columns :
            hand' = [hand EXCEPT ![r] = [NoHand EXCEPT !.task = t, !.dept = d, !.column = c]]
      BY <1>5 DEF EditTaskCheck
    <2>2. FitsHand("edit", [NoHand EXCEPT !.task = t, !.dept = d, !.column = c])
      BY <1>n DEF FitsHand, Hands, AtTask
    <2> QED
      BY <1>5, <1>c, <2>1, <2>2, LookBoard DEF EditTaskCheck, board
  <1>6. ASSUME NEW t \in Tasks, AssignCheck(r, t) PROVE BoardInv'
    <2>1. PICK x \in Rows \cup {NoRow} :
            hand' = [hand EXCEPT ![r] = [NoHand EXCEPT !.task = t, !.assignee = x]]
      BY <1>6 DEF AssignCheck
    <2>2. FitsHand("assign", [NoHand EXCEPT !.task = t, !.assignee = x])
      BY <1>n DEF FitsHand, Hands, AtTask
    <2> QED
      BY <1>6, <1>c, <2>1, <2>2, LookBoard DEF AssignCheck, board
  <1>7. ASSUME NEW t \in Tasks, MoveCheck(r, t) PROVE BoardInv'
    <2>1. PICK d \in {task[t].dept} \cup FirstDepts, c \in Columns, n \in Places :
            hand' = [hand EXCEPT ![r] = [NoHand EXCEPT
                       !.task = t, !.dept = d, !.column = c, !.place = n,
                       !.moved = d # task[t].dept]]
      BY <1>7 DEF MoveCheck
    <2>2. PICK b \in BOOLEAN : b = (d # task[t].dept)
      BY NotEqual
    <2> DEFINE h == [NoHand EXCEPT !.task = t, !.dept = d, !.column = c, !.place = n, !.moved = b]
    <2>3. hand' = [hand EXCEPT ![r] = h]
      BY <2>1, <2>2
    <2>4. d \in Depts /\ n \in Nat
      <3>1. task[t] \in TaskRows
        BY <1>7, <1>t DEF MoveCheck, BoardTypeOK, HasTask
      <3>2. task[t].dept \in Depts
        BY <3>1 DEF TaskRows
      <3>3. d \in Depts
        BY <2>1, <3>2 DEF Depts
      <3> QED
        BY <2>1, <3>3, BoardAssumption
    <2>5. FitsHand("move", h)
      BY <1>n, <2>1, <2>2, <2>4 DEF FitsHand, Hands, AtTask
    <2> HIDE DEF h
    <2>6. /\ Goto(r, "move") /\ pc[r] = "idle" /\ clean' \subseteq Requests
          /\ UNCHANGED <<shared, dept, task, draft, changes, logged, untold, lost>>
      BY <1>7, <1>c DEF MoveCheck
    <2> QED
      BY <2>3, <2>5, <2>6, LookBoard
  <1>8. ASSUME MoveRead(r) PROVE BoardInv'
    <2> DEFINE T == {y \in InDept(hand[r].dept) :
                       /\ y # hand[r].task /\ task[y].column = hand[r].column
                       /\ task[y].place >= hand[r].place}
    <2>1. hand' = [hand EXCEPT ![r].todo = {<<x, task[x].place>> : x \in T}]
      BY <1>8 DEF MoveRead
    <2>7. T \subseteq Tasks /\ \A x \in T : HasTask(x)
      BY DEF InDept
    <2> HIDE DEF T
    <2>2. pc[r] = "neighbours" /\ Goto(r, "shift") /\ UNCHANGED <<shared, board>>
      BY <1>8 DEF MoveRead
    <2>3. hand[r] \in Hands /\ hand[r].task \in Tasks /\ hand \in [Requests -> Hands]
      BY <1>t, <2>2 DEF HandInv, At, AtTask
    <2> DEFINE do == {<<x, task[x].place>> : x \in T}
               h == [hand[r] EXCEPT !.todo = do]
    <2>4. do \subseteq Tasks \X Nat
      <3>1. ASSUME NEW x \in T PROVE x \in Tasks /\ task[x].place \in Nat
        <4>1. task[x] \in TaskRows
          BY <1>t, <2>7 DEF BoardTypeOK, HasTask
        <4> QED
          BY <2>7, <4>1 DEF TaskRows
      <3> QED
        BY <3>1
    <2> HIDE DEF do
    <2>5. hand' = [hand EXCEPT ![r] = h]
      BY <2>1, <2>3 DEF do
    <2>6. FitsHand("shift", h)
      BY <2>3, <2>4 DEF FitsHand, Hands
    <2> HIDE DEF h
    <2> QED
      BY <1>c, <2>2, <2>5, <2>6, LookBoard DEF board
  <1>9. ASSUME NEW x, BulkHand(r, x) PROVE BoardInv'
    <2>p. kSubset(BulkSize, FirstTasks) \subseteq SUBSET FirstTasks
      BY DEF kSubset
    <2>1. PICK T \in kSubset(BulkSize, FirstTasks), c \in Columns,
               d \in FirstDepts \cup {NoDept}, y \in Rows \cup {NoRow}, assigns \in BOOLEAN :
            /\ \A t \in T : HasTask(t)
            /\ assigns \/ c # FirstColumn => d = NoDept
            /\ IF assigns THEN c = FirstColumn ELSE y = NoRow
            /\ hand' = [hand EXCEPT ![r] = [NoHand EXCEPT
                 !.dept = d, !.column = c, !.moved = assigns, !.assignee = y,
                 !.todo = {<<t, 0>> : t \in {s \in T : \/ role[x].kind \in Leads
                                                       \/ task[s].assignee = x}}]]
      BY <1>9, Zenon DEF BulkHand
    <2>q. T \subseteq FirstTasks
      BY <2>p
    <2> DEFINE do == {<<t, 0>> : t \in {s \in T : \/ role[x].kind \in Leads
                                                  \/ task[s].assignee = x}}
               h == [NoHand EXCEPT !.dept = d, !.column = c, !.moved = assigns,
                                   !.assignee = y, !.todo = do]
    <2>2. do \subseteq FirstTasks \X Nat
      BY <2>q
    <2> HIDE DEF do
    <2>3. do \subseteq (Tasks \cup Depts) \X Nat /\ d \in Depts \cup {NoDept}
      BY <2>2 DEF Tasks, Depts
    <2>4. FitsHand("each", h)
      BY <1>n, <2>2, <2>3 DEF FitsHand, Hands, AtTask
    <2>5. hand' = [hand EXCEPT ![r] = h]
      BY <2>1 DEF do
    <2>6. pc[r] = "idle" /\ Goto(r, "each") /\ UNCHANGED <<shared, board>>
      BY <1>9 DEF BulkHand
    <2> HIDE DEF h
    <2> QED
      BY <1>c, <2>4, <2>5, <2>6, LookBoard DEF board
  <1>10. ASSUME BulkAnswer(r) PROVE BoardInv'
    BY <1>10, <1>c, NothingHeld, LookBoard DEF BulkAnswer, Finish, Answer, board
  <1> QED
    BY <1>1, <1>2, <1>3, <1>4, <1>5, <1>6, <1>7, <1>8, <1>9, <1>10
       DEF BulkMoveCheck, BulkCrossCheck

(* Steps that write departments.                                           *)
LEMMA DeptStep ==
  ASSUME BoardInv, NEW r \in Requests, NEW q, NEW h, Grips(r, q, h),
         UNCHANGED <<shared, task, draft, changes, logged, untold, lost, clean>>,
         dept' \in [Depts -> Nat \cup {NoDept}],
         \A d \in Depts : HasDept(d) => HasDept(d)' \/ (InDept(d) = {} /\ ~LockedDept(d)),
         pc[r] \notin {"log", "done", "neighbours", "shift"}, q # "log"
  PROVE  BoardInv'
  <1>1. Moves(r, q)
    BY DEF Grips
  <1>2. \A x \in Rows : Live(x) => Live(x)'
    BY DEF Live, shared
  <1>3. \A t \in FirstTasks : HasTask(t)' <=> HasTask(t)
    BY DEF HasTask
  <1>4. DraftInv' /\ TasksAreHoused'
    BY <1>1, <1>2, SameRows DEF BoardInv
  <1>5. LogInv' /\ HandInv'
    BY <1>3, SameLog, GripStep DEF BoardInv
  <1>6. BoardTypeOK'
    BY DEF BoardInv, BoardTypeOK
  <1> QED
    BY <1>4, <1>5, <1>6 DEF BoardInv

LEMMA DeptSteps ==
  ASSUME PlaceInv, BoardInv, NEW r \in Requests,
         \/ NewDept(r) \/ ReorderOne(r) \/ DropDept(r)
         \/ \E d \in Depts : EditDept(r, d) \/ PutDept(r, d)
  PROVE  BoardInv'
  <1>t. /\ HandInv /\ dept \in [Depts -> Nat \cup {NoDept}]
        /\ hand \in [Requests -> Hands] /\ hand[r] \in Hands
    BY DEF BoardInv, BoardTypeOK, HandInv
  <1>n. \A n \in Nat : n # NoDept
    BY BoardAssumption
  <1>1. ASSUME NewDept(r) PROVE BoardInv'
    <2>1. Grips(r, "done", NoHand)
      BY <1>1, <1>t, Finished DEF NewDept
    <2>2. hand[r].place \in Nat /\ r \in Depts
      BY <1>t DEF Hands, Depts
    <2>3. dept' = dept \/ dept' = [dept EXCEPT ![r] = hand[r].place]
      BY <1>1 DEF NewDept
    <2>4. dept' \in [Depts -> Nat \cup {NoDept}] /\ \A d \in Depts : HasDept(d) => HasDept(d)'
      BY <1>t, <1>n, <2>2, <2>3 DEF HasDept
    <2> QED
      BY <1>1, <2>1, <2>4, DeptStep DEF NewDept
  <1>2. ASSUME NEW d \in Depts, EditDept(r, d) PROVE BoardInv'
    <2>1. PICK n \in Orders : dept' = [dept EXCEPT ![d] = n]
      BY <1>2 DEF EditDept
    <2>2. n \in Nat
      BY BoardAssumption
    <2>3. /\ dept' \in [Depts -> Nat \cup {NoDept}]
          /\ \A e \in Depts : HasDept(e) => HasDept(e)'
      BY <1>t, <1>n, <2>1, <2>2 DEF HasDept
    <2>4. FitsHand("done", hand[r])
      BY <1>t DEF FitsHand, AtTask
    <2>5. hand' = [hand EXCEPT ![r] = hand[r]]
      BY <1>2, <1>t DEF EditDept
    <2>6. Grips(r, "done", hand[r])
      BY <1>2, <1>t, <2>4, <2>5, Gripped DEF EditDept, Answer
    <2> QED
      BY <1>2, <2>3, <2>6, DeptStep DEF EditDept
  <1>3. ASSUME NEW d \in Depts, PutDept(r, d) PROVE BoardInv'
    BY <1>2, <1>3 DEF PutDept
  <1>4. ASSUME ReorderOne(r) PROVE BoardInv'
    <2>1. PICK do \in hand[r].todo :
            /\ dept' = [dept EXCEPT ![do[1]] = IF HasDept(do[1]) THEN do[2] ELSE NoDept]
            /\ hand' = [hand EXCEPT ![r].todo = @ \ {do}]
            /\ IF hand[r].todo = {do} THEN Answer(r) ELSE UNCHANGED pc
      BY <1>4 DEF ReorderOne
    <2>2. hand[r].todo \subseteq Depts \X Nat
      BY <1>4, <1>t DEF HandInv, At, ReorderOne
    <2>3. do[1] \in Depts /\ do[2] \in Nat
      BY <2>2
    <2>4. /\ dept' \in [Depts -> Nat \cup {NoDept}]
          /\ \A d \in Depts : HasDept(d) => HasDept(d)'
      BY <1>t, <1>n, <2>1, <2>3 DEF HasDept
    <2> DEFINE h == [hand[r] EXCEPT !.todo = @ \ {do}]
    <2>5. h \in Hands /\ h.todo \subseteq Depts \X Nat /\ hand' = [hand EXCEPT ![r] = h]
      BY <1>t, <2>1, <2>2 DEF Hands
    <2> HIDE DEF h
    <2>6. FitsHand("done", h) /\ FitsHand("reorder", h)
      BY <2>5 DEF FitsHand, AtTask
    <2>7. PICK q \in {"done", "reorder"} : Moves(r, q)
      <3>1. CASE Answer(r)
        BY <3>1, GotoMoves DEF Answer
      <3>2. CASE UNCHANGED pc
        BY <1>4, <3>2 DEF ReorderOne, PlaceInv, Moves
      <3> QED
        BY <2>1, <3>1, <3>2
    <2>8. Grips(r, q, h)
      BY <1>t, <2>5, <2>6, <2>7, Kept
    <2> QED
      BY <1>4, <2>4, <2>8, DeptStep DEF ReorderOne
  <1>5. ASSUME DropDept(r) PROVE BoardInv'
    <2>1. Grips(r, "done", NoHand)
      BY <1>5, <1>t, Finished DEF DropDept
    <2>2. /\ dept' \in [Depts -> Nat \cup {NoDept}]
          /\ \A d \in Depts : HasDept(d) => HasDept(d)' \/ (InDept(d) = {} /\ ~LockedDept(d))
      BY <1>5, <1>t DEF DropDept, HasDept
    <2> QED
      BY <1>5, <2>1, <2>2, DeptStep DEF DropDept
  <1> QED
    BY <1>1, <1>2, <1>3, <1>4, <1>5

(* A task is written, made or deleted, that no open transaction has        *)
(* written.                                                                *)
LEMMA PutTask ==
  ASSUME BoardTypeOK, DraftInv, TasksAreHoused, NEW r \in Requests, NEW q, Moves(r, q),
         NEW t0 \in Tasks, t0 \notin Locked(r), NEW new \in TaskRows \cup {NoTask},
         new # NoTask => HasDept(new.dept) /\ AssignableTo(new.assignee),
         new # NoTask => HasTask(t0) \/ (t0 = r /\ q = "done"),
         task' = [task EXCEPT ![t0] = new], UNCHANGED <<shared, dept, draft>>,
         pc[r] \notin {"done", "neighbours", "shift"}
  PROVE  DraftInv' /\ TasksAreHoused' /\ task' \in [Tasks -> TaskRows \cup {NoTask}]
  <1>1. \A s \in Requests : Drafted(s)' = Drafted(s)
    BY DEF Drafted
  <1>2. Drafted(r) = {}
    BY DEF DraftInv, At
  <1>3. \A s \in Requests : t0 \notin Drafted(s)
    BY <1>2 DEF Locked
  <1>4. /\ task' \in [Tasks -> TaskRows \cup {NoTask}] /\ task'[t0] = new
        /\ \A t \in Tasks : t # t0 => task'[t] = task[t]
    BY DEF BoardTypeOK
  <1>5. \A s \in Requests : At(s, {"neighbours", "shift"}) => At(s, {"neighbours", "shift"})'
    BY DEF Moves, At
  <1>6. \A s \in Requests : pc'[s] # "done" => pc[s] # "done"
    BY DEF Moves
  <1>7. ASSUME NEW s \in Requests, pc'[s] # "done" PROVE ~HasTask(s)'
    <2>1. ~HasTask(s) /\ s \in Tasks
      BY <1>6, <1>7 DEF DraftInv, Tasks
    <2>2. CASE s # t0
      BY <1>4, <2>1, <2>2 DEF HasTask
    <2>3. CASE s = t0
      <3>1. new = NoTask
        BY <1>7, <2>1, <2>3 DEF Moves
      <3> QED
        BY <1>4, <2>3, <3>1 DEF HasTask
    <2> QED
      BY <2>2, <2>3
  <1>s. /\ \A d : HasDept(d)' <=> HasDept(d)
        /\ \A x : AssignableTo(x)' <=> AssignableTo(x)
        /\ \A s, t : HasDept(draft[s][t].dept)' <=> HasDept(draft[s][t].dept)
        /\ \A s, t : AssignableTo(draft[s][t].assignee)' <=> AssignableTo(draft[s][t].assignee)
        /\ \A t : /\ HasDept(task[t].dept)' <=> HasDept(task'[t].dept)
                  /\ AssignableTo(task[t].assignee)' <=> AssignableTo(task'[t].assignee)
    BY DEF HasDept, AssignableTo, Live, shared
  <1>8. ASSUME NEW s \in Requests, NEW t \in Drafted(s)
        PROVE  /\ draft'[s][t].assignee = task'[t].assignee /\ HasTask(t)'
               /\ HasDept(draft[s][t].dept)' /\ AssignableTo(draft[s][t].assignee)'
    <2>1. t # t0 /\ t \in Tasks
      BY <1>3, <1>8 DEF Drafted
    <2>2. /\ draft[s][t].assignee = task[t].assignee /\ HasTask(t)
          /\ HasDept(draft[s][t].dept) /\ AssignableTo(draft[s][t].assignee)
      BY <1>8, <2>1 DEF DraftInv, TasksAreHoused
    <2> QED
      BY <1>4, <1>s, <2>1, <2>2 DEF HasTask
  <1>9. DraftInv'
    BY <1>1, <1>5, <1>7, <1>8 DEF DraftInv
  <1>10. ASSUME NEW t \in Tasks, HasTask(t)'
         PROVE  HasDept(task[t].dept)' /\ AssignableTo(task[t].assignee)'
    <2>1. CASE t = t0
      BY <1>4, <1>s, <1>10, <2>1 DEF HasTask
    <2>2. CASE t # t0
      <3>1. HasTask(t) /\ task'[t] = task[t]
        BY <1>4, <1>10, <2>2 DEF HasTask
      <3>2. HasDept(task[t].dept) /\ AssignableTo(task[t].assignee)
        BY <3>1 DEF TasksAreHoused
      <3> QED
        BY <1>s, <3>1, <3>2
    <2> QED
      BY <2>1, <2>2
  <1> QED
    BY <1>1, <1>4, <1>8, <1>9, <1>10 DEF TasksAreHoused

(* The same, with all the rest of the board and of the activity as it was. *)
LEMMA TaskStep ==
  ASSUME BoardInv, NEW r \in Requests, Grips(r, "done", NoHand),
         NEW t0 \in Tasks, t0 \notin Locked(r), NEW new \in TaskRows,
         HasDept(new.dept), AssignableTo(new.assignee), HasTask(t0) \/ t0 = r,
         task' = [task EXCEPT ![t0] = new], clean' \subseteq Requests,
         UNCHANGED <<shared, dept, draft, logged, lost>>,
         UNCHANGED <<changes, untold>> \/ Silently({t0}),
         pc[r] \notin {"log", "done", "neighbours", "shift"}
  PROVE  BoardInv'
  <1>t. BoardTypeOK /\ HandInv /\ DraftInv /\ TasksAreHoused /\ LogInv /\ Moves(r, "done")
    BY DEF BoardInv, Grips
  <1>n. \A row \in TaskRows : row # NoTask
    BY BoardAssumption
  <1>1. DraftInv' /\ TasksAreHoused' /\ task' \in [Tasks -> TaskRows \cup {NoTask}]
    BY <1>t, PutTask
  <1>2. \A t \in FirstTasks : HasTask(t)' <=> HasTask(t)
    <2>1. \A t \in FirstTasks : t # r /\ t \in Tasks
      BY BoardAssumption DEF Tasks
    <2> QED
      BY <1>t, <1>n, <2>1 DEF HasTask, BoardTypeOK
  <1>3. LogInv' /\ changes' \in [Tasks -> Nat] /\ untold' \in [Tasks -> Nat]
    <2>1. CASE UNCHANGED <<changes, untold>>
      BY <1>t, <1>2, <2>1, SameLog DEF BoardTypeOK
    <2>2. CASE Silently({t0})
      BY <1>t, <1>2, <2>2, SilentLog
    <2> QED
      BY <2>1, <2>2
  <1>4. HandInv'
    BY <1>t, GripStep
  <1>5. BoardTypeOK'
    BY <1>t, <1>1, <1>3 DEF BoardTypeOK
  <1> QED
    BY <1>1, <1>3, <1>4, <1>5 DEF BoardInv

LEMMA TaskSteps ==
  ASSUME PlaceInv, BoardInv, NEW r \in Requests, NewTask(r) \/ EditTask(r) \/ AssignTask(r)
  PROVE  BoardInv'
  <1>t. /\ HandInv /\ hand[r] \in Hands /\ clean \subseteq Requests
        /\ task \in [Tasks -> TaskRows \cup {NoTask}] /\ Drafted(r) = {}
        /\ pc[r] \in {"newtask", "edit", "assign"} /\ r \in Tasks
    BY DEF BoardInv, BoardTypeOK, HandInv, DraftInv, At, NewTask, EditTask, AssignTask, Tasks
  <1>1. Grips(r, "done", NoHand)
    BY <1>t, Finished DEF NewTask, EditTask, AssignTask
  <1> DEFINE h == hand[r]
  <1>2. UNCHANGED <<shared, dept, draft, logged, lost>> /\ clean' \subseteq Requests
    BY <1>t DEF NewTask, EditTask, AssignTask, Write
  <1>3. CASE UNCHANGED <<task, clean, changes, untold>>
    <2>1. Goto(r, "done") /\ hand' = [hand EXCEPT ![r] = NoHand]
      BY DEF NewTask, EditTask, AssignTask, Finish, Answer
    <2> QED
      BY <1>t, <1>2, <1>3, <2>1, NothingHeld, LookBoard
  <1>4. ASSUME NEW t0 \in Tasks, t0 \notin Locked(r), NEW new \in TaskRows,
               HasDept(new.dept), AssignableTo(new.assignee), HasTask(t0) \/ t0 = r,
               task' = [task EXCEPT ![t0] = new],
               UNCHANGED <<changes, untold>> \/ Silently({t0})
        PROVE  BoardInv'
    BY <1>t, <1>1, <1>2, <1>4, TaskStep
  <1>5. CASE NewTask(r) /\ HasDept(h.dept) /\ AssignableTo(h.assignee)
    <2> DEFINE new == [dept |-> h.dept, column |-> FirstColumn, place |-> 0,
                       assignee |-> h.assignee]
    <2>1. h.dept \in Depts /\ h.assignee \in Rows \cup {NoRow}
      BY <1>t, <1>5 DEF HandInv, At, Hands, NewTask
    <2>2. new \in TaskRows
      BY <2>1, BoardAssumption DEF TaskRows
    <2>3. r \notin Locked(r)
      <3>1. ~HasTask(r)
        BY <1>t DEF BoardInv, DraftInv
      <3> QED
        BY <1>t, <3>1 DEF BoardInv, TasksAreHoused, Locked
    <2>4. task' = [task EXCEPT ![r] = new] /\ UNCHANGED <<changes, untold>>
      BY <1>5 DEF NewTask, Write
    <2> QED
      BY <1>t, <1>4, <1>5, <2>2, <2>3, <2>4
  <1>6. CASE /\ EditTask(r) /\ HasTask(h.task) /\ (h.dept # NoDept => HasDept(h.dept))
             /\ Silently({h.task})
    <2>1. h.task \in Tasks /\ h.dept \in Depts \cup {NoDept} /\ h.column \in Columns
      BY <1>t, <1>6 DEF HandInv, At, AtTask, Hands, EditTask
    <2>2. /\ task[h.task] \in TaskRows /\ HasDept(task[h.task].dept)
          /\ AssignableTo(task[h.task].assignee)
      BY <1>t, <1>6, <2>1 DEF HasTask, BoardInv, TasksAreHoused
    <2> DEFINE d   == IF h.dept = NoDept THEN task[h.task].dept ELSE h.dept
               new == [task[h.task] EXCEPT !.dept = d, !.column = h.column]
    <2>3. d \in Depts /\ HasDept(d)
      BY <1>6, <2>1, <2>2 DEF TaskRows
    <2>4. CASE task' = [task EXCEPT ![h.task].dept = d, ![h.task].column = h.column]
      <3>1. task' = [task EXCEPT ![h.task] = new]
        BY <1>t, <2>1, <2>4
      <3> HIDE DEF d
      <3>2. new \in TaskRows /\ new.dept = d /\ new.assignee = task[h.task].assignee
        BY <2>1, <2>2, <2>3 DEF TaskRows
      <3> HIDE DEF new
      <3>3. h.task \notin Locked(r)
        BY <1>6 DEF EditTask
      <3> QED
        BY <1>4, <1>6, <2>1, <2>2, <2>3, <3>1, <3>2, <3>3
    <2>5. task' = [task EXCEPT ![h.task].dept = d, ![h.task].column = h.column]
      BY <1>t, <1>6, <2>1, <2>2 DEF EditTask, Write
    <2> QED
      BY <2>4, <2>5
  <1>7. CASE /\ AssignTask(r) /\ HasTask(h.task) /\ AssignableTo(h.assignee)
             /\ Silently({h.task})
    <2>1. h.task \in Tasks /\ h.assignee \in Rows \cup {NoRow}
      BY <1>t, <1>7 DEF HandInv, At, AtTask, Hands, AssignTask
    <2>2. task[h.task] \in TaskRows /\ HasDept(task[h.task].dept)
      BY <1>t, <1>7, <2>1 DEF HasTask, BoardInv, TasksAreHoused
    <2> DEFINE new == [task[h.task] EXCEPT !.assignee = h.assignee]
    <2>3. task' = [task EXCEPT ![h.task] = new]
      BY <1>t, <1>7, <2>1 DEF AssignTask, Write
    <2>4. new \in TaskRows /\ new.dept = task[h.task].dept /\ new.assignee = h.assignee
      BY <2>1, <2>2 DEF TaskRows
    <2> HIDE DEF new
    <2>5. h.task \notin Locked(r)
      BY <1>7 DEF AssignTask
    <2> QED
      BY <1>4, <1>7, <2>1, <2>2, <2>3, <2>4, <2>5
  <1> QED
    BY <1>3, <1>5, <1>6, <1>7 DEF NewTask, EditTask, AssignTask

(* Who is about to log what, after a step that keeps the first tasks.      *)
LEMMA LogChanges ==
  ASSUME HandInv, NEW r \in Requests, NEW q, NEW h, Grips(r, q, h),
         NEW t, t \in FirstTasks => (HasTask(t)' <=> HasTask(t))
  PROVE  Logging(t)' = IF q = "log" /\ h.task = t /\ HasTask(t)
                       THEN Logging(t) \cup {r} ELSE Logging(t) \ {r}
  <1>1. ASSUME NEW s \in Requests \ {r} PROVE s \in Logging(t)' <=> s \in Logging(t)
    <2>1. pc'[s] = pc[s] /\ hand'[s] = hand[s]
      BY DEF Grips, Moves
    <2>2. pc[s] = "log" => hand[s].task \in FirstTasks
      BY DEF HandInv, At
    <2> QED
      BY <2>1, <2>2 DEF Logging
  <1>2. r \in Logging(t)' <=> q = "log" /\ h.task = t /\ HasTask(t)
    <2>1. pc'[r] = q /\ hand'[r] = h
      BY DEF Grips, Moves
    <2>2. q = "log" => h.task \in FirstTasks
      BY DEF Grips, FitsHand
    <2> QED
      BY <2>1, <2>2 DEF Logging
  <1> QED
    BY <1>1, <1>2 DEF Logging

LEMMA DeleteTaskStep ==
  ASSUME PlaceInv, BoardInv, NEW r \in Requests, NEW t0 \in Tasks, DeleteTask(r, t0)
  PROVE  BoardInv'
  <1>t. BoardTypeOK /\ HandInv /\ DraftInv /\ TasksAreHoused /\ LogInv
    BY DEF BoardInv
  <1>a. /\ pc[r] = "idle" /\ Goto(r, "done") /\ hand' = hand /\ t0 \notin Locked(r)
        /\ task' = [task EXCEPT ![t0] = NoTask] /\ UNCHANGED <<shared, dept, draft>>
        /\ changes' = [changes EXCEPT ![t0] = 0] /\ logged' = [logged EXCEPT ![t0] = 0]
        /\ untold' = [untold EXCEPT ![t0] = 0] /\ lost' = [lost EXCEPT ![t0] = 0]
        /\ clean' = clean \cap {r}
    BY DEF DeleteTask, Answer, Write
  <1>1. Grips(r, "done", hand[r])
    <2>1. hand' = [hand EXCEPT ![r] = hand[r]] /\ FitsHand("done", hand[r])
      BY <1>t, <1>a DEF HandInv, FitsHand, AtTask
    <2> QED
      BY <1>t, <1>a, <2>1, Gripped
  <1>2. DraftInv' /\ TasksAreHoused' /\ task' \in [Tasks -> TaskRows \cup {NoTask}]
    <2>1. Moves(r, "done")
      BY <1>1 DEF Grips
    <2> QED
      BY <1>t, <1>a, <2>1, PutTask
  <1>3. BoardTypeOK'
    BY <1>t, <1>a, <1>2 DEF BoardTypeOK
  <1>4. ASSUME NEW t \in Tasks
        PROVE  IsFiniteSet(Logging(t))'
               /\ changes'[t] = logged'[t] + lost'[t] + untold'[t] + Cardinality(Logging(t)')
    <2>1. CASE t = t0
      <3>1. Logging(t)' = {}
        BY <1>t, <1>a, <2>1 DEF Logging, HasTask, BoardTypeOK
      <3> QED
        BY <1>t, <1>a, <2>1, <3>1, FS_EmptySet DEF BoardTypeOK
    <2>2. CASE t # t0
      <3>1. HasTask(t)' <=> HasTask(t)
        BY <1>t, <1>a, <2>2 DEF HasTask, BoardTypeOK
      <3>2. r \notin Logging(t)
        BY <1>a DEF Logging
      <3>3. Logging(t)' = Logging(t)
        BY <1>t, <1>1, <3>1, <3>2, LogChanges
      <3>4. /\ changes'[t] = changes[t] /\ logged'[t] = logged[t]
            /\ lost'[t] = lost[t] /\ untold'[t] = untold[t]
        BY <1>t, <1>a, <2>2 DEF BoardTypeOK
      <3> QED
        BY <1>t, <3>3, <3>4, LogIs
    <2> QED
      BY <2>1, <2>2
  <1>5. LogInv'
    BY <1>4 DEF LogInv, LogAccountsForChanges, Logging
  <1>6. HandInv'
    BY <1>t, <1>1, GripStep
  <1> QED
    BY <1>2, <1>3, <1>5, <1>6 DEF BoardInv

(* A transaction writes one more task.                                     *)
LEMMA DraftStep ==
  ASSUME BoardInv, NEW r \in Requests, NEW q \in {"neighbours", "shift"}, NEW h,
         Grips(r, q, h), NEW t0 \in Tasks, t0 \notin Locked(r), HasTask(t0),
         NEW row \in TaskRows, HasDept(row.dept), row.assignee = task[t0].assignee,
         draft' = [draft EXCEPT ![r][t0] = row],
         UNCHANGED <<shared, dept, task, changes, logged, untold, lost, clean>>,
         pc[r] \notin {"log", "done"}
  PROVE  BoardInv'
  <1>t. BoardTypeOK /\ HandInv /\ DraftInv /\ TasksAreHoused /\ LogInv /\ Moves(r, q)
    BY DEF BoardInv, Grips
  <1>n. row # NoTask
    BY BoardAssumption
  <1>1. /\ draft' \in [Requests -> [Tasks -> TaskRows \cup {NoTask}]]
        /\ draft'[r][t0] = row
        /\ \A s \in Requests, t \in Tasks : s # r \/ t # t0 => draft'[s][t] = draft[s][t]
    BY <1>t DEF BoardTypeOK
  <1>2. /\ Drafted(r)' = Drafted(r) \cup {t0}
        /\ \A s \in Requests \ {r} : Drafted(s)' = Drafted(s)
    BY <1>1, <1>n DEF Drafted
  <1>3. \A s \in Requests \ {r} : t0 \notin Drafted(s)
    BY DEF Locked
  <1>4. \A s \in Requests : At(s, {"neighbours", "shift"}) => At(s, {"neighbours", "shift"})'
    BY <1>t DEF Moves, At
  <1>5. At(r, {"neighbours", "shift"})' /\ \A s \in Requests : pc'[s] # "done" => pc[s] # "done"
    BY <1>t DEF Moves, At
  <1>h. AssignableTo(row.assignee)
    BY <1>t DEF TasksAreHoused
  <1>6. ASSUME NEW s \in Requests, NEW t \in Tasks, t \in Drafted(s)'
        PROVE  /\ draft'[s][t].assignee = task[t].assignee /\ HasTask(t)
               /\ HasDept(draft'[s][t].dept) /\ AssignableTo(draft'[s][t].assignee)
    <2>1. CASE s = r /\ t = t0
      BY <1>1, <1>h, <2>1
    <2>2. CASE s # r \/ t # t0
      <3>1. t \in Drafted(s) /\ draft'[s][t] = draft[s][t]
        BY <1>1, <1>2, <1>6, <2>2
      <3> QED
        BY <1>t, <3>1 DEF DraftInv, TasksAreHoused
    <2> QED
      BY <2>1, <2>2
  <1>7. \A s \in Requests, p \in Requests : s # p => Drafted(s)' \cap Drafted(p)' = {}
    BY <1>t, <1>2, <1>3 DEF DraftInv
  <1>8. Drafted(r)' \subseteq Tasks /\ \A s \in Requests : Drafted(s)' \subseteq Tasks
    BY DEF Drafted
  <1>9. DraftInv'
    BY <1>t, <1>2, <1>4, <1>5, <1>6, <1>7, <1>8 DEF DraftInv, HasTask
  <1>s. /\ \A d : HasDept(d)' <=> HasDept(d)
        /\ \A s, t : HasDept(draft[s][t].dept)' <=> HasDept(draft'[s][t].dept)
        /\ \A s, t : AssignableTo(draft[s][t].assignee)' <=> AssignableTo(draft'[s][t].assignee)
        /\ \A t : /\ HasDept(task[t].dept)' <=> HasDept(task[t].dept)
                  /\ AssignableTo(task[t].assignee)' <=> AssignableTo(task[t].assignee)
                  /\ HasTask(t)' <=> HasTask(t)
    BY DEF HasDept, AssignableTo, Live, shared, HasTask
  <1>10. TasksAreHoused'
    BY <1>t, <1>s, <1>6 DEF TasksAreHoused
  <1>11. LogInv' /\ HandInv'
    BY <1>t, <1>s, SameLog, GripStep
  <1>12. BoardTypeOK'
    BY <1>t, <1>1 DEF BoardTypeOK
  <1> QED
    BY <1>9, <1>10, <1>11, <1>12 DEF BoardInv

LEMMA MoveTaskStep ==
  ASSUME PlaceInv, BoardInv, NEW r \in Requests, MoveTask(r)
  PROVE  BoardInv'
  <1> DEFINE h == hand[r]
             d == IF h.moved THEN h.dept ELSE task[h.task].dept
             row == [task[h.task] EXCEPT !.column = h.column, !.place = h.place, !.dept = d]
  <1>t. /\ BoardTypeOK /\ HandInv /\ h \in Hands /\ h.task \in Tasks /\ pc[r] = "move"
        /\ h.moved => h.dept \in Depts
    BY DEF BoardInv, BoardTypeOK, HandInv, At, AtTask, MoveTask
  <1>a. hand' = hand /\ UNCHANGED <<shared, dept, task, changes, logged, untold, lost, clean>>
    BY DEF MoveTask
  <1>1. hand' = [hand EXCEPT ![r] = h] /\ FitsHand("done", h) /\ FitsHand("neighbours", h)
    BY <1>t, <1>a DEF FitsHand, AtTask, HandInv
  <1>2. CASE Answer(r) /\ UNCHANGED draft
    <2>1. clean' \subseteq Requests
      BY <1>t, <1>a DEF BoardTypeOK
    <2> HIDE DEF h
    <2> QED
      BY <1>t, <1>a, <1>1, <1>2, <2>1, LookBoard DEF Answer
  <1>3. CASE /\ HasTask(h.task) /\ (h.moved => HasDept(h.dept))
             /\ draft' = [draft EXCEPT ![r][h.task] = row] /\ Goto(r, "neighbours")
    <2>1. task[h.task] \in TaskRows /\ HasDept(task[h.task].dept)
      BY <1>t, <1>3 DEF BoardTypeOK, HasTask, BoardInv, TasksAreHoused
    <2>2. d \in Depts /\ HasDept(d)
      BY <1>t, <1>3, <2>1 DEF TaskRows
    <2> HIDE DEF d
    <2>3. row \in TaskRows /\ row.dept = d /\ row.assignee = task[h.task].assignee
      BY <1>t, <2>1, <2>2 DEF TaskRows, Hands
    <2>4. h.task \notin Locked(r)
      BY DEF MoveTask
    <2>5. Grips(r, "neighbours", h)
      BY <1>t, <1>1, <1>3, Gripped
    <2> HIDE DEF row, h
    <2> QED
      BY <1>t, <1>a, <1>3, <2>2, <2>3, <2>4, <2>5, DraftStep
  <1>4. \/ /\ HasTask(h.task) /\ (h.moved => HasDept(h.dept))
           /\ draft' = [draft EXCEPT ![r][h.task] = row] /\ Goto(r, "neighbours")
        \/ Answer(r) /\ UNCHANGED draft
    BY <1>t DEF MoveTask, BoardTypeOK, HasTask, TaskRows
  <1> QED
    BY <1>2, <1>3, <1>4

(* A transaction that ends without a commit.                               *)
LEMMA NoDraftStep ==
  ASSUME BoardTypeOK, DraftInv, TasksAreHoused, NEW r \in Requests, Moves(r, "done"),
         draft' = [draft EXCEPT ![r] = NoDraft], UNCHANGED <<shared, dept, task>>
  PROVE  /\ DraftInv' /\ TasksAreHoused'
         /\ draft' \in [Requests -> [Tasks -> TaskRows \cup {NoTask}]]
  <1>1. NoDraft \in [Tasks -> TaskRows \cup {NoTask}] /\ \A t \in Tasks : NoDraft[t] = NoTask
    BY DEF NoDraft
  <1>2. /\ draft' \in [Requests -> [Tasks -> TaskRows \cup {NoTask}]] /\ draft'[r] = NoDraft
        /\ \A s \in Requests \ {r} : draft'[s] = draft[s]
    BY <1>1 DEF BoardTypeOK
  <1>3. /\ Drafted(r)' = {}
        /\ \A s \in Requests \ {r} : Drafted(s)' = Drafted(s)
    BY <1>1, <1>2 DEF Drafted
  <1>4. \A s \in Requests \ {r} : At(s, {"neighbours", "shift"}) => At(s, {"neighbours", "shift"})'
    BY DEF Moves, At
  <1>5. \A s \in Requests : pc'[s] # "done" => pc[s] # "done"
    BY DEF Moves
  <1>6. DraftInv'
    BY <1>2, <1>3, <1>4, <1>5 DEF DraftInv, HasTask
  <1>s. /\ \A d : HasDept(d)' <=> HasDept(d)
        /\ \A s, t : HasDept(draft[s][t].dept)' <=> HasDept(draft'[s][t].dept)
        /\ \A s, t : AssignableTo(draft[s][t].assignee)' <=> AssignableTo(draft'[s][t].assignee)
        /\ \A t : /\ HasDept(task[t].dept)' <=> HasDept(task[t].dept)
                  /\ AssignableTo(task[t].assignee)' <=> AssignableTo(task[t].assignee)
                  /\ HasTask(t)' <=> HasTask(t)
    BY DEF HasDept, AssignableTo, Live, shared, HasTask
  <1>7. TasksAreHoused'
    BY <1>s, <1>2, <1>3 DEF TasksAreHoused
  <1> QED
    BY <1>2, <1>6, <1>7

LEMMA MoveShiftStep ==
  ASSUME PlaceInv, BoardInv, NEW r \in Requests, MoveShift(r)
  PROVE  BoardInv'
  <1>t. /\ BoardTypeOK /\ HandInv /\ DraftInv /\ TasksAreHoused /\ LogInv /\ hand[r] \in Hands
        /\ hand[r].todo \subseteq Tasks \X Nat /\ pc[r] = "shift" /\ hand[r].task \in Tasks
    BY DEF BoardInv, HandInv, At, AtTask, MoveShift
  <1>1. PICK do \in hand[r].todo :
          /\ do[1] \notin Locked(r)
          /\ hand' = [hand EXCEPT ![r].todo = @ \ {do}]
          /\ \/ /\ HasTask(do[1])
                /\ draft' = [draft EXCEPT ![r][do[1]] = [task[do[1]] EXCEPT !.place = do[2] + 1]]
                /\ UNCHANGED pc
             \/ /\ ~HasTask(do[1])
                /\ draft' = [draft EXCEPT ![r] = NoDraft]
                /\ Answer(r)
    BY DEF MoveShift
  <1>2. do[1] \in Tasks /\ do[2] \in Nat
    BY <1>t
  <1>a. UNCHANGED <<shared, dept, task, changes, logged, untold, lost, clean>>
    BY DEF MoveShift
  <1> DEFINE h == [hand[r] EXCEPT !.todo = @ \ {do}]
  <1>3. /\ h \in Hands /\ h.todo \subseteq Tasks \X Nat /\ h.task \in Tasks
        /\ hand' = [hand EXCEPT ![r] = h]
    BY <1>t, <1>1 DEF Hands, HandInv
  <1> HIDE DEF h
  <1>4. FitsHand("done", h) /\ FitsHand("shift", h)
    BY <1>3 DEF FitsHand, AtTask
  <1>5. CASE /\ HasTask(do[1])
             /\ draft' = [draft EXCEPT ![r][do[1]] = [task[do[1]] EXCEPT !.place = do[2] + 1]]
             /\ UNCHANGED pc
    <2>1. Moves(r, "shift")
      BY <1>t, <1>5 DEF PlaceInv, Moves
    <2>2. Grips(r, "shift", h)
      BY <1>t, <1>3, <1>4, <2>1, Kept
    <2>3. task[do[1]] \in TaskRows /\ HasDept(task[do[1]].dept)
      BY <1>t, <1>2, <1>5 DEF BoardTypeOK, HasTask, TasksAreHoused
    <2> DEFINE row == [task[do[1]] EXCEPT !.place = do[2] + 1]
    <2>4. do[2] + 1 \in Nat
      BY <1>2
    <2>5. /\ row \in TaskRows /\ row.dept = task[do[1]].dept
          /\ row.assignee = task[do[1]].assignee
      BY <2>3, <2>4 DEF TaskRows
    <2>6. draft' = [draft EXCEPT ![r][do[1]] = row]
      BY <1>5
    <2>7. HasDept(row.dept)
      BY <2>3, <2>5
    <2> HIDE DEF row
    <2>8. PICK t0 \in Tasks : t0 = do[1]
      BY <1>2
    <2>9. /\ t0 \notin Locked(r) /\ HasTask(t0) /\ row.assignee = task[t0].assignee
          /\ draft' = [draft EXCEPT ![r][t0] = row]
      BY <1>1, <1>5, <2>5, <2>6, <2>8
    <2> QED
      BY <1>t, <1>a, <2>2, <2>5, <2>7, <2>9, DraftStep
  <1>6. CASE draft' = [draft EXCEPT ![r] = NoDraft] /\ Answer(r)
    <2>1. Grips(r, "done", h)
      BY <1>t, <1>3, <1>4, <1>6, Gripped DEF Answer
    <2>2. Moves(r, "done")
      BY <2>1 DEF Grips
    <2>3. /\ DraftInv' /\ TasksAreHoused'
          /\ draft' \in [Requests -> [Tasks -> TaskRows \cup {NoTask}]]
      BY <1>t, <1>a, <1>6, <2>2, NoDraftStep
    <2>4. \A t \in FirstTasks : HasTask(t)' <=> HasTask(t)
      BY <1>a DEF HasTask
    <2>5. LogInv' /\ HandInv'
      BY <1>t, <1>a, <2>1, <2>4, SameLog, GripStep
    <2>6. BoardTypeOK'
      BY <1>t, <1>a, <2>3 DEF BoardTypeOK
    <2> QED
      BY <2>3, <2>5, <2>6 DEF BoardInv
  <1> QED
    BY <1>1, <1>5, <1>6

(* The commit writes what was drafted.                                     *)
LEMMA MoveCommitStep ==
  ASSUME PlaceInv, BoardInv, NEW r \in Requests, MoveCommit(r)
  PROVE  BoardInv'
  <1>t. /\ BoardTypeOK /\ HandInv /\ DraftInv /\ TasksAreHoused /\ LogInv
        /\ pc[r] = "shift" /\ hand[r].task \in Tasks
    BY DEF BoardInv, HandInv, At, AtTask, MoveCommit
  <1> DEFINE t0 == hand[r].task
  <1>a. /\ task' = [t \in Tasks |-> IF t \in Drafted(r) THEN draft[r][t] ELSE task[t]]
        /\ draft' = [draft EXCEPT ![r] = NoDraft] /\ clean' = clean \cap {r}
        /\ changes' = Plus(changes, {t0} \cup (Drafted(r) \ {t0}))
        /\ logged' = Plus(logged, {t0}) /\ untold' = Plus(untold, Drafted(r) \ {t0})
        /\ UNCHANGED <<shared, dept, lost>> /\ Finish(r)
    BY DEF MoveCommit, Write
  <1>1. Grips(r, "done", NoHand)
    BY <1>t, <1>a, Finished
  <1>2. Moves(r, "done")
    BY <1>1 DEF Grips
  <1>3. NoDraft \in [Tasks -> TaskRows \cup {NoTask}] /\ \A t \in Tasks : NoDraft[t] = NoTask
    BY DEF NoDraft
  <1>4. /\ draft' \in [Requests -> [Tasks -> TaskRows \cup {NoTask}]] /\ draft'[r] = NoDraft
        /\ \A s \in Requests \ {r} : draft'[s] = draft[s]
    BY <1>t, <1>a, <1>3 DEF BoardTypeOK
  <1>5. /\ Drafted(r)' = {}
        /\ \A s \in Requests \ {r} : Drafted(s)' = Drafted(s)
    BY <1>3, <1>4 DEF Drafted
  <1>6. ASSUME NEW t \in Tasks
        PROVE  /\ t \notin Drafted(r) => task'[t] = task[t]
               /\ t \in Drafted(r) => /\ task'[t] = draft[r][t] /\ task'[t] # NoTask
                                      /\ task[t] # NoTask
               /\ task'[t] \in TaskRows \cup {NoTask}
    BY <1>t, <1>a DEF BoardTypeOK, Drafted, TasksAreHoused, HasTask
  <1>7. \A t \in Tasks : HasTask(t)' <=> HasTask(t)
    BY <1>6 DEF HasTask
  <1>8. task' \in [Tasks -> TaskRows \cup {NoTask}]
    BY <1>a, <1>6
  <1>9. \A s \in Requests \ {r} : At(s, {"neighbours", "shift"}) => At(s, {"neighbours", "shift"})'
    BY <1>2 DEF Moves, At
  <1>10. \A s \in Requests : pc'[s] # "done" => pc[s] # "done"
    BY <1>2 DEF Moves
  <1>11. ASSUME NEW s \in Requests, NEW t \in Tasks, t \in Drafted(s)'
         PROVE  /\ draft'[s][t].assignee = task'[t].assignee /\ HasTask(t)
                /\ HasDept(draft'[s][t].dept) /\ AssignableTo(draft'[s][t].assignee)
    <2>1. s # r /\ t \in Drafted(s) /\ draft'[s][t] = draft[s][t]
      BY <1>4, <1>5, <1>11
    <2>2. t \notin Drafted(r)
      BY <1>t, <2>1 DEF DraftInv
    <2> QED
      BY <1>t, <1>6, <2>1, <2>2 DEF DraftInv, TasksAreHoused
  <1>12. \A s \in Requests : Drafted(s)' \subseteq Tasks /\ s \in Tasks
    BY DEF Drafted, Tasks
  <1>13. DraftInv'
    BY <1>t, <1>5, <1>7, <1>9, <1>10, <1>11, <1>12 DEF DraftInv
  <1>s. /\ \A d : HasDept(d)' <=> HasDept(d)
        /\ \A s, t : HasDept(draft[s][t].dept)' <=> HasDept(draft'[s][t].dept)
        /\ \A s, t : AssignableTo(draft[s][t].assignee)' <=> AssignableTo(draft'[s][t].assignee)
        /\ \A t : /\ HasDept(task[t].dept)' <=> HasDept(task'[t].dept)
                  /\ AssignableTo(task[t].assignee)' <=> AssignableTo(task'[t].assignee)
    BY <1>a DEF HasDept, AssignableTo, Live, shared
  <1>14. ASSUME NEW t \in Tasks, HasTask(t)
         PROVE  HasDept(task'[t].dept) /\ AssignableTo(task'[t].assignee)
    BY <1>t, <1>6, <1>14 DEF TasksAreHoused
  <1>15. TasksAreHoused'
    BY <1>s, <1>7, <1>11, <1>14 DEF TasksAreHoused
  <1>16. ASSUME NEW t \in Tasks
         PROVE  IsFiniteSet(Logging(t))'
                /\ changes'[t] = logged'[t] + lost'[t] + untold'[t] + Cardinality(Logging(t)')
    <2>1. Logging(t)' = Logging(t)
      <3>1. r \notin Logging(t) /\ Tasks = FirstTasks \cup Requests
        BY <1>t DEF Logging, Tasks
      <3> QED
        BY <1>t, <1>1, <1>7, <3>1, LogChanges
    <2>2. IsFiniteSet(Logging(t)) /\ changes[t] = logged[t] + lost[t] + untold[t] + Cardinality(Logging(t))
      BY <1>t, LogIs
    <2>3. Cardinality(Logging(t)) \in Nat
      BY <2>2, FS_CardinalityType
    <2>4. /\ logged[t] \in Nat /\ untold[t] \in Nat /\ lost[t] \in Nat /\ changes[t] \in Nat
          /\ lost'[t] = lost[t]
      BY <1>t, <1>a DEF BoardTypeOK
    <2>5. /\ changes'[t] = IF t = t0 \/ t \in Drafted(r) THEN changes[t] + 1 ELSE changes[t]
          /\ logged'[t] = IF t = t0 THEN logged[t] + 1 ELSE logged[t]
          /\ untold'[t] = IF t # t0 /\ t \in Drafted(r) THEN untold[t] + 1 ELSE untold[t]
      BY <1>t, <1>a, PlusAt DEF BoardTypeOK
    <2> QED
      BY <2>1, <2>2, <2>3, <2>4, <2>5
  <1>17. LogInv'
    BY <1>16 DEF LogInv, LogAccountsForChanges, Logging
  <1>18. HandInv'
    BY <1>t, <1>1, GripStep
  <1>19. BoardTypeOK'
    <2>1. /\ changes' \in [Tasks -> Nat] /\ logged' \in [Tasks -> Nat]
          /\ untold' \in [Tasks -> Nat]
      BY <1>t, <1>a, PlusAt DEF BoardTypeOK
    <2>2. clean' \subseteq Requests /\ dept' = dept /\ lost' = lost
      BY <1>t, <1>a DEF BoardTypeOK
    <2> QED
      BY <1>t, <1>4, <1>8, <2>1, <2>2 DEF BoardTypeOK
  <1> QED
    BY <1>13, <1>15, <1>17, <1>18, <1>19 DEF BoardInv

(* Task by task: the update, and who is going to log it.                   *)
LEMMA BulkUpdateStep ==
  ASSUME PlaceInv, BoardInv, NEW r \in Requests, BulkUpdate(r)
  PROVE  BoardInv'
  <1>t. /\ BoardTypeOK /\ HandInv /\ DraftInv /\ TasksAreHoused /\ LogInv /\ hand[r] \in Hands
        /\ hand[r].todo \subseteq FirstTasks \X Nat /\ pc[r] = "each"
    BY DEF BoardInv, HandInv, At, BulkUpdate
  <1> DEFINE h == hand[r]
             Valid(t) == /\ HasTask(t)
                         /\ (h.dept # NoDept => HasDept(h.dept))
                         /\ (h.moved => AssignableTo(h.assignee))
  <1>1. PICK do \in h.todo :
          /\ do[1] \notin Locked(r)
          /\ hand' = [hand EXCEPT ![r].todo = @ \ {do}, ![r].task = do[1]]
          /\ \/ /\ Valid(do[1])
                /\ task' = [task EXCEPT ![do[1]].column = h.column,
                              ![do[1]].dept = IF h.dept = NoDept THEN @ ELSE h.dept,
                              ![do[1]].assignee = IF h.moved THEN h.assignee ELSE @]
                /\ clean' = clean \cap {r}
                /\ changes' = [changes EXCEPT ![do[1]] = @ + 1]
                /\ Goto(r, "log")
             \/ UNCHANGED <<task, clean, changes, pc>>
    BY DEF BulkUpdate, Write
  <1>a. UNCHANGED <<shared, dept, draft, logged, untold, lost>>
    BY DEF BulkUpdate
  <1>2. PICK t0 \in FirstTasks : t0 = do[1]
    BY <1>t
  <1>3. t0 \in Tasks /\ t0 # r
    BY BoardAssumption DEF Tasks
  <1> DEFINE g == [h EXCEPT !.todo = @ \ {do}, !.task = t0]
  <1>4. /\ g \in Hands /\ g.todo \subseteq FirstTasks \X Nat /\ g.task = t0
        /\ hand' = [hand EXCEPT ![r] = g]
    BY <1>t, <1>1, <1>2, <1>3 DEF Hands, HandInv
  <1> HIDE DEF g
  <1>5. FitsHand("each", g) /\ FitsHand("log", g)
    BY <1>2, <1>3, <1>4 DEF FitsHand, AtTask
  <1>6. CASE UNCHANGED <<task, clean, changes, pc>>
    <2>1. Moves(r, "each")
      BY <1>t, <1>6 DEF PlaceInv, Moves
    <2>2. Grips(r, "each", g)
      BY <1>t, <1>4, <1>5, <2>1, Kept
    <2> QED
      BY <1>t, <1>a, <1>6, <2>2, DeptStep DEF BoardTypeOK, HasDept
  <1>7. CASE /\ Valid(t0)
             /\ task' = [task EXCEPT ![t0].column = h.column,
                              ![t0].dept = IF h.dept = NoDept THEN @ ELSE h.dept,
                              ![t0].assignee = IF h.moved THEN h.assignee ELSE @]
             /\ clean' = clean \cap {r}
             /\ changes' = [changes EXCEPT ![t0] = @ + 1]
             /\ Goto(r, "log")
    <2>1. /\ task[t0] \in TaskRows /\ HasDept(task[t0].dept) /\ AssignableTo(task[t0].assignee)
      BY <1>t, <1>3, <1>7 DEF BoardTypeOK, HasTask, TasksAreHoused
    <2> DEFINE d == IF h.dept = NoDept THEN task[t0].dept ELSE h.dept
               x == IF h.moved THEN h.assignee ELSE task[t0].assignee
               row == [task[t0] EXCEPT !.column = h.column, !.dept = d, !.assignee = x]
    <2>2. d \in Depts /\ HasDept(d)
      BY <1>t, <1>7, <2>1 DEF TaskRows, Hands
    <2>3. x \in Rows \cup {NoRow} /\ AssignableTo(x)
      BY <1>t, <1>7, <2>1 DEF TaskRows, Hands
    <2>4. task' = [task EXCEPT ![t0] = row]
      BY <1>t, <1>3, <1>7, <2>1 DEF BoardTypeOK, TaskRows
    <2> HIDE DEF d, x
    <2>5. row \in TaskRows /\ row.dept = d /\ row.assignee = x
      BY <1>t, <2>1, <2>2, <2>3 DEF TaskRows, Hands
    <2> HIDE DEF row
    <2>6. Grips(r, "log", g)
      BY <1>t, <1>4, <1>5, <1>7, Gripped
    <2>7. Moves(r, "log") /\ t0 \notin Locked(r) /\ HasTask(t0)
      BY <1>1, <1>2, <1>7, <2>6 DEF Grips
    <2>8. DraftInv' /\ TasksAreHoused' /\ task' \in [Tasks -> TaskRows \cup {NoTask}]
      <3>1. row \in TaskRows /\ HasDept(row.dept) /\ AssignableTo(row.assignee)
        BY <2>2, <2>3, <2>5
      <3>2. pc[r] \notin {"done", "neighbours", "shift"}
        BY <1>t
      <3> QED
        BY <1>t, <1>a, <1>3, <2>4, <2>7, <3>1, <3>2, PutTask
    <2>9. \A t \in Tasks : HasTask(t)' <=> HasTask(t)
      BY <1>t, <1>3, <2>4, <2>5, <2>7, BoardAssumption DEF HasTask, BoardTypeOK
    <2>10. changes' \in [Tasks -> Nat] /\ clean' \subseteq Requests
      BY <1>t, <1>3, <1>7 DEF BoardTypeOK
    <2>11. BoardTypeOK'
      BY <1>t, <1>a, <2>8, <2>10 DEF BoardTypeOK
    <2>12. HandInv'
      BY <1>t, <2>6, GripStep
    <2>13. ASSUME NEW t \in Tasks
           PROVE  IsFiniteSet(Logging(t))'
                  /\ changes'[t] = logged'[t] + lost'[t] + untold'[t] + Cardinality(Logging(t)')
      <3>1. IsFiniteSet(Logging(t)) /\ changes[t] = logged[t] + lost[t] + untold[t] + Cardinality(Logging(t))
        BY <1>t, LogIs
      <3>2. r \notin Logging(t)
        BY <1>t DEF Logging
      <3>3. /\ Cardinality(Logging(t)) \in Nat
            /\ logged[t] \in Nat /\ lost[t] \in Nat /\ untold[t] \in Nat
            /\ UNCHANGED <<logged, untold, lost>>
        BY <1>t, <1>a, <3>1, FS_CardinalityType DEF BoardTypeOK
      <3>4. CASE t = t0
        <4>1. Logging(t)' = Logging(t) \cup {r}
          <5>1. g.task = t /\ HasTask(t) /\ (t \in FirstTasks => (HasTask(t)' <=> HasTask(t)))
            BY <1>4, <2>7, <2>9, <3>4
          <5> QED
            BY <1>t, <2>6, <5>1, LogChanges
        <4>2. IsFiniteSet(Logging(t)') /\ Cardinality(Logging(t)') = Cardinality(Logging(t)) + 1
          BY <3>1, <3>2, <4>1, FS_AddElement
        <4>3. changes'[t] = changes[t] + 1
          BY <1>t, <1>7, <3>4 DEF BoardTypeOK
        <4> QED
          BY <3>1, <3>3, <4>2, <4>3
      <3>5. CASE t # t0
        <4>1. Logging(t)' = Logging(t)
          <5>1. g.task # t /\ (t \in FirstTasks => (HasTask(t)' <=> HasTask(t)))
            BY <1>4, <2>9, <3>5
          <5>2. Logging(t)' = Logging(t) \ {r}
            BY <1>t, <2>6, <5>1, LogChanges
          <5> QED
            BY <3>2, <5>2
        <4>2. changes'[t] = changes[t]
          BY <1>t, <1>7, <3>5 DEF BoardTypeOK
        <4> QED
          BY <3>1, <3>3, <4>1, <4>2
      <3> QED
        BY <3>4, <3>5
    <2>14. LogInv'
      BY <2>13 DEF LogInv, LogAccountsForChanges, Logging
    <2> QED
      BY <2>8, <2>11, <2>12, <2>14 DEF BoardInv
  <1> QED
    BY <1>1, <1>2, <1>6, <1>7

(* The activity is written, or it is lost.                                 *)
LEMMA LogEnds ==
  ASSUME BoardTypeOK, HandInv, LogInv, NEW r \in Requests, NEW q, NEW h, Grips(r, q, h),
         q # "log", \A t \in Tasks : HasTask(t)' <=> HasTask(t), UNCHANGED <<changes, untold>>,
         \A t \in Tasks : /\ logged'[t] \in Nat /\ lost'[t] \in Nat
                          /\ logged'[t] + lost'[t] =
                               IF r \in Logging(t) THEN logged[t] + lost[t] + 1
                                                   ELSE logged[t] + lost[t]
  PROVE  LogInv'
  <1>1. ASSUME NEW t \in Tasks
        PROVE  IsFiniteSet(Logging(t))'
               /\ changes'[t] = logged'[t] + lost'[t] + untold'[t] + Cardinality(Logging(t)')
    <2>1. IsFiniteSet(Logging(t)) /\ changes[t] = logged[t] + lost[t] + untold[t] + Cardinality(Logging(t))
      BY LogIs
    <2>2. /\ Cardinality(Logging(t)) \in Nat
          /\ logged[t] \in Nat /\ lost[t] \in Nat /\ logged'[t] \in Nat /\ lost'[t] \in Nat
          /\ untold[t] \in Nat /\ untold'[t] = untold[t]
      BY <2>1, FS_CardinalityType DEF BoardTypeOK
    <2>3. Logging(t)' = Logging(t) \ {r}
      <3>1. \A u \in FirstTasks : u \in Tasks
        BY DEF Tasks
      <3> QED
        BY <3>1, LogChanges
    <2>4. CASE r \in Logging(t)
      <3>1. /\ IsFiniteSet(Logging(t)')
            /\ Cardinality(Logging(t)') = Cardinality(Logging(t)) - 1
        BY <2>1, <2>3, <2>4, FS_RemoveElement
      <3> QED
        BY <2>1, <2>2, <2>4, <3>1
    <2>5. CASE r \notin Logging(t)
      <3>1. Logging(t)' = Logging(t)
        BY <2>3, <2>5
      <3> QED
        BY <2>1, <2>2, <2>5, <3>1
    <2> QED
      BY <2>4, <2>5
  <1> QED
    BY <1>1 DEF LogInv, LogAccountsForChanges, Logging

LEMMA BulkLogStep ==
  ASSUME PlaceInv, BoardInv, NEW r \in Requests, BulkLog(r)
  PROVE  BoardInv'
  <1> DEFINE t0 == hand[r].task
  <1>t. /\ BoardTypeOK /\ HandInv /\ DraftInv /\ TasksAreHoused /\ LogInv /\ hand[r] \in Hands
        /\ t0 \in Tasks /\ pc[r] = "log" /\ hand[r].todo \subseteq FirstTasks \X Nat
    BY DEF BoardInv, HandInv, At, AtTask, BulkLog
  <1>a. /\ Goto(r, "each") /\ UNCHANGED <<shared, hand, dept, task, draft, changes, untold, clean>>
        /\ \/ HasTask(t0) /\ logged' = [logged EXCEPT ![t0] = @ + 1] /\ UNCHANGED lost
           \/ HasTask(t0) /\ lost' = [lost EXCEPT ![t0] = @ + 1] /\ UNCHANGED logged
           \/ ~HasTask(t0) /\ UNCHANGED <<logged, lost>>
    BY DEF BulkLog
  <1>1. Grips(r, "each", hand[r])
    <2>1. hand' = [hand EXCEPT ![r] = hand[r]] /\ FitsHand("each", hand[r])
      BY <1>t, <1>a DEF HandInv, FitsHand, AtTask
    <2> QED
      BY <1>t, <1>a, <2>1, Gripped
  <1>2. DraftInv' /\ TasksAreHoused'
    <2>1. Moves(r, "each") /\ \A x \in Rows : Live(x) => Live(x)'
      BY <1>a, <1>1 DEF Grips, Live, shared
    <2>2. \A d \in Depts : HasDept(d) => HasDept(d)'
      BY <1>a DEF HasDept
    <2> QED
      BY <1>t, <1>a, <2>1, <2>2, SameRows
  <1>3. /\ logged' \in [Tasks -> Nat] /\ lost' \in [Tasks -> Nat]
    BY <1>t, <1>a DEF BoardTypeOK
  <1>4. \A t \in Tasks : r \in Logging(t) <=> t = t0 /\ HasTask(t0)
    BY <1>t DEF Logging
  <1>5. ASSUME NEW t \in Tasks
        PROVE  /\ logged'[t] \in Nat /\ lost'[t] \in Nat
               /\ logged'[t] + lost'[t] = IF r \in Logging(t) THEN logged[t] + lost[t] + 1
                                                              ELSE logged[t] + lost[t]
    <2>1. logged[t] \in Nat /\ lost[t] \in Nat
      BY <1>t DEF BoardTypeOK
    <2>2. CASE t = t0 /\ HasTask(t0)
      BY <1>t, <1>a, <1>3, <1>4, <2>1, <2>2 DEF BoardTypeOK
    <2>3. CASE ~(t = t0 /\ HasTask(t0))
      <3>1. logged'[t] = logged[t] /\ lost'[t] = lost[t]
        BY <1>t, <1>a, <2>3 DEF BoardTypeOK
      <3> QED
        BY <1>4, <2>1, <2>3, <3>1
    <2> QED
      BY <2>2, <2>3
  <1>6. LogInv'
    <2>1. \A t \in Tasks : HasTask(t)' <=> HasTask(t)
      BY <1>a DEF HasTask
    <2> QED
      BY <1>t, <1>a, <1>1, <1>5, <2>1, LogEnds
  <1>7. HandInv'
    BY <1>t, <1>1, GripStep
  <1>8. BoardTypeOK'
    BY <1>t, <1>a, <1>3 DEF BoardTypeOK
  <1> QED
    BY <1>2, <1>6, <1>7, <1>8 DEF BoardInv

LEMMA BoardFailsStep ==
  ASSUME PlaceInv, BoardInv, NEW r \in Requests, HandlerFails(r), BoardFails(r)
  PROVE  BoardInv'
  <1>t. /\ BoardTypeOK /\ HandInv /\ DraftInv /\ TasksAreHoused /\ LogInv
    BY DEF BoardInv
  <1>a. /\ Goto(r, "done") /\ UNCHANGED <<shared, dept, task, changes, logged, untold, clean>>
        /\ draft' = [draft EXCEPT ![r] = NoDraft] /\ hand' = [hand EXCEPT ![r] = NoHand]
        /\ lost' = [t \in Tasks |-> IF pc[r] = "log" /\ t = hand[r].task /\ HasTask(t)
                                    THEN lost[t] + 1 ELSE lost[t]]
    BY DEF HandlerFails, Answer, BoardFails
  <1>1. Grips(r, "done", NoHand)
    BY <1>t, <1>a, NothingHeld, Gripped
  <1>2. /\ DraftInv' /\ TasksAreHoused'
        /\ draft' \in [Requests -> [Tasks -> TaskRows \cup {NoTask}]]
    <2>1. Moves(r, "done")
      BY <1>1 DEF Grips
    <2> QED
      BY <1>t, <1>a, <2>1, NoDraftStep
  <1>3. ASSUME NEW t \in Tasks
        PROVE  /\ logged'[t] \in Nat /\ lost'[t] \in Nat
               /\ logged'[t] + lost'[t] = IF r \in Logging(t) THEN logged[t] + lost[t] + 1
                                                              ELSE logged[t] + lost[t]
    <2>1. logged[t] \in Nat /\ lost[t] \in Nat /\ logged' = logged
      BY <1>t, <1>a DEF BoardTypeOK
    <2>2. lost'[t] = IF r \in Logging(t) THEN lost[t] + 1 ELSE lost[t]
      BY <1>a DEF Logging
    <2> QED
      BY <2>1, <2>2
  <1>4. LogInv'
    <2>1. \A t \in Tasks : HasTask(t)' <=> HasTask(t)
      BY <1>a DEF HasTask
    <2> QED
      BY <1>t, <1>a, <1>1, <1>3, <2>1, LogEnds
  <1>5. HandInv'
    BY <1>t, <1>1, GripStep
  <1>6. lost' \in [Tasks -> Nat]
    BY <1>a, <1>3
  <1>7. BoardTypeOK'
    BY <1>t, <1>a, <1>2, <1>6 DEF BoardTypeOK
  <1> QED
    BY <1>2, <1>4, <1>5, <1>7 DEF BoardInv

(* A role that goes: its tasks, none of which a transaction has written,   *)
(* are nobody's.                                                           *)
LEMMA UnassignStep ==
  ASSUME TeamInv, BoardInv, NEW r \in Requests, RemoveRole(r), Unassign(r)
  PROVE  BoardInv'
  <1> DEFINE gone == {t \in Tasks : /\ HasTask(t) /\ task[t].assignee \in Rows
                                    /\ role'[task[t].assignee] = NoRole}
  <1>t. /\ PlaceInv /\ BoardTypeOK /\ HandInv /\ DraftInv /\ TasksAreHoused /\ LogInv
        /\ pc[r] = "remove"
    BY DEF TeamInv, BoardInv, RemoveRole
  <1>a. /\ Goto(r, "done") /\ UNCHANGED <<hand, dept, draft, logged, lost>> /\ Silently(gone)
        /\ clean' = clean \cap {r} /\ gone \cap Locked(r) = {}
        /\ task' = [t \in Tasks |-> IF t \in gone THEN [task[t] EXCEPT !.assignee = NoRow]
                                    ELSE task[t]]
    BY DEF RemoveRole, Answer, Unassign, Write
  <1>1. Grips(r, "done", hand[r])
    <2>1. hand' = [hand EXCEPT ![r] = hand[r]] /\ FitsHand("done", hand[r])
      BY <1>t, <1>a DEF HandInv, FitsHand, AtTask
    <2> QED
      BY <1>t, <1>a, <2>1, Gripped
  <1>2. Moves(r, "done")
    BY <1>1 DEF Grips
  <1>3. ASSUME NEW t \in gone
        PROVE  /\ task'[t] \in TaskRows /\ task'[t].dept = task[t].dept
               /\ task'[t].assignee = NoRow /\ HasTask(t) /\ t \in Tasks
    <2>1. task[t] \in TaskRows
      BY <1>t DEF BoardTypeOK, HasTask
    <2> QED
      BY <1>a, <2>1 DEF TaskRows
  <1>4. ASSUME NEW t \in Tasks, t \notin gone
        PROVE  /\ task'[t] = task[t]
               /\ HasTask(t) /\ task[t].assignee \in Rows => role'[task[t].assignee] # NoRole
    BY <1>a, <1>4
  <1>5. \A t \in Tasks : HasTask(t)' <=> HasTask(t)
    BY <1>3, <1>4, BoardAssumption DEF HasTask
  <1>6. task' \in [Tasks -> TaskRows \cup {NoTask}]
    <2>1. ASSUME NEW t \in Tasks PROVE task'[t] \in TaskRows \cup {NoTask}
      BY <1>t, <1>3, <1>4 DEF BoardTypeOK
    <2> HIDE DEF gone
    <2> QED
      BY <1>a, <2>1
  <1> HIDE DEF gone
  <1>7. \A s \in Requests : Drafted(s)' = Drafted(s)
    BY <1>a DEF Drafted
  <1>8. Drafted(r) = {} /\ \A s \in Requests : Drafted(s) \subseteq Tasks /\ s \in Tasks
    BY <1>t DEF DraftInv, At, Drafted, Tasks
  <1>9. ASSUME NEW s \in Requests, NEW t \in Drafted(s)
        PROVE  /\ t \in Tasks /\ t \notin gone /\ HasTask(t)
               /\ draft[s][t].assignee = task[t].assignee
    BY <1>t, <1>a, <1>8 DEF Locked, DraftInv, TasksAreHoused
  <1>10. \A s \in Requests : At(s, {"neighbours", "shift"}) => At(s, {"neighbours", "shift"})'
    BY <1>t, <1>2 DEF Moves, At
  <1>11. \A s \in Requests : pc'[s] # "done" => pc[s] # "done"
    BY <1>2 DEF Moves
  <1>12. DraftInv'
    BY <1>t, <1>a, <1>4, <1>5, <1>7, <1>8, <1>9, <1>10, <1>11 DEF DraftInv
  <1>s. /\ \A d : HasDept(d)' <=> HasDept(d)
        /\ \A s, t : HasDept(draft[s][t].dept)' <=> HasDept(draft[s][t].dept)
        /\ \A t : HasDept(task[t].dept)' <=> HasDept(task'[t].dept)
    BY <1>a DEF HasDept
  <1>13. ASSUME NEW t \in Tasks, HasTask(t), t \notin gone PROVE AssignableTo(task[t].assignee)'
    <2>1. AssignableTo(task[t].assignee) /\ task[t] \in TaskRows
      BY <1>t, <1>13 DEF TasksAreHoused, BoardTypeOK, HasTask
    <2>2. task[t].assignee \in Rows \cup {NoRow} /\ task'[t] = task[t]
      BY <1>4, <1>13, <2>1 DEF TaskRows
    <2> QED
      BY <1>4, <1>13, <2>2 DEF AssignableTo, Live
  <1>14. ASSUME NEW t \in gone PROVE AssignableTo(task[t].assignee)'
    BY <1>3 DEF AssignableTo
  <1>15. ASSUME NEW s \in Requests, NEW t \in Drafted(s)
         PROVE  AssignableTo(draft[s][t].assignee)'
    <2>1. AssignableTo(task[t].assignee)' /\ task'[t] = task[t]
      BY <1>4, <1>9, <1>13
    <2>2. draft'[s][t].assignee = task'[t].assignee
      BY <1>a, <1>9, <2>1
    <2> QED
      BY <2>1, <2>2 DEF AssignableTo, Live
  <1>16. \A t \in Tasks : HasTask(t) => HasDept(task'[t].dept)
    BY <1>t, <1>3, <1>4 DEF TasksAreHoused
  <1>17. \A s \in Requests : \A t \in Drafted(s) : HasDept(draft[s][t].dept)
    BY <1>t, <1>8 DEF TasksAreHoused
  <1>18. TasksAreHoused'
    BY <1>s, <1>5, <1>7, <1>9, <1>13, <1>14, <1>15, <1>16, <1>17 DEF TasksAreHoused
  <1>19. /\ LogInv' /\ HandInv'
         /\ changes' \in [Tasks -> Nat] /\ untold' \in [Tasks -> Nat]
    <2>1. \A t \in FirstTasks : HasTask(t)' <=> HasTask(t)
      BY <1>5 DEF Tasks
    <2> QED
      BY <1>t, <1>a, <1>1, <2>1, SilentLog, GripStep
  <1>20. BoardTypeOK'
    <2>1. clean' \subseteq Requests
      BY <1>a
    <2> QED
      BY <1>t, <1>a, <1>6, <1>19, <2>1 DEF BoardTypeOK
  <1> QED
    BY <1>12, <1>18, <1>19, <1>20 DEF BoardInv

(* Steps aside of the board: of the team and of the tags.                  *)
LEMMA BesideBoard ==
  ASSUME PlaceInv, BoardInv, NEW r \in Requests, UNCHANGED <<hand, board>>,
         pc[r] \in {"idle"} \cup AtTeam \cup AtTags,
         pc' = pc \/ \E q \in {"done"} \cup AtTeam \cup AtTags : Goto(r, q),
         \A x \in Rows : Live(x) => Live(x)'
  PROVE  BoardInv'
  <1>t. /\ BoardTypeOK /\ HandInv /\ DraftInv /\ TasksAreHoused /\ LogInv
        /\ pc[r] \notin {"log", "done", "neighbours", "shift"}
        /\ UNCHANGED <<hand, dept, task, draft, changes, logged, untold, lost, clean>>
    BY DEF BoardInv, AtTeam, AtTags, board
  <1>1. PICK q \in {"idle", "done"} \cup AtTeam \cup AtTags : Moves(r, q)
    <2>1. CASE pc' = pc
      BY <2>1 DEF PlaceInv, Moves
    <2>2. CASE pc' # pc
      BY <2>2, GotoMoves
    <2> QED
      BY <2>1, <2>2
  <1>2. q \notin AtTask \cup {"newtask", "move", "log", "each", "shift", "reorder"}
    BY DEF AtTask, AtTeam, AtTags
  <1>3. Grips(r, q, hand[r])
    <2>1. hand' = [hand EXCEPT ![r] = hand[r]] /\ FitsHand(q, hand[r])
      BY <1>t, <1>2 DEF HandInv, FitsHand
    <2> QED
      BY <1>t, <1>1, <2>1, Kept
  <1>4. DraftInv' /\ TasksAreHoused'
    <2>1. \A d \in Depts : HasDept(d) => HasDept(d)'
      BY <1>t DEF HasDept
    <2> QED
      BY <1>t, <1>1, <2>1, SameRows
  <1>5. LogInv' /\ HandInv'
    <2>1. \A t \in FirstTasks : HasTask(t)' <=> HasTask(t)
      BY <1>t DEF HasTask
    <2> QED
      BY <1>t, <1>2, <1>3, <2>1, SameLog, GripStep
  <1>6. BoardTypeOK'
    BY <1>t DEF BoardTypeOK
  <1> QED
    BY <1>4, <1>5, <1>6 DEF BoardInv

(* A project that goes takes the board with it; nobody has written any of  *)
(* its tasks.                                                              *)
LEMMA DropBoardStep ==
  ASSUME PlaceInv, BoardInv, NEW r \in Requests, DropProject(r),
         IF project' = project THEN UNCHANGED <<hand, board>> ELSE DropBoard(r)
  PROVE  BoardInv'
  <1>a. pc[r] = "drop" /\ Goto(r, "done")
    BY DEF DropProject, Answer
  <1>1. CASE project' = project
    <2>1. role' = role
      BY <1>1 DEF DropProject
    <2>2. \A x \in Rows : Live(x) => Live(x)'
      BY <2>1 DEF Live
    <2> QED
      BY <1>a, <1>1, <2>2, BesideBoard DEF AtTeam
  <1>2. CASE project' # project
    <2>t. /\ BoardTypeOK /\ HandInv /\ DraftInv
      BY DEF BoardInv
    <2>a. /\ Locked(r) = {} /\ task' = [t \in Tasks |-> NoTask] /\ dept' = [d \in Depts |-> NoDept]
          /\ changes' = [t \in Tasks |-> 0] /\ logged' = [t \in Tasks |-> 0]
          /\ untold' = [t \in Tasks |-> 0] /\ lost' = [t \in Tasks |-> 0]
          /\ clean' = {} /\ UNCHANGED <<hand, draft>>
      BY <1>2 DEF DropBoard
    <2>1. BoardTypeOK'
      BY <2>t, <2>a DEF BoardTypeOK
    <2>2. HandInv'
      <3>1. hand' = [hand EXCEPT ![r] = hand[r]] /\ FitsHand("done", hand[r])
        BY <2>t, <2>a DEF HandInv, FitsHand, AtTask
      <3>2. Grips(r, "done", hand[r])
        BY <1>a, <2>t, <3>1, Gripped
      <3> QED
        BY <2>t, <3>2, GripStep
    <2>3. \A t \in Tasks : ~HasTask(t)'
      BY <2>a DEF HasTask
    <2>4. \A s \in Requests : Drafted(s)' = {}
      <3>1. Drafted(r) = {}
        BY <1>a, <2>t DEF DraftInv, At
      <3>2. \A s \in Requests : Drafted(s) = {}
        BY <2>a, <3>1 DEF Locked
      <3> QED
        BY <2>a, <3>2 DEF Drafted
    <2>5. DraftInv' /\ TasksAreHoused'
      BY <2>3, <2>4 DEF DraftInv, TasksAreHoused, Tasks
    <2>6. LogInv'
      <3>1. ASSUME NEW t \in Tasks PROVE Logging(t)' = {}
        BY <2>3 DEF Logging
      <3>2. ASSUME NEW t \in Tasks
            PROVE  IsFiniteSet(Logging(t))'
                   /\ changes'[t] = logged'[t] + lost'[t] + untold'[t] + Cardinality(Logging(t)')
        BY <2>a, <3>1, FS_EmptySet
      <3> QED
        BY <3>2 DEF LogInv, LogAccountsForChanges, Logging
    <2> QED
      BY <2>1, <2>2, <2>5, <2>6 DEF BoardInv
  <1> QED
    BY <1>1, <1>2

LEMMA BoardStepStep ==
  ASSUME PlaceInv, BoardInv, NEW r \in Requests, BoardStep(r)
  PROVE  BoardInv'
  BY BoardLooks, DeptSteps, TaskSteps, DeleteTaskStep, MoveTaskStep, MoveShiftStep,
     MoveCommitStep, BulkUpdateStep, BulkLogStep DEF BoardStep

LEMMA BoardNext == TeamInv /\ BoardInv /\ [Next]_vars => BoardInv'
  <1> SUFFICES ASSUME TeamInv, BoardInv, [Next]_vars PROVE BoardInv'
    OBVIOUS
  <1> PlaceInv
    BY DEF TeamInv
  <1>1. ASSUME NEW r \in Requests, TeamStep(r), UNCHANGED <<hand, board>> PROVE BoardInv'
    BY <1>1, TeamPlaces, TeamKeeps, BesideBoard
  <1>2. ASSUME NEW r \in Requests, TagStep(r), UNCHANGED <<hand, board>> PROVE BoardInv'
    <2>1. \A x \in Rows : Live(x) => Live(x)'
      BY <1>2, TagPlaces DEF Live, shared
    <2> QED
      BY <1>2, <2>1, TagPlaces, BesideBoard
  <1>3. CASE UNCHANGED <<shared, pc, hand, board>>
    <2>1. UNCHANGED <<project, role, pc, hand, dept, task, draft, changes, logged, untold, lost, clean>>
      BY <1>3 DEF shared, board
    <2>2. \A t : Logging(t)' = Logging(t)
      BY <2>1 DEF Logging, HasTask
    <2>3. LogInv'
      BY <2>1, <2>2 DEF BoardInv, LogInv, LogAccountsForChanges, Logging
    <2>4. \A s : Drafted(s)' = Drafted(s)
      BY <2>1 DEF Drafted
    <2> QED
      BY <2>1, <2>3, <2>4 DEF BoardInv, BoardTypeOK, HandInv, DraftInv, TasksAreHoused, At, HasTask,
                              HasDept, AssignableTo, Live
  <1>4. ASSUME NEW i \in Invites, Lapse(i), UNCHANGED <<hand, board>> PROVE BoardInv'
    BY <1>3, <1>4 DEF Lapse
  <1>5. CASE UNCHANGED vars
    BY <1>3, <1>5 DEF vars
  <1> QED
    BY <1>1, <1>2, <1>4, <1>5, UnassignStep, DropBoardStep, BoardStepStep, BoardFailsStep
       DEF Next, BoardRows

LEMMA BoardInit == Init => BoardInv
  <1> SUFFICES ASSUME InitMembership, InitBoard PROVE BoardInv
    BY DEF Init
  <1>t. pc = [r \in Requests |-> "idle"] /\ hand = [r \in Requests |-> NoHand]
        /\ draft = [r \in Requests |-> NoDraft] /\ changes = [t \in Tasks |-> 0]
        /\ logged = [t \in Tasks |-> 0] /\ untold = [t \in Tasks |-> 0]
        /\ lost = [t \in Tasks |-> 0] /\ clean = {}
    BY DEF InitMembership, InitBoard
  <1>1. HandInv
    <2>1. NoHand \in Hands
      BY NothingHeld DEF FitsHand
    <2> QED
      BY <1>t, <2>1 DEF HandInv, At, AtTask
  <1>2. /\ \A r \in Requests : Drafted(r) = {}
        /\ draft \in [Requests -> [Tasks -> TaskRows \cup {NoTask}]]
    BY <1>t DEF Drafted, NoDraft
  <1>3. \A t : Logging(t) = {}
    BY <1>t DEF Logging
  <1>4. LogInv
    BY <1>t, <1>3, LogIs, FS_EmptySet
  <1>5. CASE dept = [d \in Depts |-> NoDept] /\ task = [t \in Tasks |-> NoTask]
    <2>1. \A t \in Tasks : ~HasTask(t)
      BY <1>5 DEF HasTask
    <2>2. DraftInv /\ TasksAreHoused
      BY <1>2, <2>1 DEF DraftInv, TasksAreHoused, Tasks
    <2>3. BoardTypeOK
      BY <1>t, <1>2, <1>5 DEF BoardTypeOK
    <2> QED
      BY <1>1, <1>4, <2>2, <2>3 DEF BoardInv
  <1>6. ASSUME NEW home \in FirstDepts, NEW place \in [FirstTasks -> Places],
               dept = [d \in Depts |-> IF d \in FirstDepts THEN 1 ELSE NoDept],
               task = [t \in Tasks |->
                         IF t \in FirstTasks
                         THEN [dept |-> home, column |-> FirstColumn,
                               place |-> place[t], assignee |-> NoRow]
                         ELSE NoTask]
        PROVE  BoardInv
    <2> DEFINE row(t) == [dept |-> home, column |-> FirstColumn, place |-> place[t],
                          assignee |-> NoRow]
    <2>1. /\ home \in Depts /\ HasDept(home) /\ dept \in [Depts -> Nat \cup {NoDept}]
      BY <1>6, BoardAssumption DEF Depts, HasDept
    <2>2. ASSUME NEW t \in FirstTasks
          PROVE  row(t) \in TaskRows /\ row(t).dept = home /\ row(t).assignee = NoRow
      BY <2>1, BoardAssumption DEF TaskRows
    <2> HIDE DEF row
    <2>3. task = [t \in Tasks |-> IF t \in FirstTasks THEN row(t) ELSE NoTask]
      BY <1>6 DEF row
    <2>4. task \in [Tasks -> TaskRows \cup {NoTask}]
      BY <2>2, <2>3
    <2>5. \A r \in Requests : ~HasTask(r) /\ r \in Tasks
      BY <2>3, BoardAssumption DEF HasTask, Tasks
    <2>6. ASSUME NEW t \in Tasks, HasTask(t)
          PROVE  HasDept(task[t].dept) /\ AssignableTo(task[t].assignee)
      <3>1. t \in FirstTasks /\ task[t] = row(t)
        BY <2>3, <2>6 DEF HasTask
      <3> QED
        BY <2>1, <2>2, <3>1 DEF AssignableTo
    <2>7. DraftInv /\ TasksAreHoused
      BY <1>2, <2>5, <2>6 DEF DraftInv, TasksAreHoused
    <2>8. BoardTypeOK
      BY <1>t, <1>2, <2>1, <2>4 DEF BoardTypeOK
    <2> QED
      BY <1>1, <1>4, <2>7, <2>8 DEF BoardInv
  <1> QED
    BY <1>5, <1>6 DEF InitBoard

-----------------------------------------------------------------------------
(* Moves that nothing disturbs                                             *)
LEMMA CleanStep ==
  ASSUME CleanInv, NEW r \in Requests, clean' \subseteq Requests,
         \A s \in Requests \ {r} : pc'[s] = pc[s] /\ hand'[s] = hand[s] /\ draft'[s] = draft[s],
         (task' = task /\ clean' \subseteq clean \cup {r}) \/ clean' \subseteq {r},
         r \in clean' => CleanAt(r)'
  PROVE  CleanInv'
  <1>1. ASSUME NEW s \in clean', s # r PROVE CleanAt(s)'
    <2>1. /\ CleanAt(s) /\ task' = task
          /\ pc'[s] = pc[s] /\ hand'[s] = hand[s] /\ draft'[s] = draft[s]
      BY <1>1 DEF CleanInv
    <2>2. Drafted(s)' = Drafted(s)
      BY <2>1 DEF Drafted
    <2>3. \A x : Behind(s, x)' <=> Behind(s, x)
      BY <2>1 DEF Behind, InDept, HasTask
    <2> QED
      BY <2>1, <2>2, <2>3 DEF CleanAt, Halfway, Placed
  <1> QED
    BY <1>1 DEF CleanInv

(* What a step of the board does to the others and their moves.            *)
LEMMA OthersMoves ==
  ASSUME PlaceInv, BoardInv, NEW r \in Requests, BoardStep(r),
         ~(MoveTask(r) \/ MoveRead(r) \/ MoveShift(r))
  PROVE  /\ \A s \in Requests \ {r} : pc'[s] = pc[s] /\ hand'[s] = hand[s] /\ draft'[s] = draft[s]
         /\ (task' = task /\ clean' \subseteq clean \cup {r}) \/ clean' \subseteq {r}
         /\ pc'[r] \notin {"neighbours", "shift"}
  <1> DEFINE Apart == /\ \A s \in Requests \ {r} : hand'[s] = hand[s] /\ draft'[s] = draft[s]
                      /\ (task' = task /\ clean' \subseteq clean \cup {r}) \/ clean' \subseteq {r}
                      /\ \/ pc' = pc /\ pc[r] \notin {"neighbours", "shift"}
                         \/ \E q : q \notin {"neighbours", "shift"} /\ Goto(r, q)
  <1> USE DEF Answer, Finish, Write, board
  <1>t. hand \in [Requests -> Hands] /\ draft \in [Requests -> [Tasks -> TaskRows \cup {NoTask}]]
    BY DEF BoardInv, HandInv, BoardTypeOK
  <1>1. CASE NewDeptCheck(r) \/ NewDept(r) \/ ReorderCheck(r) \/ ReorderOne(r)
    <2>1. Apart
      BY <1>t, <1>1 DEF NewDeptCheck, NewDept, ReorderCheck, ReorderOne
    <2> QED
      BY <2>1, GotoMoves DEF Moves
  <1>2. ASSUME NEW d \in Depts, EditDept(r, d) \/ PutDept(r, d) \/ DropDeptCheck(r, d)
        PROVE  Apart
    BY <1>t, <1>2 DEF EditDept, PutDept, DropDeptCheck
  <1>3. ASSUME DropDept(r) \/ NewTaskCheck(r) \/ NewTask(r) \/ EditTask(r) \/ AssignTask(r)
        PROVE  Apart
    BY <1>t, <1>3 DEF DropDept, NewTaskCheck, NewTask, EditTask, AssignTask
  <1>4. ASSUME NEW t \in Tasks, EditTaskCheck(r, t) \/ AssignCheck(r, t) \/ DeleteTask(r, t)
                                 \/ MoveCheck(r, t)
        PROVE  Apart
    BY <1>t, <1>4 DEF EditTaskCheck, AssignCheck, DeleteTask, MoveCheck
  <1>5. ASSUME MoveCommit(r) PROVE Apart
    BY <1>t, <1>5 DEF MoveCommit
  <1>6. ASSUME BulkMoveCheck(r) \/ BulkCrossCheck(r) PROVE Apart
    BY <1>t, <1>6 DEF BulkMoveCheck, BulkCrossCheck, BulkHand
  <1>7. ASSUME BulkUpdate(r) \/ BulkLog(r) \/ BulkAnswer(r) PROVE Apart
    BY <1>t, <1>7 DEF BulkUpdate, BulkLog, BulkAnswer
  <1>8. CASE Apart
    BY <1>8, GotoMoves DEF Moves
  <1> QED
    BY <1>1, <1>2, <1>3, <1>4, <1>5, <1>6, <1>7, <1>8 DEF BoardStep

LEMMA CleanMoveTask ==
  ASSUME PlaceInv, BoardInv, CleanInv, NEW r \in Requests, MoveTask(r)
  PROVE  CleanInv'
  <1> DEFINE h == hand[r]
  <1>t. /\ draft \in [Requests -> [Tasks -> TaskRows \cup {NoTask}]] /\ Drafted(r) = {}
        /\ task \in [Tasks -> TaskRows \cup {NoTask}]
        /\ clean \subseteq Requests /\ h.task \in Tasks /\ h \in Hands
        /\ h.moved => h.dept \in Depts
    BY DEF BoardInv, HandInv, BoardTypeOK, DraftInv, At, AtTask, MoveTask
  <1>a. hand' = hand /\ task' = task /\ clean' = clean
    BY DEF MoveTask
  <1>1. CASE Answer(r) /\ draft' = draft
    <2>1. Moves(r, "done")
      BY <1>1, GotoMoves DEF Answer
    <2>2. CleanAt(r)'
      BY <2>1 DEF CleanAt, Moves
    <2> QED
      BY <1>t, <1>a, <1>1, <2>1, <2>2, CleanStep DEF Moves
  <1>2. ASSUME Goto(r, "neighbours"), NEW row \in TaskRows, row.place = h.place,
               draft' = [draft EXCEPT ![r][h.task] = row]
        PROVE  CleanInv'
    <2>1. Moves(r, "neighbours") /\ pc'[r] = "neighbours"
      BY <1>2, GotoMoves DEF Moves
    <2>2. /\ draft'[r][h.task] = row /\ \A s \in Requests \ {r} : draft'[s] = draft[s]
          /\ \A t \in Tasks \ {h.task} : draft'[r][t] = draft[r][t]
      BY <1>t, <1>2
    <2>3. Drafted(r)' = {h.task}
      BY <1>t, <2>2, BoardAssumption DEF Drafted
    <2>4. CleanAt(r)'
      BY <1>a, <1>2, <2>1, <2>2, <2>3 DEF CleanAt, Placed
    <2> QED
      BY <1>t, <1>a, <2>1, <2>2, <2>4, CleanStep DEF Moves
  <1>3. CASE HasTask(h.task) /\ Goto(r, "neighbours") /\ (h.moved => HasDept(h.dept))
             /\ draft' = [draft EXCEPT ![r][h.task] =
                  [task[h.task] EXCEPT !.column = h.column, !.place = h.place,
                                       !.dept = IF h.moved THEN h.dept ELSE @]]
    <2> DEFINE row == [task[h.task] EXCEPT !.column = h.column, !.place = h.place,
                                           !.dept = IF h.moved THEN h.dept ELSE @]
    <2>1. task[h.task] \in TaskRows
      BY <1>t, <1>3 DEF HasTask
    <2>2. row \in TaskRows /\ row.place = h.place
      BY <1>t, <2>1 DEF TaskRows, Hands
    <2>3. draft' = [draft EXCEPT ![r][h.task] = row]
      BY <1>3
    <2> HIDE DEF row
    <2> QED
      BY <1>2, <1>3, <2>2, <2>3
  <1> QED
    BY <1>1, <1>3 DEF MoveTask

LEMMA CleanMoveRead ==
  ASSUME PlaceInv, BoardInv, CleanInv, NEW r \in Requests, MoveRead(r)
  PROVE  CleanInv'
  <1> DEFINE h == hand[r]
             T == {y \in InDept(h.dept) : /\ y # h.task /\ task[y].column = h.column
                                          /\ task[y].place >= h.place}
             do == {<<x, task[x].place>> : x \in T}
  <1>t. hand \in [Requests -> Hands] /\ h \in Hands /\ clean \subseteq Requests
    BY DEF BoardInv, HandInv, BoardTypeOK
  <1>a. /\ hand' = [hand EXCEPT ![r].todo = do] /\ Goto(r, "shift") /\ pc[r] = "neighbours"
        /\ task' = task /\ clean' = clean /\ draft' = draft
    BY DEF MoveRead, board
  <1>1. Moves(r, "shift") /\ pc'[r] = "shift"
    BY <1>a, GotoMoves DEF Moves
  <1>2. \A x : Behind(r, x) <=> x \in T
    BY DEF Behind
  <1>3. /\ \A d \in do : d[1] \in T /\ d[2] = task[d[1]].place
        /\ \A x \in T : <<x, task[x].place>> \in do
    OBVIOUS
  <1> HIDE DEF do, T
  <1>4. /\ hand'[r].todo = do /\ \A s \in Requests \ {r} : hand'[s] = hand[s]
        /\ hand'[r].task = h.task /\ hand'[r].dept = h.dept /\ hand'[r].column = h.column
        /\ hand'[r].place = h.place
    BY <1>t, <1>a DEF Hands
  <1>5. (\A x : Behind(r, x)' <=> Behind(r, x)) /\ Drafted(r)' = Drafted(r)
    BY <1>a, <1>4 DEF Behind, InDept, HasTask, Drafted
  <1>6. r \in clean => Placed(r) /\ Drafted(r) = {h.task}
    BY <1>a DEF CleanInv, CleanAt
  <1>7. r \in clean => CleanAt(r)'
    BY <1>a, <1>1, <1>2, <1>3, <1>4, <1>5, <1>6 DEF CleanAt, Halfway, Placed
  <1> QED
    BY <1>t, <1>a, <1>1, <1>4, <1>7, CleanStep DEF Moves

LEMMA CleanMoveShift ==
  ASSUME PlaceInv, BoardInv, CleanInv, NEW r \in Requests, MoveShift(r)
  PROVE  CleanInv'
  <1> DEFINE h == hand[r]
  <1>t. /\ hand \in [Requests -> Hands] /\ h \in Hands /\ clean \subseteq Requests
        /\ h.todo \subseteq Tasks \X Nat /\ pc[r] = "shift"
        /\ draft \in [Requests -> [Tasks -> TaskRows \cup {NoTask}]]
        /\ task \in [Tasks -> TaskRows \cup {NoTask}]
    BY DEF BoardInv, HandInv, BoardTypeOK, At, MoveShift
  <1>a. task' = task /\ clean' = clean
    BY DEF MoveShift
  <1>1. PICK do \in h.todo :
          /\ hand' = [hand EXCEPT ![r].todo = @ \ {do}]
          /\ \/ /\ HasTask(do[1])
                /\ draft' = [draft EXCEPT ![r][do[1]] = [task[do[1]] EXCEPT !.place = do[2] + 1]]
                /\ UNCHANGED pc
             \/ /\ draft' = [draft EXCEPT ![r] = NoDraft]
                /\ Answer(r)
    BY DEF MoveShift
  <1>2. PICK t0 \in Tasks, n \in Nat : do = <<t0, n>>
    BY <1>t
  <1>3. /\ hand'[r].todo = h.todo \ {do} /\ \A s \in Requests \ {r} : hand'[s] = hand[s]
        /\ hand'[r].task = h.task /\ hand'[r].dept = h.dept /\ hand'[r].column = h.column
        /\ hand'[r].place = h.place
    BY <1>t, <1>1 DEF Hands
  <1>4. \A x : Behind(r, x)' <=> Behind(r, x)
    BY <1>a, <1>3 DEF Behind, InDept, HasTask
  <1>5. CASE draft' = [draft EXCEPT ![r] = NoDraft] /\ Answer(r)
    <2>1. Moves(r, "done") /\ pc'[r] = "done"
      BY <1>5, GotoMoves DEF Answer, Moves
    <2>2. CleanAt(r)' /\ \A s \in Requests \ {r} : draft'[s] = draft[s]
      BY <1>t, <1>5, <2>1 DEF CleanAt
    <2> QED
      BY <1>t, <1>a, <1>3, <2>1, <2>2, CleanStep DEF Moves
  <1>6. CASE /\ HasTask(t0)
             /\ draft' = [draft EXCEPT ![r][t0] = [task[t0] EXCEPT !.place = n + 1]]
             /\ UNCHANGED pc
    <2> DEFINE row == [task[t0] EXCEPT !.place = n + 1]
    <2>1. row # NoTask /\ row.place = n + 1
      <3>1. task[t0] \in TaskRows /\ n + 1 \in Nat
        BY <1>t, <1>6 DEF HasTask
      <3>2. row \in TaskRows /\ row.place = n + 1
        BY <3>1 DEF TaskRows
      <3> QED
        BY <3>2, BoardAssumption
    <2>2. draft' = [draft EXCEPT ![r][t0] = row]
      BY <1>6
    <2> HIDE DEF row
    <2>3. /\ draft'[r][t0] = row /\ \A s \in Requests \ {r} : draft'[s] = draft[s]
          /\ \A t \in Tasks \ {t0} : draft'[r][t] = draft[r][t]
      BY <1>t, <2>2
    <2>4. Drafted(r)' = Drafted(r) \cup {t0} /\ Drafted(r) \subseteq Tasks
      BY <2>1, <2>3 DEF Drafted
    <2>5. ASSUME r \in clean PROVE Halfway(r)'
      <3>1. Halfway(r)
        BY <1>t, <2>5 DEF CleanInv, CleanAt
      <3>2. Behind(r, t0) /\ n = task[t0].place
        BY <1>2, <3>1 DEF Halfway
      <3>3. t0 # h.task
        BY <3>2 DEF Behind
      <3>4. Placed(r)'
        BY <1>3, <2>3, <2>4, <3>1, <3>3 DEF Halfway, Placed
      <3>5. ASSUME NEW d \in h.todo \ {do} PROVE Behind(r, d[1])' /\ d[2] = task'[d[1]].place
        BY <1>a, <1>4, <3>1 DEF Halfway
      <3>6. ASSUME NEW x \in Drafted(r)' \ {h.task}
            PROVE  Behind(r, x)' /\ draft'[r][x].place = task'[x].place + 1
        <4>1. CASE x = t0
          BY <1>a, <1>4, <2>1, <2>3, <3>2, <4>1
        <4>2. CASE x # t0
          <5>1. x \in Drafted(r) \ {h.task} /\ draft'[r][x] = draft[r][x]
            BY <2>3, <2>4, <3>6, <4>2
          <5> QED
            BY <1>a, <1>4, <3>1, <5>1 DEF Halfway
        <4> QED
          BY <4>1, <4>2
      <3>7. ASSUME NEW x \in Tasks, Behind(r, x)'
            PROVE  x \in Drafted(r)' \/ <<x, task'[x].place>> \in h.todo \ {do}
        <4>1. CASE x = t0
          BY <2>4, <4>1
        <4>2. CASE x # t0
          <5>1. x \in Drafted(r) \/ <<x, task[x].place>> \in h.todo
            BY <1>4, <3>1, <3>7 DEF Halfway
          <5> QED
            BY <1>a, <1>2, <2>4, <4>2, <5>1
        <4> QED
          BY <4>1, <4>2
      <3> QED
        BY <1>3, <3>4, <3>5, <3>6, <3>7 DEF Halfway
    <2>6. r \in clean => CleanAt(r)'
      BY <1>t, <1>6, <2>5 DEF CleanAt
    <2> QED
      BY <1>t, <1>a, <1>3, <1>6, <2>3, <2>6, CleanStep
  <1> QED
    BY <1>1, <1>2, <1>5, <1>6

LEMMA CleanNext == TeamInv /\ BoardInv /\ CleanInv /\ [Next]_vars => CleanInv'
  <1> SUFFICES ASSUME TeamInv, BoardInv, CleanInv, [Next]_vars PROVE CleanInv'
    OBVIOUS
  <1> PlaceInv
    BY DEF TeamInv
  <1>b. BoardInv'
    BY BoardNext
  <1>c. clean' \subseteq Requests
    BY <1>b DEF BoardInv, BoardTypeOK
  <1>1. ASSUME NEW r \in Requests, BoardStep(r) PROVE CleanInv'
    <2>1. CASE MoveTask(r) \/ MoveRead(r) \/ MoveShift(r)
      BY <2>1, CleanMoveTask, CleanMoveRead, CleanMoveShift
    <2>2. CASE ~(MoveTask(r) \/ MoveRead(r) \/ MoveShift(r))
      <3>1. CleanAt(r)'
        BY <1>1, <2>2, OthersMoves DEF CleanAt
      <3> QED
        BY <1>1, <1>c, <2>2, <3>1, OthersMoves, CleanStep
    <2> QED
      BY <2>1, <2>2
  <1>2. ASSUME NEW r \in Requests, NEW q \in {"done"} \cup AtTeam \cup AtTags, Goto(r, q),
               \A s \in Requests \ {r} : hand'[s] = hand[s] /\ draft'[s] = draft[s],
               (task' = task /\ clean' = clean) \/ clean' \subseteq {r}
        PROVE  CleanInv'
    <2>1. Moves(r, q) /\ q \notin {"neighbours", "shift"}
      BY <1>2, GotoMoves DEF AtTeam, AtTags
    <2>2. CleanAt(r)'
      BY <2>1 DEF CleanAt, Moves
    <2> QED
      BY <1>c, <1>2, <2>1, <2>2, CleanStep DEF Moves
  <1>3. CASE UNCHANGED <<pc, hand, board>>
    <2>1. UNCHANGED <<pc, hand, task, draft, clean>>
      BY <1>3 DEF board
    <2> QED
      BY <2>1 DEF CleanInv, CleanAt, Halfway, Placed, Behind, InDept, HasTask, Drafted
  <1>4. ASSUME NEW r \in Requests, TeamStep(r), UNCHANGED <<hand, board>> PROVE CleanInv'
    BY <1>2, <1>4, TeamPlaces DEF board
  <1>5. ASSUME NEW r \in Requests, TagStep(r), UNCHANGED <<hand, board>> PROVE CleanInv'
    BY <1>2, <1>3, <1>5, TagPlaces DEF board
  <1>6. ASSUME NEW r \in Requests, RemoveRole(r), Unassign(r) PROVE CleanInv'
    <2>1. Goto(r, "done") /\ hand' = hand /\ draft' = draft /\ clean' \subseteq {r}
      BY <1>6 DEF RemoveRole, Answer, Unassign, Write
    <2> QED
      BY <1>2, <2>1
  <1>7. ASSUME NEW r \in Requests, DropProject(r),
               IF project' = project THEN UNCHANGED <<hand, board>> ELSE DropBoard(r)
        PROVE  CleanInv'
    <2>1. /\ Goto(r, "done") /\ hand' = hand /\ draft' = draft
          /\ (task' = task /\ clean' = clean) \/ clean' = {}
      BY <1>7 DEF DropProject, Answer, DropBoard, board
    <2> QED
      BY <1>2, <2>1
  <1>8. ASSUME NEW r \in Requests, HandlerFails(r), BoardFails(r) PROVE CleanInv'
    <2>1. /\ Goto(r, "done") /\ task' = task /\ clean' = clean
          /\ hand' = [hand EXCEPT ![r] = NoHand] /\ draft' = [draft EXCEPT ![r] = NoDraft]
      BY <1>8 DEF HandlerFails, Answer, BoardFails
    <2>2. \A s \in Requests \ {r} : hand'[s] = hand[s] /\ draft'[s] = draft[s]
      BY <2>1 DEF BoardInv, HandInv, BoardTypeOK
    <2> QED
      BY <1>2, <2>1, <2>2
  <1>9. ASSUME NEW i \in Invites, Lapse(i), UNCHANGED <<hand, board>> PROVE CleanInv'
    BY <1>3, <1>9 DEF Lapse
  <1>10. CASE UNCHANGED vars
    BY <1>3, <1>10 DEF vars
  <1> QED
    BY <1>1, <1>4, <1>5, <1>6, <1>7, <1>8, <1>9, <1>10 DEF Next, BoardRows

(* The commit of such a move.                                              *)
LEMMA CleanCommit == BoardInv /\ CleanInv => MoveKeepsOrder
  <1> SUFFICES ASSUME BoardInv, CleanInv, NEW r \in clean, MoveCommit(r)
      PROVE  LET h == hand[r]
                 column == {t \in InDept(h.dept) : t # h.task /\ task[t].column = h.column}
             IN /\ task'[h.task].place = h.place
                /\ \A x \in column :
                     IF task[x].place < h.place THEN task'[x] = task[x]
                     ELSE /\ task'[x].place > h.place
                          /\ \A y \in column : task[x].place < task[y].place
                                               => task'[x].place < task'[y].place
    BY DEF MoveKeepsOrder
  <1> DEFINE h == hand[r]
             column == {t \in InDept(h.dept) : t # h.task /\ task[t].column = h.column}
  <1>t. /\ r \in Requests /\ h \in Hands /\ pc[r] = "shift" /\ h.todo = {}
        /\ task \in [Tasks -> TaskRows \cup {NoTask}]
        /\ task' = [t \in Tasks |-> IF t \in Drafted(r) THEN draft[r][t] ELSE task[t]]
    BY DEF BoardInv, BoardTypeOK, HandInv, MoveCommit, Write
  <1>1. Halfway(r) /\ Drafted(r) \subseteq Tasks
    BY <1>t DEF CleanInv, CleanAt, Drafted
  <1>2. task'[h.task].place = h.place
    BY <1>t, <1>1 DEF Halfway, Placed
  <1>3. ASSUME NEW x \in column
        PROVE  /\ x \in Tasks /\ task[x].place \in Nat /\ h.place \in Nat
               /\ task[x].place < h.place => task'[x] = task[x]
               /\ ~(task[x].place < h.place) => task'[x].place = task[x].place + 1
    <2>1. x \in Tasks /\ task[x] \in TaskRows
      BY <1>t DEF InDept, HasTask
    <2>2. task[x].place \in Nat /\ h.place \in Nat
      BY <1>t, <2>1 DEF TaskRows, Hands
    <2>3. Behind(r, x) <=> ~(task[x].place < h.place)
      BY <2>2 DEF Behind
    <2>4. CASE task[x].place < h.place
      BY <1>t, <1>1, <2>1, <2>2, <2>3, <2>4 DEF Halfway
    <2>5. CASE ~(task[x].place < h.place)
      <3>1. x \in Drafted(r) /\ draft[r][x].place = task[x].place + 1
        BY <1>t, <1>1, <2>1, <2>3, <2>5 DEF Halfway
      <3> QED
        BY <1>t, <2>1, <2>2, <2>5, <3>1
    <2> QED
      BY <2>1, <2>2, <2>4, <2>5
  <1> HIDE DEF column, h
  <1>4. ASSUME NEW x \in column, ~(task[x].place < h.place)
        PROVE  /\ task'[x].place > h.place
               /\ \A y \in column : task[x].place < task[y].place
                                    => task'[x].place < task'[y].place
    <2>1. ASSUME NEW y \in column, task[x].place < task[y].place
          PROVE  task'[x].place < task'[y].place
      BY <1>3, <1>4, <2>1
    <2> QED
      BY <1>3, <1>4, <2>1
  <1>5. ASSUME NEW x \in column, task[x].place < h.place PROVE task'[x] = task[x]
    BY <1>3, <1>5
  <1> QED
    BY <1>2, <1>4, <1>5 DEF h, column

-----------------------------------------------------------------------------
(* Of every reachable state.                                               *)
THEOREM WorkspaceInvariant == Spec => [](TeamInv /\ TagInv /\ BoardInv)
  <1>1. Init => TeamInv /\ TagInv /\ BoardInv
    BY TeamInit, TagInit, BoardInit
  <1>2. TeamInv /\ TagInv /\ BoardInv /\ [Next]_vars => (TeamInv /\ TagInv /\ BoardInv)'
    BY TeamNext, TagNext, BoardNext
  <1> QED
    BY <1>1, <1>2, PTL DEF Spec

(* All rows, histories and what handlers hold keep their types.            *)
THEOREM WorkspaceTypes == Spec => []TypeOK
  <1>1. TeamInv /\ TagInv /\ BoardInv => TypeOK
    BY DEF TeamInv, TagInv, BoardInv, TypeOK
  <1> QED
    BY <1>1, WorkspaceInvariant, PTL

(* However acceptances, removals and additions interleave, no role becomes *)
(* ACTIVE but the creator's and those of users who accepted an invite.     *)
(* Routes that read roles of any status are not kept from PENDING ones.    *)
THEOREM RolesAreAccepted == Spec => []ActiveMeansAccepted
  <1>1. TeamInv => ActiveMeansAccepted
    BY DEF TeamInv
  <1> QED
    BY <1>1, WorkspaceInvariant, PTL

(* An invite makes no more than one role, and one for each cause there was *)
(* for another: counted over the handlers that are about to make one.      *)
THEOREM RolesOfAnInvite == Spec => []AcceptancesNeedCause
  <1>1. TeamInv => AcceptancesNeedCause
    <2> SUFFICES ASSUME TeamInv, NEW i \in Invites PROVE made[i] <= 1 + excuses[i]
      BY DEF AcceptancesNeedCause
    <2>1. /\ IsFiniteSet(Offered(i)) /\ made[i] + Cardinality(Offered(i)) <= 1 + excuses[i]
          /\ made[i] \in Nat /\ excuses[i] \in Nat
      BY DEF TeamInv, MadeInv, TeamTypeOK
    <2>2. Cardinality(Offered(i)) \in Nat
      BY <2>1, FS_CardinalityType
    <2> QED
      BY <2>1, <2>2
  <1> QED
    BY <1>1, WorkspaceInvariant, PTL

(* A project loses its last owner's row only by a cause.                   *)
THEOREM OwnersRemain == Spec => []LastOwnerNeedsCause
  <1>1. TeamInv => LastOwnerNeedsCause
    BY DEF TeamInv, OwnerInv, LastOwnerNeedsCause
  <1> QED
    BY <1>1, WorkspaceInvariant, PTL

(* A role's salaries are no more than its terms and the requests for       *)
(* others account for, however the handlers that start them overlap, and   *)
(* none outlives it: counted with the salaries about to be started.        *)
THEOREM SalariesAreAskedFor == Spec => []SalariesNeedCause
  <1>1. TeamInv => SalariesNeedCause
    <2> SUFFICES ASSUME TeamInv, NEW x \in Rows
                 PROVE  salaries[x] <= Allowed(x) /\ (salaries[x] > 0 => Live(x))
      BY DEF SalariesNeedCause, Allowed
    <2> QED
      BY SalariesOf DEF TeamInv, TermsInv
  <1> QED
    BY <1>1, WorkspaceInvariant, PTL

(* Tags other than the ones asked for have a cause.                        *)
THEOREM TagsAsAsked == Spec => []TagsNeedCause
  <1>1. TeamInv /\ TagInv => TagsNeedCause
    BY DEF TeamInv, TeamTypeOK, TagInv, TagsNeedCause
  <1> QED
    BY <1>1, WorkspaceInvariant, PTL

(* No order of deletions, assignments and open transactions leaves a task  *)
(* without its department or with a role that is gone.                     *)
THEOREM HousedTasks == Spec => []TasksAreHoused
  <1>1. BoardInv => TasksAreHoused
    BY DEF BoardInv
  <1> QED
    BY <1>1, WorkspaceInvariant, PTL

(* Every activity tells of an update, and every update is told but those   *)
(* whose handler failed or has not come to it yet, and those of the code   *)
(* that tells of none: edits, assignments, neighbours, roles that go.      *)
THEOREM ActivityIsAccounted == Spec => []LogAccountsForChanges
  <1>1. BoardInv => LogAccountsForChanges
    BY DEF BoardInv, LogInv
  <1> QED
    BY <1>1, WorkspaceInvariant, PTL

(* A drag and drop during which nobody else writes a task leaves those     *)
(* before it in place, and those behind it behind it and in order, however *)
(* many there are and in whatever order they are written.                  *)
THEOREM UndisturbedMoves == Spec => MovesKeepOrder
  <1>1. Init => CleanInv
    BY DEF Init, InitBoard, CleanInv
  <1>2. TeamInv /\ BoardInv /\ CleanInv /\ [Next]_vars => CleanInv'
    BY CleanNext
  <1>3. BoardInv /\ CleanInv => MoveKeepsOrder
    BY CleanCommit
  <1> QED
    BY <1>1, <1>2, <1>3, WorkspaceInvariant, PTL DEF Spec, MovesKeepOrder

=============================================================================
