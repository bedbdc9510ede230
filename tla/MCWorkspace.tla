---------------------------- MODULE MCWorkspace ----------------------------
(* Workspace begun in many ways as a team or in one way with tasks, for    *)
(* the product of all beginnings is too large.                             *)
EXTENDS Workspace, TLC

(* States are told apart by what handlers still hold and by the           *)
(* differences of the counts, for nothing looks at more.                   *)
Held(r) == IF Running(r) THEN arg[r] ELSE NoArg
View == <<shared, pc, [r \in Requests |-> Held(r)], hand, tagging,
          invite, config, [x \in Rows |-> <<salaries[x] > 0, salaries[x] - extra[x]>>],
          accepted, [i \in Invites |-> made[i] - excuses[i]],
          excused, dept, task, draft, clean,
          [t \in Tasks |-> changes[t] - logged[t] - untold[t] - lost[t]]>>

Symmetry == Permutations(Requests) \cup Permutations(FirstTasks)
            \cup Permutations(FirstDepts)

(* The creator's own role or one given to another; the second member is    *)
(* not the creator.                                                        *)
SmallTeam  == /\ Live(OwnerRow)
              /\ role[OwnerRow].user = Creator => role[OwnerRow].status = "ACTIVE"
              /\ Live(MemberRow) => role[MemberRow].user # Creator

PlainTeam  == /\ OwnerRow \in OwnerRows /\ role[OwnerRow].status = "ACTIVE"
              /\ Live(MemberRow) /\ role[MemberRow].kind = "EMPLOYEE"
              /\ \A i \in Invites : invite[i] = Unsent

OneBehind  == Cardinality({t \in FirstTasks : task[t].place > 0}) = 1

MCInit == /\ Init
          /\ SmallTeam
          /\ (\E d \in Depts : HasDept(d)) => PlainTeam /\ OneBehind

MCSpec == MCInit /\ [][Next]_vars
=============================================================================
