------------------------------ MODULE TaskBoard ------------------------------
(***************************************************************************)
(* A project's departments and the tasks in their columns: creation,       *)
(* edits, assignment and deletion, the drag and drop of a task, which      *)
(* moves its neighbours in a transaction, and bulk updates, which do not   *)
(* use one.  PostgreSQL runs transactions as READ COMMITTED: a row written *)
(* by one is locked, and its new value unseen, until the commit.           *)
(***************************************************************************)
EXTENDS ProjectData, FiniteSetsExt

CONSTANTS
  FirstDepts, FirstTasks,
  Columns, FirstColumn,     \* TaskStatus values, and the default
  Places, Orders,           \* of tasks and of departments, that requests ask for
  BulkSize,                 \* the tasks of a bulk request
  NoDept, NoTask

Depts == FirstDepts \cup Requests
Tasks == FirstTasks \cup Requests
TaskRows == [dept : Depts, column : Columns, place : Nat, assignee : Rows \cup {NoRow}]

ASSUME BoardAssumption ==
  /\ (FirstDepts \cup FirstTasks) \cap Requests = {}
  /\ FirstColumn \in Columns
  /\ Places \subseteq Nat /\ Orders \subseteq Nat
  /\ NoDept \notin Depts \cup Nat
  /\ NoTask \notin Tasks \cup TaskRows
  /\ IsFiniteSet(Depts)

VARIABLES
  dept,      \* Department.order, by id, or NoDept
  task,      \* Task rows, or NoTask
  draft,     \* tasks as a handler's open transaction has written them
  hand,      \* what a handler read or was given
  (* history *)
  changes,   \* updates of a task
  logged,    \* rows of TaskActivity
  untold,    \* updates by code that writes no TaskActivity
  lost,      \* updates whose handler failed before it logged them
  clean      \* moves during which nothing else wrote a task

board == <<dept, task, draft, changes, logged, untold, lost, clean>>

HasDept(d) == dept[d] # NoDept
HasTask(t) == task[t] # NoTask
InDept(d)  == {t \in Tasks : HasTask(t) /\ task[t].dept = d}

NoDraft    == [t \in Tasks |-> NoTask]
Drafted(r) == {t \in Tasks : draft[r][t] # NoTask}

(* Rows that the transactions of others have locked: a task that is        *)
(* written, and the department it is put in.                               *)
Locked(r)     == UNION {Drafted(q) : q \in Requests \ {r}}
LockedDept(d) == \E q \in Requests : \E t \in Drafted(q) : draft[q][t].dept = d

NoHand == [task |-> NoTask, dept |-> NoDept, column |-> FirstColumn, place |-> 0,
           assignee |-> NoRow, moved |-> FALSE, todo |-> {}]

(* An answer, after which nothing that the handler held is left.           *)
Finish(r) == Answer(r) /\ hand' = [hand EXCEPT ![r] = NoHand]

(* Whoever changes tasks disturbs the moves of the others.                 *)
Write(r, new) == task' = new /\ clean' = clean \cap {r}

Plus(f, S) == [t \in Tasks |-> IF t \in S THEN f[t] + 1 ELSE f[t]]

(* Tasks that are updated and of which no activity tells.                  *)
Silently(S) == changes' = Plus(changes, S) /\ untold' = Plus(untold, S)

(* A foreign key: the row named is there.                                  *)
AssignableTo(x) == x # NoRow => Live(x)

(* A board no one has touched, or one with tasks in one column.            *)
InitBoard ==
  /\ \/ /\ dept = [d \in Depts |-> NoDept]
        /\ task = [t \in Tasks |-> NoTask]
     \/ /\ dept = [d \in Depts |-> IF d \in FirstDepts THEN 1 ELSE NoDept]
        /\ \E home \in FirstDepts, place \in [FirstTasks -> Places] :
             task = [t \in Tasks |->
                       IF t \in FirstTasks
                       THEN [dept |-> home, column |-> FirstColumn,
                             place |-> place[t], assignee |-> NoRow]
                       ELSE NoTask]
  /\ draft = [r \in Requests |-> NoDraft]
  /\ hand = [r \in Requests |-> NoHand]
  /\ changes = [t \in Tasks |-> 0]
  /\ logged = [t \in Tasks |-> 0]
  /\ untold = [t \in Tasks |-> 0]
  /\ lost = [t \in Tasks |-> 0]
  /\ clean = {}

-----------------------------------------------------------------------------
(* Departments                                                             *)

(* POST /projects/:id/departments takes the order it is given or one more  *)
(* than the greatest it reads; POST /departments takes it from an owner,   *)
(* or 0.                                                                   *)
NextOrder == 1 + Max({0} \cup {dept[d] : d \in {e \in Depts : HasDept(e)}})

NewDeptCheck(r) ==
  /\ pc[r] = "idle"
  /\ project = "live"
  /\ \E n \in {NextOrder} \cup Orders :
       hand' = [hand EXCEPT ![r] = [NoHand EXCEPT !.place = n]]
  /\ Goto(r, "newdept")
  /\ UNCHANGED <<shared, board>>

NewDept(r) ==
  /\ pc[r] = "newdept"
  /\ dept' = IF project = "live" THEN [dept EXCEPT ![r] = hand[r].place] ELSE dept
  /\ Finish(r)
  /\ UNCHANGED <<shared, task, draft, changes, logged, untold, lost, clean>>

(* PATCH /projects/:id/departments/:id                                     *)
EditDept(r, d) ==
  /\ pc[r] = "idle"
  /\ HasDept(d)
  /\ \E n \in Orders : dept' = [dept EXCEPT ![d] = n]
  /\ Answer(r)
  /\ UNCHANGED <<shared, hand, task, draft, changes, logged, untold, lost, clean>>

(* PUT /departments/:id, for those who lead                                *)
PutDept(r, d) == (\E u \in Users : Holds(u, Leads)) /\ EditDept(r, d)

(* PUT /departments/project/:id/reorder starts all updates at once; they   *)
(* end in any order, each for itself.                                      *)
ReorderCheck(r) ==
  /\ pc[r] = "idle"
  /\ \E u \in Users : HasProjectRole(u, Leads)
  /\ \E order \in [FirstDepts -> Orders] :
       hand' = [hand EXCEPT ![r] = [NoHand EXCEPT !.todo = {<<d, order[d]>> : d \in FirstDepts}]]
  /\ Goto(r, "reorder")
  /\ UNCHANGED <<shared, board>>

ReorderOne(r) ==
  /\ pc[r] = "reorder"
  /\ \E do \in hand[r].todo :
       /\ dept' = [dept EXCEPT ![do[1]] = IF HasDept(do[1]) THEN do[2] ELSE NoDept]
       /\ hand' = [hand EXCEPT ![r].todo = @ \ {do}]
       /\ IF hand[r].todo = {do} THEN Answer(r) ELSE UNCHANGED pc
  /\ UNCHANGED <<shared, task, draft, changes, logged, untold, lost, clean>>

(* DELETE of a department: no tasks are counted in it, ...                 *)
DropDeptCheck(r, d) ==
  /\ pc[r] = "idle"
  /\ HasDept(d) /\ InDept(d) = {}
  /\ hand' = [hand EXCEPT ![r] = [NoHand EXCEPT !.dept = d]]
  /\ Goto(r, "dropdept")
  /\ UNCHANGED <<shared, board>>

(* Mutant: the foreign key does not look for tasks when the row goes.      *)
DropDeptUnchecked(r) ==
  /\ pc[r] = "dropdept"
  /\ dept' = [dept EXCEPT ![hand[r].dept] = NoDept]
  /\ Finish(r)
  /\ UNCHANGED <<shared, task, draft, changes, logged, untold, lost, clean>>

(* ... and the tasks' foreign key looks again (Restrict).                  *)
DropDept(r) ==
  LET d == hand[r].dept
  IN /\ pc[r] = "dropdept"
     /\ ~LockedDept(d)
     /\ dept' = IF InDept(d) = {} THEN [dept EXCEPT ![d] = NoDept] ELSE dept
     /\ Finish(r)
     /\ UNCHANGED <<shared, task, draft, changes, logged, untold, lost, clean>>

-----------------------------------------------------------------------------
(* Tasks                                                                   *)

(* POST /tasks and /role-aware/projects/:id/tasks                          *)
NewTaskCheck(r) ==
  /\ pc[r] = "idle"
  /\ \E u \in Users : Manages(u)
  /\ \E d \in Depts, x \in Rows \cup {NoRow} :
       /\ HasDept(d) /\ AssignableTo(x)
       /\ hand' = [hand EXCEPT ![r] = [NoHand EXCEPT !.dept = d, !.assignee = x]]
  /\ Goto(r, "newtask")
  /\ UNCHANGED <<shared, board>>

NewTask(r) ==
  LET h == hand[r]
  IN /\ pc[r] = "newtask"
     /\ \/ /\ HasDept(h.dept) /\ AssignableTo(h.assignee)
           /\ Write(r, [task EXCEPT ![r] = [dept |-> h.dept, column |-> FirstColumn,
                                            place |-> 0, assignee |-> h.assignee]])
        \/ /\ ~HasDept(h.dept) \/ ~AssignableTo(h.assignee)
           /\ UNCHANGED <<task, clean>>
     /\ Finish(r)
     /\ UNCHANGED <<shared, dept, draft, changes, logged, untold, lost>>

(* PUT /projects/:id/tasks/:id and the two assign routes: department and   *)
(* role are looked up before the update, whose foreign keys look again.    *)
(* Bound: one request does not both edit and assign.                       *)
EditTaskCheck(r, t) ==
  /\ pc[r] = "idle"
  /\ HasTask(t)
  /\ \E d \in Depts \cup {NoDept}, c \in Columns :
       /\ d # NoDept => HasDept(d)
       /\ hand' = [hand EXCEPT ![r] = [NoHand EXCEPT !.task = t, !.dept = d, !.column = c]]
  /\ Goto(r, "edit")
  /\ UNCHANGED <<shared, board>>

EditTask(r) ==
  LET h == hand[r]
  IN /\ pc[r] = "edit"
     /\ h.task \notin Locked(r)
     /\ \/ /\ HasTask(h.task) /\ (h.dept # NoDept => HasDept(h.dept))
           /\ Write(r, [task EXCEPT
                ![h.task].dept = IF h.dept = NoDept THEN @ ELSE h.dept,
                ![h.task].column = h.column])
           /\ Silently({h.task})
        \/ /\ ~HasTask(h.task) \/ (h.dept # NoDept /\ ~HasDept(h.dept))
           /\ UNCHANGED <<task, clean, changes, untold>>
     /\ Finish(r)
     /\ UNCHANGED <<shared, dept, draft, logged, lost>>

AssignCheck(r, t) ==
  /\ pc[r] = "idle"
  /\ HasTask(t)
  /\ \E x \in Rows \cup {NoRow} :
       /\ AssignableTo(x)
       /\ hand' = [hand EXCEPT ![r] = [NoHand EXCEPT !.task = t, !.assignee = x]]
  /\ Goto(r, "assign")
  /\ UNCHANGED <<shared, board>>

AssignTask(r) ==
  LET h == hand[r]
  IN /\ pc[r] = "assign"
     /\ h.task \notin Locked(r)
     /\ \/ /\ HasTask(h.task) /\ AssignableTo(h.assignee)
           /\ Write(r, [task EXCEPT ![h.task].assignee = h.assignee])
           /\ Silently({h.task})
        \/ /\ ~HasTask(h.task) \/ ~AssignableTo(h.assignee)
           /\ UNCHANGED <<task, clean, changes, untold>>
     /\ Finish(r)
     /\ UNCHANGED <<shared, dept, draft, logged, lost>>

(* DELETE of a task; its activity goes with it (Cascade).                  *)
DeleteTask(r, t) ==
  /\ pc[r] = "idle"
  /\ HasTask(t) /\ t \notin Locked(r)
  /\ Write(r, [task EXCEPT ![t] = NoTask])
  /\ changes' = [changes EXCEPT ![t] = 0]
  /\ logged' = [logged EXCEPT ![t] = 0]
  /\ untold' = [untold EXCEPT ![t] = 0]
  /\ lost' = [lost EXCEPT ![t] = 0]
  /\ Answer(r)
  /\ UNCHANGED <<shared, hand, dept, draft>>

-----------------------------------------------------------------------------
(* Drag and drop: PATCH /tasks/:id/position                                *)

(* An employee moves only the tasks assigned to his role.                  *)
MayMove(u, t) ==
  /\ HasAccess(u)
  /\ \E x \in RolesOf(u) : role[x].kind \in Leads \/ task[t].assignee = x

MoveCheck(r, t) ==
  /\ pc[r] = "idle"
  /\ HasTask(t)
  /\ \E u \in Users : MayMove(u, t)
  /\ \E d \in {task[t].dept} \cup FirstDepts, c \in Columns, n \in Places :
       hand' = [hand EXCEPT ![r] = [NoHand EXCEPT
                  !.task = t, !.dept = d, !.column = c, !.place = n,
                  !.moved = d # task[t].dept]]
  /\ clean' = clean \cup {r}
  /\ Goto(r, "move")
  /\ UNCHANGED <<shared, dept, task, draft, changes, logged, untold, lost>>

(* The task itself; it stays in its department unless another is asked.    *)
MoveTask(r) ==
  LET h   == hand[r]
      row == [task[h.task] EXCEPT !.column = h.column, !.place = h.place,
                                  !.dept = IF h.moved THEN h.dept ELSE @]
  IN /\ pc[r] = "move"
     /\ h.task \notin Locked(r)
     /\ \/ /\ HasTask(h.task) /\ (h.moved => HasDept(h.dept))
           /\ draft' = [draft EXCEPT ![r][h.task] = row]
           /\ Goto(r, "neighbours")
        \/ /\ ~HasTask(h.task) \/ (h.moved /\ ~HasDept(h.dept))
           /\ Answer(r)
           /\ UNCHANGED draft
     /\ UNCHANGED <<shared, hand, dept, task, changes, logged, untold, lost, clean>>

(* Mutant: the neighbour at the very place is not moved.                   *)
MoveReadStrict(r) ==
  LET h == hand[r]
      Behind(x) == x # h.task /\ task[x].column = h.column /\ task[x].place > h.place
  IN /\ pc[r] = "neighbours"
     /\ hand' = [hand EXCEPT ![r].todo =
                   {<<x, task[x].place>> : x \in {y \in InDept(h.dept) : Behind(y)}}]
     /\ Goto(r, "shift")
     /\ UNCHANGED <<shared, board>>

(* The other tasks of the column, from the place on, with their orders.    *)
MoveRead(r) ==
  LET h == hand[r]
      Behind(x) == x # h.task /\ task[x].column = h.column /\ task[x].place >= h.place
  IN /\ pc[r] = "neighbours"
     /\ hand' = [hand EXCEPT ![r].todo =
                   {<<x, task[x].place>> : x \in {y \in InDept(h.dept) : Behind(y)}}]
     /\ Goto(r, "shift")
     /\ UNCHANGED <<shared, board>>

(* Mutant: neighbours are moved the other way.                             *)
MoveShiftBack(r) ==
  /\ pc[r] = "shift"
  /\ \E do \in hand[r].todo :
       /\ do[1] \notin Locked(r) /\ HasTask(do[1])
       /\ hand' = [hand EXCEPT ![r].todo = @ \ {do}]
       /\ draft' = [draft EXCEPT ![r][do[1]] = [task[do[1]] EXCEPT !.place = do[2] - 1]]
  /\ UNCHANGED <<shared, pc, dept, task, changes, logged, untold, lost, clean>>

(* Each is put one further than it was read, or ends the transaction.      *)
MoveShift(r) ==
  /\ pc[r] = "shift"
  /\ \E do \in hand[r].todo :
       /\ do[1] \notin Locked(r)
       /\ hand' = [hand EXCEPT ![r].todo = @ \ {do}]
       /\ \/ /\ HasTask(do[1])
             /\ draft' = [draft EXCEPT ![r][do[1]] = [task[do[1]] EXCEPT !.place = do[2] + 1]]
             /\ UNCHANGED pc
          \/ /\ ~HasTask(do[1])
             /\ draft' = [draft EXCEPT ![r] = NoDraft]
             /\ Answer(r)
  /\ UNCHANGED <<shared, dept, task, changes, logged, untold, lost, clean>>

(* The activity, of the task alone and not of its neighbours, and the      *)
(* commit.                                                                 *)
MoveCommit(r) ==
  LET neighbours == Drafted(r) \ {hand[r].task}
  IN /\ pc[r] = "shift"
     /\ hand[r].todo = {}
     /\ Write(r, [t \in Tasks |-> IF t \in Drafted(r) THEN draft[r][t] ELSE task[t]])
     /\ draft' = [draft EXCEPT ![r] = NoDraft]
     /\ changes' = Plus(changes, {hand[r].task} \cup neighbours)
     /\ logged' = Plus(logged, {hand[r].task})
     /\ untold' = Plus(untold, neighbours)
     /\ Finish(r)
     /\ UNCHANGED <<shared, dept, lost>>

-----------------------------------------------------------------------------
(* PATCH /tasks/bulk-update and /bulk-update-cross-project: task by task   *)
(* an update and then its activity; what fails is only reported.           *)

(* One role of the user decides for all tasks; an employee's, for those    *)
(* that are assigned to it.  Bound: a request assigns, moves to another    *)
(* column, or moves to a department's first column.                        *)
BulkHand(r, x) ==
  /\ pc[r] = "idle"
  /\ \E T \in kSubset(BulkSize, FirstTasks), c \in Columns,
        d \in FirstDepts \cup {NoDept}, y \in Rows \cup {NoRow}, assigns \in BOOLEAN :
       /\ \A t \in T : HasTask(t)
       /\ assigns \/ c # FirstColumn => d = NoDept
       /\ IF assigns THEN c = FirstColumn ELSE y = NoRow
       /\ hand' = [hand EXCEPT ![r] = [NoHand EXCEPT
            !.dept = d, !.column = c, !.moved = assigns, !.assignee = y,
            !.todo = {<<t, 0>> : t \in {s \in T : \/ role[x].kind \in Leads
                                                  \/ task[s].assignee = x}}]]
  /\ Goto(r, "each")
  /\ UNCHANGED <<shared, board>>

(* The first asks for access to the project, the second only for a role.   *)
BulkMoveCheck(r)  == \E x \in Rows : Live(x) /\ HasAccess(role[x].user) /\ BulkHand(r, x)
BulkCrossCheck(r) == \E x \in Rows : Live(x) /\ BulkHand(r, x)

(* Mutant: an update that found no row is logged all the same.             *)
BulkUpdateBlind(r) ==
  /\ pc[r] = "each"
  /\ \E do \in hand[r].todo :
       hand' = [hand EXCEPT ![r].todo = @ \ {do}, ![r].task = do[1]]
  /\ Goto(r, "log")
  /\ UNCHANGED <<shared, board>>

BulkUpdate(r) ==
  LET h == hand[r]
      Valid(t) == /\ HasTask(t)
                  /\ (h.dept # NoDept => HasDept(h.dept))
                  /\ (h.moved => AssignableTo(h.assignee))
  IN /\ pc[r] = "each"
     /\ \E do \in h.todo :
          LET t == do[1]
          IN /\ t \notin Locked(r)
             /\ hand' = [hand EXCEPT ![r].todo = @ \ {do}, ![r].task = t]
             /\ \/ /\ Valid(t)
                   /\ Write(r, [task EXCEPT ![t].column = h.column,
                                  ![t].dept = IF h.dept = NoDept THEN @ ELSE h.dept,
                                  ![t].assignee = IF h.moved THEN h.assignee ELSE @])
                   /\ changes' = [changes EXCEPT ![t] = @ + 1]
                   /\ Goto(r, "log")
                \/ UNCHANGED <<task, clean, changes, pc>>
     /\ UNCHANGED <<shared, dept, draft, logged, untold, lost>>

BulkLog(r) ==
  LET t == hand[r].task
  IN /\ pc[r] = "log"
     /\ \/ HasTask(t) /\ logged' = [logged EXCEPT ![t] = @ + 1] /\ UNCHANGED lost
        \/ HasTask(t) /\ lost' = [lost EXCEPT ![t] = @ + 1] /\ UNCHANGED logged
        \/ ~HasTask(t) /\ UNCHANGED <<logged, lost>>
     /\ Goto(r, "each")
     /\ UNCHANGED <<shared, hand, dept, task, draft, changes, untold, clean>>

BulkAnswer(r) ==
  /\ pc[r] = "each"
  /\ hand[r].todo = {}
  /\ Finish(r)
  /\ UNCHANGED <<shared, board>>

-----------------------------------------------------------------------------
(* A failure between two calls of a handler, a deadlock that PostgreSQL    *)
(* breaks, or Prisma's limit on the length of a transaction: the           *)
(* transaction is rolled back, separate updates are not.                   *)
BoardFails(r) ==
  /\ draft' = [draft EXCEPT ![r] = NoDraft]
  /\ hand' = [hand EXCEPT ![r] = NoHand]
  /\ lost' = [t \in Tasks |-> IF pc[r] = "log" /\ t = hand[r].task /\ HasTask(t)
                              THEN lost[t] + 1 ELSE lost[t]]
  /\ UNCHANGED <<dept, task, changes, logged, untold, clean>>

(* A role that goes leaves its tasks to nobody (SetNull), ...              *)
Unassign(r) ==
  LET orphans == {t \in Tasks : /\ HasTask(t) /\ task[t].assignee \in Rows
                                /\ role'[task[t].assignee] = NoRole}
  IN /\ orphans \cap Locked(r) = {}
     /\ Write(r, [t \in Tasks |-> IF t \in orphans
                                  THEN [task[t] EXCEPT !.assignee = NoRow] ELSE task[t]])
     /\ Silently(orphans)
     /\ UNCHANGED <<hand, dept, draft, logged, lost>>

(* ... and a project that is deleted takes the whole board with it.        *)
DropBoard(r) ==
  /\ Locked(r) = {}
  /\ task' = [t \in Tasks |-> NoTask]
  /\ dept' = [d \in Depts |-> NoDept]
  /\ changes' = [t \in Tasks |-> 0]
  /\ logged' = [t \in Tasks |-> 0]
  /\ untold' = [t \in Tasks |-> 0]
  /\ lost' = [t \in Tasks |-> 0]
  /\ clean' = {}
  /\ UNCHANGED <<hand, draft>>

BoardStep(r) ==
  \/ NewDeptCheck(r) \/ NewDept(r) \/ ReorderCheck(r) \/ ReorderOne(r)
  \/ \E d \in Depts : EditDept(r, d) \/ PutDept(r, d) \/ DropDeptCheck(r, d)
  \/ DropDept(r)
  \/ NewTaskCheck(r) \/ NewTask(r) \/ EditTask(r) \/ AssignTask(r)
  \/ \E t \in Tasks : \/ EditTaskCheck(r, t) \/ AssignCheck(r, t) \/ DeleteTask(r, t)
                      \/ MoveCheck(r, t)
  \/ MoveTask(r) \/ MoveRead(r) \/ MoveShift(r) \/ MoveCommit(r)
  \/ BulkMoveCheck(r) \/ BulkCrossCheck(r) \/ BulkUpdate(r) \/ BulkLog(r) \/ BulkAnswer(r)

-----------------------------------------------------------------------------
BoardTypeOK ==
  /\ dept \in [Depts -> Nat \cup {NoDept}]
  /\ task \in [Tasks -> TaskRows \cup {NoTask}]
  /\ draft \in [Requests -> [Tasks -> TaskRows \cup {NoTask}]]
  /\ changes \in [Tasks -> Nat] /\ logged \in [Tasks -> Nat]
  /\ untold \in [Tasks -> Nat] /\ lost \in [Tasks -> Nat]
  /\ clean \subseteq Requests

(* What a task refers to exists, and so does all that an open transaction  *)
(* will write: neither the check before a deletion nor the one before an   *)
(* assignment is the last word.                                            *)
TasksAreHoused ==
  \A t \in Tasks :
    /\ HasTask(t) => HasDept(task[t].dept) /\ AssignableTo(task[t].assignee)
    /\ \A r \in Requests : t \in Drafted(r) =>
         HasTask(t) /\ HasDept(draft[r][t].dept) /\ AssignableTo(draft[r][t].assignee)

(* Every activity tells of an update that happened.  A drag and drop and a *)
(* bulk update are told but for the moment before the handler's next call, *)
(* and for good if that fails.  The others are never told, though the      *)
(* repository's README has audit logs for all task changes: edits and      *)
(* assignments over routes/tasks.ts and projects.ts, the neighbours of a   *)
(* task that is moved, and tasks whose assignee goes.                      *)
LogAccountsForChanges ==
  \A t \in Tasks :
    changes[t] = logged[t] + lost[t] + untold[t]
                 + Cardinality({r \in Requests : /\ pc[r] = "log" /\ hand[r].task = t
                                                 /\ HasTask(t)})

(* A move that nothing else disturbs puts the task at its place, leaves    *)
(* the tasks before it where they were and those behind it in their order  *)
(* and behind the task.                                                    *)
MoveKeepsOrder ==
  LET Keeps(r) ==
        LET h == hand[r]
            column == {t \in InDept(h.dept) : t # h.task /\ task[t].column = h.column}
        IN /\ task'[h.task].place = h.place
           /\ \A x \in column :
                IF task[x].place < h.place THEN task'[x] = task[x]
                ELSE /\ task'[x].place > h.place
                     /\ \A y \in column : task[x].place < task[y].place
                                          => task'[x].place < task'[y].place
  IN \A r \in clean : MoveCommit(r) => Keeps(r)

=============================================================================
