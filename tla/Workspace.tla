------------------------------ MODULE Workspace ------------------------------
(***************************************************************************)
(* A project's team, its board and its tags together.  They share the      *)
(* project, the roles and the requests: each request is one of the team's, *)
(* the board's or the tags', and the steps of several interleave.  A role  *)
(* that goes and a project that is deleted are steps of all they concern.  *)
(***************************************************************************)
EXTENDS Membership, TaskBoard, ProjectTags

vars == <<shared, pc, arg, members, hand, board, tagging>>

Init == InitMembership /\ InitBoard /\ InitTags

BoardRows == <<hand, board>>
TeamRows  == <<arg, members>>

Next ==
  \/ \E r \in Requests :
       \/ TeamStep(r) /\ UNCHANGED <<BoardRows, tagging>>
       \/ RemoveRole(r) /\ Unassign(r) /\ UNCHANGED tagging
       \/ /\ DropProject(r)
          /\ IF project' = project THEN UNCHANGED <<BoardRows, tagging>>
             ELSE DropBoard(r) /\ DropTags
       \/ BoardStep(r) /\ UNCHANGED <<TeamRows, tagging>>
       \/ TagStep(r) /\ UNCHANGED <<TeamRows, BoardRows>>
       \/ HandlerFails(r) /\ BoardFails(r) /\ TagsFail(r)
  \/ \E i \in Invites : Lapse(i) /\ UNCHANGED <<BoardRows, tagging>>

Spec == Init /\ [][Next]_vars

-----------------------------------------------------------------------------
TypeOK == TeamTypeOK /\ BoardTypeOK /\ TagTypeOK

(* MoveKeepsOrder, of every step.                                          *)
MovesKeepOrder == [][MoveKeepsOrder]_vars
=============================================================================
