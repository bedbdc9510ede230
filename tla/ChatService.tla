---------------------------- MODULE ChatService ----------------------------
(***************************************************************************)
(* Authentication and the chat behind it: every chat request passes the    *)
(* one to reach the other.  A handler may fail at any call to a database,  *)
(* and the process, which Redis and PostgreSQL outlive, may restart.       *)
(***************************************************************************)
EXTENDS ChatStore, TLC

vars == <<pc, session, gates, draft, chat>>

Init == /\ pc = [r \in Requests |-> "idle"]
        /\ InitSessions /\ InitChat

Next ==
  \/ \E r \in Requests :
       \/ SessionStep(r) /\ UNCHANGED <<draft, chat>>
       \/ ChatStep(r)
       \/ /\ Running(r) /\ Answer(r)
          /\ ChatFails({r}) /\ UNCHANGED <<session, gates>>
  \/ Clock /\ UNCHANGED <<draft, chat>>
  \/ KeyExpires
  \/ Restart /\ ChatFails(Requests)

Spec == Init /\ [][Next]_vars

-----------------------------------------------------------------------------
TypeOK == SessionTypeOK /\ ChatTypeOK
=============================================================================
