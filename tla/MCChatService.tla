--------------------------- MODULE MCChatService ---------------------------
(* One user has an account, the other has not but comes with a token of    *)
(* NextAuth.                                                               *)
EXTENDS ChatService

CONSTANT Known

(* What a handler that has answered once held makes no difference.         *)
Held(r) == IF Running(r) THEN <<session[r], draft[r]>> ELSE <<>>
View == <<pc, gates, chat, [r \in Requests |-> Held(r)]>>

Symmetry == Permutations(Requests)

MCInit == /\ Init
          /\ accounts = Known
          /\ {t \in Tokens : token[t] = "good"} = (Users \ Known) \X {"nextauth"}
MCSpec == MCInit /\ [][Next]_vars
=============================================================================
