---------------------------- MODULE MCLandOffice ----------------------------
(* Three requests with one wallet: two that overlap, and one after them.   *)
EXTENDS LandOffice

(* What a handler that has answered once held makes no difference.         *)
Held(r) == IF Running(r) THEN <<arg[r], held[r], seen[r]>> ELSE <<>>
View == <<pc, wallets, landRows, imagery, [r \in Requests |-> Held(r)]>>

Symmetry == Permutations(Requests) \cup Permutations(People)
=============================================================================
