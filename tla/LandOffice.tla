----------------------------- MODULE LandOffice -----------------------------
(***************************************************************************)
(* Wallets, land requests and the pictures of their plots, together: the   *)
(* land workflow writes the user's wallet, and administrators' plots are   *)
(* what pictures are asked for.                                            *)
(***************************************************************************)
EXTENDS PlotImagery, TLC

vars == <<pc, arg, wallets, held, landRows, seen, imagery>>

Init == /\ pc = [r \in Requests |-> "idle"]
        /\ InitWallets /\ InitLand /\ InitImagery

LandRows    == <<held, landRows>>
ImageryRows == <<seen, imagery>>

Next ==
  \/ \E r \in Requests :
       \/ (WalletStep(r) \/ AssignWallet(r)) /\ UNCHANGED <<LandRows, ImageryRows>>
       \/ LandStep(r) /\ UNCHANGED ImageryRows
       \/ ImageryStep(r) /\ UNCHANGED <<arg, wallets, LandRows>>
       \/ /\ Running(r) /\ Answer(r)
          /\ WalletFails(r) /\ ImageryFails(r) /\ UNCHANGED LandRows
  \/ \E p \in DOMAIN plots : Expire(p) /\ UNCHANGED <<arg, wallets, LandRows>>

Spec == Init /\ [][Next]_vars

-----------------------------------------------------------------------------
TypeOK == WalletTypeOK /\ LandTypeOK /\ ImageryTypeOK
=============================================================================
