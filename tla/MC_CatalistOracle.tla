------------------------- MODULE MC_CatalistOracle -------------------------
(***************************************************************************)
(* Model-checking instance of CatalistOracle: two operators, o1 owning     *)
(* validators 0 and 1 and o2 owning validator 2; validator 1 activates one *)
(* epoch after the others.  Two slots per epoch, a delinquent timeout of   *)
(* one epoch and a delayed timeout of two, over the first seven slots, so  *)
(* that a validator can be requested, become stuck, become delayed and     *)
(* exit within the bound, and o1's lower validator can exit on its own     *)
(* before the ejector reaches it.                                          *)
(***************************************************************************)
EXTENDS CatalistOracle, TLC

CONSTANTS o1, o2

MC_Operators == {o1, o2}
MC_Owner == (0 :> o1 @@ 1 :> o1 @@ 2 :> o2)
MC_ActivationEpoch == (0 :> 0 @@ 1 :> 1 @@ 2 :> 0)
\* For the liveness run: both validators belong to o1, o2 has none.
MC_OwnerOneOperator == (0 :> o1 @@ 1 :> o1)
MC_ActivationEpochTwo == (0 :> 0 @@ 1 :> 1)
=============================================================================
