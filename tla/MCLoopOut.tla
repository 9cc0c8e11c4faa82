------------------------------ MODULE MCLoopOut ------------------------------
(***************************************************************************)
(* LoopOut for TLC: the htlc expires at height 3, the preimage may be      *)
(* revealed up to height 1, and two failures or restarts happen anywhere.  *)
(***************************************************************************)
EXTENDS LoopOut
=============================================================================
