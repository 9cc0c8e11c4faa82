------------------------------ MODULE MCLoopIn ------------------------------
(***************************************************************************)
(* LoopIn for TLC: the htlc expires at height 3, the swap can be published *)
(* at heights 0 and 1, and two failures or restarts happen anywhere.     *)
(***************************************************************************)
EXTENDS LoopIn
=============================================================================
