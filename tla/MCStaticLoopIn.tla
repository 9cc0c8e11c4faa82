--------------------------- MODULE MCStaticLoopIn ---------------------------
(***************************************************************************)
(* Instances of StaticLoopIn for TLC.                                      *)
(***************************************************************************)
EXTENDS StaticLoopIn
=============================================================================
