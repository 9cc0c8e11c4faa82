----------------------------- MODULE MCResume -----------------------------
(* The resume manager with two notifications. *)
EXTENDS Resume
=============================================================================
