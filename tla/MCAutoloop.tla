---------------------------- MODULE MCAutoloop ----------------------------
(* Instances of Autoloop: two bitcoin channels, and a custom channel for every asset. *)
EXTENDS Autoloop

MCAssetOf == [c \in Channels |-> IF c = "custom" THEN "usd" ELSE "none"]
MCRule == [c \in Channels |-> IF c = "c2" THEN "in" ELSE "out"]
MCRequests == {[auto |-> TRUE, easy |-> FALSE, due |-> FALSE]}
=============================================================================
