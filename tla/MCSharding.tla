----------------------------- MODULE MCSharding -----------------------------
(* Sharding as TLC explores it; the bounds are in the cfg. *)
EXTENDS Sharding
=============================================================================
