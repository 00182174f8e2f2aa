-------------------------- MODULE MCTestnetEngine --------------------------
(* Instances of TestnetEngine for TLC. *)
EXTENDS TestnetEngine

CONSTANTS bnb, eth

=============================================================================
