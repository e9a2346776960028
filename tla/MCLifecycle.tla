---------------------------- MODULE MCLifecycle ----------------------------
(* Instances of Lifecycle for TLC. *)
EXTENDS Lifecycle

MCTx == 1..3
MCSigned == {1, 3}
=============================================================================
