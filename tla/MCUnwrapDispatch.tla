-------------------------- MODULE MCUnwrapDispatch --------------------------
(***************************************************************************)
(* A small instance of UnwrapDispatch: one request for a ledger token and  *)
(* one native withdrawal, whose ledger may change its fee between two      *)
(* attempts, two attempts in flight, and a clock long enough for an        *)
(* attempt to go stale and for the ledger to forget it.                    *)
(***************************************************************************)
EXTENDS UnwrapDispatch, TLC

CONSTANTS r1, n1, s1, s2

Symmetry == Permutations(Slot)
=============================================================================
