--------------------------- MODULE MCWrapRequest ---------------------------
(***************************************************************************)
(* Small instances of WrapRequest.                                         *)
(***************************************************************************)
EXTENDS WrapRequest, TLC

CONSTANTS r1, r2, s1, s2

\* Two requests whose mints differ.
OwnPayload == [r \in Req |-> r]

Symmetry == Permutations(Slot) \cup Permutations(Req)
=============================================================================
