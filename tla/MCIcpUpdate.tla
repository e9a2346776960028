---------------------------- MODULE MCIcpUpdate ----------------------------
(***************************************************************************)
(* Instances of IcpUpdateDispatch for TLC.                                 *)
(***************************************************************************)
EXTENDS IcpUpdateDispatch

CONSTANT m1

\* All requests ask for one method, which is allowed and disallowed at will.
MCMethodOf == [r \in Req |-> m1]
=============================================================================
