--------------------------- MODULE MCEvmExecution ---------------------------
(***************************************************************************)
(* Instances of EvmExecution for TLC.                                      *)
(***************************************************************************)
EXTENDS EvmExecution, TLC

CONSTANTS a, b

MCEther == (a :> 3) @@ (b :> 1)
MCToken == (a :> 2) @@ (b :> 1)
\* b may burn without limit, a one token only.
MCAllowance == (a :> 1) @@ (b :> Unlimited)

\* A recipient as long as the parser takes, one too long, and an asset that
\* has no token.
MCUnwrapInputs ==
    {[exact |-> TRUE, version |-> 1, asset |-> f[1], recipient |-> f[2],
      padded |-> TRUE, amount |-> 1] : f \in {<<1, 29>>, <<1, 30>>, <<2, 29>>}}

MCWithdrawInputs ==
    {[exact |-> TRUE, version |-> 1, recipient |-> 10, padded |-> TRUE,
      anonymous |-> FALSE, value |-> v] : v \in {1, 2}}

MCUpdateInputs ==
    {[exact |-> TRUE, version |-> 1, kind |-> 1, target |-> t, method |-> 64,
      ascii |-> TRUE, arg |-> 3997] : t \in {10, 29}}
=============================================================================
