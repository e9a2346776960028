------------------------------ MODULE MCChain ------------------------------
(***************************************************************************)
(* A small instance of Chain: three senders, two principals, payloads that *)
(* compete for one nonce at several prices, one follow-up nonce, a legacy  *)
(* payload, and limits low enough that the queue, the candidate window,    *)
(* the block and the dropped ring all fill up.                             *)
(***************************************************************************)
EXTENDS Chain

CONSTANTS a, b, c,           \* senders
          p, q,              \* principals
          a0, a0x, a1, b0, c0

\* a0x outbids a0 for the same nonce and a1 is the next nonce; b0 is the
\* first to lose its price when the base fee rises; c0 is a legacy payload.
MCSender ==
    [t \in Tx |-> CASE t \in {a0, a0x, a1} -> a [] t = b0 -> b [] t = c0 -> c]
MCNonce == [t \in Tx |-> IF t = a1 THEN 1 ELSE 0]
MCMaxFee ==
    [t \in Tx |-> CASE t = a0 -> 18 [] t \in {a0x, a1} -> 20 [] OTHER -> 17]
MCPriorityFee ==
    [t \in Tx |-> CASE t = a0x -> 3 [] t = a1 -> 2 [] t \in {a0, b0} -> 1
                    [] t = c0 -> 0]
MCGasLimit == [t \in Tx |-> IF t = a1 THEN 1 ELSE 2]

\* Raw Ethereum transactions can be relayed by anyone; the synthetic ones
\* come from the principal their sender is derived from.
MCSubmitters ==
    [t \in Tx |-> CASE t \in {a0, a0x} -> {p, q} [] t = a1 -> {p}
                    [] t \in {b0, c0} -> {q}]
=============================================================================
