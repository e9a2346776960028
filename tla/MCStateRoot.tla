---------------------------- MODULE MCStateRoot ----------------------------
(***************************************************************************)
(* Instances of StateRoot for TLC.                                         *)
(***************************************************************************)
EXTENDS StateRoot

\* Hashes of three nibbles.  The first two addresses, and the first two slots,
\* have the first nibble in common; no two end alike, as no two hashes do.
MCAddrKey == <<<<0, 0, 1>>, <<0, 1, 2>>, <<1, 0, 3>>>>
MCSlotKey == <<<<0, 0, 1>>, <<0, 1, 2>>, <<1, 0, 3>>>>

\* No two accounts store the same value, so that no storage node is shared.
OwnValues == {<<1, 1, 1>>, <<1, 2, 1>>, <<1, 3, 1>>, <<2, 1, 2>>}
=============================================================================
