---------------------------- MODULE MCGumballMint ----------------------------
(***************************************************************************)
(* Small instances of GumballMint for TLC.                                 *)
(***************************************************************************)
EXTENDS GumballMint, TLC

\* A rising curve whose sums are not multiples of the batch size.
MCPrice == [n \in 0..MAX_SUPPLY |-> 10 + 3 * n]

\* One step of rarity with 2 burns.
MCBurnsTwo == [n \in 0..(RARITY_LEGENDARY - 1) |-> 2]

=============================================================================
