---------------------------- MODULE MCNftStaking -----------------------------
(* Small instances of NftStaking for TLC: of the total weights 1, 2, 3 and *)
(* 4 the gumballs can add up to, ACC_SCALE = 4 is no multiple of 3, so     *)
(* that the accumulator, too, has something to round.                      *)
EXTENDS NftStaking, TLC

CONSTANTS n1, n2, n3

MCNfts == {n1, n2, n3}
MCWeight == (n1 :> 1) @@ (n2 :> 1) @@ (n3 :> 2)
MCDeposits == {1, 2}

\* The two gumballs of the same weight are alike.
MCSymmetry == Permutations({n1, n2})

\* States beyond two deposits and units of time together, or four of these and
\* stakes, are not explored further; nor are those beyond fewer of them while
\* the vault holds a token too many or too few, or the token of one position in
\* place of another's.  The steps that lead there are still checked.
Misplaced == Cardinality((Staked \ held) \cup (held \ Staked))
MCBudget ==
    LET events == count.deposits + now
    IN  \/ Misplaced = 0 /\ events <= 2 /\ count.joins + events <= 4
        \/ Misplaced = 1 /\ count.joins + events <= 1
        \/ Misplaced = 2 /\ events <= 1 /\ count.joins + events <= 3

=============================================================================
