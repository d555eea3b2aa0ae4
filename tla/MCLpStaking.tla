----------------------------- MODULE MCLpStaking -----------------------------
(* Small instances of LpStaking for TLC.  Tier 0 is Flexible, tier 1 locks *)
(* with the multiplier of Bronze; its penalty is raised so that a penalty  *)
(* of a few LP tokens is not rounded away.                                 *)
EXTENDS LpStaking, TLC

CONSTANTS p1, p2, lp, lp2

MCTwo == {p1, p2}
MCMints == {lp, lp2}
MCOneMint == {lp}
MCLegacies == {p1}
MCLockDays == (0 :> 0) @@ (1 :> 2)
MCMultiplier == (0 :> 100) @@ (1 :> 150)
MCPenalty == (0 :> 0) @@ (1 :> 7000)
MCAmountOne == {3}
MCDeposits == {2}

\* The mints are alike: p1 is staked with lp, p2 with either.  Less happens
\* around them once LP of the other mint is in play.
MCBound ==
    /\ positions[p1].mint # lp2
    /\ \/ lp_vault[lp2] + taken[lp2] + taken[lp] = 0
       \/ deposits + now <= 1

=============================================================================
