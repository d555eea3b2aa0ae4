----------------------------- MODULE MCServices ------------------------------
(***************************************************************************)
(* The services beside the program, for TLC.  They share no state, so each *)
(* behaviour loads one of them and leaves the others at rest: the run      *)
(* explores the sum of their states and not the product.                   *)
(***************************************************************************)
EXTENDS Faucet, MetadataApi, Leaderboard, PriceHistory, TLC

VARIABLE busy    \* the service that this behaviour loads

MCVars == <<busy, faucetVars, metadataVars, leaderboardVars, priceVars>>

MCInit ==
    /\ busy \in {"faucet", "metadata", "leaderboard", "prices"}
    /\ FaucetInit
    /\ MetadataInit
    /\ LeaderboardInit
    /\ PriceInit

MCFaucet ==
    /\ busy = "faucet"
    /\ FaucetNext
    /\ UNCHANGED <<busy, metadataVars, leaderboardVars, priceVars>>

MCMetadata ==
    /\ busy = "metadata"
    /\ MetadataNext
    /\ UNCHANGED <<busy, faucetVars, leaderboardVars, priceVars>>

MCLeaderboard ==
    /\ busy = "leaderboard"
    /\ LeaderboardNext
    /\ UNCHANGED <<busy, faucetVars, metadataVars, priceVars>>

MCPrices ==
    /\ busy = "prices"
    /\ PriceNext
    /\ UNCHANGED <<busy, faucetVars, metadataVars, leaderboardVars>>

MCNext == MCFaucet \/ MCMetadata \/ MCLeaderboard \/ MCPrices

MCSpec == MCInit /\ [][MCNext]_MCVars

\* The state of every service is well formed, and the faucet's file catches up
\* with its maps.
ServicesInvariant ==
    /\ FaucetInvariant
    /\ MetadataTypeOK
    /\ LeaderboardTypeOK
    /\ PriceTypeOK

\* Requests and wallets of the faucet are alike.
MCSymmetry == Permutations(Reqs) \cup Permutations(Wallets)

=============================================================================
