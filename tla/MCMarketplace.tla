---------------------------- MODULE MCMarketplace ----------------------------
(* Small instances of Marketplace for TLC.                                 *)
EXTENDS Marketplace

CONSTANTS w1, w2

MCTwo == {w1, w2}
MCPrices == {80, 100}
MCDurations == {2}
MCLives == {1}

\* Sales and what led to them are explored until the treasury has taken the
\* royalty of one sale; the steps of the second one are still checked.
MCTreasuryBound == sinks.treasury <= 3

\* With the token and the stake parted, or the token put into custody by hand,
\* they are explored without offers and late transactions.
MCStrayBound ==
    strayed => \A w \in Wallets : ~offers[w].open /\ signed[w] = NoTx

=============================================================================
