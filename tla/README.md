# TLA+ models of the Gumball Machine

Specifications, model-checking configurations and proofs for the Gumball
Machine: the on-chain program `programs/gumball_nft/src/lib.rs`, the oracle
process, the server with its feeds, caches and faucet, the monitor, and the
scripts that set the system up and keep it in order. Paths below are relative
to the repository; `lib.rs:N` is a line of the program.

Each definition that stands for code carries the name the code gives it where
TLA+ allows, and `PROJECT.json` maps it to its lines, lists the runs, the
mutants that show each property can fail, the hazards, the findings and the
theorems.

    tlasany EventFeed.tla                               parse
    tlc -workers 2 -config MCEventFeed.cfg MCEventFeed  model-check
    tlapm OpsProofs.tla                                 prove

## 1. The system

| part | source | state | operations |
|---|---|---|---|
| Mint machine | lib.rs:225-873 | `Machine` (oracle key, active flag, `total_minted`, `total_burned`), `OracleCommit`, `MintRequest`, `GumballData` | `submit_commitment`, `request_mint`, `reveal_and_mint`, `refund_mint`, `burn_to_upgrade`, `burn_multi`, admin setters |
| NFT staking | lib.rs:1512-1749, 2240-2435 | `StakeConfig`, `StakeAccount`, `XntFeeState`, `XntPool`, `XntDebt` | `stake`, `claim`, `unstake`, `claim_xnt_fees_nft`, `sweep_xnt_pool_nft` |
| LP staking | lib.rs:1755-2147, 2268-2319 | the LP halves of the same accounts, `LpStakeAccount` | `stake_lp`, `claim_lp`, `unstake_lp`, `claim_xnt_fees_lp`, sweep |
| Marketplace | lib.rs:1005-1502 | `Listing`, `Offer`, `Auction`, the escrow token account, `GumballData.owner` | list, delist, buy, make/cancel/accept offer, create/bid/settle auction, `update_owner` |
| Seasons, metadata, authority, version-1 stakes | lib.rs:879-1000, 2149-2238 | `SeasonConfig`, metadata accounts, `Machine.authority`, the version-1 vault | one instruction each |
| Price curve, traits, artwork | lib.rs:2494-2700 | none | pure functions |
| Oracle | scripts/oracle.cjs | secrets file, `knownSecrets`, `fulfilled`, `activeCommit`; `rpcIdx`, `errStreak`, the heartbeat file | commit, save, poll, reveal, recover, change the endpoint |
| Announcer, indexer | scripts/announcer.cjs, server.cjs:209-262 | `lastSig`, the event log, a state file | poll, publish, save |
| Faucet | server.cjs:100-207 | `faucetCooldowns`, `faucetIpLog`, `faucet-state.json` | one HTTP handler, a debounced save, an hourly clean-up |
| Metadata, leaderboard, prices | server.cjs:264-460, server-security.cjs:70-108 | three caches and the memo of misses | HTTP handlers and intervals that read the chain |
| Supervision | server.cjs:20-60, 478-534 | `oracleProcess`, `monitorProcess`, restart timers | fork, exit, SIGTERM, `/health` |
| Monitor | scripts/monitor.cjs | last status, alert flags, `lastUpdateId` | checks, Telegram commands |
| Set-up scripts | create-gum-token, initialize, init-staking, init-xnt-fees, create-pool, withdraw-pool | the wallet's files and accounts | run by hand, once or again |
| Upkeep scripts | attach-metadata, sweep-xnt-pool, recover-legacy-stake, set-season | none | run by hand |
| Pages | public/ | none of their own | build and send the transactions above |

How they interact. The program's instructions are atomic transactions; what
interleaves is the order in which the validator runs transactions of different
signers. The oracle, the pages and the scripts act on the program by sending
transactions that may fail, land late, or land after their sender gave up. The
mint, the burns and the marketplace pay lamports into the two XNT pools
*without* telling the staking streams, which find the money later in the pool's
balance. The node programs are single-threaded: every `await` is a point where
the world moves, `setInterval` starts a second run before the first has ended,
and a file may be torn by a crash. The server forks the oracle and the monitor;
the monitor sees the oracle through pm2's status, the heartbeat file and the
requests on the chain.

What is hard, and what must hold:

* **Mint.** One shared serial counter and one price curve for requests that are
  opened, revealed gumball by gumball, timed out and refunded in any order;
  refund races reveal; a commitment must never serve twice because its secret
  is public after the first reveal. A request must always hold what it still
  owes, and be resolved whatever the admin does.
* **Staking.** Two accumulators with integer division, balances observed late,
  debts created late for older positions, a pool that may be short, a sweep by
  the admin. Shares must follow the weights at the time of each deposit, nobody
  may be paid for a time before the stake, nothing owed may be forgotten.
* **LP staking.** Partial withdrawals round weights and take snapshots again; a
  full withdrawal pays lamports by hand before a CPI. A holder must get out.
* **Marketplace.** Listings and auctions share one escrow account; the owner on
  record goes stale on a plain transfer; signed transactions land against
  another listing or offer than the one displayed.
* **Oracle.** The commitment lands before its secret is saved; a transaction
  "fails" for the process and lands anyway; a crash anywhere; an endpoint that
  is down; secrets saved under a key the process no longer has.
* **Feeds.** Polls overlap, fail half way, and restart from an older mark.
* **Faucet and caches.** What is checked before an `await` is recorded after it;
  two accounts are read at two moments; entries outlive what they describe;
  writes overtake each other; a restart reads an older file.
* **Supervision and monitor.** Children outlive a server, timers outlive a
  SIGTERM, runs overlap and share the last status; an operator must be told.
* **Scripts.** They are run again after a failure, some with two threads, and
  must not fund twice, drain what is owed, or open nothing.

## 2. The modules

| module | what it is | proofs |
|---|---|---|
| `MintEscrow` | abstract promise of the mint: a price is held for a number of units, each unit is delivered or the money returned | |
| `GumballMint` | the commit-reveal mint, implements `MintEscrow` | `GumballMintProofs` |
| `PriceCurve` | `get_mint_price` as a function | `ArithmeticProofs` |
| `StakingMath` | arithmetic of both streams, settlement and sweep | `ArithmeticProofs` |
| `FiniteSums` | totals over a set of accounts | `ArithmeticProofs` |
| `NftStaking` | the NFT stream, extends `StakingMath` | `NftStakingProofs` |
| `LpStaking` | the LP stream, extends `StakingMath` | `LpStakingProofs` |
| `Marketplace` | custody and payment for one gumball | `MarketplaceProofs` |
| `Oracle` | the oracle process against the mint it sees | `OracleProofs` |
| `Faucet`, `MetadataApi`, `Leaderboard`, `PriceHistory` | the services of the server | `ServicesProofs` |
| `EventFeed` | announcer and indexer, chosen in the initial state | `OpsProofs` |
| `OracleLoop`, `SecretStore` | the oracle's endpoints and heartbeat; its encrypted file | `OpsProofs` |
| `Supervision` | servers and their children | `OpsProofs` |
| `Monitor`, `Commands` | the monitor's checks, its Telegram commands | `OpsProofs` |
| `Deploy`, `Upkeep` | the scripts | `OpsProofs` |

The `MC*` modules give the constants small values. `MCServices` and `MCOps`
also put modules side by side that share no state: each of their behaviours
loads one (variable `busy`) and leaves the others at rest, so that one run
explores the sum of their states and not the product.

### GumballMint

One action per instruction; `require!`s and account constraints are guards.
`machine`, `commits`, `requests`, `gumballs` are the accounts; `revenue` is what
treasury and pools received; `ledger` is history (what was paid, forwarded,
refunded and minted per request). A request that does not exist is `"none"`, one
whose account was closed is `"closed"`: the program cannot tell them apart, so
`Absent` covers both, and `ClosedStaysClosed` is a theorem rather than a guard.
Time is the age of each request up to the first age past `MINT_TIMEOUT`; the
program reads the clock only to compare that age. The expiry branch of
`reveal_and_mint` (which refunds) is `RevealExpired`. Both burns share the
action `Upgrade` (clear the owners, append a gumball, pay the fee).

### PriceCurve

`TABLE` holds the eleven points of the source; `interp` is the integer
interpolation between two of them and `get_mint_price` its clamp at the supply.
`GumballMint` takes any positive prices; `ArithmeticProofs` says that the real
ones are.

### NftStaking and LpStaking

`StakingMath` has `update_nft_accumulator`'s emission, `update_xnt_accumulator`,
`advance_xnt_for_stake`, `settle_xnt_fees`: operators that take the accounts a
helper borrows and return what it leaves in them. The instructions are actions
that call them in the source's order. `Deposit` is the lamports that mints,
burns and sales put into a pool. History variables record, independently of the
accumulators, what every position should have got (`fair` splits each deposit by
the weights at the moment it arrives, `rounded` counts what the accumulator may
cut off) and what it was paid. NFT positions may
start as *legacy* (staked before the fee stream, no `XntDebt`), or with the debt
account of an earlier stake; LP positions may start as legacy (`Legacies`).
`unstake(n, m)` has two gumballs, because the program has: the weight comes from
the stake account, which is found by its own `nft_mint`, while token, vault
account and `XntDebt` come from the `nft_mint` that is passed (lib.rs:3476-3519),
and nothing compares the two. `held` is which tokens are in the vault;
`MoveToken` is every way in and out of it besides `stake` and `unstake`. In the
same way `unstake_lp` pays from the vault of whichever LP mint it is given
(lib.rs:3623), so that `LpStaking` has a vault per mint, a position remembers
the mint it was staked with (lib.rs:1818), and `taken` counts what a vault paid
for positions of another mint.
`BalancedBeforeCpi` is the runtime's rule that an instruction may not have moved
lamports by hand before a CPI; it is the one `accept_offer` explains at
lib.rs:1230.

### Marketplace

All accounts derive from a gumball's mint, so one gumball is modelled with all
wallets. Buys and accepts are signed against the price a page displays
(`SignBuy`, `SignAccept`: public/marketplace.html) and land later, against
whatever stands at that address then (`Land`), or never (`Drop`). The time left
of an auction is 0 from its end on; that of an offer is -1 after its end,
because an offer may be accepted at the very second it expires while a bid needs
time left. A token may be sent to the escrow's or the vault's account by hand,
and `unstake` may close this gumball's stake, take its token, or both (see
above); `strayed` is history: that the token was sent there, or parted from its
stake. Reroll changes traits and owner record only and appears as
`update_owner`.

### Oracle, OracleLoop and SecretStore

In `Oracle`, `pc` walks through startup and main loop; each `await` ends an
action. A transaction the process waits for is `sent`; it lands, fails, or is
given up by the process and lands later (`late`, `lateNew`, `SettleLate`). The
secrets file is rewritten in place: a crash or a failed write may tear it, and a
torn file reads as empty, as `loadSecrets` and `saveSecret` have it; a read that
fails is swallowed, and the file is then written with the one new secret
(`SavedBadly`). The errors are only logged, so a process may go on and know
secrets that no file holds (`HasSecret` says who can still reveal what). `Start`
is the restart by pm2 or server.cjs.

`OracleLoop` has one step per iteration of the main loop: the endpoint in use,
the streak of errors, the heartbeat. An iteration that cannot submit a
commitment waits five seconds and `continue`s, past the count of errors and past
the heartbeat (oracle.cjs:447), which is why `FindsEndpoint` speaks of a loop
that has a commitment. `SecretStore` keeps, per commitment, the key its secret
was encrypted with; the operator may start the process with any key, also one
the cipher refuses. Rotation of the machine's oracle key and a second oracle
process on the same file are left out of all three.

### EventFeed

`kind` is which of the two programs runs: they share their polling algorithm
and differ in the file (the announcer writes its mark at once and waits for
nobody; the indexer writes mark and log from a timer) and in the cut of the log.
A transaction is its position on the chain and carries one event. `setInterval`
starts polls without waiting for the one before, so a poll is a record in
`polls` with its own progress. `excused` is history: transactions the programs
give up by design (before the first start, or beyond the 50 signatures of one
answer) or that the RPC node or the channel lost.

### Faucet, MetadataApi, Leaderboard, PriceHistory

A faucet request is two steps: `Check` (cooldown, address limit, and the list of
hits it has read) and `Paid` or `Fails` after the awaits. The code's list of hits
is a list of times; the model's `ipLog` is the set of the payments that these
times stand for (the clean-up and the check look at each one's time, and the
code never depends on their order), so that a hit that an overlapping request
wrote over can be told from one that a restart did not find. `writes` holds the
`writeFile` calls under way; they end in any order, and one that ends late
overwrites a newer one (`stale`). `RestartServer` reads whatever the file then
holds, or nothing if it was torn.

In `MetadataApi` a gumball is its version; `ReadTraits` and `ReadArtwork` are
the two halves of the `Promise.all` and may see two versions. The memo of
misses of server-security.cjs and the cap that empties the cache are part of it.
`Leaderboard` reads gumballs and machine at two moments per run; runs overlap.
`PriceHistory` counts its points; the file is written when the length is a
multiple of `SAVE_EVERY`; the cap is such a multiple, so that a full history is
written every time. A write is in place: one that fails, in silence, leaves the
file as it was or emptied, and so does a stop in the middle of one. The faucet's
`writeFile` is treated alike (`WriteEnds`).

### Supervision, Monitor, Commands

`children[s][c]` is what server `s` knows and owns of child `c`: whether its
reference is set, how many processes run, how many restart timers are due, how
many forks emitted only `error`. A server that ends leaves its live children
behind. `Monitor` has overlapping runs of `runChecks`; the status may be old
when it is compared; of the requests only the last minute counts. The heartbeat
file is fresh, stale or unreadable (missing at first, torn, or emptied by a
failed write): the monitor passes over an unreadable one in silence
(monitor.cjs:342). `Commands` is
the Telegram side: messages stay with Telegram until a poll asks for a later
one, a handler may throw in the middle of a batch, a restart forgets the mark.

### Deploy and Upkeep

A script of `Deploy` is a record with a program counter that reads the chain,
decides, sends one transaction and waits; the wait may be given up and the
transaction land later. initialize.cjs defines `main` twice and calls it twice,
so that its second definition runs in two threads; the transactions of the two
may be the same byte for byte (`ConfirmedAsTwin`). The token programs, XDEX and
the machine's own instructions are `Lands`, one operator per instruction; what
they change is one variable per account or vault (`machine`, `wallet`, `mints`,
`nftVault`, `pools`, `wsol`, ...). A transaction that creates an account is
refused when the account is there already, by the system program if not by the
program called.
`Upkeep` has the shape three scripts share (list, then one transaction per item
that needs it, counting what failed), the instructions they send, and what
others do meanwhile.

## 3. The runs

All pass except those marked *violated*, which refute something the repository
says (section 6).

| run | module | shows |
|---|---|---|
| `mint` | `MCGumballMint` | the inductive invariant (escrow exact, lamports accounted, serials, commitments), fair refunds, an outcome that is final (mint xor refund, a closed request stays closed), no admission past the cap, `MintEscrow` implemented, every request resolved |
| `hard_cap` | `MCGumballMint` | *violated*: open requests together pass `max_supply` |
| `nft` | `MCNftStaking` | from the moment a position has its `XntDebt`, its shares follow the weights at deposit time within one lamport and what the accumulator cut off; the pool keeps its rent; it is short only by rounding and by what stake accounts were paid on the debts of other gumballs; nothing owed is forgotten while the token stays in the vault; GUM only for time staked |
| `lp` | `MCLpStaking` | the weight total covers the positions, and the vault of each LP mint those of its mint up to what was paid from it for others; only later fees are earned, none lost, through partial and early withdrawals and for positions older than the fee stream; a holder who claims and withdraws gets out, unless LP of the same mint was paid for a position of another |
| `lp_exit` | `MCLpStaking` | *violated*: a holder who only withdraws is refused for ever |
| `market` | `MCMarketplace` | no sale is without its token, and custody is exact until the token is put there by hand or an unstake names two gumballs; lamports conserved, nobody pays without the gumball, sellers paid, agreed prices hold, auctions settle |
| `oracle` | `MCOracle` | seen secrets belong to used commitments; nothing pending counts as done; the file loses secrets only to a save that fails or is cut short, and a living process forgets none; requests whose secret the process has are served |
| `oracle_restart`, `oracle_stall` | `MCOracle` | *violated*: a commitment without its secret; minting that stops until a restart |
| `feed` | `MCEventFeed` | the mark skips nothing; each repetition has a crash, an error or an overlap of its own; every event gets out |
| `services` | `MCServices` | the faucet's limits, exactly as far as requests overlap and restarts forget; honest metadata; a leaderboard that adds up; a price history whose file lacks fewer than `SAVE_EVERY` of the newest points per failed write, unless such a write emptied it |
| `ops` | `MCOps` | every command is taken up and repeated only with a reason; an expiring request is announced once; a stop is reported; scripts can be run again; children are kept; the oracle leaves a dead endpoint; no secret is lost to a key |

### Bounds, and why they are enough

* `mint`: two minters, two oracle keys with a slot each, three serials, batches
  of up to two. Two requests interleave; a batch is refunded half way; the price
  curve rises by 3 so that the price of a batch is odd and its share rounds; the
  cap is reached by a reveal and by a burn; the key is rotated while a request
  is open. One rarity step with two burns exercises both burns.
* `nft`: weights 1, 1 and 2 (a symmetric pair and one that differs), deposits of
  1 and 2 lamports, three stakes, so that a gumball can leave and return. Of the
  total weights 1 to 4 that can occur, `ACC_SCALE` (4) is no multiple of 3, so
  that the accumulator's own rounding happens besides that to whole lamports;
  `UNIT` (12) is a multiple of all of them, so that the history can count every
  share exactly. The constraint `MCBudget` stops after two deposits and units of
  time together, and earlier while the vault holds a token too many or too few
  or the token of one position in place of another's (`Misplaced`); the steps
  that lead there, and an unstake by one gumball of another, are explored in
  every state within the budget. The run has safety properties only, so that
  cutting behaviours hides no cycle.
* `lp`: two positions of 3 LP tokens, one of which may be a legacy position, two
  LP mints (the mints are alike, so `MCBound` fixes that of the first position), a
  flexible and a locked tier with multiplier 1.5 (weights round at every partial
  withdrawal), deposits of 2 lamports, up to two deposits and units of time
  together (`MAX_BUDGET`, a bound in the guards and no constraint, so that the
  liveness property sees complete behaviours; `MCBound` leaves one of them once
  LP of the second mint is in play, so there `HolderGetsOut` is checked only as
  far as that), a raised penalty (so that it is
  not rounded away), and a vault of 5 GUM, of which one unit of time emits less
  than a whole.
* `market`: two wallets, two prices, a balance that pays one sale with its rents
  and not two, auctions of two units of time with a snipe window of two, so that
  every late bid extends them. The constraint stops exploring once a royalty was
  taken; the steps of a second sale are still checked. It is sound for
  `AuctionSettles`: the treasury does not change while an auction is open, and
  the step that takes it out of bounds is its settlement, so no behaviour that
  keeps an auction open is cut. Once the token has strayed, `MCStrayBound`
  leaves offers and signed transactions out; the auctions of such a token are
  explored to their end, since none of these is needed to bid or settle.
* `oracle`: four commitments, two requests of up to two gumballs, one fault
  (crash, RPC error, late transaction, failed or torn write, failed read)
  anywhere. `feed`: two polls, one overlap, three transactions with answers of
  two and a log of three, two faults. `oracle_stall` needs no fault.
* `services`: three requests of two wallets behind one address with a limit of
  two per period, a cooldown of one, one restart and two writes at once: all
  three can overlap at their awaits, a second period begins, and an older write
  can end last (requests and wallets are symmetric). Two metadata handlers, one
  good key and one that is no mint, a cache that is over its cap with one entry,
  reads of at most one unit of time around a memo of one. Two leaderboard
  refreshes around mints and burns of two. A price history of four points, saved
  every two, and twelve records: it fills up and goes round, with two faults.
* `ops`: two runs of checks, a timeout of 3 with a window of 2 looked at every
  unit of time; two command polls, four messages of every kind in an order in
  which a query throws between two commands, one restart, two overlaps; six
  launches of scripts in any order with one fault and a GUM_MINT that may be the
  wrong one; three servers; three endpoints with a streak of three and four
  faults; three commitments under two keys, none and a malformed one over three
  starts; two gumballs, a mint that is none, a version-1 stake, both streams and
  three runs of the upkeep scripts with one fault and two moves of others.

`CHECK_DEADLOCK FALSE` stands where a bound (time, deposits, transactions, or
all gumballs sold) ends the behaviours, or where nobody has to act.

### Fairness

* `mint`: time passes and a timed-out request is refunded: `refund_mint` is the
  minter's interest and anyone may send it (lib.rs:2714 asks for no signature).
  The oracle owes nothing.
* `lp`: the holder keeps asking for the fees and for the exit
  (`ClaimAndExitSpec`). `lp_exit`: only for the exit. Nobody else owes anything.
* `market`: time passes and somebody settles an auction that is over;
  `settle_auction` is open to everybody. Nobody has to bid.
* `oracle`: the process is restarted and scheduled, and the transaction it waits
  for ends one way or the other (`confirmTransaction` times out). Nobody has to
  mint or refund.
* `feed`: the interval fires and RPC calls are answered or throw; saves may
  fail, and nothing forces a write to end.
* `ops`: the monitor's interval fires and what a run awaits comes back (each of
  its calls to pm2 and to the RPC node is answered or fails); a heartbeat that a
  process without a loop left grows old (`HeartbeatAges`); the loop of an oracle
  that is not wedged goes on. Commands, scripts, servers and secrets have safety
  properties only.

## 4. Proofs

Checked by tlapm for all values of the constants that satisfy the named
assumptions of the modules. Every safety property of a passing run is stated by
a theorem; liveness stays with TLC (see the end of this section).

**ArithmeticProofs.** Three groups of lemmas and the two theorems of the price
curve. Products and quotients: the bounds of `\div` that z3 does not find by
itself. `PriceInBounds`: every price lies between `BASE_PRICE` and `MAX_PRICE`,
so that `PriceAssumption` of `GumballMint` holds of it. `PriceNeverFalls`: it
does not fall from any number of gumballs to a greater one; inside a bucket the
remainder grows, across buckets the interpolation of the earlier one stays
below its upper point. Sums: `SumOver` is a fold, and the fold is a function
that the module chooses; `SolvesExists` and `SolvesOnce` show that there is
exactly one such function on the subsets of a finite set. Both argue by a
smallest counterexample (`SmallestSubset`, from the well-foundedness of strict
inclusion) in the place of an induction. The other lemmas about sums
(`SumIsNat`, `SumMonotone`, `SumChange` for one changed account, `SumJoins`,
`SumLeaves`, `SumOfShares`) follow from them. Streams: what
`update_xnt_accumulator` and `settle_xnt_fees` leave (`FeeUpdate`,
`Settlement`: a payment is covered by what the pool holds above its rent), what
a snapshot rounds away (`EntitledBounds`), what GUM was emitted and paid
(`GumBroughtUp`, `GumPaid`).

**GumballMintProofs** (any wallets, keys, slots, supply, batch size, timeout,
rent, positive prices and burn counts). `MintInvariant` is inductive and gives
`Safety`. What a request holds cannot be kept inductively alone: `EscrowExact`
ties the lamports of a pending request to its remaining quantity through the
shares already taken, `LedgerExact` ties history to the account so that a
refund's amount is known after the account is gone, and `UsedCommits` is the
reason why a closed request cannot come back. From it: `OneRequestPerCommitment`,
`MoneyConserved`, `SerialsSound`, `RefundIsFair` (lemmas about `\div`:
`SharesLeaveEnough`), the action properties `OutcomeFinal` (from
`ClosedForGood` and `MintXorRefund`) and `CapCloses`, and `Refinement`: every
step of the mint is a `Pay`, `Deliver` or `Return` of one deal of `MintEscrow`,
or a stutter.

**NftStakingProofs** (any finite set of gumballs, any weights, scale, emission
rate, deposits and bounds). `NftInv` (well-formed accounts, the pool keeps its
rent, the total weight is the sum of the staked weights) is inductive alone and
gives `NftStakingInvariant`. The other four theorems need more:

* `SharesInv` adds that the shares of all positions together (weight times
  accumulator less debt, in fractions of a lamport) are in the pool, apart from
  one lamport per snapshot taken and what was paid on the debts of other
  gumballs (`SharesCoveredAt`; `SharesUnstakeOther` is the step that may raise
  the latter). A snapshot stores
  a rounded quotient, so a later claim may be up to a lamport more than was set
  aside; without counting snapshots nothing of this kind is inductive. It gives
  `NftPoolIsSolvent` and `NftXntNeverForgotten`.
* `FairInv` adds the other side, position by position: what one was credited
  with, together with its part of the lamports the stream has not seen yet, is
  what its deposits were worth to it (`FairWith`). A snapshot leaves less than
  one lamport over. Each deposit that the total weight does not divide may cost
  a position up to `weight / ACC_SCALE` of a lamport in the accumulator; these
  parts add up over the deposits, the history counts them (`rounded`, `CutOff`),
  and deposits that the stream finds together lose no more than they would
  one by one (`DepositShared`). With the source's scale of 10^12 it takes at least
  10^12 / weight such deposits to lose a lamport. So `NftSharesAreFair` says
  *never a lamport more than the share, and less than a lamport less but for
  what was cut off*; without the second part TLC finds a counterexample. A
  position without a debt account, which includes one whose debt account was
  closed by the unstake of another gumball, has got nothing since
  (`IdleGotNothing`), so that its next claim can start the count.
* `GumInv` adds per gumball that what the vault has emitted while it was staked
  covers what it was paid and has pending (`GumCovered`): `NftGumOnlyWhileStaked`.

**LpStakingProofs** (any finite set of positions, any amounts, tiers,
multipliers and penalties). A total weight that is rounded per position is no
sum of the amounts any more after a partial withdrawal; `LpInv` says of every
open position what it weighs (`PositionsWeighed`), that the total weight covers
the sum of these, and for each LP mint that its vault, with what it paid for
positions of others, covers its positions (`VaultCovers`). `XntInv` adds what a
position was credited with (`Credited`: weight times accumulator, together with
what it was paid and what the pool has not accounted for yet, stays below debt
and deposits of its time by less than one lamport) and that nothing was paid
before a position opened. From it follow `LpEarnsOnlyAfterStaking` and
`LpXntNeverForgotten`, the second step by step (`KeepsItsDue`). `GumInv` adds
`GumCovered` as above for `LpEarnsOnlyWhileOpen`.

**MarketplaceProofs** (any finite set of wallets, any prices, durations, fees
and rents). `CustodySafe`: `MarketInvariant` holds. The invariant is
strengthened to `MarketInv` by what an auction and an offer hold in lamports
(`AuctionFunded`, `OffersFunded`) and by who may have signed (`BuyersKnown`):
without the first two no balance can be shown not to go negative. The
properties of single sales compare a wallet's worth (its balance with the rents
and bids it gets back) before and after a step. The lemmas named `...Moves`
show that every step is either no sale, and then nobody's worth moves, or a
sale, and then the seller gains `SellerAmount`, the buyer loses the price and
holds the token. An account that is closed holds nothing (`ClosedOffersEmpty`,
`ClosedAuctionEmpty`), or a new offer would create money. From this follow
`NobodyPaysForNothing`, `SellersArePaid` and `PricesHold`. `MoneyConserved` adds
that the worths of all wallets and the sinks add up to what there was
(`TotalKept`), by the lemmas about a sum of which one or two members change.

**OracleProofs** (any number of commitments, requests and faults).
`SecretInvariant` says that what the process works on belongs to a used
commitment and that a commitment is absent as long as its creation is under way,
so that it lands once; `SecretsStaySecret` alone is not inductive because a late
transaction could otherwise recreate a commitment. The type part and the rest
(`SecretCore`) are proved apart; `OracleSafe` joins the two. `DoneIsDone` and
`FileGrows` follow along the same steps; the latter also needs that a process
that is down knows nothing (`DownKnowsNothing`).

**ServicesProofs** (any number of requests, wallets, addresses, keys, handlers
and refreshes, any limits and periods). One invariant per service:

* faucet, `FaucetInv`: the maps in memory, the file and every write under way
  *cover* the payments they stand for (`Covers`): a payment that still counts is
  in them, unless an overlapping request wrote over it. A request that passed
  the check saw all that (`PassedCheck`). The file agrees with memory whenever
  no save is due and the last write was good (`SaveIsDue`).
* metadata, `MetadataInv`: a read is of the present version unless the gumball
  was written during it; a memo of a miss is at most as long as its life and one
  read older than the mint.
* leaderboard, `LeaderboardInv`: both answers of a run are off by no more than
  what moved since it began.
* prices, `PriceInv`: the points that the file lacks are at most `SAVE_EVERY` for
  each failed write plus the length modulo `SAVE_EVERY`, unless a failed write
  has emptied it.

`ServicesStayWellFormed` joins them for whichever service is loaded.

**OpsProofs** (any number of polls, checks, messages, servers, children, keys,
endpoints, scripts' launches and faults).

* `FeedSafety`, `NothingSkipped`: `FeedInvariant` adds to `MarkSkipsNothing`
  the same for every state a restart may read and for the progress of every
  poll: the mark only ever comes from one of these. All steps but the cut of the
  log and a restart let the set of settled events grow; the cut leaves the log
  full.
* `FeedRepeatsForAReason` and `CommandsAreServed` count repetitions. What is
  inductive is a potential: times out so far, plus how often an event may still
  come out without another fault (`ToCome`: the polls that may publish it or
  move the mark back before it; one if there is none and the mark is before
  it), is at most one and one for each fault, restart or overlap. The same with
  `ToTake` for commands, with `TakenBeforeMarks` for those that Telegram drops.
* `MonitorAnnounces`: a request announced is remembered or past its time
  (`Spent`), and looks come closer together than the window they look through.
* `ChildrenAreKept`: per server and child, live processes, due timers and failed
  forks add up to one, and only a server that ended leaves a process behind.
* `LoopChangesInTime`, `SecretsAreKept`: the invariants of the runs are nearly
  inductive; the second needs that the process knows all that its key reads.
* `UpkeepDoesWhatItReports`: what is on the chain (`ChainInv`), what was given
  up and may land (`GivenUpInv`), and the run itself, whose counts follow the
  items it has taken from its list (`RunInv`).
* `DeployKeepsItsPromises`: `WaitFits` is the table of where a thread may wait
  for which transaction, `TxFits` what a transaction was sent for and `Covered`
  what create-pool has found or put into the WSOL account. `FundedOnce` counts:
  a vault holds some number of fundings, and these with the transfers still to
  land are at most one and one for each wait given up. `Opens` names the thread
  that will open a machine that is ready.
* `SystemStaysWellFormed` joins the parts of the run `ops`: what is not loaded
  stutters (`OthersRest`).

### Assumptions

Besides signs and orders of constants, which the source's own constants satisfy,
the proofs assume that gumballs, positions, wallets, streams, polls and runs of
commands are finite sets: what the chain holds and what one process has under
way is finite, and totals over an infinite set mean nothing. `LOOK_GAP <
ALERT_WINDOW < MONITOR_TIMEOUT` (30 seconds and a read, 60 and 300 seconds in
the source) is what `MonitorAnnounces` rests on; that the history's cap is a
multiple of `SAVE_EVERY` (20,160 and 10) is what `HistorySurvives` rests on;
that the supply of GUM covers both vaults and the pool is what lets a launch of
the scripts go through. `UNIT`, in which the history of `NftStaking` counts
exact shares, is a common multiple of all total weights; such a number exists
for any weights, and the program's own state does not depend on it.

### Only model-checked

* Liveness: `RequestsResolve`, `HolderGetsOut`, `AuctionSettles`,
  `RequestsAreServed`, `EverythingGetsOut`, `OperatorIsTold`, `FindsEndpoint`.
  They rest on fairness and so on `ENABLED`, of which the prover knows nothing.

## 5. What is left out

* Traits and artwork (`resolve_traits`, `apply_season`, `generate_svg`): pure
  functions of a seed whose 64-bit products are out of TLC's reach; nothing else
  depends on them.
* The metadata of position NFTs. The vaults of gumballs and of LP are accounts
  of one authority, and neither `unstake` nor `unstake_lp` looks at what kind of
  mint it is given. `MoveToken` and `unstake` of `Marketplace` include an LP
  position that takes a gumball's token and LP that is a gumball's token; that a
  stake account given an LP mint takes one unit of LP from its vault is left out
  of `LpStaking`.
* Rotation of the machine's oracle key while the oracle process runs, a second
  oracle process on the same secrets file, an RPC node that lags behind
  (`GumballMint` does rotate the key under open requests).
* `findPendingRequests` of oracle.cjs, which nothing calls; `upgrade.cjs`,
  `verify_oracle.cjs`, `unstake-all-nft.cjs`, the test and debug scripts;
  `legacy-unstake.cjs`, which sends an instruction the program does not have.
* The monitor's alert about a low balance; the texts of all messages.
* The web pages beyond what they sign; helmet and rate limits; pm2 itself.
* Overflow: the program uses checked arithmetic, and an overflow aborts the
  transaction; `request_mint` keeps its `u64` guard (`U64_MAX`), the
  accumulators' `u128` products stay in range for every supply the program can
  hold.

## 6. Where code and documents differ

With a run of their own:

* `hard_cap`: `request_mint` (lib.rs:307) does not count what open requests were
  promised, nor does `reveal_and_mint` check again; README.md:441 calls the
  supply a hard cap. `AdmissionClosesAtCap` is what does hold.
* `lp_exit`: with a fee pending, a full `unstake_lp` moves lamports by hand and
  then makes a CPI (lib.rs:2104); the way out is to claim first (`lp`).
* `oracle_restart`: the secret is saved after the commitment has landed
  (oracle.cjs:198); README.md:293 says the oracle recovers pending requests.
* `oracle_stall`: a request that ages out leaves `activeCommit` set
  (oracle.cjs:437) and no new commitment is made before a restart.

Met on the way, visible in the models:

* Program. `unstake` does not compare `nft_mint` with that of the stake account
  (lib.rs:3478): the struct speaks of the "Vault token account holding the staked
  NFT" and of "the" `XntDebt`, but they are those of the mint it is given. A
  position whose token went out with the stake of another gumball keeps its
  weight and loses its `XntDebt`, which is why `XntNeverForgotten` of `NftStaking`
  asks for the token in the vault, why `SharesAreFair` counts from the making of
  the `XntDebt`, why `ShortOnlyByRounding` allows `count.crossed`, and why
  `CustodyBacked` is exact only while the token has not strayed. `unstake_lp`
  does not compare `lp_mint` with the one the position records (lib.rs:3623,
  1818), which is why `TotalsCoverPositions` and `HolderGetsOut` of `LpStaking`
  speak of what was `taken` for positions of another mint.
  `migrate_machine` sets `total_burned` to 0 each time it is called
  (lib.rs:870). `Machine.mint_price` is set and never read (lib.rs:2526 prices
  by the curve, README.md:209 documents the setter). A vault "never empties"
  (lib.rs:74) though an emission over a long enough quiet time is all of it
  (lib.rs:2335). `total_lp_weight` is "sum of all active LP positions' weights"
  (lib.rs:3792) but drifts above it by the rounding of partial withdrawals
  (lib.rs:2096), which is why `TotalsCoverPositions` says "covers". What a short
  pool leaves unpaid on a partial withdrawal is kept only as far as the new
  snapshot goes (lib.rs:2146), which is why `XntNeverForgotten` of `LpStaking`
  has its third conjunct; a `claim` of GUM from a short vault gives the rest up
  (lib.rs:1645). Entitlements of NFT positions of weights 1, 1 and 2 can exceed
  the pool by a lamport, which is why `ShortOnlyByRounding` allows one per
  snapshot. Burns zero the owner of a gumball and keep its accounts.
* Oracle. The secrets file is rewritten in place and errors of reading and
  writing it are only logged (oracle.cjs:104-107), so that one of them can empty
  the file of all earlier secrets while the process goes on; the price history
  (server.cjs:446) and the faucet's state (server.cjs:75) are written the same
  way. The failover and the heartbeat of oracle.cjs:32-39 are both passed by
  when a commitment cannot be submitted (oracle.cjs:447): without a commitment
  the oracle stays with a dead endpoint, and the monitor's alert says that the
  "process is up" without having looked (monitor.cjs:336). A malformed
  encryption key leaves a commitment nobody can reveal every five seconds.
* Feeds. The mark is saved after the batch (announcer.cjs:127), so a restart
  announces again; announcer.cjs:15 says it does not. Two overlapping first
  polls publish history that a first poll is meant to skip (announcer.cjs:104).
  The announcer's names of flavors differ from the program's from the fifth on.
* Server. server-security.cjs:76 says that a new mint is "at most a minute late
  to appear"; it is late by a minute and the time of a request that had read the
  chain before (`MissIsBrief`). The metadata cache keeps what `reroll_cosmetics`
  changes until the cache is full. A child that could not be spawned emits only
  `error` and is never restarted while `/health` says it runs. A restart timer
  that is due while the server closes forks an oracle that outlives it. A second
  SIGTERM ends the server at once; a taken port is only logged.
* Monitor. A heartbeat file that is missing or torn raises no alert
  (monitor.cjs:342), also when the oracle has been wedged since its first start
  or when the process died in the middle of writing it; `OperatorIsTold` says so.
  Under server.cjs, where pm2 knows of no oracle, the status is never
  "online" and no stop is reported; nor is an oracle that is down when the
  monitor starts. Requests whose account is gone stay in `alertedRequests`.
* Scripts. create-gum-token.cjs writes a new key over gum-mint-keypair.json at
  every run (create-gum-token.cjs:192). The key is "saved BEFORE the transaction
  is sent so the mint keypair is never lost" (lines 17-18): the first half holds
  (`KeySavedFirst`), the second only until the next run. initialize.cjs runs
  `main` twice and never reaches its `--migrate`; a second launch sets the
  oracle back to the wallet and activates the machine. withdraw-pool.cjs
  interrupted between its two transactions leaves WSOL that a later run does not
  unwrap. A `set_season` given up may land after a later one.

## 7. What comes next

1. `Oracle` with rotation of the oracle key, two processes on one secrets file
   and a lagging RPC node; the oracle's view shown to be that of `GumballMint`.
2. An abstract specification of a stream (deposits are shared, claims pay) that
   both staking modules implement.
3. Traits with their words cut to a few bits.
