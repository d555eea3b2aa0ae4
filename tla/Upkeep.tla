-------------------------------- MODULE Upkeep --------------------------------
(***************************************************************************)
(* The scripts that keep a running system in order: attach-metadata,       *)
(* sweep-xnt-pool, recover-legacy-stake and set-season, with the           *)
(* instructions they send and transfer_authority.                          *)
(*                                                                         *)
(* The first three have one shape.  A run lists its items, and sends one   *)
(* transaction for each item that needs it; an item that fails is counted, *)
(* and the run goes on.  The chain moves between any two steps, and a      *)
(* transaction that is not confirmed in time may land later.               *)
(*                                                                         *)
(* A staker is paid in full when leaving; DRY_RUN only reports.            *)
(***************************************************************************)
EXTENDS Integers, FiniteSets

CONSTANTS
    Gumballs,          \* mints of gumballs
    Foreign,           \* a mint that is no gumball, for NFT_MINT
    Legacy,            \* NFTs staked under version 1 by the operator's wallet
    Streams,           \* "nft", "lp"
    AdminKeys,         \* keys that may be authority and treasury
    WALLET,            \* the operator's
    MaxRuns, MaxUpkeepFaults, MaxMoves    \* bounds of the model

ASSUME UpkeepAssumption ==
    /\ WALLET \in AdminKeys
    /\ Foreign \notin Gumballs
    /\ IsFiniteSet(Gumballs) /\ IsFiniteSet(Legacy) /\ IsFiniteSet(Streams)
    /\ {MaxRuns, MaxUpkeepFaults, MaxMoves} \subseteq Nat

Seasons == 0..MaxRuns     \* 0: ended

VARIABLES
    minted,            \* gumballs that exist
    withMetadata,      \* gumballs with a metadata account
    v1Stakes,          \* NFTs in the version-1 vault, each with its account
    recovered,         \* NFT -> times it left that vault (history)
    xntPools,          \* stream -> weight, lamports over the rent, and what stakers have earned
    machineKeys,       \* authority and treasury of the machine
    treasuryPaid,      \* lamports swept (history)
    season,            \* the season that is set
    seasonConfirmed,   \* the last one a run saw confirmed (history)
    upkeep,            \* the run: its items, its snapshot, its transaction and its counts
    upkeepLate,        \* transactions nobody waits for any more
    runs, upkeepFaults, moves    \* (history)

chainVars == <<minted, withMetadata, v1Stakes, recovered, xntPools, machineKeys,
               treasuryPaid, season>>
upkeepVars == <<chainVars, seasonConfirmed, upkeep, upkeepLate, runs, upkeepFaults, moves>>

NoSend == [op |-> "none", of |-> Foreign, treasury |-> WALLET]
NoRun == [script |-> "none", listed |-> {}, todo |-> {}, idle |-> {}, treasury |-> WALLET,
          tx |-> NoSend, done |-> 0, skipped |-> 0, failed |-> 0]

Pool(weight, xnt, earned) == [weight |-> weight, xnt |-> xnt, earned |-> earned]

UpkeepInit ==
    /\ minted \in SUBSET Gumballs
    /\ withMetadata = {}
    /\ v1Stakes = Legacy
    /\ recovered = [n \in Legacy |-> 0]
    /\ xntPools = [s \in Streams |-> Pool(0, 1, 0)]
    /\ machineKeys = [authority |-> WALLET, treasury |-> WALLET]
    /\ treasuryPaid = 0
    /\ season = 0
    /\ seasonConfirmed = 0
    /\ upkeep = NoRun
    /\ upkeepLate = {}
    /\ runs = 0
    /\ upkeepFaults = 0
    /\ moves = 0

-----------------------------------------------------------------------------
(* What the programs do with a transaction.                                *)

\* Metaplex refuses a second account for the same mint.
MayAttach(m) == m \in minted \ withMetadata

\* The authority signs, the treasury is the machine's, and nobody is staked.
MaySweep(stream, treasury) ==
    /\ machineKeys = [authority |-> WALLET, treasury |-> treasury]
    /\ xntPools[stream].weight = 0
    /\ xntPools[stream].xnt > 0

Accepted(tx) ==
    CASE tx.op = "attach_metadata"         -> MayAttach(tx.of)
      [] tx.op = "sweep_xnt_pool"          -> MaySweep(tx.of, tx.treasury)
      [] tx.op = "recover_legacy_v1_stake" -> tx.of \in v1Stakes
      [] tx.op = "set_season"              -> machineKeys.authority = WALLET
      [] OTHER                             -> FALSE

attach_metadata(m) ==
    /\ MayAttach(m)
    /\ withMetadata' = withMetadata \cup {m}
    /\ UNCHANGED <<minted, v1Stakes, recovered, xntPools, machineKeys, treasuryPaid, season>>

sweep_xnt_pool(s) ==
    /\ treasuryPaid' = treasuryPaid + xntPools[s].xnt
    /\ xntPools' = [xntPools EXCEPT ![s] = Pool(@.weight, 0, @.earned)]
    /\ UNCHANGED <<minted, withMetadata, v1Stakes, recovered, machineKeys, season>>

\* The NFT goes back to its owner and the account is closed.
recover_legacy_v1_stake(n) ==
    /\ v1Stakes' = v1Stakes \ {n}
    /\ recovered' = [recovered EXCEPT ![n] = @ + 1]
    /\ UNCHANGED <<minted, withMetadata, xntPools, machineKeys, treasuryPaid, season>>

set_season(n) ==
    /\ season' = n
    /\ UNCHANGED <<minted, withMetadata, v1Stakes, recovered, xntPools, machineKeys, treasuryPaid>>

Executes(tx) ==
    /\ Accepted(tx)
    /\ \/ tx.op = "attach_metadata" /\ attach_metadata(tx.of)
       \/ tx.op = "sweep_xnt_pool" /\ sweep_xnt_pool(tx.of)
       \/ tx.op = "recover_legacy_v1_stake" /\ recover_legacy_v1_stake(tx.of)
       \/ tx.op = "set_season" /\ set_season(tx.of)

-----------------------------------------------------------------------------
(* What others do.                                                         *)

transfer_authority(new_authority, new_treasury) ==
    /\ machineKeys' = [authority |-> new_authority, treasury |-> new_treasury]
    /\ UNCHANGED <<minted, withMetadata, v1Stakes, recovered, xntPools, treasuryPaid, season>>

MintOne(m) ==
    /\ m \notin minted
    /\ minted' = minted \cup {m}
    /\ UNCHANGED <<withMetadata, v1Stakes, recovered, xntPools, machineKeys, treasuryPaid, season>>

\* A fee is earned by those who are staked when it arrives.
FeeArrives(s) ==
    /\ xntPools' = [xntPools EXCEPT ![s] =
                      Pool(@.weight, @.xnt + 1, IF @.weight > 0 THEN @.earned + 1 ELSE @.earned)]
    /\ UNCHANGED <<minted, withMetadata, v1Stakes, recovered, machineKeys, treasuryPaid, season>>

\* The first staker comes, or the last one leaves with what was earned.
StakersChange(s) ==
    /\ xntPools' = [xntPools EXCEPT ![s] =
                      IF @.weight = 0 THEN Pool(1, @.xnt, @.earned)
                      ELSE Pool(0, @.xnt - @.earned, 0)]
    /\ UNCHANGED <<minted, withMetadata, v1Stakes, recovered, machineKeys, treasuryPaid, season>>

OthersMove ==
    /\ moves < MaxMoves
    /\ moves' = moves + 1
    /\ \/ \E k, l \in AdminKeys : transfer_authority(k, l)
       \/ \E m \in Gumballs : MintOne(m) \/ attach_metadata(m)
       \/ \E s \in Streams : FeeArrives(s) \/ StakersChange(s)
    /\ UNCHANGED <<seasonConfirmed, upkeep, upkeepLate, runs, upkeepFaults>>

-----------------------------------------------------------------------------
(* The scripts.                                                            *)

StartUpkeep(run) ==
    /\ upkeep = NoRun
    /\ runs < MaxRuns
    /\ runs' = runs + 1
    /\ upkeep' = run
    /\ UNCHANGED <<chainVars, seasonConfirmed, upkeepLate, upkeepFaults, moves>>

Listing(script, items, idle, treasury) ==
    [script |-> script, listed |-> items, todo |-> items, idle |-> idle, treasury |-> treasury,
     tx |-> NoSend, done |-> 0, skipped |-> 0, failed |-> 0]

\* All mints under the program's mint authority, or the one NFT_MINT names.
AttachMetadata ==
    \E items \in {minted} \cup {{m} : m \in minted \cup {Foreign}} :
      StartUpkeep(Listing("attach-metadata", items, {}, WALLET))

\* The treasury and the weights are read once, before the first pool.
SweepPools ==
    \E targets \in SUBSET Streams \ {{}} :
      StartUpkeep(Listing("sweep-xnt-pool", targets,
                          {s \in Streams : xntPools[s].weight = 0}, machineKeys.treasury))

RecoverLegacy == StartUpkeep(Listing("recover-legacy-stake", v1Stakes, {}, WALLET))

\* A season has a number of its own, so that an old one can be told from it.
SetSeason ==
    \E s \in {0, runs + 1} :
      StartUpkeep([script |-> "set-season", listed |-> {s}, todo |-> {}, idle |-> {},
                   treasury |-> WALLET,
                   tx |-> [op |-> "set_season", of |-> s, treasury |-> WALLET],
                   done |-> 0, skipped |-> 0, failed |-> 0])

\* An item that has what the script would give it, or that the instruction
\* would refuse, is passed over.
NeedsNothing(item) ==
    CASE upkeep.script = "attach-metadata" -> item \notin minted \/ item \in withMetadata
      [] upkeep.script = "sweep-xnt-pool"  -> item \notin upkeep.idle
      [] OTHER -> FALSE

Instruction ==
    CASE upkeep.script = "attach-metadata" -> "attach_metadata"
      [] upkeep.script = "sweep-xnt-pool"  -> "sweep_xnt_pool"
      [] OTHER -> "recover_legacy_v1_stake"

\* The run goes on with these items, this transaction and these counts.
GoesOn(todo, tx, done, skipped, failed) ==
    [script |-> upkeep.script, listed |-> upkeep.listed, todo |-> todo, idle |-> upkeep.idle,
     treasury |-> upkeep.treasury, tx |-> tx, done |-> done, skipped |-> skipped,
     failed |-> failed]

Sending(item) == [op |-> Instruction, of |-> item, treasury |-> upkeep.treasury]

NextItem(item) ==
    /\ item \in upkeep.todo
    /\ upkeep.tx = NoSend
    /\ upkeep' = IF NeedsNothing(item)
                 THEN GoesOn(upkeep.todo \ {item}, NoSend,
                             upkeep.done, upkeep.skipped + 1, upkeep.failed)
                 ELSE GoesOn(upkeep.todo \ {item}, Sending(item),
                             upkeep.done, upkeep.skipped, upkeep.failed)
    /\ UNCHANGED <<chainVars, seasonConfirmed, upkeepLate, runs, upkeepFaults, moves>>

ItemConfirmed ==
    /\ Executes(upkeep.tx)
    /\ upkeep' = GoesOn(upkeep.todo, NoSend, upkeep.done + 1, upkeep.skipped, upkeep.failed)
    /\ seasonConfirmed' = IF upkeep.tx.op = "set_season" THEN upkeep.tx.of ELSE seasonConfirmed
    /\ UNCHANGED <<upkeepLate, runs, upkeepFaults, moves>>

\* The catch of the loop: the item counts as failed, whether it was refused or
\* may still land.
ItemFails ==
    /\ upkeep.tx # NoSend
    /\ upkeep' = GoesOn(upkeep.todo, NoSend, upkeep.done, upkeep.skipped, upkeep.failed + 1)
    /\ \/ /\ ~Accepted(upkeep.tx)
          /\ UNCHANGED <<upkeepLate, upkeepFaults>>
       \/ /\ upkeepFaults < MaxUpkeepFaults
          /\ upkeepFaults' = upkeepFaults + 1
          /\ upkeepLate' \in {upkeepLate, upkeepLate \cup {upkeep.tx}}
    /\ UNCHANGED <<chainVars, seasonConfirmed, runs, moves>>

UpkeepEnds ==
    /\ upkeep # NoRun
    /\ upkeep.todo = {}
    /\ upkeep.tx = NoSend
    /\ upkeep' = NoRun
    /\ UNCHANGED <<chainVars, seasonConfirmed, upkeepLate, runs, upkeepFaults, moves>>

\* It was given up, and lands all the same.
ItemLandsLate(tx) ==
    /\ Executes(tx)
    /\ upkeepLate' = upkeepLate \ {tx}
    /\ UNCHANGED <<seasonConfirmed, upkeep, runs, upkeepFaults, moves>>

UpkeepNext ==
    \/ AttachMetadata
    \/ SweepPools
    \/ RecoverLegacy
    \/ SetSeason
    \/ \E item \in upkeep.todo : NextItem(item)
    \/ ItemConfirmed
    \/ ItemFails
    \/ UpkeepEnds
    \/ \E tx \in upkeepLate : ItemLandsLate(tx)
    \/ OthersMove

UpkeepSpec == UpkeepInit /\ [][UpkeepNext]_upkeepVars

-----------------------------------------------------------------------------
(* Correctness.                                                            *)

\* Accounts, run and counters are well formed.
UpkeepTypeOK ==
    /\ withMetadata \subseteq minted /\ minted \subseteq Gumballs
    /\ v1Stakes \subseteq Legacy
    /\ xntPools \in [Streams -> [weight : 0..1, xnt : Nat, earned : Nat]]
    /\ season \in Seasons /\ treasuryPaid \in Nat
    /\ upkeep.todo \subseteq upkeep.listed

\* A run counts every item once; when it counts no failure, every gumball it
\* has dealt with has its metadata, whoever else attached or minted meanwhile.
CountsAreTrue ==
    /\ upkeep.done + upkeep.skipped + upkeep.failed
         = Cardinality(upkeep.listed) - Cardinality(upkeep.todo)
             - (IF upkeep.tx = NoSend THEN 0 ELSE 1)
    /\ upkeep.script = "attach-metadata" /\ upkeep.failed = 0
         => (upkeep.listed \ (upkeep.todo \cup {upkeep.tx.of})) \ {Foreign} \subseteq withMetadata

\* No sweep takes what a staker has earned, though the weights that the script
\* looks at are as old as its run, and a sweep may land after it.
SweepSparesStakers == \A s \in Streams : xntPools[s].earned <= xntPools[s].xnt

\* A version-1 NFT is in the vault or has left it once, over repeated and late
\* recoveries.
RecoveredOnce ==
    \A n \in Legacy : recovered[n] = IF n \in v1Stakes THEN 0 ELSE 1

\* The season is the one last confirmed, unless a transaction was given up:
\* that one may land after the operator has ended its season.
SeasonAsConfirmed == upkeepFaults = 0 => season = seasonConfirmed

\* What the operator relies on.
UpkeepSafe ==
    /\ CountsAreTrue
    /\ SweepSparesStakers
    /\ RecoveredOnce
    /\ SeasonAsConfirmed

=============================================================================
