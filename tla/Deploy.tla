-------------------------------- MODULE Deploy --------------------------------
(***************************************************************************)
(* The scripts that set the system up: create-gum-token, initialize,       *)
(* init-staking, init-xnt-fees, create-pool and withdraw-pool.             *)
(*                                                                         *)
(* The operator runs one script at a time, and runs it again when it fails *)
(* or when in doubt.  A script reads the chain, decides, sends one         *)
(* transaction and waits for it.  The wait may be given up (no             *)
(* confirmation in time, or the operator interrupts) while the transaction *)
(* still lands later.  initialize.cjs defines main twice and calls it      *)
(* twice: the second definition runs in two threads of awaits.             *)
(*                                                                         *)
(* XNT of the wallet and fees are left out; amounts of GUM and WSOL are    *)
(* small numbers.                                                          *)
(***************************************************************************)
EXTENDS Integers, FiniteSets

CONSTANTS
    MaxMints,             \* GUM mints that can be generated, 1..MaxMints
    SUPPLY, NFT_FUND, LP_FUND, INIT_GUM,   \* GUM: of a mint, to the vaults, to the pool
    INIT_XNT, BUFFER, RENT,                \* WSOL: to the pool, added to it, of an account
    MaxLaunches, MaxDeployFaults           \* bounds of the model

ASSUME DeployAssumption ==
    /\ {MaxMints, NFT_FUND, LP_FUND, INIT_GUM, INIT_XNT, BUFFER} \subseteq Nat \ {0}
    /\ {RENT, MaxLaunches, MaxDeployFaults} \subseteq Nat
    /\ SUPPLY \in Nat
    /\ SUPPLY >= NFT_FUND + LP_FUND + INIT_GUM

GumMints == 1..MaxMints
NoMint == 0
Threads == {1, 2}
Scripts == {"create-gum-token", "initialize", "init-staking", "init-xnt-fees",
            "create-pool", "withdraw-pool"}

VARIABLES
    machine, active,      \* the machine account, and whether it is open
    wallet,               \* GUM of the wallet, for each mint
    mints,                \* GUM mints that exist
    stakeMint,            \* the mint that staking was initialised with
    nftVault, lpVault,    \* GUM of the vaults
    xntFees,              \* whether the XNT pools exist
    pools, lp,            \* mints with a pool, and those whose LP tokens the wallet holds
    wsol,                 \* the wallet's WSOL account
    keyFile,              \* the mint in gum-mint-keypair.json, or NoMint
    generated,            \* mints 1..generated have a key
    threads,              \* what runs: script, pc, its GUM_MINT, --force, awaited transaction
    late,                 \* transactions nobody waits for any more
    launches,             \* scripts run so far (history)
    deployFaults          \* waits given up and transactions refused (history)

machineVars == <<machine, active>>
tokenVars == <<wallet, mints, stakeMint, nftVault, lpVault, xntFees>>
poolVars == <<pools, lp, wsol>>
accounts == <<machineVars, tokenVars, poolVars>>
deployVars == <<accounts, keyFile, generated, threads, late, launches, deployFaults>>

NoTx == [op |-> "none", gum |-> NoMint, amount |-> 0]
Thread(script, pc, gum, force, tx) ==
    [script |-> script, pc |-> pc, gum |-> gum, force |-> force, tx |-> tx]
IdleThread == Thread("none", "idle", NoMint, FALSE, NoTx)

\* A machine of an older program is smaller than 138 bytes.  The WSOL account
\* may hold XNT that was sent to its address before it is a token account.
DeployInit ==
    /\ machine \in {"absent", "small"}
    /\ active = FALSE
    /\ wallet = [m \in GumMints |-> 0]
    /\ mints = {}
    /\ stakeMint = NoMint
    /\ nftVault = 0
    /\ lpVault = 0
    /\ xntFees = FALSE
    /\ pools = {}
    /\ lp = {}
    /\ wsol \in {[kind |-> "absent", amount |-> 0]}
               \cup [kind : {"system"}, amount : RENT..(RENT + INIT_XNT)]
    /\ keyFile = NoMint
    /\ generated = 0
    /\ threads = [t \in Threads |-> IdleThread]
    /\ late = {}
    /\ launches = 0
    /\ deployFaults = 0

-----------------------------------------------------------------------------
(* What the programs do with a transaction.                                *)

\* The system program refuses to create an account that exists.
Creates_gum(tx) ==
    /\ tx.op = "create_gum"
    /\ tx.gum \notin mints
    /\ mints' = mints \cup {tx.gum}
    /\ wallet' = [wallet EXCEPT ![tx.gum] = SUPPLY]
    /\ UNCHANGED <<machineVars, stakeMint, nftVault, lpVault, xntFees, poolVars>>

Initialize_machine(tx) ==
    /\ tx.op = "initialize_machine"
    /\ machine = "absent"
    /\ machine' = "ready"
    /\ active' = FALSE
    /\ UNCHANGED <<tokenVars, poolVars>>

\* The oracle is the wallet from the start: nothing that is modelled changes.
Set_oracle(tx) ==
    /\ tx.op = "set_oracle"
    /\ machine = "ready"
    /\ UNCHANGED accounts

Set_active(tx) ==
    /\ tx.op = "set_active"
    /\ machine = "ready"
    /\ active' = TRUE
    /\ UNCHANGED <<machine, tokenVars, poolVars>>

Initialize_staking(tx) ==
    /\ tx.op = "initialize_staking"
    /\ machine = "ready"
    /\ stakeMint = NoMint
    /\ tx.gum \in mints
    /\ stakeMint' = tx.gum
    /\ UNCHANGED <<machineVars, wallet, mints, nftVault, lpVault, xntFees, poolVars>>

\* A transfer of SPL tokens: the vault takes its own mint only.
FundNft(tx) ==
    /\ tx.op = "fund_nft"
    /\ stakeMint = tx.gum
    /\ wallet[tx.gum] >= NFT_FUND
    /\ wallet' = [wallet EXCEPT ![tx.gum] = @ - NFT_FUND]
    /\ nftVault' = nftVault + NFT_FUND
    /\ UNCHANGED <<machineVars, mints, stakeMint, lpVault, xntFees, poolVars>>

FundLp(tx) ==
    /\ tx.op = "fund_lp"
    /\ stakeMint = tx.gum
    /\ wallet[tx.gum] >= LP_FUND
    /\ wallet' = [wallet EXCEPT ![tx.gum] = @ - LP_FUND]
    /\ lpVault' = lpVault + LP_FUND
    /\ UNCHANGED <<machineVars, mints, stakeMint, nftVault, xntFees, poolVars>>

Initialize_xnt_fees(tx) ==
    /\ tx.op = "initialize_xnt_fees"
    /\ stakeMint # NoMint
    /\ ~xntFees
    /\ xntFees' = TRUE
    /\ UNCHANGED <<machineVars, wallet, mints, stakeMint, nftVault, lpVault, poolVars>>

Wsol(amount) == [kind |-> "token", amount |-> amount]

\* The WSOL account is made, with what lies at its address and what is sent to it.
MakeWsol(tx) ==
    /\ tx.op = "make_wsol"
    /\ wsol.kind # "token"
    /\ wsol' = Wsol((IF wsol.amount > RENT THEN wsol.amount - RENT ELSE 0) + tx.amount)
    /\ UNCHANGED <<machineVars, tokenVars, pools, lp>>

\* XNT is sent and synced (SyncNative alone when the amount is 0).
AddWsol(tx) ==
    /\ tx.op = "add_wsol"
    /\ wsol.kind = "token"
    /\ wsol' = Wsol(wsol.amount + tx.amount)
    /\ UNCHANGED <<machineVars, tokenVars, pools, lp>>

\* XDEX takes both sides from the creator and gives the pool's LP tokens.
CreatesPool(tx) ==
    /\ tx.op = "create_pool"
    /\ tx.gum \notin pools
    /\ tx.gum \in mints
    /\ wallet[tx.gum] >= INIT_GUM
    /\ wsol.kind = "token"
    /\ wsol.amount >= INIT_XNT
    /\ wallet' = [wallet EXCEPT ![tx.gum] = @ - INIT_GUM]
    /\ wsol' = Wsol(wsol.amount - INIT_XNT)
    /\ pools' = pools \cup {tx.gum}
    /\ lp' = lp \cup {tx.gum}
    /\ UNCHANGED <<machineVars, mints, stakeMint, nftVault, lpVault, xntFees>>

\* XDEX gives both sides back; an account that was missing is made, by an
\* instruction that fails if it is there by now.
Withdraws(tx) ==
    /\ tx.op \in {"withdraw", "make_wsol_and_withdraw"}
    /\ tx.gum \in lp
    /\ (wsol.kind = "token") <=> (tx.op = "withdraw")
    /\ wallet' = [wallet EXCEPT ![tx.gum] = @ + INIT_GUM]
    /\ wsol' = Wsol(wsol.amount + INIT_XNT)
    /\ lp' = lp \ {tx.gum}
    /\ UNCHANGED <<machineVars, mints, stakeMint, nftVault, lpVault, xntFees, pools>>

ClosesWsol(tx) ==
    /\ tx.op = "close_wsol"
    /\ wsol.kind = "token"
    /\ wsol' = [kind |-> "absent", amount |-> 0]
    /\ UNCHANGED <<machineVars, tokenVars, pools, lp>>

Lands(tx) ==
    \/ Creates_gum(tx)
    \/ Initialize_machine(tx)
    \/ Set_oracle(tx)
    \/ Set_active(tx)
    \/ Initialize_staking(tx)
    \/ FundNft(tx)
    \/ FundLp(tx)
    \/ Initialize_xnt_fees(tx)
    \/ MakeWsol(tx)
    \/ AddWsol(tx)
    \/ CreatesPool(tx)
    \/ Withdraws(tx)
    \/ ClosesWsol(tx)

-----------------------------------------------------------------------------
(* The steps of a thread.  A thread at pc with no transaction reads and    *)
(* decides: it goes on to another pc, it sends a transaction whose         *)
(* confirmation takes it there, or it ends.                                *)

At(t, script, pc) ==
    /\ threads[t].script = script
    /\ threads[t].pc = pc
    /\ threads[t].tx = NoTx
    /\ UNCHANGED <<accounts, late, launches, deployFaults>>

GoesTo(t, pc) ==
    threads' = [threads EXCEPT ![t] = Thread(@.script, pc, @.gum, @.force, @.tx)]

Sends(t, op, amount, next) ==
    threads' = [threads EXCEPT ![t] =
      Thread(@.script, next, @.gum, @.force, [op |-> op, gum |-> @.gum, amount |-> amount])]

Ends(t) == threads' = [threads EXCEPT ![t] = IdleThread]

LaunchScript(script, gum, force) ==
    /\ launches < MaxLaunches
    /\ \A t \in Threads : threads[t] = IdleThread
    /\ threads' = [t \in Threads |->
                     IF t = 1 \/ script = "initialize" THEN Thread(script, "start", gum, force, NoTx)
                     ELSE IdleThread]
    /\ launches' = launches + 1
    /\ UNCHANGED <<accounts, keyFile, generated, late, deployFaults>>

\* The operator chooses the script and GUM_MINT, which may be the wrong one.
Launch ==
    \/ \E force \in BOOLEAN : LaunchScript("initialize", NoMint, force)
    \/ LaunchScript("create-gum-token", NoMint, FALSE)
    \/ \E gum \in GumMints :
         \/ LaunchScript("init-staking", gum, FALSE)
         \/ LaunchScript("init-xnt-fees", gum, FALSE)
         \/ LaunchScript("create-pool", gum, FALSE)
         \/ LaunchScript("withdraw-pool", gum, FALSE)

(* create-gum-token.cjs *)

\* The key is saved before the transaction is sent, in place of the one of an
\* earlier run; if it cannot be saved, the file may be empty and nothing is sent.
GenerateMint(t) ==
    /\ At(t, "create-gum-token", "start")
    /\ generated < MaxMints
    /\ \/ /\ generated' = generated + 1
          /\ keyFile' = generated + 1
          /\ threads' = [threads EXCEPT ![t] =
               Thread("create-gum-token", "end", generated + 1, FALSE,
                      [op |-> "create_gum", gum |-> generated + 1, amount |-> 0])]
       \/ /\ keyFile' \in {keyFile, NoMint}
          /\ Ends(t)
          /\ UNCHANGED generated

(* initialize.cjs *)

TooSmall == machine = "small"

\* With --force an existing machine is only reported, and so is a small one.
ReadMachine(t) ==
    /\ At(t, "initialize", "start")
    /\ IF machine = "absent" THEN Sends(t, "initialize_machine", 0, "oracle")
       ELSE IF threads[t].force \/ TooSmall THEN Ends(t)
       ELSE GoesTo(t, "oracle")
    /\ UNCHANGED <<keyFile, generated>>

SetOracleToWallet(t) ==
    /\ At(t, "initialize", "oracle")
    /\ Sends(t, "set_oracle", 0, "activate")
    /\ UNCHANGED <<keyFile, generated>>

Activate(t) ==
    /\ At(t, "initialize", "activate")
    /\ Sends(t, "set_active", 0, "end")
    /\ UNCHANGED <<keyFile, generated>>

(* init-staking.cjs *)

ReadStakeConfig(t) ==
    /\ At(t, "init-staking", "start")
    /\ IF stakeMint # NoMint THEN GoesTo(t, "nft")
       ELSE Sends(t, "initialize_staking", 0, "nft")
    /\ UNCHANGED <<keyFile, generated>>

AlreadyFunded(balance) == balance > 0

FundNftVault(t) ==
    /\ At(t, "init-staking", "nft")
    /\ stakeMint # NoMint
    /\ IF AlreadyFunded(nftVault) THEN GoesTo(t, "lp")
       ELSE Sends(t, "fund_nft", 0, "lp")
    /\ UNCHANGED <<keyFile, generated>>

FundLpVault(t) ==
    /\ At(t, "init-staking", "lp")
    /\ IF AlreadyFunded(lpVault) THEN Ends(t)
       ELSE Sends(t, "fund_lp", 0, "end")
    /\ UNCHANGED <<keyFile, generated>>

(* init-xnt-fees.cjs *)

ReadXntPools(t) ==
    /\ At(t, "init-xnt-fees", "start")
    /\ IF xntFees THEN Ends(t) ELSE Sends(t, "initialize_xnt_fees", 0, "end")
    /\ UNCHANGED <<keyFile, generated>>

(* create-pool.cjs *)

IsLiveGumMint(gum) == stakeMint = gum

AssertLiveGumMint(t) ==
    /\ At(t, "create-pool", "start")
    /\ IF IsLiveGumMint(threads[t].gum) /\ threads[t].gum \notin pools
       THEN GoesTo(t, "wsol") ELSE Ends(t)
    /\ UNCHANGED <<keyFile, generated>>

\* What the account lacks, and a little more; nothing if it holds enough.
TopUp(t) ==
    IF wsol.amount < INIT_XNT
    THEN Sends(t, "add_wsol", INIT_XNT - wsol.amount + BUFFER, "create")
    ELSE GoesTo(t, "create")

\* Faulty: a converted account is not read again.
ConvertedUnread == "create"

\* A converted account, whose rent is not WSOL, is read again.
AfterConversion == "recheck"

FundWsolAccount(t) ==
    /\ At(t, "create-pool", "wsol")
    /\ CASE wsol.kind = "absent" -> Sends(t, "make_wsol", INIT_XNT + BUFFER, "create")
         [] wsol.kind = "system" -> Sends(t, "make_wsol", 0, AfterConversion)
         [] wsol.kind = "token"  -> TopUp(t)
    /\ UNCHANGED <<keyFile, generated>>

\* The account could not be converted: it may be a token account by now.
SyncWsol(t) ==
    /\ At(t, "create-pool", "sync")
    /\ Sends(t, "add_wsol", 0, "recheck")
    /\ UNCHANGED <<keyFile, generated>>

RecheckWsol(t) ==
    /\ At(t, "create-pool", "recheck")
    /\ IF wsol.kind = "token" THEN TopUp(t) ELSE GoesTo(t, "create")
    /\ UNCHANGED <<keyFile, generated>>

CreatePool(t) ==
    /\ At(t, "create-pool", "create")
    /\ Sends(t, "create_pool", 0, "end")
    /\ UNCHANGED <<keyFile, generated>>

(* withdraw-pool.cjs *)

ReadLp(t) ==
    /\ At(t, "withdraw-pool", "start")
    /\ IF threads[t].gum \notin lp THEN Ends(t)
       ELSE Sends(t, IF wsol.kind = "absent" THEN "make_wsol_and_withdraw"
                     ELSE "withdraw", 0, "unwrap")
    /\ UNCHANGED <<keyFile, generated>>

UnwrapWsol(t) ==
    /\ At(t, "withdraw-pool", "unwrap")
    /\ Sends(t, "close_wsol", 0, "end")
    /\ UNCHANGED <<keyFile, generated>>

EndScript(t) ==
    /\ threads[t].pc = "end"
    /\ threads[t].tx = NoTx
    /\ Ends(t)
    /\ UNCHANGED <<accounts, keyFile, generated, late, launches, deployFaults>>

-----------------------------------------------------------------------------
(* What becomes of a transaction.                                          *)

Answered(t, pc) ==
    threads' = [threads EXCEPT ![t] = Thread(@.script, pc, @.gum, @.force, NoTx)]

Confirmed(t) ==
    /\ Lands(threads[t].tx)
    /\ Answered(t, threads[t].pc)
    /\ UNCHANGED <<keyFile, generated, late, launches, deployFaults>>

\* The two threads of initialize.cjs may send the same transaction, byte for
\* byte: what lands for one is confirmed to the other.
ConfirmedAsTwin(t) ==
    /\ threads[t].tx.op = "initialize_machine"
    /\ machine = "ready"
    /\ Answered(t, threads[t].pc)
    /\ UNCHANGED <<accounts, keyFile, generated, late, launches, deployFaults>>

\* Two errors are caught; any other ends the thread.
Throws(t) ==
    CASE threads[t].tx.op = "set_oracle" -> Answered(t, threads[t].pc)
      [] threads[t].tx.op = "make_wsol" /\ threads[t].pc = AfterConversion -> Answered(t, "sync")
      [] OTHER -> Ends(t)

\* Refused, or never included: it will not land.
Refused(t) ==
    /\ threads[t].tx # NoTx
    /\ \/ /\ threads[t].tx.op = "initialize_machine"
          /\ machine # "absent"
          /\ UNCHANGED deployFaults
       \/ /\ deployFaults < MaxDeployFaults
          /\ deployFaults' = deployFaults + 1
    /\ Throws(t)
    /\ UNCHANGED <<accounts, keyFile, generated, late, launches>>

\* The wait is given up, and the transaction may still land.
GivenUp(t) ==
    /\ threads[t].tx # NoTx
    /\ deployFaults < MaxDeployFaults
    /\ deployFaults' = deployFaults + 1
    /\ late' = late \cup {[nr |-> deployFaults, tx |-> threads[t].tx]}
    /\ Throws(t)
    /\ UNCHANGED <<accounts, keyFile, generated, launches>>

LandsLate(l) ==
    /\ Lands(l.tx)
    /\ late' = late \ {l}
    /\ UNCHANGED <<keyFile, generated, threads, launches, deployFaults>>

DeployNext ==
    \/ Launch
    \/ \E t \in Threads :
         \/ GenerateMint(t)
         \/ ReadMachine(t)
         \/ SetOracleToWallet(t)
         \/ Activate(t)
         \/ ReadStakeConfig(t)
         \/ FundNftVault(t)
         \/ FundLpVault(t)
         \/ ReadXntPools(t)
         \/ AssertLiveGumMint(t)
         \/ FundWsolAccount(t)
         \/ SyncWsol(t)
         \/ RecheckWsol(t)
         \/ CreatePool(t)
         \/ ReadLp(t)
         \/ UnwrapWsol(t)
         \/ EndScript(t)
         \/ Confirmed(t)
         \/ ConfirmedAsTwin(t)
         \/ Refused(t)
         \/ GivenUp(t)
    \/ \E l \in late : LandsLate(l)

DeploySpec == DeployInit /\ [][DeployNext]_deployVars

-----------------------------------------------------------------------------
(* Correctness.                                                            *)

\* Accounts, threads and transactions are well formed.
DeployTypeOK ==
    /\ machine \in {"absent", "small", "ready"}
    /\ wallet \in [GumMints -> 0..SUPPLY]
    /\ lp \subseteq pools
    /\ pools \subseteq mints
    /\ mints \subseteq 1..generated
    /\ keyFile \in {NoMint} \cup GumMints
    /\ \A t \in Threads : threads[t].script \in Scripts \cup {"none"}
    /\ Cardinality(late) <= deployFaults
    /\ deployFaults \in 0..MaxDeployFaults
    /\ launches \in 0..MaxLaunches

\* However often init-staking is run, a vault gets its GUM once, and once more
\* for each transfer whose confirmation was not waited for.
VaultsFundedOnce ==
    /\ nftVault <= NFT_FUND * (1 + deployFaults)
    /\ lpVault <= LP_FUND * (1 + deployFaults)

\* A pool is made for no other mint than the one the rewards are paid in.
PoolHoldsRewardMint == pools \subseteq {stakeMint}

\* When the pool is made, the WSOL account holds what it takes, unless a
\* transaction of an earlier run has made the pool meanwhile.
WsolCoversPool ==
    \A t \in Threads :
      threads[t].script = "create-pool" /\ threads[t].pc = "create" /\ threads[t].tx = NoTx
        => \/ wsol.kind = "token" /\ wsol.amount >= INIT_XNT
           \/ threads[t].gum \in pools

\* The two threads of initialize.cjs do not keep each other from opening the
\* machine: it is active when both have ended and every wait was answered.
LaunchOpensMachine ==
    /\ \A t \in Threads : threads[t] = IdleThread
    /\ machine = "ready"
    /\ deployFaults = 0
    => active

\* While the transaction that creates a mint is under way, its key is in the
\* file.  Later it may not be: the next run of the script writes over it.
KeySavedFirst ==
    \A t \in Threads :
      threads[t].tx.op = "create_gum" => keyFile = threads[t].tx.gum

\* What the operator relies on when a script is run again.
DeploySafe ==
    /\ VaultsFundedOnce
    /\ PoolHoldsRewardMint
    /\ WsolCoversPool
    /\ LaunchOpensMachine
    /\ KeySavedFirst

=============================================================================
