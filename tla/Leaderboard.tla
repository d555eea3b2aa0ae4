----------------------------- MODULE Leaderboard -----------------------------
(***************************************************************************)
(* The leaderboard of server.cjs: refreshLeaderboard runs every minute     *)
(* whether or not the previous run has ended, asks for the gumballs and    *)
(* for the machine at once, and replaces the cache with what it got.       *)
(*                                                                         *)
(* Of the gumballs only their number counts, and how many of the accounts  *)
(* are zeroed; owners, scores and the order of the table are left out.     *)
(***************************************************************************)
EXTENDS Integers

CONSTANTS
    Refreshes,        \* runs of refreshLeaderboard at once
    BURNED,           \* gumballs an upgrade burns
    MaxMinted         \* bound of the model

ASSUME LeaderboardAssumption == BURNED \in Nat \ {0, 1} /\ MaxMinted \in Nat

VARIABLES
    accounts,         \* gumball accounts on chain: live ones and zeroed ones
    machineData,      \* machine account: total_minted and total_burned
    refreshes,
    leaderboardCache

leaderboardVars == <<accounts, machineData, refreshes, leaderboardCache>>

NoData == [minted |-> -1, burned |-> 0]
NoAccounts == [live |-> -1, zeroed |-> 0]
\* moved: by how much the number of gumballs changed during the run (history)
IdleRefresh == [running |-> FALSE, accounts |-> NoAccounts, machine |-> NoData, moved |-> 0]
NoBoard == [minted |-> -1, burned |-> 0, circulating |-> 0, moved |-> 0]

LeaderboardInit ==
    /\ accounts = [live |-> 0, zeroed |-> 0]
    /\ machineData = [minted |-> 0, burned |-> 0]
    /\ refreshes = [t \in Refreshes |-> IdleRefresh]
    /\ leaderboardCache = NoBoard

-----------------------------------------------------------------------------

StartRefresh(t) ==
    /\ ~refreshes[t].running
    /\ refreshes' = [refreshes EXCEPT ![t].running = TRUE]
    /\ UNCHANGED <<accounts, machineData, leaderboardCache>>

ReadAccounts(t) ==
    /\ refreshes[t].running
    /\ refreshes[t].accounts = NoAccounts
    /\ refreshes' = [refreshes EXCEPT ![t].accounts = accounts]
    /\ UNCHANGED <<accounts, machineData, leaderboardCache>>

ReadMachine(t) ==
    /\ refreshes[t].running
    /\ refreshes[t].machine = NoData
    /\ refreshes' = [refreshes EXCEPT ![t].machine = machineData]
    /\ UNCHANGED <<accounts, machineData, leaderboardCache>>

\* Faulty: the accounts of burned gumballs are counted.
CirculatingWithZeroed(a) == a.live + a.zeroed

\* Accounts with a zeroed owner are skipped.
Circulating(a) == a.live

Publish(t) ==
    LET r == refreshes[t]
    IN  /\ r.accounts # NoAccounts
        /\ r.machine # NoData
        /\ leaderboardCache' = [minted |-> r.machine.minted, burned |-> r.machine.burned,
                                circulating |-> Circulating(r.accounts), moved |-> r.moved]
        /\ refreshes' = [refreshes EXCEPT ![t] = IdleRefresh]
        /\ UNCHANGED <<accounts, machineData>>

\* An error is logged and the old board stays.
RefreshFails(t) ==
    /\ refreshes[t].running
    /\ refreshes' = [refreshes EXCEPT ![t] = IdleRefresh]
    /\ UNCHANGED <<accounts, machineData, leaderboardCache>>

\* The chain changes the number of gumballs by n.
Moves(n) ==
    refreshes' = [t \in Refreshes |-> IF refreshes[t].running
                                      THEN [refreshes[t] EXCEPT !.moved = @ + n]
                                      ELSE refreshes[t]]

MintGumball ==
    /\ machineData.minted < MaxMinted
    /\ machineData' = [machineData EXCEPT !.minted = @ + 1]
    /\ accounts' = [accounts EXCEPT !.live = @ + 1]
    /\ Moves(1)
    /\ UNCHANGED leaderboardCache

\* BURNED gumballs are zeroed and one is minted.
UpgradeGumballs ==
    /\ accounts.live >= BURNED
    /\ machineData.minted < MaxMinted
    /\ machineData' = [minted |-> machineData.minted + 1, burned |-> machineData.burned + BURNED]
    /\ accounts' = [live |-> accounts.live - BURNED + 1, zeroed |-> accounts.zeroed + BURNED]
    /\ Moves(BURNED - 1)
    /\ UNCHANGED leaderboardCache

LeaderboardNext ==
    \/ \E t \in Refreshes :
         \/ StartRefresh(t)
         \/ ReadAccounts(t)
         \/ ReadMachine(t)
         \/ Publish(t)
         \/ RefreshFails(t)
    \/ MintGumball
    \/ UpgradeGumballs

LeaderboardSpec == LeaderboardInit /\ [][LeaderboardNext]_leaderboardVars

-----------------------------------------------------------------------------
(* Correctness.                                                            *)

\* The counters and the runs are well formed.
LeaderboardTypeOK ==
    /\ accounts \in [live : Nat, zeroed : Nat]
    /\ machineData \in [minted : 0..MaxMinted, burned : Nat]
    /\ \A t \in Refreshes : refreshes[t].running \in BOOLEAN /\ refreshes[t].moved \in Nat
    /\ leaderboardCache.moved \in Nat

Distance(a, b) == IF a < b THEN b - a ELSE a - b

\* The board adds up: what circulates is what was minted less what was burned,
\* and it is off by no more than what was minted and burned while the run that
\* wrote it was reading, however the runs overlap.
BoardAddsUp ==
    leaderboardCache # NoBoard =>
      Distance(leaderboardCache.circulating, leaderboardCache.minted - leaderboardCache.burned)
        <= leaderboardCache.moved

=============================================================================
