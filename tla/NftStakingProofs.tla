--------------------------- MODULE NftStakingProofs ---------------------------
(***************************************************************************)
(* NFT staking for any finite set of gumballs, any weights and any amounts *)
(* of time and fees: NftInvariant, ShortOnlyByRounding, XntNeverForgotten, *)
(* SharesAreFair and GumOnlyWhileStaked.                                   *)
(***************************************************************************)
EXTENDS NftStaking, ArithmeticProofs

ConfigType == [total_nft_weight : Nat, total_staked : Nat, total_claimed : Nat]
StakeType == [open : BOOLEAN, reward_debt : Nat]

\* TypeOK, one part for what an action changes together.
ConfigOK == config \in ConfigType
GumOK == gum \in GumType /\ vault \in Nat
StakesOK == stakes \in [Nfts -> StakeType] /\ held \subseteq Nfts
FeeOK == fee \in FeeType /\ pool \in Nat
DebtsOK == debts \in [Nfts -> DebtType]
TimeOK == treasury \in Nat /\ now \in 0..MAX_TIME
HistOK ==
    /\ hist \in [Nfts -> HistoryType]
    /\ count \in [deposits : 0..MAX_DEPOSITS, joins : 0..MAX_JOINS,
                 snapshots : Nat, crossed : Nat]

AccountsOK == ConfigOK /\ GumOK /\ StakesOK /\ FeeOK /\ DebtsOK /\ TimeOK /\ HistOK

LEMMA TypeParts == TypeOK <=> AccountsOK
  BY DEF TypeOK, AccountsOK, ConfigOK, GumOK, StakesOK, FeeOK, DebtsOK, TimeOK, HistOK,
         ConfigType, GumType, StakeType, FeeType, DebtType

-----------------------------------------------------------------------------
(* The weights.                                                            *)

LEMMA WeightNat ==
    ASSUME NEW n \in Nfts
    PROVE  Weight[n] \in Nat /\ Weight[n] # 0
  BY WeightAssumption

LEMMA StakedFinite == IsFiniteSet(Staked) /\ Staked \subseteq Nfts
  <1>1. Staked \subseteq Nfts
    BY DEF Staked
  <1> QED
    BY <1>1, NftAssumption, FS_Subset

\* A set of gumballs weighs a natural number, and at least any one of them.
LEMMA WeightOfSet ==
    ASSUME NEW S \in SUBSET Nfts
    PROVE  /\ IsFiniteSet(S)
           /\ SumOfWeights(S) \in Nat
           /\ Cardinality(S) \in Nat
           /\ \A n \in S : Weight[n] <= SumOfWeights(S)
           /\ \A n \in S : SumOfWeights(S) = Weight[n] + SumOfWeights(S \ {n})
  <1>1. IsFiniteSet(S)
    BY NftAssumption, FS_Subset
  <1>2. \A n \in S : Weight[n] \in Nat
    BY WeightNat
  <1>3. SumOver(S, Weight) \in Nat
    BY <1>1, <1>2, SumIsNat
  <1>4. \A n \in S : Weight[n] <= SumOver(S, Weight)
    BY <1>1, <1>2, SumCoversEach
  <1>5. \A n \in S : SumOver(S, Weight) = Weight[n] + SumOver(S \ {n}, Weight)
    BY <1>1, <1>2, SumRemove
  <1> QED
    BY <1>1, <1>3, <1>4, <1>5, FS_CardinalityType DEF SumOfWeights

\* A gumball that joins or leaves changes both totals by its own part.
LEMMA WeightJoins ==
    ASSUME NEW S \in SUBSET Nfts, NEW n \in Nfts, n \notin S
    PROVE  /\ SumOfWeights(S \cup {n}) = SumOfWeights(S) + Weight[n]
           /\ Cardinality(S \cup {n}) = Cardinality(S) + 1
  <1>1. IsFiniteSet(S) /\ SumOfWeights(S) \in Nat /\ Weight[n] \in Nat
    BY WeightOfSet, WeightNat
  <1>2. \A y \in S \cup {n} : Weight[y] \in Nat
    BY WeightNat
  <1>3. SumOver(S \cup {n}, Weight) = Weight[n] + SumOver(S, Weight)
    BY <1>1, <1>2, SumAdd
  <1>4. Cardinality(S \cup {n}) = Cardinality(S) + 1
    BY <1>1, FS_AddElement
  <1> QED
    BY <1>1, <1>3, <1>4 DEF SumOfWeights

LEMMA WeightLeaves ==
    ASSUME NEW S \in SUBSET Nfts, NEW n \in S
    PROVE  /\ SumOfWeights(S \ {n}) = SumOfWeights(S) - Weight[n]
           /\ Cardinality(S \ {n}) = Cardinality(S) - 1
           /\ 1 <= Cardinality(S)
  <1>1. /\ IsFiniteSet(S) /\ SumOfWeights(S) \in Nat /\ Weight[n] \in Nat
        /\ Cardinality(S) \in Nat
        /\ SumOfWeights(S) = Weight[n] + SumOfWeights(S \ {n})
    BY WeightOfSet, WeightNat
  <1>2. SumOfWeights(S \ {n}) \in Nat /\ Cardinality(S \ {n}) \in Nat
    <2>1. S \ {n} \in SUBSET Nfts
      OBVIOUS
    <2> QED
      BY <2>1, WeightOfSet
  <1>3. Cardinality(S \ {n}) = Cardinality(S) - 1
    BY <1>1, FS_RemoveElement
  <1> QED
    BY <1>1, <1>2, <1>3

-----------------------------------------------------------------------------
(* What the handlers find.                                                 *)

\* Where the streams stand when a handler has brought them up to date.
LEMMA GumNowType ==
    ASSUME AccountsOK
    PROVE  GumNow \in GumType /\ gum.acc <= GumNow.acc
  <1>1. config.total_nft_weight \in Nat /\ now \in Nat /\ gum \in GumType /\ vault \in Nat
    BY BoundAssumption DEF AccountsOK, ConfigOK, ConfigType, TimeOK, GumOK
  <1>2. 0 \in Nat /\ 0 <= config.total_nft_weight
    BY <1>1
  <1> QED
    BY <1>1, <1>2, GumUpdate DEF GumNow

LEMMA FeeNowType ==
    ASSUME AccountsOK, PoolKeepsRent
    PROVE  /\ FeeNow \in FeeType
           /\ FeeNow.last_seen <= pool
           /\ fee.acc <= FeeNow.acc
           /\ config.total_nft_weight # 0 => FeeNow.last_seen = pool
  <1>1. config.total_nft_weight \in Nat /\ fee \in FeeType /\ pool \in Nat
    BY DEF AccountsOK, ConfigOK, ConfigType, FeeOK
  <1>2. 0 \in Nat /\ 0 <= config.total_nft_weight
    BY <1>1
  <1>3. fee.last_seen <= pool
    BY DEF PoolKeepsRent
  <1> QED
    BY <1>1, <1>2, <1>3, FeeUpdate DEF FeeNow

LEMMA PendingGumNat ==
    ASSUME AccountsOK, NEW n \in Nfts
    PROVE  /\ PendingGum(n, GumNow) \in Nat
           /\ AtMost(PendingGum(n, GumNow), vault) \in 0..vault
           /\ Entitled(Weight[n], GumNow.acc) \in Nat
  <1>1. GumNow.acc \in Nat /\ vault \in Nat
    BY GumNowType DEF GumType, AccountsOK, GumOK
  <1>2. stakes[n].reward_debt \in Nat
    BY DEF AccountsOK, StakesOK, StakeType
  <1>3. Entitled(Weight[n], GumNow.acc) \in Nat
    BY <1>1, WeightNat, EntitledBounds
  <1>4. PendingGum(n, GumNow) \in Nat
    BY <1>2, <1>3, SaturatingNat DEF PendingGum
  <1>5. PICK x \in Nat, v \in Nat : x = PendingGum(n, GumNow) /\ v = vault
    BY <1>1, <1>4
  <1>6. AtMost(x, v) \in 0..v
    BY SaturatingNat
  <1> QED
    BY <1>3, <1>5, <1>6

\* A settlement of m's debt at n's weight, after the stream was brought up to date.
SettledOn(n, m) == settle_xnt_fees(FeeNow, pool, debts[m], Weight[n])
SettledFor(n) == SettledOn(n, n)

LEMMA SettledType ==
    ASSUME AccountsOK, PoolKeepsRent, NEW n \in Nfts, NEW m \in Nfts
    PROVE  LET s == SettledOn(n, m)
           IN  /\ s.fee \in FeeType /\ s.pool \in Nat /\ s.debt \in DebtType
               /\ POOL_RENT <= s.pool /\ s.fee.last_seen <= s.pool
               /\ s.paid \in Nat
  <1>1. FeeNow \in FeeType /\ FeeNow.last_seen <= pool /\ pool \in Nat /\ POOL_RENT <= pool
    BY FeeNowType, ScaleAssumption DEF AccountsOK, FeeOK, PoolKeepsRent
  <1>2. debts[m] \in DebtType /\ Weight[n] \in Nat
    BY WeightNat DEF AccountsOK, DebtsOK
  <1> QED
    BY <1>1, <1>2, Settlement DEF SettledOn

-----------------------------------------------------------------------------
(* NftInvariant, action by action.                                         *)

NftInv == AccountsOK /\ PoolKeepsRent /\ WeightIsSum

LEMMA InitNftInv == Init => NftInv
  <1>1. SUFFICES ASSUME NEW legacy \in SUBSET Nfts, NEW stale \in SUBSET Nfts,
                        config = [total_nft_weight |-> SumOfWeights(legacy),
                                  total_staked |-> Cardinality(legacy), total_claimed |-> 0],
                        gum = [acc |-> 0, last_update |-> 0],
                        vault = INITIAL_VAULT,
                        stakes = [n \in Nfts |-> [NoStake EXCEPT !.open = n \in legacy]],
                        held = legacy,
                        fee = InitialFee,
                        pool = POOL_RENT,
                        debts = [n \in Nfts |-> IF n \in stale THEN Snapshot(Weight[n], 0)
                                                              ELSE NoDebt],
                        treasury = 0, now = 0,
                        hist = [n \in Nfts |-> NoHistory],
                        count = [deposits |-> 0, joins |-> 0, snapshots |-> 0, crossed |-> 0]
                 PROVE  NftInv
    BY DEF Init
  <1>2. SumOfWeights(legacy) \in Nat /\ Cardinality(legacy) \in Nat
    BY WeightOfSet
  <1>3. ConfigOK
    BY <1>1, <1>2 DEF ConfigOK, ConfigType
  <1>4. GumOK
    BY <1>1, VaultAssumption DEF GumOK, GumType
  <1>5. \A n \in Nfts : stakes[n] = [open |-> n \in legacy, reward_debt |-> 0]
    BY <1>1 DEF NoStake
  <1>6. \A n \in Nfts : stakes[n] = IF n \in legacy THEN [open |-> TRUE, reward_debt |-> 0]
                                                    ELSE [open |-> FALSE, reward_debt |-> 0]
    <2>1. ASSUME NEW n \in Nfts, n \in legacy
          PROVE  stakes[n] = [open |-> TRUE, reward_debt |-> 0]
      <3>1. (n \in legacy) = TRUE
        BY <2>1
      <3> QED
        BY <1>5, <3>1, Zenon
    <2>2. ASSUME NEW n \in Nfts, n \notin legacy
          PROVE  stakes[n] = [open |-> FALSE, reward_debt |-> 0]
      <3>1. (n \in legacy) = FALSE
        BY <2>2
      <3> QED
        BY <1>5, <3>1, Zenon
    <2> QED
      BY <2>1, <2>2, Zenon
  <1>12. StakesOK
    <2>1. /\ [open |-> TRUE, reward_debt |-> 0] \in StakeType
          /\ [open |-> FALSE, reward_debt |-> 0] \in StakeType
      BY DEF StakeType
    <2>2. \A n \in Nfts : stakes[n] \in StakeType
      BY <1>6, <2>1, Zenon
    <2> QED
      BY <1>1, <2>2 DEF StakesOK
  <1>7. FeeOK /\ PoolKeepsRent
    BY <1>1, ScaleAssumption DEF FeeOK, FeeType, InitialFee, PoolKeepsRent
  <1>8. DebtsOK
    <2>1. ASSUME NEW n \in Nfts
          PROVE  (IF n \in stale THEN Snapshot(Weight[n], 0) ELSE NoDebt) \in DebtType
      <3>1. Entitled(Weight[n], 0) \in Nat
        BY WeightNat, EntitledBounds
      <3> QED
        BY <3>1 DEF Snapshot, NoDebt, DebtType
    <2> QED
      BY <1>1, <2>1 DEF DebtsOK
  <1>9. TimeOK /\ HistOK
    BY <1>1, BoundAssumption DEF TimeOK, HistOK, HistoryType, NoHistory
  <1>10. Staked = legacy
    BY <1>6 DEF Staked
  <1>11. WeightIsSum
    BY <1>1, <1>10 DEF WeightIsSum
  <1> QED
    BY <1>3, <1>4, <1>7, <1>8, <1>9, <1>11, <1>12 DEF NftInv, AccountsOK

\* What a step that leaves the positions alone keeps.
LEMMA SameWeights ==
    ASSUME WeightIsSum, Staked' = Staked,
           config'.total_nft_weight = config.total_nft_weight,
           config'.total_staked = config.total_staked
    PROVE  WeightIsSum'
  BY DEF WeightIsSum, SumOfWeights

LEMMA StakeStep ==
    ASSUME NftInv, NEW n \in Nfts, stake(n)
    PROVE  NftInv'
  <1>0. AccountsOK /\ PoolKeepsRent /\ WeightIsSum
    BY DEF NftInv
  <1>1. Weight[n] \in Nat
    BY WeightNat
  <1>2. n \notin Staked
    BY DEF stake, Staked
  <1>3. PICK f : f = advance_xnt_for_stake(fee, pool, config.total_nft_weight)
    OBVIOUS
  <1>4. f \in FeeType /\ f.last_seen = pool /\ pool \in Nat
    <2>1. fee \in FeeType /\ pool \in Nat /\ config.total_nft_weight \in Nat /\ fee.last_seen <= pool
      BY <1>0 DEF AccountsOK, FeeOK, ConfigOK, ConfigType, PoolKeepsRent
    <2> QED
      BY <1>3, <2>1, FeeAdvance
  <1>5. f.acc \in Nat /\ GumNow.acc \in Nat
    BY <1>0, <1>4, GumNowType DEF FeeType, GumType
  <1>6. ConfigOK'
    <2>1. config' = [total_nft_weight |-> config.total_nft_weight + Weight[n],
                     total_staked |-> config.total_staked + 1,
                     total_claimed |-> config.total_claimed]
      BY <1>0 DEF stake, AccountsOK, ConfigOK, ConfigType
    <2> QED
      BY <1>0, <1>1, <2>1 DEF AccountsOK, ConfigOK, ConfigType
  <1>7. GumOK'
    BY <1>0, GumNowType DEF stake, AccountsOK, GumOK
  <1>8. StakeAt(n, GumNow) \in StakeType /\ StakeAt(n, GumNow).open
    BY <1>1, <1>5, EntitledBounds DEF StakeAt, StakeType
  <1>9. StakesOK' /\ Staked' = Staked \cup {n}
    BY <1>0, <1>8 DEF stake, AccountsOK, StakesOK, Staked
  <1>10. FeeOK' /\ PoolKeepsRent'
    BY <1>0, <1>3, <1>4 DEF stake, FeeOK, FeeType, PoolKeepsRent
  <1>11. DebtsOK'
    <2>1. DebtAtStake(n, f) \in DebtType
      <3>1. Entitled(Weight[n], f.acc) \in Nat
        BY <1>1, <1>5, EntitledBounds
      <3> QED
        BY <3>1 DEF DebtAtStake, Snapshot, DebtType
    <2> QED
      BY <1>0, <1>3, <2>1 DEF stake, AccountsOK, DebtsOK
  <1>12. TimeOK' /\ HistOK'
    <2>1. NoHistory \in HistoryType
      BY DEF NoHistory, HistoryType
    <2>2. count' = [deposits |-> count.deposits, joins |-> count.joins + 1,
                    snapshots |-> count.snapshots + 1, crossed |-> count.crossed]
      BY <1>0 DEF stake, AccountsOK, HistOK
    <2>3. count.joins + 1 \in 0..MAX_JOINS
      BY <1>0, BoundAssumption DEF stake, AccountsOK, HistOK
    <2> QED
      BY <1>0, <2>1, <2>2, <2>3 DEF stake, AccountsOK, TimeOK, HistOK
  <1>13. WeightIsSum'
    <2>1. Staked \in SUBSET Nfts
      BY StakedFinite
    <2>2. /\ SumOfWeights(Staked \cup {n}) = SumOfWeights(Staked) + Weight[n]
          /\ Cardinality(Staked \cup {n}) = Cardinality(Staked) + 1
      BY <1>2, <2>1, WeightJoins
    <2>3. /\ config'.total_nft_weight = config.total_nft_weight + Weight[n]
          /\ config'.total_staked = config.total_staked + 1
      BY <1>0 DEF stake, AccountsOK, ConfigOK, ConfigType
    <2> QED
      BY <1>0, <1>9, <2>2, <2>3 DEF WeightIsSum, SumOfWeights
  <1> QED
    BY <1>6, <1>7, <1>9, <1>10, <1>11, <1>12, <1>13 DEF NftInv, AccountsOK

LEMMA ClaimStep ==
    ASSUME NftInv, NEW n \in Nfts, claim(n)
    PROVE  NftInv'
  <1>0. AccountsOK /\ PoolKeepsRent /\ WeightIsSum
    BY DEF NftInv
  <1>1. PICK paid \in Nat : /\ paid = AtMost(PendingGum(n, GumNow), vault)
                            /\ paid <= vault
    BY <1>0, PendingGumNat DEF AccountsOK, GumOK
  <1>2. PICK e \in Nat : e = Entitled(Weight[n], GumNow.acc)
    BY <1>0, PendingGumNat
  <1>3. config' = [total_nft_weight |-> config.total_nft_weight,
                   total_staked |-> config.total_staked,
                   total_claimed |-> config.total_claimed + paid]
    BY <1>0, <1>1 DEF claim, AccountsOK, ConfigOK, ConfigType
  <1>4. ConfigOK'
    BY <1>0, <1>3 DEF AccountsOK, ConfigOK, ConfigType
  <1>5. GumOK'
    <2>1. gum' = GumNow /\ vault' = vault - paid
      BY <1>1 DEF claim
    <2>2. vault - paid \in Nat
      BY <1>0, <1>1 DEF AccountsOK, GumOK
    <2> QED
      BY <1>0, <2>1, <2>2, GumNowType DEF GumOK
  <1>6. StakesOK' /\ Staked' = Staked /\ held' = held
    <2>1. (stakes' = stakes \/ stakes' = [stakes EXCEPT ![n].reward_debt = e]) /\ held' = held
      BY <1>2 DEF claim
    <2> QED
      BY <1>0, <2>1 DEF AccountsOK, StakesOK, StakeType, Staked
  <1>7. FeeOK' /\ PoolKeepsRent' /\ DebtsOK' /\ TimeOK'
    BY <1>0 DEF claim, AccountsOK, FeeOK, PoolKeepsRent, DebtsOK, TimeOK
  <1>8. HistOK'
    <2>1. hist' = [hist EXCEPT ![n].gum = @ + paid] /\ count' = count
      BY <1>1 DEF claim
    <2>2. hist[n] \in HistoryType /\ hist[n].gum + paid \in Nat
      BY <1>0 DEF AccountsOK, HistOK, HistoryType
    <2>3. [hist[n] EXCEPT !.gum = @ + paid] \in HistoryType
      BY <2>2 DEF HistoryType
    <2>4. hist' = [hist EXCEPT ![n] = [hist[n] EXCEPT !.gum = @ + paid]]
      BY <2>1
    <2> QED
      BY <1>0, <2>1, <2>3, <2>4 DEF AccountsOK, HistOK
  <1>9. WeightIsSum'
    BY <1>0, <1>3, <1>6, SameWeights
  <1> QED
    BY <1>4, <1>5, <1>6, <1>7, <1>8, <1>9 DEF NftInv, AccountsOK

LEMMA UnstakeStep ==
    ASSUME NftInv, NEW n \in Nfts, NEW m \in Nfts, unstake(n, m)
    PROVE  NftInv'
  <1>0. AccountsOK /\ PoolKeepsRent /\ WeightIsSum
    BY DEF NftInv
  <1>1. PICK paid \in Nat : /\ paid = AtMost(PendingGum(n, GumNow), vault)
                            /\ paid <= vault
    BY <1>0, PendingGumNat DEF AccountsOK, GumOK
  <1>2. PICK s : s = SettledOn(n, m)
    OBVIOUS
  <1>3. /\ s.fee \in FeeType /\ s.pool \in Nat
        /\ POOL_RENT <= s.pool /\ s.fee.last_seen <= s.pool /\ s.paid \in Nat
    BY <1>0, <1>2, SettledType
  <1>4. config' = [total_nft_weight |-> config.total_nft_weight - Weight[n],
                   total_staked |-> saturating_sub(config.total_staked, 1),
                   total_claimed |-> config.total_claimed + paid]
    BY <1>1 DEF unstake, WeightAfterUnstake
  <1>5. ConfigOK'
    <2>1. config.total_nft_weight - Weight[n] \in Nat
      BY <1>0, WeightNat DEF unstake, AccountsOK, ConfigOK, ConfigType
    <2>2. saturating_sub(config.total_staked, 1) \in Nat /\ config.total_claimed + paid \in Nat
      BY <1>0 DEF AccountsOK, ConfigOK, ConfigType, saturating_sub
    <2> QED
      BY <1>4, <2>1, <2>2 DEF ConfigOK, ConfigType
  <1>6. GumOK'
    <2>1. gum' = GumNow /\ vault' = vault - paid
      BY <1>1 DEF unstake
    <2>2. vault - paid \in Nat
      BY <1>0, <1>1 DEF AccountsOK, GumOK
    <2> QED
      BY <1>0, <2>1, <2>2, GumNowType DEF GumOK
  <1>7. StakesOK' /\ Staked' = Staked \ {n}
    BY <1>0 DEF unstake, AccountsOK, StakesOK, StakeType, Staked, NoStake
  <1>8. FeeOK' /\ PoolKeepsRent'
    <2>1. fee' = s.fee /\ pool' = s.pool
      BY <1>2 DEF unstake, SettledOn, FeeBeforeUnstake
    <2> QED
      BY <1>3, <2>1 DEF FeeOK, PoolKeepsRent
  <1>9. DebtsOK' /\ TimeOK'
    BY <1>0 DEF unstake, AccountsOK, DebtsOK, DebtType, NoDebt, TimeOK
  <1>10. HistOK'
    <2>1. hist[m] \in HistoryType /\ NoHistory \in HistoryType
      BY <1>0 DEF AccountsOK, HistOK, NoHistory, HistoryType
    <2>2. WithoutFees(hist[m]) \in HistoryType
      BY <2>1 DEF WithoutFees, HistoryType
    <2>3. hist' = [[hist EXCEPT ![m] = WithoutFees(hist[m])] EXCEPT ![n] = NoHistory]
      BY DEF unstake
    <2>4. hist' \in [Nfts -> HistoryType]
      BY <1>0, <2>1, <2>2, <2>3 DEF AccountsOK, HistOK
    <2>5. PICK c \in Nat : c = IF m = n THEN count.crossed ELSE count.crossed + s.paid
      BY <1>0, <1>3 DEF AccountsOK, HistOK
    <2>6. count' = [count EXCEPT !.crossed = c]
      BY <1>0, <1>2, <2>5 DEF unstake, SettledOn, FeeBeforeUnstake, AccountsOK, HistOK
    <2> QED
      BY <1>0, <2>4, <2>5, <2>6 DEF AccountsOK, HistOK
  <1>11. WeightIsSum'
    <2>1. Staked \in SUBSET Nfts /\ n \in Staked
      BY StakedFinite DEF unstake, Staked
    <2>2. /\ SumOfWeights(Staked \ {n}) = SumOfWeights(Staked) - Weight[n]
          /\ Cardinality(Staked \ {n}) = Cardinality(Staked) - 1
          /\ 1 <= Cardinality(Staked)
      BY <2>1, WeightLeaves
    <2>3. config.total_staked \in Nat
      BY <1>0 DEF AccountsOK, ConfigOK, ConfigType
    <2>4. saturating_sub(config.total_staked, 1) = config.total_staked - 1
      BY <1>0, <2>2, <2>3, SaturatingNat DEF WeightIsSum
    <2> QED
      BY <1>0, <1>4, <1>7, <2>2, <2>4 DEF WeightIsSum, SumOfWeights
  <1> QED
    BY <1>5, <1>6, <1>7, <1>8, <1>9, <1>10, <1>11 DEF NftInv, AccountsOK

LEMMA ClaimXntStep ==
    ASSUME NftInv, NEW n \in Nfts, claim_xnt_fees_nft(n)
    PROVE  NftInv'
  <1>0. AccountsOK /\ PoolKeepsRent /\ WeightIsSum
    BY DEF NftInv
  <1>1. PICK s : s = SettledFor(n)
    OBVIOUS
  <1>2. /\ s.fee \in FeeType /\ s.pool \in Nat /\ s.debt \in DebtType /\ s.paid \in Nat
        /\ POOL_RENT <= s.pool /\ s.fee.last_seen <= s.pool
    BY <1>0, <1>1, SettledType DEF SettledFor
  <1>3. /\ ConfigOK' /\ GumOK' /\ StakesOK' /\ TimeOK'
        /\ Staked' = Staked /\ config' = config /\ held' = held
    BY <1>0 DEF claim_xnt_fees_nft, AccountsOK, ConfigOK, GumOK, StakesOK, TimeOK, Staked
  <1>4. FeeOK' /\ PoolKeepsRent'
    <2>1. fee' = s.fee /\ pool' = s.pool
      BY <1>1 DEF claim_xnt_fees_nft, SettledFor, SettledOn
    <2> QED
      BY <1>2, <2>1 DEF FeeOK, PoolKeepsRent
  <1>5. DebtsOK'
    <2>1. debts' = [debts EXCEPT ![n] = s.debt]
      BY <1>1 DEF claim_xnt_fees_nft, SettledFor, SettledOn
    <2> QED
      BY <1>0, <1>2, <2>1 DEF AccountsOK, DebtsOK
  <1>6. HistOK'
    <2>1. hist' = [hist EXCEPT ![n] = [hist[n] EXCEPT !.xnt = @ + s.paid]]
      BY <1>1 DEF claim_xnt_fees_nft, SettledFor, SettledOn
    <2>5. PICK h : h = hist[n] /\ h \in HistoryType
      BY <1>0 DEF AccountsOK, HistOK
    <2>6. [h EXCEPT !.xnt = @ + s.paid] \in HistoryType
      BY <1>2, <2>5 DEF HistoryType
    <2>2. hist' \in [Nfts -> HistoryType]
      BY <1>0, <2>1, <2>5, <2>6 DEF AccountsOK, HistOK
    <2>3. CASE debts[n].bump = 0
      <3>1. count' = [count EXCEPT !.snapshots = @ + 1]
        BY <2>3 DEF claim_xnt_fees_nft
      <3> QED
        BY <1>0, <2>2, <3>1 DEF AccountsOK, HistOK
    <2>4. CASE debts[n].bump # 0
      <3>1. count' = count
        BY <2>4 DEF claim_xnt_fees_nft
      <3> QED
        BY <1>0, <2>2, <3>1 DEF AccountsOK, HistOK
    <2> QED
      BY <2>3, <2>4
  <1>7. WeightIsSum'
    BY <1>0, <1>3, SameWeights
  <1> QED
    BY <1>3, <1>4, <1>5, <1>6, <1>7 DEF NftInv, AccountsOK

LEMMA SweepStep ==
    ASSUME NftInv, sweep_xnt_pool_nft
    PROVE  NftInv'
  <1>0. AccountsOK /\ PoolKeepsRent /\ WeightIsSum
    BY DEF NftInv
  <1>1. /\ ConfigOK' /\ GumOK' /\ StakesOK' /\ DebtsOK' /\ HistOK'
        /\ Staked' = Staked /\ config' = config /\ held' = held
    BY <1>0 DEF sweep_xnt_pool_nft, AccountsOK, ConfigOK, GumOK, StakesOK, DebtsOK, HistOK, Staked
  <1>2. pool \in Nat /\ POOL_RENT \in Nat /\ POOL_RENT <= pool /\ fee \in FeeType
    BY <1>0, ScaleAssumption DEF AccountsOK, FeeOK, PoolKeepsRent
  <1>3. Withdrawable(pool) = pool - POOL_RENT
    BY <1>2, SaturatingNat DEF Withdrawable
  <1>4. pool' = POOL_RENT /\ fee' = [acc |-> fee.acc, last_seen |-> pool']
    BY <1>2, <1>3 DEF sweep_xnt_pool_nft, FeeType
  <1>5. FeeOK' /\ PoolKeepsRent'
    BY <1>2, <1>4 DEF FeeOK, FeeType, PoolKeepsRent
  <1>6. TimeOK'
    BY <1>0, <1>2, <1>3 DEF sweep_xnt_pool_nft, AccountsOK, TimeOK
  <1>7. WeightIsSum'
    BY <1>0, <1>1, SameWeights
  <1> QED
    BY <1>1, <1>5, <1>6, <1>7 DEF NftInv, AccountsOK

LEMMA DepositStep ==
    ASSUME NftInv, NEW d \in Deposits, Deposit(d)
    PROVE  NftInv'
  <1>0. AccountsOK /\ PoolKeepsRent /\ WeightIsSum /\ d \in Nat
    BY DepositAssumption DEF NftInv
  <1>1. /\ ConfigOK' /\ GumOK' /\ StakesOK' /\ DebtsOK' /\ TimeOK'
        /\ Staked' = Staked /\ config' = config /\ held' = held
    BY <1>0 DEF Deposit, AccountsOK, ConfigOK, GumOK, StakesOK, DebtsOK, TimeOK, Staked
  <1>2. FeeOK' /\ PoolKeepsRent'
    <2>1. pool' = pool + d /\ fee' = fee
      BY DEF Deposit
    <2>2. pool \in Nat /\ fee \in FeeType /\ fee.last_seen \in Nat /\ POOL_RENT \in Nat
      BY <1>0, ScaleAssumption DEF AccountsOK, FeeOK, FeeType
    <2> QED
      BY <1>0, <2>1, <2>2 DEF FeeOK, PoolKeepsRent
  <1>3. ASSUME NEW n \in Nfts, n \in Staked
        PROVE  (UNIT * Weight[n] * d) \div SumOfWeights(Staked) \in Nat
    <2>1. Staked \in SUBSET Nfts
      BY StakedFinite
    <2>2. SumOfWeights(Staked) \in Nat /\ Weight[n] <= SumOfWeights(Staked) /\ Weight[n] \in Nat \ {0}
      BY <1>3, <2>1, WeightOfSet, WeightNat
    <2>3. SumOfWeights(Staked) \in Nat \ {0}
      BY <2>2
    <2>4. PICK x \in Nat : x = UNIT * Weight[n]
      BY <2>2, UnitAssumption
    <2>5. PICK y \in Nat : y = x * d
      BY <1>0
    <2>6. y \div SumOfWeights(Staked) \in Nat
      BY <2>3, DivIsFloor
    <2> QED
      BY <2>4, <2>5, <2>6
  <1>4. HistOK'
    <2>1. ASSUME NEW n \in Nfts PROVE hist'[n] \in HistoryType
      <3>1. CASE n \in Earning
        <4>0. n \in Staked
          BY <3>1 DEF Earning
        <4>1. PICK q \in Nat, c \in Nat : /\ q = (UNIT * Weight[n] * d) \div SumOfWeights(Staked)
                                           /\ c = CutOff(n, d, SumOfWeights(Staked))
          BY <1>3, <4>0, WeightNat DEF CutOff
        <4>2. hist'[n] = [xnt |-> hist[n].xnt,
                          fair |-> hist[n].fair + q, rounded |-> hist[n].rounded + c,
                          emitted |-> hist[n].emitted, gum |-> hist[n].gum]
          BY <1>0, <3>1, <4>1 DEF Deposit, AccountsOK, HistOK, HistoryType
        <4> QED
          BY <1>0, <4>2 DEF AccountsOK, HistOK, HistoryType
      <3>2. CASE n \notin Earning
        BY <1>0, <3>2 DEF Deposit, AccountsOK, HistOK
      <3> QED
        BY <3>1, <3>2
    <2>2. count' = [deposits |-> count.deposits + 1, joins |-> count.joins,
                    snapshots |-> count.snapshots, crossed |-> count.crossed]
      BY <1>0 DEF Deposit, AccountsOK, HistOK
    <2>3. count.deposits + 1 \in 0..MAX_DEPOSITS
      <3>1. count.deposits \in 0..MAX_DEPOSITS /\ count.deposits < MAX_DEPOSITS /\ MAX_DEPOSITS \in Nat
        BY <1>0, BoundAssumption DEF Deposit, AccountsOK, HistOK
      <3> QED
        BY <3>1
    <2>4. hist' \in [Nfts -> HistoryType]
      BY <2>1 DEF Deposit
    <2> QED
      BY <1>0, <2>2, <2>3, <2>4 DEF AccountsOK, HistOK
  <1>5. WeightIsSum'
    BY <1>0, <1>1, SameWeights
  <1> QED
    BY <1>1, <1>2, <1>4, <1>5 DEF NftInv, AccountsOK

LEMMA TickStep ==
    ASSUME NftInv, Tick
    PROVE  NftInv'
  <1>0. AccountsOK /\ PoolKeepsRent /\ WeightIsSum
    BY DEF NftInv
  <1>1. /\ ConfigOK' /\ GumOK' /\ StakesOK' /\ DebtsOK' /\ FeeOK' /\ PoolKeepsRent'
        /\ Staked' = Staked /\ config' = config /\ held' = held
    BY <1>0 DEF Tick, AccountsOK, ConfigOK, GumOK, StakesOK, DebtsOK, FeeOK, PoolKeepsRent, Staked
  <1>2. TimeOK'
    BY <1>0, BoundAssumption DEF Tick, AccountsOK, TimeOK
  <1>3. PICK e \in Nat : e = vault * EMISSION_NUM
    BY <1>0, EmissionAssumption DEF AccountsOK, GumOK
  <1>4. HistOK'
    <2>1. ASSUME NEW n \in Nfts PROVE hist'[n] \in HistoryType
      <3>1. CASE n \in Staked
        <4>1. hist'[n] = [xnt |-> hist[n].xnt,
                          fair |-> hist[n].fair, rounded |-> hist[n].rounded,
                          emitted |-> hist[n].emitted + e, gum |-> hist[n].gum]
          BY <1>0, <1>3, <3>1 DEF Tick, AccountsOK, HistOK, HistoryType
        <4> QED
          BY <1>0, <4>1 DEF AccountsOK, HistOK, HistoryType
      <3>2. CASE n \notin Staked
        BY <1>0, <3>2 DEF Tick, AccountsOK, HistOK
      <3> QED
        BY <3>1, <3>2
    <2>2. hist' \in [Nfts -> HistoryType] /\ count' = count
      BY <2>1 DEF Tick
    <2> QED
      BY <1>0, <2>2 DEF AccountsOK, HistOK
  <1>5. WeightIsSum'
    BY <1>0, <1>1, SameWeights
  <1> QED
    BY <1>1, <1>2, <1>4, <1>5 DEF NftInv, AccountsOK

LEMMA MoveTokenStep ==
    ASSUME NftInv, NEW n \in Nfts, MoveToken(n)
    PROVE  NftInv'
  <1>1. held' \subseteq Nfts
    BY DEF MoveToken, NftInv, AccountsOK, StakesOK
  <1> QED
    BY <1>1 DEF MoveToken, NftInv, AccountsOK, ConfigOK, GumOK, StakesOK, FeeOK, DebtsOK,
         TimeOK, HistOK, PoolKeepsRent, WeightIsSum, Staked, SumOfWeights

LEMMA NftInvStep == NftInv /\ [Next]_vars => NftInv'
  <1>1. SUFFICES ASSUME NftInv, [Next]_vars PROVE NftInv'
    OBVIOUS
  <1>2. CASE UNCHANGED vars
    BY <1>1, <1>2 DEF vars, NftInv, AccountsOK, ConfigOK, GumOK, StakesOK, FeeOK, DebtsOK,
         TimeOK, HistOK, PoolKeepsRent, WeightIsSum, Staked, SumOfWeights
  <1>3. CASE \E n \in Nfts : stake(n) \/ claim(n) \/ claim_xnt_fees_nft(n) \/ MoveToken(n)
    BY <1>1, <1>3, StakeStep, ClaimStep, ClaimXntStep, MoveTokenStep
  <1>7. CASE \E n, m \in Nfts : unstake(n, m)
    BY <1>1, <1>7, UnstakeStep
  <1>4. CASE sweep_xnt_pool_nft
    BY <1>1, <1>4, SweepStep
  <1>5. CASE \E d \in Deposits : Deposit(d)
    BY <1>1, <1>5, DepositStep
  <1>6. CASE Tick
    BY <1>1, <1>6, TickStep
  <1> QED
    BY <1>1, <1>2, <1>3, <1>4, <1>5, <1>6, <1>7 DEF Next

\* The totals of StakeConfig are what the open positions add up to, the pool
\* keeps its rent and nothing gets negative, over every sequence of stakes,
\* unstakes, claims and sweeps of any number of gumballs.
THEOREM NftStakingInvariant == Spec => []NftInvariant
  <1>1. NftInv => NftInvariant
    BY TypeParts DEF NftInv, NftInvariant
  <1> QED
    BY <1>1, InitNftInv, NftInvStep, PTL DEF Spec

-----------------------------------------------------------------------------
(* The fee pool.  A share counts fractions of a lamport: the weight times  *)
(* the accumulator less the debt, in units of 1/ACC_SCALE.  A snapshot     *)
(* leaves less than one lamport in it, and everything later is paid for by *)
(* what the stream found in the pool.                                      *)

Shares(acc, ds) == [n \in Nfts |-> Weight[n] * acc - ACC_SCALE * ds[n].debt]

\* What the pool may be short of: a lamport per snapshot, and what was paid on
\* the debts of other gumballs.
Slack == count.snapshots + count.crossed

\* last_seen never falls below the rent.
SeenCoversRent == POOL_RENT <= fee.last_seen

\* No debt is beyond what its position has earned.
DebtsCoveredAt(acc) ==
    \A n \in Nfts : debts[n].bump = 1 => debts[n].debt <= Entitled(Weight[n], acc)

\* The shares of all positions are in the pool, one lamport per snapshot apart.
SharesCoveredAt(f) ==
    SumOver(Earning, Shares(f.acc, debts))
      <= ACC_SCALE * (f.last_seen - POOL_RENT + Slack)

SharesInv ==
    /\ NftInv
    /\ SeenCoversRent
    /\ DebtsCoveredAt(fee.acc)
    /\ SharesCoveredAt(fee)

LEMMA EarningFinite == IsFiniteSet(Earning) /\ Earning \subseteq Staked /\ Earning \subseteq Nfts
  <1>1. Earning \subseteq Staked
    BY DEF Earning
  <1> QED
    BY <1>1, StakedFinite, FS_Subset

\* A covered debt leaves a share that is a natural number; its whole lamports
\* are what the position is owed.
LEMMA ShareNat ==
    ASSUME NEW w \in Nat, NEW acc \in Nat, NEW debt \in Nat, debt <= Entitled(w, acc)
    PROVE  /\ w * acc - ACC_SCALE * debt \in Nat
           /\ ACC_SCALE * (Entitled(w, acc) - debt) <= w * acc - ACC_SCALE * debt
           /\ w * acc - ACC_SCALE * debt < ACC_SCALE * (Entitled(w, acc) - debt) + ACC_SCALE
  <1>0. ACC_SCALE \in Nat
    BY ScaleAssumption
  <1>1. PICK e \in Nat : e = Entitled(w, acc)
    BY EntitledBounds
  <1>2. PICK x \in Nat : x = w * acc
    OBVIOUS
  <1>3. ACC_SCALE * e <= x /\ x < ACC_SCALE * e + ACC_SCALE
    BY <1>1, <1>2, EntitledBounds
  <1>4. ACC_SCALE * debt <= ACC_SCALE * e
    BY <1>0, <1>1, ProductGrows
  <1>5. ACC_SCALE * (e - debt) = ACC_SCALE * e - ACC_SCALE * debt
    BY <1>0
  <1>6. PICK a \in Nat, b \in Nat : a = ACC_SCALE * e /\ b = ACC_SCALE * debt
    BY <1>0
  <1>7. ACC_SCALE * (e - debt) = a - b
    BY <1>5, <1>6
  <1>8. x - b \in Nat /\ a - b <= x - b /\ x - b < a - b + ACC_SCALE
    BY <1>0, <1>3, <1>4, <1>6
  <1> QED
    BY <1>1, <1>2, <1>6, <1>7, <1>8

LEMMA SharesNat ==
    ASSUME AccountsOK, NEW acc \in Nat, DebtsCoveredAt(acc), NEW n \in Earning
    PROVE  /\ Shares(acc, debts)[n] = Weight[n] * acc - ACC_SCALE * debts[n].debt
           /\ Shares(acc, debts)[n] \in Nat
           /\ debts[n].debt \in Nat
           /\ debts[n].bump = 1
           /\ debts[n].debt <= Entitled(Weight[n], acc)
           /\ Entitled(Weight[n], acc) \in Nat
           /\ ACC_SCALE * (Entitled(Weight[n], acc) - debts[n].debt) <= Shares(acc, debts)[n]
  <1>1. n \in Nfts /\ debts[n].bump = 1
    BY DEF Earning, Staked
  <1>2. debts[n].debt \in Nat
    BY <1>1 DEF AccountsOK, DebtsOK, DebtType
  <1>3. debts[n].debt <= Entitled(Weight[n], acc)
    BY <1>1 DEF DebtsCoveredAt
  <1>4. Weight[n] \in Nat
    BY <1>1, WeightNat
  <1>5. Shares(acc, debts)[n] = Weight[n] * acc - ACC_SCALE * debts[n].debt
    BY <1>1 DEF Shares
  <1>6. /\ Weight[n] * acc - ACC_SCALE * debts[n].debt \in Nat
        /\ ACC_SCALE * (Entitled(Weight[n], acc) - debts[n].debt)
             <= Weight[n] * acc - ACC_SCALE * debts[n].debt
    BY <1>2, <1>3, <1>4, ShareNat
  <1>7. Entitled(Weight[n], acc) \in Nat
    BY <1>4, EntitledBounds
  <1> QED
    BY <1>1, <1>2, <1>3, <1>5, <1>6, <1>7, Zenon

\* Debts that are covered stay so when the accumulator rises.
LEMMA CoveredLater ==
    ASSUME AccountsOK, NEW a \in Nat, NEW b \in Nat, a <= b, DebtsCoveredAt(a)
    PROVE  DebtsCoveredAt(b)
  <1>1. SUFFICES ASSUME NEW n \in Nfts, debts[n].bump = 1
                 PROVE  debts[n].debt <= Entitled(Weight[n], b)
    BY DEF DebtsCoveredAt
  <1>2. PICK x \in Nat, y \in Nat : x = Entitled(Weight[n], a) /\ y = Entitled(Weight[n], b)
    BY WeightNat, EntitledBounds
  <1>3. x <= y
    BY <1>2, WeightNat, EntitledRises
  <1>4. debts[n].debt \in Nat /\ debts[n].debt <= x
    BY <1>1, <1>2 DEF AccountsOK, DebtsOK, DebtType, DebtsCoveredAt
  <1> QED
    BY <1>2, <1>3, <1>4

\* Bringing the accumulator up to date credits no more than it found.
LEMMA SharesUpToDate ==
    ASSUME SharesInv
    PROVE  /\ DebtsCoveredAt(FeeNow.acc)
           /\ SharesCoveredAt(FeeNow)
           /\ POOL_RENT <= FeeNow.last_seen
  <1>0. /\ AccountsOK /\ PoolKeepsRent /\ WeightIsSum
        /\ SeenCoversRent /\ DebtsCoveredAt(fee.acc) /\ SharesCoveredAt(fee)
    BY DEF SharesInv, NftInv
  <1>1. PICK total \in Nat : total = config.total_nft_weight
    BY <1>0 DEF AccountsOK, ConfigOK, ConfigType
  <1>2. fee \in FeeType /\ pool \in Nat /\ fee.acc \in Nat /\ fee.last_seen \in Nat
        /\ fee.last_seen <= pool
    BY <1>0 DEF AccountsOK, FeeOK, FeeType, PoolKeepsRent
  <1>3. FeeNow = update_xnt_accumulator(fee, pool, total)
    BY <1>1 DEF FeeNow
  <1>4. /\ FeeNow \in FeeType
        /\ fee.acc <= FeeNow.acc
        /\ fee.last_seen <= FeeNow.last_seen
        /\ total * FeeNow.acc + ACC_SCALE * fee.last_seen
             <= total * fee.acc + ACC_SCALE * FeeNow.last_seen
    <2>1. total <= total
      OBVIOUS
    <2> QED
      BY <1>2, <1>3, <2>1, FeeUpdate
  <1>5. FeeNow.acc \in Nat /\ FeeNow.last_seen \in Nat
    BY <1>4 DEF FeeType
  <1>6. PICK c \in Nat : c = FeeNow.acc - fee.acc
    BY <1>2, <1>4, <1>5
  <1>7. DebtsCoveredAt(FeeNow.acc)
    BY <1>0, <1>2, <1>4, <1>5, CoveredLater
  <1>8. \A n \in Earning : /\ Shares(fee.acc, debts)[n] \in Nat
                            /\ Weight[n] \in Nat
                            /\ Shares(FeeNow.acc, debts)[n] = Shares(fee.acc, debts)[n] + Weight[n] * c
    <2>1. SUFFICES ASSUME NEW n \in Earning
                   PROVE  /\ Shares(fee.acc, debts)[n] \in Nat
                          /\ Weight[n] \in Nat
                          /\ Shares(FeeNow.acc, debts)[n] = Shares(fee.acc, debts)[n] + Weight[n] * c
      OBVIOUS
    <2>2. n \in Nfts /\ Weight[n] \in Nat
      BY EarningFinite, WeightNat
    <2>3. Shares(fee.acc, debts)[n] = Weight[n] * fee.acc - ACC_SCALE * debts[n].debt
          /\ Shares(fee.acc, debts)[n] \in Nat /\ debts[n].debt \in Nat
      BY <1>0, <1>2, SharesNat
    <2>4. Shares(FeeNow.acc, debts)[n] = Weight[n] * FeeNow.acc - ACC_SCALE * debts[n].debt
      BY <2>2 DEF Shares
    <2>5. FeeNow.acc = fee.acc + c
      BY <1>2, <1>5, <1>6
    <2>6. Weight[n] * (fee.acc + c) = Weight[n] * fee.acc + Weight[n] * c
      BY <1>2, <2>2
    <2>7. PICK x \in Nat, y \in Nat, z \in Nat :
             x = Weight[n] * fee.acc /\ y = Weight[n] * c /\ z = ACC_SCALE * debts[n].debt
      <3>1. Weight[n] * fee.acc \in Nat /\ Weight[n] * c \in Nat
        BY <1>2, <2>2
      <3>2. ACC_SCALE * debts[n].debt \in Nat
        BY <2>3, ScaleAssumption
      <3> QED
        BY <3>1, <3>2
    <2>8. Shares(fee.acc, debts)[n] = x - z
      BY <2>3, <2>7
    <2>9. Shares(FeeNow.acc, debts)[n] = (x + y) - z
      <3>1. Weight[n] * FeeNow.acc = x + y
        BY <2>5, <2>6, <2>7
      <3> QED
        BY <2>4, <2>7, <3>1
    <2>10. Shares(FeeNow.acc, debts)[n] = Shares(fee.acc, debts)[n] + y
      <3> DEFINE before == Shares(fee.acc, debts)[n]
                 after == Shares(FeeNow.acc, debts)[n]
      <3>1. before = x - z /\ after = (x + y) - z
        BY <2>8, <2>9
      <3> HIDE DEF before, after
      <3>2. after = before + y
        BY <2>7, <3>1
      <3> QED
        BY <3>2 DEF before, after
    <2> QED
      BY <2>2, <2>3, <2>7, <2>10
  <1>9. SumOver(Earning, Shares(FeeNow.acc, debts))
          = SumOver(Earning, Shares(fee.acc, debts)) + SumOver(Earning, Weight) * c
    BY <1>8, EarningFinite, SumOfShares
  <1>10. SumOver(Earning, Weight) \in Nat /\ SumOver(Earning, Weight) <= total
    <2>1. IsFiniteSet(Staked) /\ Earning \in SUBSET Staked /\ \A n \in Staked : Weight[n] \in Nat
      BY EarningFinite, StakedFinite, WeightNat
    <2>2. SumOver(Earning, Weight) <= SumOver(Staked, Weight)
      BY <2>1, SumOfFewer
    <2>3. SumOver(Earning, Weight) \in Nat
      BY <1>8, EarningFinite, SumIsNat
    <2> QED
      BY <1>0, <1>1, <2>2, <2>3 DEF WeightIsSum, SumOfWeights
  <1>11. PICK we \in Nat, s \in Nat : /\ we = SumOver(Earning, Weight)
                                      /\ s = SumOver(Earning, Shares(fee.acc, debts))
    BY <1>8, <1>10, EarningFinite, SumIsNat
  <1>12. we * c \in Nat /\ we * c <= total * c /\ total * c \in Nat
    BY <1>10, <1>11, ProductGrows
  <1>13. total * FeeNow.acc = total * fee.acc + total * c
    <2>1. FeeNow.acc = fee.acc + c
      BY <1>2, <1>5, <1>6
    <2> QED
      BY <1>2, <2>1
  <1>14. total * fee.acc \in Nat
    BY <1>2
  <1>15. PICK snaps \in Nat : snaps = Slack
    BY <1>0 DEF AccountsOK, HistOK, Slack
  <1>16. /\ ACC_SCALE * (fee.last_seen - POOL_RENT + snaps)
              = ACC_SCALE * fee.last_seen - ACC_SCALE * POOL_RENT + ACC_SCALE * snaps
         /\ ACC_SCALE * (FeeNow.last_seen - POOL_RENT + snaps)
              = ACC_SCALE * FeeNow.last_seen - ACC_SCALE * POOL_RENT + ACC_SCALE * snaps
         /\ ACC_SCALE * fee.last_seen \in Nat /\ ACC_SCALE * FeeNow.last_seen \in Nat
         /\ ACC_SCALE * POOL_RENT \in Nat /\ ACC_SCALE * snaps \in Nat
    BY <1>2, <1>5, ScaleAssumption
  <1>17. PICK l1 \in Nat, l2 \in Nat, r \in Nat, t \in Nat :
             /\ l1 = ACC_SCALE * fee.last_seen /\ l2 = ACC_SCALE * FeeNow.last_seen
             /\ r = ACC_SCALE * POOL_RENT /\ t = ACC_SCALE * snaps
    BY <1>16, Zenon
  <1>18. s <= l1 - r + t
    BY <1>0, <1>11, <1>15, <1>16, <1>17 DEF SharesCoveredAt
  <1>19. total * c + l1 <= l2
    BY <1>4, <1>12, <1>13, <1>14, <1>17
  <1>20. s + we * c <= l2 - r + t
    BY <1>12, <1>18, <1>19
  <1>21. SharesCoveredAt(FeeNow)
    BY <1>9, <1>11, <1>15, <1>16, <1>17, <1>20 DEF SharesCoveredAt
  <1>22. POOL_RENT <= FeeNow.last_seen
    BY <1>0, <1>2, <1>4, <1>5, ScaleAssumption DEF SeenCoversRent
  <1> QED
    BY <1>7, <1>21, <1>22

\* With nobody staked there is no share at all.
LEMMA NobodyEarns ==
    ASSUME AccountsOK, WeightIsSum, config.total_nft_weight = 0
    PROVE  Staked = {} /\ Earning = {}
  <1>1. Staked \in SUBSET Nfts
    BY StakedFinite
  <1>2. \A n \in Staked : Weight[n] <= 0
    BY <1>1, WeightOfSet DEF WeightIsSum
  <1>3. \A n \in Staked : Weight[n] \in Nat /\ Weight[n] # 0
    BY <1>1, WeightNat
  <1>4. Staked = {}
    BY <1>2, <1>3
  <1> QED
    BY <1>4, EarningFinite

LEMMA SomebodyStaked ==
    ASSUME AccountsOK, WeightIsSum, NEW n \in Staked
    PROVE  config.total_nft_weight # 0
  BY NobodyEarns

\* What a stake leaves: as an update, or with nobody there and nothing owed.
LEMMA SharesAdvanced ==
    ASSUME SharesInv
    PROVE  LET f == advance_xnt_for_stake(fee, pool, config.total_nft_weight)
           IN  /\ f \in FeeType
               /\ f.last_seen = pool
               /\ DebtsCoveredAt(f.acc)
               /\ SharesCoveredAt(f)
  <1> DEFINE f == advance_xnt_for_stake(fee, pool, config.total_nft_weight)
  <1>0. AccountsOK /\ PoolKeepsRent /\ WeightIsSum /\ DebtsCoveredAt(fee.acc)
    BY DEF SharesInv, NftInv
  <1>1. /\ fee \in FeeType /\ pool \in Nat /\ config.total_nft_weight \in Nat
        /\ fee.last_seen <= pool /\ fee.acc \in Nat
    BY <1>0 DEF AccountsOK, FeeOK, FeeType, ConfigOK, ConfigType, PoolKeepsRent
  <1>2. /\ f \in FeeType /\ f.last_seen = pool /\ fee.acc <= f.acc
        /\ config.total_nft_weight # 0
             => f = update_xnt_accumulator(fee, pool, config.total_nft_weight)
    BY <1>1, FeeAdvance
  <1> HIDE DEF f
  <1>3. f.acc \in Nat
    BY <1>2 DEF FeeType
  <1>4. DebtsCoveredAt(f.acc)
    BY <1>0, <1>1, <1>2, <1>3, CoveredLater
  <1>5. CASE config.total_nft_weight # 0
    <2>1. f = FeeNow
      BY <1>2, <1>5 DEF FeeNow
    <2>2. SharesCoveredAt(FeeNow)
      BY SharesUpToDate
    <2> QED
      BY <1>2, <1>4, <2>1, <2>2 DEF f
  <1>6. CASE config.total_nft_weight = 0
    <2>1. SumOver(Earning, Shares(f.acc, debts)) = 0
      BY <1>0, <1>6, NobodyEarns, SumOfNone
    <2>2. PICK x \in Nat : x = pool - POOL_RENT + Slack
      BY <1>0, <1>1, ScaleAssumption DEF PoolKeepsRent, AccountsOK, HistOK, Slack
    <2>3. 0 <= ACC_SCALE * x
      BY ScaleAssumption
    <2>4. SharesCoveredAt(f)
      BY <1>2, <2>1, <2>2, <2>3 DEF SharesCoveredAt
    <2> QED
      BY <1>2, <1>4, <2>4 DEF f
  <1> QED
    BY <1>5, <1>6

\* A position joins the stream with a snapshot: less than a lamport's worth.
LEMMA SharesJoin ==
    ASSUME AccountsOK, NEW f \in FeeType, DebtsCoveredAt(f.acc), SharesCoveredAt(f),
           POOL_RENT <= f.last_seen,
           NEW n \in Nfts, n \notin Earning,
           Earning' = Earning \cup {n},
           fee' = f,
           debts' = [debts EXCEPT ![n] = Snapshot(Weight[n], f.acc)],
           Slack' = Slack + 1
    PROVE  SeenCoversRent' /\ DebtsCoveredAt(fee.acc)' /\ SharesCoveredAt(fee)'
  <1>1. f.acc \in Nat /\ f.last_seen \in Nat
    BY DEF FeeType
  <1>2. PICK w \in Nat, e \in Nat : w = Weight[n] /\ e = Entitled(Weight[n], f.acc)
    BY <1>1, WeightNat, EntitledBounds
  <1>3. debts'[n] = [debt |-> e, bump |-> 1] /\ \A m \in Nfts \ {n} : debts'[m] = debts[m]
    BY <1>2 DEF AccountsOK, DebtsOK, Snapshot
  <1>4. DebtsCoveredAt(fee.acc)'
    <2>1. SUFFICES ASSUME NEW m \in Nfts, debts'[m].bump = 1
                   PROVE  debts'[m].debt <= Entitled(Weight[m], f.acc)
      BY DEF DebtsCoveredAt
    <2>2. CASE m = n
      <3>1. e <= e
        OBVIOUS
      <3> QED
        BY <1>2, <1>3, <2>2, <3>1
    <2>3. CASE m # n
      BY <1>3, <2>1, <2>3 DEF DebtsCoveredAt
    <2> QED
      BY <2>2, <2>3
  <1>5. SumOver(Earning, Shares(f.acc, debts')) = SumOver(Earning, Shares(f.acc, debts))
    <2>1. ASSUME NEW m \in Earning
          PROVE  Shares(f.acc, debts)[m] \in Nat /\ Shares(f.acc, debts)[m] = Shares(f.acc, debts')[m]
      <3>1. m \in Nfts \ {n}
        BY EarningFinite
      <3> QED
        BY <1>1, <1>3, <3>1, SharesNat DEF Shares
    <2> QED
      BY <2>1, EarningFinite, SumSame
  <1>6. Shares(f.acc, debts')[n] \in Nat /\ Shares(f.acc, debts')[n] < ACC_SCALE
    <2>1. w * f.acc - ACC_SCALE * e \in Nat /\ w * f.acc - ACC_SCALE * e < ACC_SCALE * (e - e) + ACC_SCALE
      <3>1. e <= Entitled(w, f.acc)
        BY <1>2
      <3>2. Entitled(w, f.acc) = e
        BY <1>2
      <3> QED
        BY <1>1, <3>1, <3>2, ShareNat
    <2>2. ACC_SCALE * (e - e) = 0
      BY ScaleAssumption
    <2>3. Shares(f.acc, debts')[n] = w * f.acc - ACC_SCALE * e
      BY <1>2, <1>3 DEF Shares
    <2> QED
      BY <2>1, <2>2, <2>3, ScaleAssumption
  <1>7. \A m \in Earning : Shares(f.acc, debts')[m] \in Nat
    <2>1. ASSUME NEW m \in Earning PROVE Shares(f.acc, debts')[m] \in Nat
      <3>1. m \in Nfts \ {n}
        BY EarningFinite
      <3> QED
        BY <1>1, <1>3, <3>1, SharesNat DEF Shares
    <2> QED
      BY <2>1
  <1>8. SumOver(Earning \cup {n}, Shares(f.acc, debts'))
          = Shares(f.acc, debts')[n] + SumOver(Earning, Shares(f.acc, debts'))
    <2>1. \A m \in Earning \cup {n} : Shares(f.acc, debts')[m] \in Nat
      BY <1>6, <1>7
    <2>2. PICK g : g = Shares(f.acc, debts')
      OBVIOUS
    <2>3. IsFiniteSet(Earning) /\ n \notin Earning /\ \A m \in Earning \cup {n} : g[m] \in Nat
      BY <2>1, <2>2, EarningFinite
    <2>4. SumOver(Earning \cup {n}, g) = g[n] + SumOver(Earning, g)
      BY <2>3, SumAdd
    <2> QED
      BY <2>2, <2>4
  <1>9. PICK a \in Nat, b \in Nat, k \in Nat :
            /\ a = Shares(f.acc, debts')[n] /\ b = SumOver(Earning, Shares(f.acc, debts'))
            /\ k = f.last_seen - POOL_RENT + Slack
    <2>1. SumOver(Earning, Shares(f.acc, debts')) \in Nat
      BY <1>7, EarningFinite, SumIsNat
    <2>2. f.last_seen - POOL_RENT + Slack \in Nat
      BY <1>1, ScaleAssumption DEF AccountsOK, HistOK, Slack
    <2> QED
      BY <1>6, <2>1, <2>2
  <1>10. b <= ACC_SCALE * k
    BY <1>5, <1>9 DEF SharesCoveredAt
  <1>11. ACC_SCALE * (k + 1) = ACC_SCALE * k + ACC_SCALE /\ ACC_SCALE * k \in Nat /\ ACC_SCALE \in Nat
    BY ScaleAssumption
  <1>12. a + b <= ACC_SCALE * (k + 1)
    BY <1>6, <1>9, <1>10, <1>11
  <1>13. f.last_seen - POOL_RENT + (Slack + 1) = k + 1
    BY <1>1, <1>9, ScaleAssumption DEF AccountsOK, HistOK, Slack
  <1>14. SharesCoveredAt(fee)'
    BY <1>8, <1>9, <1>12, <1>13 DEF SharesCoveredAt
  <1> QED
    BY <1>4, <1>14 DEF SeenCoversRent

\* A position is paid x lamports: its share and the pool fall by as much.
LEMMA SharesPaid ==
    ASSUME AccountsOK, NEW f \in FeeType, DebtsCoveredAt(f.acc), SharesCoveredAt(f),
           NEW n \in Earning, NEW x \in Nat,
           x <= Entitled(Weight[n], f.acc) - debts[n].debt,
           POOL_RENT <= f.last_seen - x,
           Earning' = Earning,
           fee' = [acc |-> f.acc, last_seen |-> f.last_seen - x],
           debts' = [debts EXCEPT ![n] = [debt |-> debts[n].debt + x, bump |-> 1]],
           Slack' = Slack
    PROVE  SeenCoversRent' /\ DebtsCoveredAt(fee.acc)' /\ SharesCoveredAt(fee)'
  <1>1. f.acc \in Nat /\ f.last_seen \in Nat /\ fee'.acc = f.acc /\ fee'.last_seen = f.last_seen - x
    BY DEF FeeType
  <1>2. n \in Nfts /\ Weight[n] \in Nat
    BY EarningFinite, WeightNat
  <1>3. PICK w \in Nat, e \in Nat, d \in Nat :
            w = Weight[n] /\ e = Entitled(Weight[n], f.acc) /\ d = debts[n].debt
    BY <1>1, <1>2, SharesNat
  <1>4. debts'[n] = [debt |-> d + x, bump |-> 1] /\ \A m \in Nfts \ {n} : debts'[m] = debts[m]
    BY <1>2, <1>3 DEF AccountsOK, DebtsOK
  <1>5. d + x <= e /\ d + x \in Nat
    BY <1>3
  <1>6. DebtsCoveredAt(fee.acc)'
    <2>1. SUFFICES ASSUME NEW m \in Nfts, debts'[m].bump = 1
                   PROVE  debts'[m].debt <= Entitled(Weight[m], f.acc)
      BY <1>1 DEF DebtsCoveredAt
    <2>2. CASE m = n
      BY <1>3, <1>4, <1>5, <2>2
    <2>3. CASE m # n
      BY <1>4, <2>1, <2>3 DEF DebtsCoveredAt
    <2> QED
      BY <2>2, <2>3
  <1>7. PICK g, h : g = Shares(f.acc, debts) /\ h = Shares(f.acc, debts')
    OBVIOUS
  <1>8. g[n] = w * f.acc - ACC_SCALE * d /\ h[n] = w * f.acc - ACC_SCALE * (d + x) /\ h[n] \in Nat
    <2>1. w * f.acc - ACC_SCALE * (d + x) \in Nat
      BY <1>1, <1>3, <1>5, ShareNat
    <2> QED
      BY <1>2, <1>3, <1>4, <1>7, <2>1 DEF Shares
  <1>9. \A m \in Earning : g[m] \in Nat /\ h[m] \in Nat
    <2>1. ASSUME NEW m \in Earning PROVE g[m] \in Nat /\ h[m] \in Nat
      <3>1. g[m] \in Nat
        BY <1>1, <1>7, SharesNat
      <3>2. CASE m = n
        BY <1>8, <3>1, <3>2
      <3>3. CASE m # n
        <4>1. m \in Nfts \ {n}
          BY <3>3, EarningFinite
        <4> QED
          BY <1>4, <1>7, <3>1, <4>1 DEF Shares
      <3> QED
        BY <3>2, <3>3
    <2> QED
      BY <2>1
  <1>10. \A m \in Earning \ {n} : g[m] = h[m]
    <2>1. ASSUME NEW m \in Earning \ {n} PROVE g[m] = h[m]
      <3>1. m \in Nfts \ {n}
        BY EarningFinite
      <3> QED
        BY <1>4, <1>7, <3>1 DEF Shares
    <2> QED
      BY <2>1
  <1>11. SumOver(Earning, h) + g[n] = SumOver(Earning, g) + h[n]
    BY <1>9, <1>10, EarningFinite, SumChange
  <1>12. ACC_SCALE * (d + x) = ACC_SCALE * d + ACC_SCALE * x
    BY ScaleAssumption
  <1>13. PICK a \in Nat, b \in Nat, i \in Nat, j \in Nat, y \in Nat :
            /\ a = SumOver(Earning, g) /\ b = SumOver(Earning, h)
            /\ i = w * f.acc /\ j = ACC_SCALE * d /\ y = ACC_SCALE * x
    <2>1. SumOver(Earning, g) \in Nat /\ SumOver(Earning, h) \in Nat
      BY <1>9, EarningFinite, SumIsNat
    <2>2. w * f.acc \in Nat /\ ACC_SCALE * d \in Nat /\ ACC_SCALE * x \in Nat
      BY <1>1, ScaleAssumption
    <2> QED
      BY <2>1, <2>2
  <1>14. a = b + y
    BY <1>8, <1>11, <1>12, <1>13
  <1>15. PICK k \in Nat : k = f.last_seen - x - POOL_RENT + Slack
    BY <1>1, ScaleAssumption DEF AccountsOK, HistOK, Slack
  <1>16. f.last_seen - POOL_RENT + Slack = k + x
    BY <1>1, <1>15, ScaleAssumption DEF AccountsOK, HistOK, Slack
  <1>17. ACC_SCALE * (k + x) = ACC_SCALE * k + y /\ ACC_SCALE * k \in Nat
    BY <1>13, ScaleAssumption
  <1>18. b <= ACC_SCALE * k
    BY <1>7, <1>13, <1>14, <1>16, <1>17 DEF SharesCoveredAt
  <1>19. SharesCoveredAt(fee)'
    BY <1>1, <1>7, <1>13, <1>15, <1>18 DEF SharesCoveredAt
  <1> QED
    BY <1>1, <1>6, <1>19 DEF SeenCoversRent

\* A position leaves with x lamports, at most its share.
LEMMA SharesLeave ==
    ASSUME AccountsOK, NEW f \in FeeType, DebtsCoveredAt(f.acc), SharesCoveredAt(f),
           NEW n \in Nfts, NEW x \in Nat,
           n \in Earning => x <= Entitled(Weight[n], f.acc) - debts[n].debt,
           n \notin Earning => x = 0,
           POOL_RENT <= f.last_seen - x,
           Earning' = Earning \ {n},
           fee' = [acc |-> f.acc, last_seen |-> f.last_seen - x],
           debts' = [debts EXCEPT ![n] = NoDebt],
           Slack' = Slack
    PROVE  SeenCoversRent' /\ DebtsCoveredAt(fee.acc)' /\ SharesCoveredAt(fee)'
  <1>1. f.acc \in Nat /\ f.last_seen \in Nat /\ fee'.acc = f.acc /\ fee'.last_seen = f.last_seen - x
    BY DEF FeeType
  <1>2. debts'[n].bump = 0 /\ \A m \in Nfts \ {n} : debts'[m] = debts[m]
    BY DEF AccountsOK, DebtsOK, NoDebt
  <1>3. DebtsCoveredAt(fee.acc)'
    <2>1. SUFFICES ASSUME NEW m \in Nfts, debts'[m].bump = 1
                   PROVE  debts'[m].debt <= Entitled(Weight[m], f.acc)
      BY <1>1 DEF DebtsCoveredAt
    <2> QED
      BY <1>2, <2>1 DEF DebtsCoveredAt
  <1>4. PICK g, h : g = Shares(f.acc, debts) /\ h = Shares(f.acc, debts')
    OBVIOUS
  <1>5. \A m \in Earning : g[m] \in Nat
    BY <1>1, <1>4, SharesNat
  <1>6. \A m \in Earning \ {n} : g[m] \in Nat /\ g[m] = h[m]
    <2>1. ASSUME NEW m \in Earning \ {n} PROVE g[m] = h[m]
      <3>1. m \in Nfts \ {n}
        BY EarningFinite
      <3> QED
        BY <1>2, <1>4, <3>1 DEF Shares
    <2> QED
      BY <1>5, <2>1
  <1>7. PICK r : r = Earning \ {n} /\ IsFiniteSet(r)
    <2>1. IsFiniteSet(Earning \ {n})
      BY EarningFinite, FS_Subset
    <2> QED
      BY <2>1
  <1>8. SumOver(r, g) = SumOver(r, h) /\ SumOver(r, g) \in Nat
    BY <1>6, <1>7, SumSame, SumIsNat
  <1>9. PICK y \in Nat : y = ACC_SCALE * x
    BY ScaleAssumption
  <1>10. SumOver(r, g) + y <= SumOver(Earning, g)
    <2>1. CASE n \in Earning
      <3>1. SumOver(Earning, g) = g[n] + SumOver(r, g) /\ g[n] \in Nat
        BY <1>5, <1>7, <2>1, EarningFinite, SumRemove
      <3>2. PICK e \in Nat, d \in Nat : /\ e = Entitled(Weight[n], f.acc) /\ d = debts[n].debt
                                        /\ d <= e /\ ACC_SCALE * (e - d) <= g[n]
        BY <1>1, <1>4, <2>1, SharesNat
      <3>3. PICK z \in Nat : z = e - d
        BY <3>2
      <3>4. x <= z
        BY <2>1, <3>2, <3>3
      <3>5. y <= ACC_SCALE * z /\ ACC_SCALE * z \in Nat
        BY <1>9, <3>4, ProductGrows, ScaleAssumption
      <3> QED
        BY <1>8, <3>1, <3>2, <3>3, <3>5
    <2>2. CASE n \notin Earning
      <3>1. r = Earning /\ y = 0
        BY <1>7, <1>9, <2>2, ScaleAssumption
      <3> QED
        BY <1>8, <3>1
    <2> QED
      BY <2>1, <2>2
  <1>11. PICK a \in Nat, b \in Nat : a = SumOver(Earning, g) /\ b = SumOver(r, h)
    BY <1>5, <1>8, EarningFinite, SumIsNat
  <1>12. PICK k \in Nat : k = f.last_seen - x - POOL_RENT + Slack
    BY <1>1, ScaleAssumption DEF AccountsOK, HistOK, Slack
  <1>13. f.last_seen - POOL_RENT + Slack = k + x
    BY <1>1, <1>12, ScaleAssumption DEF AccountsOK, HistOK, Slack
  <1>14. ACC_SCALE * (k + x) = ACC_SCALE * k + y /\ ACC_SCALE * k \in Nat
    BY <1>9, ScaleAssumption
  <1>15. b <= ACC_SCALE * k
    BY <1>4, <1>8, <1>10, <1>11, <1>13, <1>14 DEF SharesCoveredAt
  <1>16. SharesCoveredAt(fee)'
    BY <1>1, <1>4, <1>7, <1>11, <1>12, <1>15 DEF SharesCoveredAt
  <1> QED
    BY <1>1, <1>3, <1>16 DEF SeenCoversRent

\* A stake account leaves with x lamports of another gumball's debt: both are out
\* of the stream, and what the pool may be short of grows by as much.
LEMMA SharesCross ==
    ASSUME AccountsOK, NEW f \in FeeType, DebtsCoveredAt(f.acc), SharesCoveredAt(f),
           NEW n \in Nfts, NEW m \in Nfts, NEW x \in Nat,
           POOL_RENT <= f.last_seen - x,
           Earning' = Earning \ {n, m},
           fee' = [acc |-> f.acc, last_seen |-> f.last_seen - x],
           debts' = [debts EXCEPT ![m] = NoDebt],
           Slack' = Slack + x
    PROVE  SeenCoversRent' /\ DebtsCoveredAt(fee.acc)' /\ SharesCoveredAt(fee)'
  <1>1. f.acc \in Nat /\ f.last_seen \in Nat /\ fee'.acc = f.acc /\ fee'.last_seen = f.last_seen - x
    BY DEF FeeType
  <1>2. debts'[m].bump = 0 /\ \A k \in Nfts \ {m} : debts'[k] = debts[k]
    BY DEF AccountsOK, DebtsOK, NoDebt
  <1>3. DebtsCoveredAt(fee.acc)'
    <2>1. SUFFICES ASSUME NEW k \in Nfts, debts'[k].bump = 1
                   PROVE  debts'[k].debt <= Entitled(Weight[k], f.acc)
      BY <1>1 DEF DebtsCoveredAt
    <2> QED
      BY <1>2, <2>1 DEF DebtsCoveredAt
  <1>4. PICK g, h : g = Shares(f.acc, debts) /\ h = Shares(f.acc, debts')
    OBVIOUS
  <1>5. \A k \in Earning : g[k] \in Nat
    BY <1>1, <1>4, SharesNat
  <1>6. PICK rest : rest = Earning \ {n, m} /\ rest \in SUBSET Earning /\ IsFiniteSet(rest)
    <2>1. IsFiniteSet(Earning \ {n, m})
      BY EarningFinite, FS_Subset
    <2> QED
      BY <2>1
  <1>7. \A k \in rest : g[k] \in Nat /\ g[k] = h[k]
    <2>1. ASSUME NEW k \in rest PROVE g[k] = h[k]
      <3>1. k \in Nfts \ {m}
        BY <1>6, EarningFinite
      <3> QED
        BY <1>2, <1>4, <3>1 DEF Shares
    <2> QED
      BY <1>5, <1>6, <2>1
  <1>8. SumOver(rest, g) = SumOver(rest, h)
    BY <1>6, <1>7, SumSame
  <1>9. SumOver(rest, g) <= SumOver(Earning, g)
    BY <1>5, <1>6, EarningFinite, SumOfFewer
  <1>10. PICK a \in Nat, b \in Nat : a = SumOver(Earning, g) /\ b = SumOver(rest, h)
    BY <1>5, <1>6, <1>7, <1>8, EarningFinite, SumIsNat
  <1>11. fee'.last_seen - POOL_RENT + Slack' = f.last_seen - POOL_RENT + Slack
    BY <1>1, ScaleAssumption DEF AccountsOK, HistOK, Slack
  <1>12. PICK k \in Nat : k = f.last_seen - POOL_RENT + Slack
    BY <1>1, ScaleAssumption DEF AccountsOK, HistOK, Slack
  <1>13. a <= ACC_SCALE * k /\ ACC_SCALE * k \in Nat
    BY <1>4, <1>10, <1>12, ScaleAssumption DEF SharesCoveredAt
  <1>14. b <= ACC_SCALE * k
    BY <1>8, <1>9, <1>10, <1>13
  <1>15. SharesCoveredAt(fee)'
    BY <1>1, <1>4, <1>6, <1>10, <1>11, <1>12, <1>14 DEF SharesCoveredAt
  <1> QED
    BY <1>1, <1>3, <1>15 DEF SeenCoversRent

\* What a position that is in the stream can claim right now.
LEMMA OwedIs ==
    ASSUME SharesInv, NEW n \in Earning
    PROVE  /\ Owed(n) = Entitled(Weight[n], FeeNow.acc) - debts[n].debt
           /\ Owed(n) \in Nat
  <1>0. AccountsOK /\ PoolKeepsRent /\ DebtsCoveredAt(FeeNow.acc)
    BY SharesUpToDate DEF SharesInv, NftInv
  <1>1. FeeNow.acc \in Nat
    BY <1>0, FeeNowType DEF FeeType
  <1>2. PICK e \in Nat, d \in Nat : /\ e = Entitled(Weight[n], FeeNow.acc) /\ d = debts[n].debt
                                    /\ d <= e /\ debts[n].bump = 1
    BY <1>0, <1>1, SharesNat
  <1>3. saturating_sub(e, d) = e - d
    BY <1>2, SaturatingNat
  <1>4. Owed(n) = saturating_sub(e, d)
    BY <1>2 DEF Owed, PendingXnt
  <1> QED
    BY <1>2, <1>3, <1>4

\* What a settlement leaves in the stream, whosever debt it is on.
LEMMA SettledLeaves ==
    ASSUME SharesInv, NEW n \in Staked, NEW m \in Nfts
    PROVE  LET s == SettledOn(n, m)
           IN  /\ s.paid \in Nat /\ s.remaining \in Nat
               /\ s.paid + s.remaining = PendingXnt(FeeNow, debts[m], Weight[n])
               /\ s.fee = [acc |-> FeeNow.acc, last_seen |-> FeeNow.last_seen - s.paid]
               /\ s.fee \in FeeType
               /\ s.pool = s.fee.last_seen
               /\ POOL_RENT <= FeeNow.last_seen - s.paid
               /\ s.debt = IF debts[m].bump = 0 THEN Snapshot(Weight[n], FeeNow.acc)
                           ELSE [debt |-> debts[m].debt + s.paid, bump |-> 1]
  <1>0. AccountsOK /\ PoolKeepsRent /\ WeightIsSum
    BY DEF SharesInv, NftInv
  <1>1. /\ FeeNow \in FeeType /\ FeeNow.last_seen = pool /\ pool \in Nat /\ POOL_RENT <= pool
        /\ FeeNow.last_seen <= pool /\ POOL_RENT \in Nat
    BY <1>0, FeeNowType, SomebodyStaked, ScaleAssumption DEF AccountsOK, FeeOK, PoolKeepsRent
  <1>2. n \in Nfts /\ debts[m] \in DebtType /\ Weight[n] \in Nat
    BY <1>0, StakedFinite, WeightNat DEF AccountsOK, DebtsOK
  <1>3. PICK s : s = SettledOn(n, m)
    OBVIOUS
  <1>4. /\ s.paid \in Nat /\ s.remaining \in Nat
        /\ s.paid + s.remaining = PendingXnt(FeeNow, debts[m], Weight[n])
        /\ s.fee = [acc |-> FeeNow.acc, last_seen |-> saturating_sub(FeeNow.last_seen, s.paid)]
        /\ s.pool = pool - s.paid /\ POOL_RENT <= s.pool
        /\ s.debt = IF debts[m].bump = 0 THEN Snapshot(Weight[n], FeeNow.acc)
                    ELSE [debt |-> debts[m].debt + s.paid, bump |-> 1]
    BY <1>1, <1>2, <1>3, Settlement DEF SettledOn
  <1>5. POOL_RENT <= FeeNow.last_seen - s.paid /\ FeeNow.last_seen - s.paid \in Nat
    BY <1>1, <1>4
  <1>6. saturating_sub(FeeNow.last_seen, s.paid) = FeeNow.last_seen - s.paid
    BY <1>1, <1>4, <1>5, SaturatingNat
  <1>7. s.fee \in FeeType /\ s.pool = s.fee.last_seen
    BY <1>1, <1>4, <1>5, <1>6 DEF FeeType
  <1> QED
    BY <1>3, <1>4, <1>5, <1>6, <1>7

\* What a settlement on the position's own debt pays.
LEMMA SettledPays ==
    ASSUME SharesInv, NEW n \in Staked
    PROVE  LET s == SettledFor(n)
           IN  /\ s.paid \in Nat
               /\ s.fee = [acc |-> FeeNow.acc, last_seen |-> FeeNow.last_seen - s.paid]
               /\ POOL_RENT <= FeeNow.last_seen - s.paid
               /\ n \in Earning =>
                    /\ s.paid <= Entitled(Weight[n], FeeNow.acc) - debts[n].debt
                    /\ s.debt = [debt |-> debts[n].debt + s.paid, bump |-> 1]
               /\ n \notin Earning =>
                    s.paid = 0 /\ s.debt = Snapshot(Weight[n], FeeNow.acc) /\ debts[n].bump = 0
  <1>1. n \in Nfts
    BY StakedFinite
  <1>2. debts[n] \in DebtType
    BY <1>1 DEF SharesInv, NftInv, AccountsOK, DebtsOK
  <1>3. PICK s : s = SettledFor(n)
    OBVIOUS
  <1>4. /\ s.paid \in Nat /\ s.remaining \in Nat
        /\ s.paid + s.remaining = PendingXnt(FeeNow, debts[n], Weight[n])
        /\ s.fee = [acc |-> FeeNow.acc, last_seen |-> FeeNow.last_seen - s.paid]
        /\ POOL_RENT <= FeeNow.last_seen - s.paid
        /\ s.debt = IF debts[n].bump = 0 THEN Snapshot(Weight[n], FeeNow.acc)
                    ELSE [debt |-> debts[n].debt + s.paid, bump |-> 1]
    BY <1>1, <1>3, SettledLeaves DEF SettledFor
  <1>7. CASE n \in Earning
    <2>1. /\ PendingXnt(FeeNow, debts[n], Weight[n]) = Entitled(Weight[n], FeeNow.acc) - debts[n].debt
          /\ PendingXnt(FeeNow, debts[n], Weight[n]) \in Nat
      BY <1>7, OwedIs DEF Owed
    <2>2. debts[n].bump = 1
      BY <1>7 DEF Earning
    <2> QED
      BY <1>3, <1>4, <1>7, <2>1, <2>2
  <1>8. CASE n \notin Earning
    <2>1. debts[n].bump = 0
      BY <1>2, <1>8 DEF Earning, DebtType
    <2>2. PendingXnt(FeeNow, debts[n], Weight[n]) = 0
      BY <2>1 DEF PendingXnt
    <2>3. s.paid = 0
      BY <1>4, <2>2
    <2> QED
      BY <1>3, <1>4, <1>8, <2>1, <2>3
  <1> QED
    BY <1>7, <1>8

-----------------------------------------------------------------------------
(* The shares stay covered, action by action.                              *)

SharesOK == SeenCoversRent /\ DebtsCoveredAt(fee.acc) /\ SharesCoveredAt(fee)

LEMMA InitShares == Init => SharesInv
  <1>1. SUFFICES ASSUME Init PROVE SharesOK
    BY InitNftInv DEF SharesInv, SharesOK
  <1>2. NftInv
    BY <1>1, InitNftInv
  <1>3. fee = [acc |-> 0, last_seen |-> POOL_RENT] /\ Slack = 0
    BY <1>1 DEF Init, InitialFee, Slack
  <1>4. PICK legacy \in SUBSET Nfts, stale \in SUBSET Nfts :
            /\ legacy \cap stale = {}
            /\ stakes = [n \in Nfts |-> [NoStake EXCEPT !.open = n \in legacy]]
            /\ debts = [n \in Nfts |-> IF n \in stale THEN Snapshot(Weight[n], 0) ELSE NoDebt]
    BY <1>1 DEF Init
  <1>5. ASSUME NEW n \in Nfts
        PROVE  /\ debts[n].bump = 1 => n \in stale
               /\ debts[n].bump = 1 => debts[n].debt <= Entitled(Weight[n], 0)
    <2>1. PICK e \in Nat : e = Entitled(Weight[n], 0) /\ e <= e
      BY WeightNat, EntitledBounds
    <2> QED
      BY <1>4, <2>1 DEF Snapshot, NoDebt
  <1>6. ASSUME NEW n \in Earning PROVE FALSE
    <2>1. n \in Nfts /\ stakes[n].open /\ debts[n].bump = 1
      BY DEF Earning, Staked
    <2>2. stakes[n].open = (n \in legacy)
      BY <1>4, <2>1, Zenon DEF NoStake
    <2> QED
      BY <1>4, <1>5, <2>1, <2>2
  <1>7. SumOver(Earning, Shares(fee.acc, debts)) = 0
    <2>1. Earning = {}
      BY <1>6
    <2> QED
      BY <2>1, SumOfNone
  <1>8. ACC_SCALE * (fee.last_seen - POOL_RENT + Slack) = 0
    <2>1. fee.last_seen - POOL_RENT + Slack = 0
      BY <1>3, ScaleAssumption
    <2> QED
      BY <2>1, ScaleAssumption
  <1>9. SharesCoveredAt(fee)
    BY <1>7, <1>8 DEF SharesCoveredAt
  <1>10. DebtsCoveredAt(fee.acc)
    BY <1>3, <1>5 DEF DebtsCoveredAt
  <1> QED
    BY <1>3, <1>9, <1>10, ScaleAssumption DEF SharesOK, SeenCoversRent

LEMMA SharesUnchanged ==
    ASSUME SharesInv, fee' = fee, debts' = debts, Staked' = Staked,
           Slack' = Slack
    PROVE  SharesOK'
  BY DEF SharesInv, SharesOK, SeenCoversRent, DebtsCoveredAt, SharesCoveredAt, Shares, Earning

LEMMA SharesStake ==
    ASSUME SharesInv, NEW n \in Nfts, stake(n)
    PROVE  SharesOK'
  <1>0. AccountsOK /\ PoolKeepsRent
    BY DEF SharesInv, NftInv
  <1>1. PICK f : f = advance_xnt_for_stake(fee, pool, config.total_nft_weight)
    OBVIOUS
  <1>2. f \in FeeType /\ DebtsCoveredAt(f.acc) /\ SharesCoveredAt(f) /\ POOL_RENT <= f.last_seen
    BY <1>0, <1>1, SharesAdvanced DEF PoolKeepsRent
  <1>3. fee' = f /\ debts' = [debts EXCEPT ![n] = Snapshot(Weight[n], f.acc)]
    BY <1>1 DEF stake, DebtAtStake
  <1>4. Slack' = Slack + 1
    BY <1>0 DEF stake, AccountsOK, HistOK, Slack
  <1>5. n \notin Earning
    BY DEF stake, Earning, Staked
  <1>6. Earning' = Earning \cup {n}
    <2>1. StakeAt(n, GumNow).open
      BY DEF StakeAt
    <2>2. stakes'[n].open /\ \A m \in Nfts \ {n} : stakes'[m] = stakes[m]
      BY <1>0, <2>1 DEF stake, AccountsOK, StakesOK
    <2>3. debts'[n].bump = 1 /\ \A m \in Nfts \ {n} : debts'[m] = debts[m]
      BY <1>0, <1>3 DEF AccountsOK, DebtsOK, Snapshot
    <2> QED
      BY <2>2, <2>3 DEF Earning, Staked
  <1> QED
    BY <1>0, <1>2, <1>3, <1>4, <1>5, <1>6, SharesJoin DEF SharesOK

\* A position leaves with its own gumball ...
LEMMA SharesUnstake ==
    ASSUME SharesInv, NEW n \in Nfts, unstake(n, n)
    PROVE  SharesOK'
  <1>0. AccountsOK /\ PoolKeepsRent
    BY DEF SharesInv, NftInv
  <1>1. n \in Staked
    BY DEF unstake, Staked
  <1>2. PICK s : s = SettledFor(n)
    OBVIOUS
  <1>3. /\ s.paid \in Nat
        /\ s.fee = [acc |-> FeeNow.acc, last_seen |-> FeeNow.last_seen - s.paid]
        /\ POOL_RENT <= FeeNow.last_seen - s.paid
        /\ n \in Earning => s.paid <= Entitled(Weight[n], FeeNow.acc) - debts[n].debt
        /\ n \notin Earning => s.paid = 0
    BY <1>1, <1>2, SettledPays
  <1>4. FeeNow \in FeeType /\ DebtsCoveredAt(FeeNow.acc) /\ SharesCoveredAt(FeeNow)
    BY <1>0, FeeNowType, SharesUpToDate
  <1>5. fee' = s.fee /\ debts' = [debts EXCEPT ![n] = NoDebt] /\ Slack' = Slack
    BY <1>0, <1>2 DEF AccountsOK, HistOK, Slack, unstake, SettledFor, SettledOn, FeeBeforeUnstake
  <1>6. Earning' = Earning \ {n}
    <2>1. ~ stakes'[n].open /\ \A m \in Nfts \ {n} : stakes'[m] = stakes[m]
      BY <1>0 DEF unstake, AccountsOK, StakesOK, NoStake
    <2>2. \A m \in Nfts \ {n} : debts'[m] = debts[m]
      BY <1>0, <1>5 DEF AccountsOK, DebtsOK
    <2> QED
      BY <2>1, <2>2 DEF Earning, Staked
  <1>7. PICK f, x : f = FeeNow /\ x = s.paid
    OBVIOUS
  <1>8. fee' = [acc |-> f.acc, last_seen |-> f.last_seen - x]
    BY <1>3, <1>5, <1>7
  <1> QED
    BY <1>0, <1>3, <1>4, <1>5, <1>6, <1>7, <1>8, SharesLeave DEF SharesOK

\* ... or with another one.
LEMMA SharesUnstakeOther ==
    ASSUME SharesInv, NEW n \in Nfts, NEW m \in Nfts, m # n, unstake(n, m)
    PROVE  SharesOK'
  <1>0. AccountsOK /\ PoolKeepsRent
    BY DEF SharesInv, NftInv
  <1>1. n \in Staked
    BY DEF unstake, Staked
  <1>2. PICK s : s = SettledOn(n, m)
    OBVIOUS
  <1>3. /\ s.paid \in Nat
        /\ s.fee = [acc |-> FeeNow.acc, last_seen |-> FeeNow.last_seen - s.paid]
        /\ POOL_RENT <= FeeNow.last_seen - s.paid
    BY <1>1, <1>2, SettledLeaves
  <1>4. FeeNow \in FeeType /\ DebtsCoveredAt(FeeNow.acc) /\ SharesCoveredAt(FeeNow)
    BY <1>0, FeeNowType, SharesUpToDate
  <1>5. /\ fee' = s.fee /\ debts' = [debts EXCEPT ![m] = NoDebt]
        /\ count' = [count EXCEPT !.crossed = @ + s.paid]
    BY <1>2 DEF unstake, SettledOn, FeeBeforeUnstake
  <1>6. Slack' = Slack + s.paid
    BY <1>0, <1>3, <1>5 DEF AccountsOK, HistOK, Slack
  <1>7. Earning' = Earning \ {n, m}
    <2>1. ~ stakes'[n].open /\ \A k \in Nfts \ {n} : stakes'[k] = stakes[k]
      BY <1>0 DEF unstake, AccountsOK, StakesOK, NoStake
    <2>2. debts'[m].bump = 0 /\ \A k \in Nfts \ {m} : debts'[k] = debts[k]
      BY <1>0, <1>5 DEF AccountsOK, DebtsOK, NoDebt
    <2> QED
      BY <2>1, <2>2 DEF Earning, Staked
  <1>8. PICK f, x : f = FeeNow /\ x = s.paid
    OBVIOUS
  <1>9. fee' = [acc |-> f.acc, last_seen |-> f.last_seen - x]
    BY <1>3, <1>5, <1>8
  <1> QED
    BY <1>0, <1>3, <1>4, <1>5, <1>6, <1>7, <1>8, <1>9, SharesCross DEF SharesOK

LEMMA SharesClaim ==
    ASSUME SharesInv, NEW n \in Nfts, claim_xnt_fees_nft(n)
    PROVE  SharesOK'
  <1>0. AccountsOK /\ PoolKeepsRent
    BY DEF SharesInv, NftInv
  <1>1. n \in Staked /\ Staked' = Staked
    BY DEF claim_xnt_fees_nft, Staked
  <1>2. PICK s : s = SettledFor(n)
    OBVIOUS
  <1>3. /\ s.paid \in Nat
        /\ s.fee = [acc |-> FeeNow.acc, last_seen |-> FeeNow.last_seen - s.paid]
        /\ POOL_RENT <= FeeNow.last_seen - s.paid
        /\ n \in Earning =>
             /\ s.paid <= Entitled(Weight[n], FeeNow.acc) - debts[n].debt
             /\ s.debt = [debt |-> debts[n].debt + s.paid, bump |-> 1]
        /\ n \notin Earning =>
             s.paid = 0 /\ s.debt = Snapshot(Weight[n], FeeNow.acc) /\ debts[n].bump = 0
    BY <1>1, <1>2, SettledPays
  <1>4. FeeNow \in FeeType /\ DebtsCoveredAt(FeeNow.acc) /\ SharesCoveredAt(FeeNow)
        /\ POOL_RENT <= FeeNow.last_seen
    BY <1>0, FeeNowType, SharesUpToDate
  <1>5. fee' = s.fee /\ debts' = [debts EXCEPT ![n] = s.debt]
    BY <1>2 DEF claim_xnt_fees_nft, SettledFor, SettledOn
  <1>6. PICK f, x : f = FeeNow /\ x = s.paid
    OBVIOUS
  <1>7. fee' = [acc |-> f.acc, last_seen |-> f.last_seen - x]
    BY <1>3, <1>5, <1>6
  <1>8. CASE n \in Earning
    <2>1. debts' = [debts EXCEPT ![n] = [debt |-> debts[n].debt + x, bump |-> 1]]
      BY <1>3, <1>5, <1>6, <1>8
    <2>2. debts[n].bump = 1
      BY <1>8 DEF Earning
    <2>3. Slack' = Slack
      BY <2>2 DEF claim_xnt_fees_nft, Slack
    <2>4. Earning' = Earning
      <3>1. debts'[n].bump = 1 /\ \A m \in Nfts \ {n} : debts'[m] = debts[m]
        BY <1>0, <2>1 DEF AccountsOK, DebtsOK
      <3>2. Staked \subseteq Nfts
        BY StakedFinite
      <3> QED
        BY <1>1, <2>2, <3>1, <3>2 DEF Earning
    <2> QED
      BY <1>0, <1>3, <1>4, <1>6, <1>7, <1>8, <2>1, <2>3, <2>4, SharesPaid DEF SharesOK
  <1>9. CASE n \notin Earning
    <2>1. debts' = [debts EXCEPT ![n] = Snapshot(Weight[n], f.acc)] /\ debts[n].bump = 0 /\ x = 0
      BY <1>3, <1>5, <1>6, <1>9
    <2>2. count' = [count EXCEPT !.snapshots = @ + 1]
      BY <2>1 DEF claim_xnt_fees_nft
    <2>3. Slack' = Slack + 1
      BY <1>0, <2>2 DEF AccountsOK, HistOK, Slack
    <2>4. Earning' = Earning \cup {n}
      <3>1. debts'[n].bump = 1 /\ \A m \in Nfts \ {n} : debts'[m] = debts[m]
        BY <1>0, <2>1 DEF AccountsOK, DebtsOK, Snapshot
      <3>2. Staked \subseteq Nfts
        BY StakedFinite
      <3> QED
        BY <1>1, <3>1, <3>2 DEF Earning
    <2>5. fee' = f
      <3>1. f.last_seen - x = f.last_seen
        BY <1>4, <1>6, <2>1 DEF FeeType
      <3> QED
        BY <1>4, <1>6, <1>7, <3>1 DEF FeeType
    <2> QED
      BY <1>0, <1>4, <1>6, <1>9, <2>1, <2>3, <2>4, <2>5, SharesJoin DEF SharesOK
  <1> QED
    BY <1>8, <1>9

LEMMA SharesSweep ==
    ASSUME SharesInv, sweep_xnt_pool_nft
    PROVE  SharesOK'
  <1>0. AccountsOK /\ PoolKeepsRent /\ WeightIsSum
    BY DEF SharesInv, NftInv
  <1>1. Staked = {} /\ Staked' = Staked /\ debts' = debts /\ count' = count
    BY <1>0, NobodyEarns DEF sweep_xnt_pool_nft, Sweepable, Staked
  <1>2. pool \in Nat /\ POOL_RENT \in Nat /\ POOL_RENT <= pool /\ fee \in FeeType
    BY <1>0, ScaleAssumption DEF AccountsOK, FeeOK, PoolKeepsRent
  <1>3. Withdrawable(pool) = pool - POOL_RENT
    BY <1>2, SaturatingNat DEF Withdrawable
  <1>4. fee' = [acc |-> fee.acc, last_seen |-> POOL_RENT]
    BY <1>2, <1>3 DEF sweep_xnt_pool_nft, FeeType
  <1>5. SumOver(Earning', Shares(fee'.acc, debts')) = 0
    BY <1>1, SumOfNone DEF Earning
  <1>6. PICK k \in Nat : k = Slack
    BY <1>0 DEF AccountsOK, HistOK, Slack
  <1>7. fee'.last_seen - POOL_RENT + Slack' = k
    BY <1>1, <1>2, <1>4, <1>6 DEF Slack
  <1>8. 0 <= ACC_SCALE * k
    BY ScaleAssumption
  <1>9. SharesCoveredAt(fee)'
    BY <1>5, <1>7, <1>8 DEF SharesCoveredAt
  <1>10. DebtsCoveredAt(fee.acc)'
    BY <1>1, <1>4 DEF SharesInv, DebtsCoveredAt
  <1> QED
    BY <1>2, <1>4, <1>9, <1>10 DEF SharesOK, SeenCoversRent

LEMMA SharesInvStep == SharesInv /\ [Next]_vars => SharesInv'
  <1>1. SUFFICES ASSUME SharesInv, [Next]_vars PROVE SharesOK'
    BY NftInvStep DEF SharesInv, SharesOK
  <1>2. CASE UNCHANGED vars
    BY <1>1, <1>2, SharesUnchanged DEF vars, Staked, Slack
  <1>7. ASSUME NEW n \in Nfts, NEW m \in Nfts, unstake(n, m)
        PROVE  SharesOK'
    BY <1>1, <1>7, SharesUnstake, SharesUnstakeOther
  <1>3. ASSUME NEW n \in Nfts, stake(n) \/ claim(n) \/ claim_xnt_fees_nft(n)
        PROVE  SharesOK'
    <2>1. CASE claim(n)
      <3>1. Staked' = Staked
        BY <1>1, <2>1 DEF claim, Staked, SharesInv, NftInv, AccountsOK, StakesOK, StakeType
      <3> QED
        BY <1>1, <2>1, <3>1, SharesUnchanged DEF claim, Slack
    <2> QED
      BY <1>1, <1>3, <2>1, SharesStake, SharesClaim
  <1>4. CASE sweep_xnt_pool_nft
    BY <1>1, <1>4, SharesSweep
  <1>5. ASSUME NEW d \in Deposits, Deposit(d) PROVE SharesOK'
    <2>1. Slack' = Slack
      BY <1>1, <1>5 DEF Deposit, SharesInv, NftInv, AccountsOK, HistOK, Slack
    <2> QED
      BY <1>1, <1>5, <2>1, SharesUnchanged DEF Deposit, Staked
  <1>6. CASE Tick
    BY <1>1, <1>6, SharesUnchanged DEF Tick, Staked, Slack
  <1>8. ASSUME NEW n \in Nfts, MoveToken(n) PROVE SharesOK'
    BY <1>1, <1>8, SharesUnchanged DEF MoveToken, Staked, Slack
  <1> QED
    BY <1>1, <1>2, <1>3, <1>4, <1>5, <1>6, <1>7, <1>8 DEF Next

LEMMA SharesAlways == Spec => []SharesInv
  BY InitShares, SharesInvStep, PTL DEF Spec

\* What all positions together could claim at any moment is in the pool above
\* its rent, up to one lamport for every snapshot that was ever rounded down:
\* for every sequence of stakes, claims, sweeps and late deposits.
THEOREM NftPoolIsSolvent == Spec => []ShortOnlyByRounding
  <1>1. SharesInv => ShortOnlyByRounding
    <2>1. SUFFICES ASSUME SharesInv PROVE ShortOnlyByRounding
      OBVIOUS
    <2>2. /\ AccountsOK /\ PoolKeepsRent
          /\ DebtsCoveredAt(FeeNow.acc) /\ SharesCoveredAt(FeeNow)
      BY <2>1, SharesUpToDate DEF SharesInv, NftInv
    <2>3. /\ FeeNow.acc \in Nat /\ FeeNow.last_seen \in Nat /\ FeeNow.last_seen <= pool
          /\ pool \in Nat /\ POOL_RENT \in Nat /\ POOL_RENT <= pool
      BY <2>2, FeeNowType, ScaleAssumption DEF FeeType, AccountsOK, FeeOK, PoolKeepsRent
    <2>4. PICK owed, none, scaled, g :
              /\ owed = [n \in Nfts |-> Owed(n)]
              /\ none = [n \in Nfts |-> 0]
              /\ scaled = [n \in Nfts |-> Owed(n) * ACC_SCALE]
              /\ g = Shares(FeeNow.acc, debts)
      OBVIOUS
    <2>5. \A n \in Earning :
             /\ owed[n] \in Nat /\ none[n] = 0 /\ scaled[n] \in Nat /\ g[n] \in Nat
             /\ scaled[n] = owed[n] * ACC_SCALE
             /\ scaled[n] <= g[n]
      <3>1. SUFFICES ASSUME NEW n \in Earning
                     PROVE  /\ owed[n] \in Nat /\ none[n] = 0 /\ scaled[n] \in Nat /\ g[n] \in Nat
                            /\ scaled[n] = owed[n] * ACC_SCALE
                            /\ scaled[n] <= g[n]
        OBVIOUS
      <3>2. n \in Nfts
        BY EarningFinite
      <3>3. PICK x \in Nat : x = Owed(n) /\ x = Entitled(Weight[n], FeeNow.acc) - debts[n].debt
        BY <2>1, OwedIs
      <3>4. g[n] \in Nat /\ ACC_SCALE * x <= g[n]
        BY <2>2, <2>3, <2>4, <3>3, SharesNat
      <3>5. ACC_SCALE * x = x * ACC_SCALE /\ x * ACC_SCALE \in Nat
        BY ScaleAssumption
      <3> QED
        BY <2>4, <3>2, <3>3, <3>4, <3>5
    <2>6. SumOver(Earning, scaled) = SumOver(Earning, none) + SumOver(Earning, owed) * ACC_SCALE
      <3>1. \A n \in Earning : /\ none[n] \in Nat /\ owed[n] \in Nat
                               /\ scaled[n] = none[n] + owed[n] * ACC_SCALE
        BY <2>5, ScaleAssumption
      <3> QED
        BY <3>1, EarningFinite, ScaleAssumption, SumOfShares
    <2>7. SumOver(Earning, none) = 0
      <3>1. SumOver(Earning, none) = Cardinality(Earning) * 0
        BY <2>5, EarningFinite, SumOfEqual
      <3>2. Cardinality(Earning) \in Nat
        BY EarningFinite, FS_CardinalityType
      <3> QED
        BY <3>1, <3>2
    <2>8. SumOver(Earning, scaled) <= SumOver(Earning, g)
      BY <2>5, EarningFinite, SumMonotone
    <2>9. PICK total \in Nat : total = SumOver(Earning, owed)
      BY <2>5, EarningFinite, SumIsNat
    <2>10. PICK b \in Nat : b = SumOver(Earning, g)
      BY <2>5, EarningFinite, SumIsNat
    <2>11. PICK k \in Nat, m \in Nat :
               /\ k = FeeNow.last_seen - POOL_RENT + Slack \/ (k = 0 /\ FeeNow.last_seen - POOL_RENT + Slack < 0)
               /\ m = pool - POOL_RENT + Slack
               /\ k <= m
      BY <2>2, <2>3 DEF AccountsOK, HistOK, Slack
    <2>12. POOL_RENT <= FeeNow.last_seen
      BY <2>1, SharesUpToDate
    <2>13. k = FeeNow.last_seen - POOL_RENT + Slack
      BY <2>2, <2>3, <2>11, <2>12 DEF AccountsOK, HistOK, Slack
    <2>14. b <= ACC_SCALE * k
      BY <2>2, <2>4, <2>10, <2>13 DEF SharesCoveredAt
    <2>15. total * ACC_SCALE <= ACC_SCALE * k
      <3>1. PICK t \in Nat, j \in Nat : t = total * ACC_SCALE /\ j = ACC_SCALE * k
        BY ScaleAssumption
      <3> QED
        BY <2>6, <2>7, <2>8, <2>9, <2>10, <2>14, <3>1
    <2>16. total <= k
      <3>1. ACC_SCALE \in Nat \ {0}
        BY ScaleAssumption
      <3>2. k < total => ACC_SCALE * k + ACC_SCALE <= ACC_SCALE * total
        BY <3>1, ProductSteps
      <3>3. PICK t \in Nat, j \in Nat : t = total * ACC_SCALE /\ t = ACC_SCALE * total /\ j = ACC_SCALE * k
        BY <3>1
      <3> QED
        BY <2>15, <3>1, <3>2, <3>3
    <2>17. Withdrawable(pool) = pool - POOL_RENT
      BY <2>3, SaturatingNat DEF Withdrawable
    <2>18. Withdrawable(pool) + count.snapshots + count.crossed = m
      BY <2>2, <2>3, <2>11, <2>17 DEF AccountsOK, HistOK, Slack
    <2>19. total <= m
      BY <2>11, <2>16
    <2> QED
      BY <2>4, <2>9, <2>18, <2>19 DEF ShortOnlyByRounding
  <1> QED
    BY <1>1, SharesAlways, PTL

-----------------------------------------------------------------------------
(* What is owed is never taken away.                                       *)

\* OwedIs, for the state after a step.
LEMMA OwedNow ==
    SharesInv => \A n \in Earning : /\ Owed(n) = Entitled(Weight[n], FeeNow.acc) - debts[n].debt
                                    /\ Owed(n) \in Nat
                                    /\ debts[n].debt \in Nat
                                    /\ FeeNow.acc \in Nat
  <1>1. SUFFICES ASSUME SharesInv, NEW n \in Earning
                 PROVE  /\ Owed(n) = Entitled(Weight[n], FeeNow.acc) - debts[n].debt
                        /\ Owed(n) \in Nat
                        /\ debts[n].debt \in Nat
                        /\ FeeNow.acc \in Nat
    OBVIOUS
  <1>2. AccountsOK /\ PoolKeepsRent
    BY <1>1 DEF SharesInv, NftInv
  <1>3. FeeNow.acc \in Nat
    BY <1>2, FeeNowType DEF FeeType
  <1>4. n \in Nfts
    BY EarningFinite
  <1>5. debts[n].debt \in Nat
    BY <1>2, <1>4 DEF AccountsOK, DebtsOK, DebtType
  <1> QED
    BY <1>1, <1>3, <1>5, OwedIs

\* While somebody is staked, the accumulator, brought up to date, never falls.
LEMMA StreamNeverFalls ==
    ASSUME SharesInv, SharesInv', [Next]_vars, NEW n \in Staked
    PROVE  FeeNow.acc <= FeeNow'.acc
  <1>0. AccountsOK /\ PoolKeepsRent /\ WeightIsSum /\ AccountsOK' /\ PoolKeepsRent'
    BY DEF SharesInv, NftInv
  <1>1. config.total_nft_weight # 0
    BY <1>0, SomebodyStaked
  <1>2. /\ fee \in FeeType /\ pool \in Nat /\ config.total_nft_weight \in Nat
        /\ fee' \in FeeType /\ pool' \in Nat /\ config'.total_nft_weight \in Nat
        /\ fee.last_seen <= pool
    BY <1>0 DEF AccountsOK, FeeOK, ConfigOK, ConfigType, PoolKeepsRent
  <1>3. fee'.acc <= FeeNow'.acc
    <2>1. 0 \in Nat /\ 0 <= config'.total_nft_weight
      BY <1>2
    <2> QED
      BY <1>2, <2>1, FeeUpdate DEF FeeNow
  <1>4. FeeNow.acc \in Nat /\ FeeNow.acc <= FeeNow.acc
    BY <1>0, FeeNowType DEF FeeType
  <1>5. ASSUME FeeNow' = FeeNow PROVE FeeNow.acc <= FeeNow'.acc
    BY <1>4, <1>5
  <1>6. ASSUME fee'.acc = FeeNow.acc PROVE FeeNow.acc <= FeeNow'.acc
    BY <1>3, <1>6
  <1>7. CASE UNCHANGED vars
    BY <1>5, <1>7 DEF vars, FeeNow
  <1>8. ASSUME NEW m \in Nfts, stake(m) PROVE FeeNow.acc <= FeeNow'.acc
    <2>1. fee' = FeeNow
      BY <1>1, <1>2, <1>8, FeeAdvance DEF stake, FeeNow
    <2> QED
      BY <1>6, <2>1
  <1>9. ASSUME NEW m \in Nfts, claim(m) PROVE FeeNow.acc <= FeeNow'.acc
    <2>1. config'.total_nft_weight = config.total_nft_weight /\ fee' = fee /\ pool' = pool
      BY <1>0, <1>9 DEF claim, AccountsOK, ConfigOK, ConfigType
    <2> QED
      BY <1>5, <2>1 DEF FeeNow
  <1>14. ASSUME NEW m \in Staked, NEW k \in Nfts, fee' = SettledOn(m, k).fee
         PROVE  FeeNow.acc <= FeeNow'.acc
    <2>1. PICK f, x : f = SettledOn(m, k).fee /\ x = SettledOn(m, k).paid
      OBVIOUS
    <2>2. f = [acc |-> FeeNow.acc, last_seen |-> FeeNow.last_seen - x]
      BY <2>1, SettledLeaves
    <2> QED
      BY <1>6, <1>14, <2>1, <2>2
  <1>10. ASSUME NEW m \in Nfts, NEW k \in Nfts, unstake(m, k) PROVE FeeNow.acc <= FeeNow'.acc
    <2>1. m \in Staked /\ fee' = SettledOn(m, k).fee
      BY <1>10 DEF unstake, Staked, SettledOn, FeeBeforeUnstake
    <2> QED
      BY <1>14, <2>1
  <1>15. ASSUME NEW m \in Nfts, claim_xnt_fees_nft(m) PROVE FeeNow.acc <= FeeNow'.acc
    <2>1. m \in Staked /\ fee' = SettledOn(m, m).fee
      BY <1>15 DEF claim_xnt_fees_nft, Staked, SettledOn
    <2> QED
      BY <1>14, <1>15, <2>1
  <1>11. CASE sweep_xnt_pool_nft
    BY <1>1, <1>11 DEF sweep_xnt_pool_nft, Sweepable
  <1>12. ASSUME NEW d \in Deposits, Deposit(d) PROVE FeeNow.acc <= FeeNow'.acc
    <2>1. d \in Nat
      BY <1>12, DepositAssumption
    <2>2. fee' = fee /\ config' = config /\ pool' = pool + d
      BY <1>12 DEF Deposit
    <2>3. pool <= pool'
      BY <1>2, <2>1, <2>2
    <2> QED
      BY <1>2, <2>2, <2>3, FeeUpdateRises DEF FeeNow
  <1>13. CASE Tick
    BY <1>5, <1>13 DEF Tick, FeeNow
  <1>16. ASSUME NEW m \in Nfts, MoveToken(m) PROVE FeeNow.acc <= FeeNow'.acc
    BY <1>5, <1>16 DEF MoveToken, FeeNow
  <1> QED
    BY <1>7, <1>8, <1>9, <1>10, <1>11, <1>12, <1>13, <1>15, <1>16 DEF Next

\* While a position and its token stay, it stays in the stream, and its debt rises
\* only by what it is paid.
LEMMA DebtsRiseWhenPaid ==
    ASSUME SharesInv, [Next]_vars, NEW n \in Earning, n \in Staked', n \in held => n \in held'
    PROVE  /\ n \in Earning'
           /\ hist[n].xnt \in Nat /\ hist'[n].xnt \in Nat
           /\ hist'[n].xnt + debts[n].debt = hist[n].xnt + debts'[n].debt
  <1>0. AccountsOK /\ PoolKeepsRent
    BY DEF SharesInv, NftInv
  <1>1. n \in Nfts /\ n \in Staked /\ debts[n].bump = 1 /\ stakes'[n].open
    BY EarningFinite DEF Earning, Staked
  <1>2. hist[n] \in HistoryType /\ hist[n].xnt \in Nat /\ debts[n].debt \in Nat
    BY <1>0, <1>1 DEF AccountsOK, HistOK, HistoryType, DebtsOK, DebtType
  <1>3. ASSUME hist'[n].xnt = hist[n].xnt, debts'[n] = debts[n]
        PROVE  /\ n \in Earning'
               /\ hist[n].xnt \in Nat /\ hist'[n].xnt \in Nat
               /\ hist'[n].xnt + debts[n].debt = hist[n].xnt + debts'[n].debt
    <2>1. n \in Earning'
      BY <1>1, <1>3 DEF Earning
    <2> QED
      BY <1>2, <1>3, <2>1
  <1>4. CASE UNCHANGED vars
    BY <1>3, <1>4 DEF vars
  <1>5. ASSUME NEW m \in Nfts, stake(m)
        PROVE  hist'[n].xnt = hist[n].xnt /\ debts'[n] = debts[n]
    BY <1>0, <1>1, <1>5 DEF stake, Staked, AccountsOK, DebtsOK, HistOK
  <1>6. ASSUME NEW m \in Nfts, claim(m)
        PROVE  hist'[n].xnt = hist[n].xnt /\ debts'[n] = debts[n]
    <2>1. PICK x : hist' = [hist EXCEPT ![m].gum = @ + x] /\ debts' = debts
      BY <1>6 DEF claim
    <2> QED
      BY <1>0, <1>1, <1>2, <2>1 DEF AccountsOK, HistOK, HistoryType
  <1>7. ASSUME NEW m \in Nfts, NEW k \in Nfts, unstake(m, k)
        PROVE  hist'[n].xnt = hist[n].xnt /\ debts'[n] = debts[n]
    <2>1. m # n
      BY <1>0, <1>1, <1>7 DEF unstake, NoStake, AccountsOK, StakesOK
    <2>2. k # n
      BY <1>7 DEF unstake
    <2>3. hist' = [[hist EXCEPT ![k] = WithoutFees(hist[k])] EXCEPT ![m] = NoHistory]
          /\ debts' = [debts EXCEPT ![k] = NoDebt]
      BY <1>7 DEF unstake
    <2> QED
      BY <1>0, <1>1, <2>1, <2>2, <2>3 DEF AccountsOK, DebtsOK, HistOK
  <1>8. ASSUME NEW m \in Nfts, claim_xnt_fees_nft(m), m # n
        PROVE  hist'[n].xnt = hist[n].xnt /\ debts'[n] = debts[n]
    BY <1>0, <1>1, <1>8 DEF claim_xnt_fees_nft, AccountsOK, DebtsOK, HistOK
  <1>9. CASE claim_xnt_fees_nft(n)
    <2>1. PICK x \in Nat : /\ x = SettledFor(n).paid
                           /\ SettledFor(n).debt = [debt |-> debts[n].debt + x, bump |-> 1]
      BY <1>1, SettledPays
    <2>2. debts'[n] = [debt |-> debts[n].debt + x, bump |-> 1]
      BY <1>0, <1>1, <1>9, <2>1 DEF claim_xnt_fees_nft, SettledFor, SettledOn, AccountsOK, DebtsOK
    <2>3. hist' = [hist EXCEPT ![n].xnt = @ + x]
      BY <1>1, <1>9, <2>1 DEF claim_xnt_fees_nft, SettledFor, SettledOn
    <2>4. hist'[n].xnt = hist[n].xnt + x
      BY <1>0, <1>1, <1>2, <2>3 DEF AccountsOK, HistOK, HistoryType
    <2>5. n \in Earning'
      BY <1>1, <2>2 DEF Earning
    <2> QED
      BY <1>2, <2>2, <2>4, <2>5
  <1>10. CASE sweep_xnt_pool_nft
    BY <1>3, <1>10 DEF sweep_xnt_pool_nft
  <1>11. ASSUME NEW d \in Deposits, Deposit(d)
         PROVE  hist'[n].xnt = hist[n].xnt /\ debts'[n] = debts[n]
    BY <1>1, <1>2, <1>11 DEF Deposit, HistoryType
  <1>12. CASE Tick
    <2>1. hist'[n].xnt = hist[n].xnt /\ debts'[n] = debts[n]
      BY <1>1, <1>2, <1>12 DEF Tick, HistoryType
    <2> QED
      BY <1>3, <2>1
  <1>13. ASSUME NEW m \in Nfts, MoveToken(m)
         PROVE  hist'[n].xnt = hist[n].xnt /\ debts'[n] = debts[n]
    BY <1>13 DEF MoveToken
  <1> QED
    BY <1>3, <1>4, <1>5, <1>6, <1>7, <1>8, <1>9, <1>10, <1>11, <1>12, <1>13 DEF Next

\* No step of anybody takes away what a position has received or can still
\* claim, while it stays staked and its token stays in the vault (README: an
\* "unpaid remainder stays pending").
THEOREM NftXntNeverForgotten == Spec => XntNeverForgotten
  <1> DEFINE Owing == \A m \in Earning :
                        /\ Owed(m) = Entitled(Weight[m], FeeNow.acc) - debts[m].debt
                        /\ Owed(m) \in Nat /\ debts[m].debt \in Nat /\ FeeNow.acc \in Nat
  <1>a. SharesInv => Owing
    BY OwedNow
  <1>b. (SharesInv => Owing)'
    BY <1>a, PTL
  <1>1. ASSUME SharesInv, SharesInv', [Next]_vars, NEW n \in Earning, n \in Staked',
               n \in held => n \in held'
        PROVE  n \in Earning' /\ hist'[n].xnt + Owed(n)' >= hist[n].xnt + Owed(n)
    <2>0. n \in Nfts /\ n \in Earning'
      BY <1>1, DebtsRiseWhenPaid, EarningFinite
    <2>1. Owing'
      BY <1>1, <1>b
    <2>2. /\ Owed(n)' = Entitled(Weight[n], FeeNow'.acc) - debts'[n].debt
          /\ Owed(n)' \in Nat /\ debts'[n].debt \in Nat /\ FeeNow'.acc \in Nat
      BY <1>1, <2>0, <2>1
    <2>3. /\ Owed(n) = Entitled(Weight[n], FeeNow.acc) - debts[n].debt
          /\ Owed(n) \in Nat /\ debts[n].debt \in Nat /\ FeeNow.acc \in Nat
      BY <1>1, OwedNow
    <2>4. n \in Staked
      BY <1>1 DEF Earning
    <2>5. FeeNow.acc <= FeeNow'.acc
      BY <1>1, <2>4, StreamNeverFalls
    <2>6. PICK e1 \in Nat, e2 \in Nat : /\ e1 = Entitled(Weight[n], FeeNow.acc)
                                        /\ e2 = Entitled(Weight[n], FeeNow'.acc)
                                        /\ e1 <= e2
      <3>1. Weight[n] \in Nat
        BY <2>0, WeightNat
      <3>2. Entitled(Weight[n], FeeNow.acc) \in Nat
        BY <2>3, <3>1, EntitledBounds
      <3>3. Entitled(Weight[n], FeeNow'.acc) \in Nat
        BY <2>2, <3>1, EntitledBounds
      <3>4. Entitled(Weight[n], FeeNow.acc) <= Entitled(Weight[n], FeeNow'.acc)
        BY <2>2, <2>3, <2>5, <3>1, EntitledRises
      <3> QED
        BY <3>2, <3>3, <3>4
    <2>7. /\ hist[n].xnt \in Nat /\ hist'[n].xnt \in Nat
          /\ hist'[n].xnt + debts[n].debt = hist[n].xnt + debts'[n].debt
      BY <1>1, DebtsRiseWhenPaid
    <2> QED
      BY <2>0, <2>2, <2>3, <2>6, <2>7
  <1>2. SharesInv /\ SharesInv' /\ [Next]_vars
          => \A n \in Earning \cap Staked' :
               (n \in held => n \in held')
                 => n \in Earning' /\ hist'[n].xnt + Owed(n)' >= hist[n].xnt + Owed(n)
    BY <1>1
  <1> QED
    BY <1>2, SharesAlways, PTL DEF Spec, XntNeverForgotten

-----------------------------------------------------------------------------
(* Fairness.  What a position was credited with, counted in parts of a     *)
(* lamport of which every share is a whole number, is what its deposits    *)
(* were worth to it; the accumulator may have cut off less than what       *)
(* rounded counts, and a snapshot leaves less than one lamport over.       *)

\* What n will get of x lamports that the stream has not seen yet.
PendingShare(n, x, total) == (UNIT \div total) * Weight[n] * (ACC_SCALE * x)

CreditedTo(n, f, h) == UNIT * (Weight[n] * f.acc + ACC_SCALE * h.xnt)

DueTo(h, debt) == ACC_SCALE * h.fair + UNIT * (ACC_SCALE * debt)

\* So it is while x lamports are on their way,
FairWith(n, x, total, f, h, debt) ==
    /\ CreditedTo(n, f, h) + PendingShare(n, x, total) < DueTo(h, debt) + UNIT * ACC_SCALE
    /\ CutOff(n, x, total) <= h.rounded
    /\ DueTo(h, debt) <= CreditedTo(n, f, h) + PendingShare(n, x, total)
                           + UNIT * (h.rounded - CutOff(n, x, total))

\* and once the stream has seen them all.
Fair(n, f, h, debt) ==
    /\ CreditedTo(n, f, h) < DueTo(h, debt) + UNIT * ACC_SCALE
    /\ DueTo(h, debt) <= CreditedTo(n, f, h) + UNIT * h.rounded

\* A multiple leaves no remainder.
LEMMA ModOfMultiple ==
    ASSUME NEW t \in Nat \ {0}, NEW k \in Nat
    PROVE  (t * k) % t = 0
  <1>1. PICK x \in Nat : x = t * k
    OBVIOUS
  <1>2. x = t * k + 0 /\ 0 \in 0..(t - 1)
    BY <1>1
  <1>3. x % t = 0
    BY <1>2
  <1> QED
    BY <1>1, <1>3

\* A division without remainder is exact.
LEMMA WholeQuotient ==
    ASSUME NEW x \in Nat, NEW t \in Nat \ {0}, x % t = 0
    PROVE  x \div t \in Nat /\ x = t * (x \div t)
  OBVIOUS

\* Whatever is staked weighs something, and divides UNIT.
LEMMA UnitParts ==
    ASSUME NEW S \in SUBSET Nfts, S # {}
    PROVE  /\ SumOfWeights(S) \in Nat \ {0}
           /\ UNIT % SumOfWeights(S) = 0
  <1>1. PICK n \in S : TRUE
    OBVIOUS
  <1>2. SumOfWeights(S) \in Nat /\ Weight[n] <= SumOfWeights(S) /\ Weight[n] \in Nat /\ Weight[n] # 0
    BY WeightOfSet, WeightNat
  <1>3. SumOfWeights(S) # 0
    BY <1>2
  <1>4. UNIT % SumOver(S, Weight) = 0
    BY UnitAssumption
  <1> QED
    BY <1>2, <1>3, <1>4 DEF SumOfWeights

\* What the accumulator credits x lamports with, and what it cuts off.
LEMMA CutIsRounded ==
    ASSUME NEW n \in Nfts, NEW x \in Nat, NEW total \in Nat \ {0}, UNIT % total = 0
    PROVE  /\ CutOff(n, x, total) \in Nat
           /\ PendingShare(n, x, total) \in Nat
           /\ (x * ACC_SCALE) \div total \in Nat
           /\ UNIT * (Weight[n] * ((x * ACC_SCALE) \div total)) \in Nat
           /\ UNIT * CutOff(n, x, total) \in Nat
           /\ UNIT * (Weight[n] * ((x * ACC_SCALE) \div total)) <= PendingShare(n, x, total)
           /\ PendingShare(n, x, total)
                <= UNIT * (Weight[n] * ((x * ACC_SCALE) \div total)) + UNIT * CutOff(n, x, total)
  <1>1. PICK w \in Nat : w = Weight[n]
    BY WeightNat
  <1>2. ACC_SCALE \in Nat /\ UNIT \in Nat
    BY ScaleAssumption, UnitAssumption
  <1>3. PICK u \in Nat : u = UNIT \div total /\ UNIT = total * u
    BY <1>2, WholeQuotient
  <1>4. PICK y \in Nat : y = x * ACC_SCALE /\ y = ACC_SCALE * x
    BY <1>2
  <1>5. PICK q \in Nat : q = y \div total /\ total * q <= y /\ y < total * q + total
    BY DivIsFloor
  <1>6. PICK v \in Nat : v = u * w
    OBVIOUS
  <1>7. PICK tq \in Nat : tq = total * q
    OBVIOUS
  <1>8. UNIT * (w * q) = v * tq
    BY <1>3, <1>6, <1>7
  <1>9. UNIT * w = v * total
    BY <1>3, <1>6
  <1>10. PendingShare(n, x, total) = v * y
    BY <1>1, <1>3, <1>4, <1>6 DEF PendingShare
  <1>11. PICK c \in Nat : c = CutOff(n, x, total)
    BY <1>1 DEF CutOff
  <1>12. v * tq \in Nat /\ v * y \in Nat /\ v * tq <= v * y
    BY <1>5, <1>7, ProductGrows
  <1>13. UNIT * c \in Nat /\ v * y <= v * tq + UNIT * c
    <2>1. CASE y % total = 0
      <3>1. tq = y
        BY <1>5, <1>7, <2>1, WholeQuotient
      <3> QED
        BY <1>2, <1>12, <3>1
    <2>2. CASE y % total # 0
      <3>1. c = w
        BY <1>1, <1>4, <1>11, <2>2 DEF CutOff
      <3>2. v * y <= v * (tq + total)
        BY <1>5, <1>7, ProductGrows
      <3>3. v * (tq + total) = v * tq + v * total
        OBVIOUS
      <3> QED
        BY <1>2, <1>9, <3>1, <3>2, <3>3
    <2> QED
      BY <2>1, <2>2
  <1>14. UNIT * (Weight[n] * ((x * ACC_SCALE) \div total)) = v * tq
    BY <1>1, <1>4, <1>5, <1>8
  <1> QED
    BY <1>4, <1>5, <1>10, <1>11, <1>12, <1>13, <1>14

\* Nothing on its way is worth nothing and cuts nothing off.
LEMMA NothingPending ==
    ASSUME NEW n \in Nfts, NEW total \in Nat \ {0}, UNIT % total = 0
    PROVE  CutOff(n, 0, total) = 0 /\ PendingShare(n, 0, total) = 0
  <1>1. PICK w \in Nat : w = Weight[n]
    BY WeightNat
  <1>2. ACC_SCALE \in Nat /\ UNIT \in Nat
    BY ScaleAssumption, UnitAssumption
  <1>3. PICK u \in Nat : u = UNIT \div total
    BY <1>2, DivIsFloor
  <1>4. 0 * ACC_SCALE = 0 /\ ACC_SCALE * 0 = 0
    BY <1>2
  <1>5. (0 * ACC_SCALE) % total = 0
    <2>1. (total * 0) % total = 0 /\ total * 0 = 0
      BY ModOfMultiple
    <2> QED
      BY <1>4, <2>1
  <1>6. (u * w) * 0 = 0
    OBVIOUS
  <1> QED
    BY <1>1, <1>3, <1>4, <1>5, <1>6 DEF CutOff, PendingShare

\* A deposit is worth to n what fair counts, and cuts off no more than rounded.
LEMMA DepositShared ==
    ASSUME NEW n \in Nfts, NEW x \in Nat, NEW d \in Nat, NEW total \in Nat \ {0},
           UNIT % total = 0
    PROVE  /\ (UNIT * Weight[n] * d) \div total \in Nat
           /\ PendingShare(n, x + d, total)
                = PendingShare(n, x, total) + ACC_SCALE * ((UNIT * Weight[n] * d) \div total)
           /\ CutOff(n, x + d, total) <= CutOff(n, x, total) + CutOff(n, d, total)
  <1>1. PICK w \in Nat : w = Weight[n]
    BY WeightNat
  <1>2. ACC_SCALE \in Nat /\ UNIT \in Nat
    BY ScaleAssumption, UnitAssumption
  <1>3. PICK u \in Nat : u = UNIT \div total /\ UNIT = total * u
    BY <1>2, WholeQuotient
  <1>4. PICK v \in Nat : v = u * w
    OBVIOUS
  <1>5. PICK g \in Nat : g = v * d
    OBVIOUS
  <1>6. UNIT * w * d = total * g
    BY <1>3, <1>4, <1>5
  <1>7. (total * g) \div total = g
    <2>1. PICK z \in Nat : z = total * g
      OBVIOUS
    <2>2. z < total * g + total
      BY <2>1
    <2>3. z \div total <= g
      BY <2>2, DivAtMost
    <2>4. g <= z \div total
      BY <2>1, DivAtLeast
    <2>5. z \div total \in Nat
      BY DivIsFloor
    <2> QED
      BY <2>1, <2>3, <2>4, <2>5
  <1>8. (UNIT * Weight[n] * d) \div total = g
    BY <1>1, <1>6, <1>7
  <1>9. v * (ACC_SCALE * (x + d)) = v * (ACC_SCALE * x) + ACC_SCALE * g
    <2>1. v * (ACC_SCALE * (x + d)) = v * (ACC_SCALE * x) + v * (ACC_SCALE * d)
      BY <1>2
    <2>2. v * (ACC_SCALE * d) = ACC_SCALE * (v * d)
      BY <1>2
    <2> QED
      BY <1>5, <2>1, <2>2
  <1>10. \A z \in Nat : PendingShare(n, z, total) = v * (ACC_SCALE * z)
    BY <1>1, <1>3, <1>4 DEF PendingShare
  <1>11. CutOff(n, x + d, total) <= CutOff(n, x, total) + CutOff(n, d, total)
    <2>1. \A z : CutOff(n, z, total) = IF (z * ACC_SCALE) % total = 0 THEN 0 ELSE w
      BY <1>1 DEF CutOff
    <2>2. CASE (x * ACC_SCALE) % total = 0 /\ (d * ACC_SCALE) % total = 0
      <3>1. PICK a \in Nat, b \in Nat : a = x * ACC_SCALE /\ b = d * ACC_SCALE
        BY <1>2
      <3>2. PICK i \in Nat, j \in Nat : a = total * i /\ b = total * j
        <4>1. a % total = 0 /\ b % total = 0
          BY <2>2, <3>1, Zenon
        <4>2. PICK i \in Nat : a = total * i
          BY <4>1, WholeQuotient
        <4>3. PICK j \in Nat : b = total * j
          BY <4>1, WholeQuotient
        <4> QED
          BY <4>2, <4>3, Zenon
      <3>3. (x + d) * ACC_SCALE = a + b
        BY <1>2, <3>1
      <3>4. a + b = total * (i + j)
        BY <3>2
      <3>5. (total * (i + j)) % total = 0
        BY ModOfMultiple
      <3>6. ((x + d) * ACC_SCALE) % total = 0
        BY <3>3, <3>4, <3>5
      <3> QED
        BY <2>1, <2>2, <3>6
    <2>3. CASE ~((x * ACC_SCALE) % total = 0 /\ (d * ACC_SCALE) % total = 0)
      BY <2>1, <2>3
    <2> QED
      BY <2>2, <2>3
  <1> QED
    BY <1>8, <1>9, <1>10, <1>11

\* The numbers a position of n is made of.
LEMMA FairNumbers ==
    ASSUME NEW n \in Nfts, NEW f \in FeeType, NEW h \in HistoryType, NEW debt \in Nat
    PROVE  /\ CreditedTo(n, f, h) \in Nat
           /\ DueTo(h, debt) \in Nat
           /\ UNIT \in Nat \ {0} /\ ACC_SCALE \in Nat \ {0}
           /\ UNIT * ACC_SCALE \in Nat
           /\ Weight[n] \in Nat /\ f.acc \in Nat /\ f.last_seen \in Nat
           /\ h.xnt \in Nat /\ h.fair \in Nat /\ h.rounded \in Nat
           /\ UNIT * h.rounded \in Nat
  <1>1. /\ UNIT \in Nat \ {0} /\ ACC_SCALE \in Nat \ {0}
        /\ Weight[n] \in Nat /\ f.acc \in Nat /\ f.last_seen \in Nat
        /\ h.xnt \in Nat /\ h.fair \in Nat /\ h.rounded \in Nat
    BY ScaleAssumption, UnitAssumption, WeightNat DEF FeeType, HistoryType
  <1>2. PICK a \in Nat, b \in Nat, c \in Nat, d \in Nat :
            a = Weight[n] * f.acc /\ b = ACC_SCALE * h.xnt /\ c = ACC_SCALE * h.fair
            /\ d = ACC_SCALE * debt
    <2>1. \A i, j \in Nat : i * j \in Nat
      OBVIOUS
    <2> QED
      BY <1>1, <2>1
  <1>3. UNIT * (a + b) \in Nat /\ c + UNIT * d \in Nat /\ UNIT * ACC_SCALE \in Nat
        /\ UNIT * h.rounded \in Nat
    BY <1>1
  <1> QED
    BY <1>1, <1>2, <1>3 DEF CreditedTo, DueTo

\* With nothing on its way the two say the same.
LEMMA FairWhenSeen ==
    ASSUME NEW n \in Nfts, NEW f \in FeeType, NEW h \in HistoryType, NEW debt \in Nat,
           NEW total \in Nat \ {0}, UNIT % total = 0, Fair(n, f, h, debt)
    PROVE  FairWith(n, 0, total, f, h, debt)
  <1>1. CutOff(n, 0, total) = 0 /\ PendingShare(n, 0, total) = 0
    BY NothingPending
  <1>2. PICK c \in Nat, d \in Nat : c = CreditedTo(n, f, h) /\ d = DueTo(h, debt)
    BY FairNumbers
  <1>3. PICK u \in Nat, r \in Nat : u = UNIT * ACC_SCALE /\ r = h.rounded /\ UNIT * r \in Nat
    BY FairNumbers
  <1>4. c < d + u /\ d <= c + UNIT * r
    BY <1>2, <1>3 DEF Fair
  <1>5. c + 0 < d + u /\ 0 <= r /\ r - 0 = r /\ d <= c + 0 + UNIT * r
    BY <1>3, <1>4
  <1> QED
    BY <1>1, <1>2, <1>3, <1>5 DEF FairWith

\* Bringing the stream up to date keeps it.
LEMMA FairBroughtUp ==
    ASSUME NEW n \in Nfts, NEW f \in FeeType, NEW h \in HistoryType, NEW debt \in Nat,
           NEW total \in Nat \ {0}, UNIT % total = 0,
           NEW lamports \in Nat, f.last_seen <= lamports,
           FairWith(n, lamports - f.last_seen, total, f, h, debt)
    PROVE  Fair(n, update_xnt_accumulator(f, lamports, total), h, debt)
  <1>0. /\ UNIT \in Nat \ {0} /\ ACC_SCALE \in Nat \ {0}
        /\ Weight[n] \in Nat /\ f.acc \in Nat /\ f.last_seen \in Nat
        /\ h.xnt \in Nat
    BY FairNumbers
  <1>1. PICK x \in Nat : x = lamports - f.last_seen
    BY <1>0
  <1>2. PICK q \in Nat : q = (x * ACC_SCALE) \div total
    BY CutIsRounded
  <1>3. PICK c \in Nat, p \in Nat, g \in Nat, k \in Nat :
          /\ c = CutOff(n, x, total) /\ p = PendingShare(n, x, total)
          /\ g = UNIT * (Weight[n] * q) /\ k = UNIT * c
          /\ g <= p /\ p <= g + k
    <2>1. /\ CutOff(n, x, total) \in Nat /\ PendingShare(n, x, total) \in Nat
          /\ UNIT * (Weight[n] * ((x * ACC_SCALE) \div total)) \in Nat
          /\ UNIT * CutOff(n, x, total) \in Nat
          /\ UNIT * (Weight[n] * ((x * ACC_SCALE) \div total)) <= PendingShare(n, x, total)
          /\ PendingShare(n, x, total)
               <= UNIT * (Weight[n] * ((x * ACC_SCALE) \div total)) + UNIT * CutOff(n, x, total)
      BY CutIsRounded
    <2> QED
      BY <1>2, <2>1, Zenon
  <1>4. PICK a \in Nat, d \in Nat, s \in Nat, r \in Nat, ur \in Nat :
          /\ a = CreditedTo(n, f, h) /\ d = DueTo(h, debt) /\ s = UNIT * ACC_SCALE
          /\ r = h.rounded /\ ur = UNIT * r
    BY FairNumbers
  <1>5. a + p < d + s /\ c <= r /\ d <= a + p + UNIT * (r - c)
    BY <1>1, <1>3, <1>4 DEF FairWith
  <1>6. UNIT * (r - c) = ur - k
    <2>1. PICK m \in Nat : r = c + m
      BY <1>5
    <2>2. UNIT * (c + m) = UNIT * c + UNIT * m /\ UNIT * m \in Nat
      BY <1>0
    <2>3. r - c = m
      BY <2>1
    <2> QED
      BY <1>3, <1>4, <2>1, <2>2, <2>3
  <1>7. a + g < d + s /\ d <= a + g + ur
    BY <1>3, <1>5, <1>6
  <1>8. update_xnt_accumulator(f, lamports, total).acc = f.acc + q
    <2>1. CASE lamports <= f.last_seen
      <3>1. x = 0 /\ 0 * ACC_SCALE = 0
        BY <1>0, <1>1, <2>1
      <3>2. q = 0
        <4>1. total * q <= 0
          BY <1>2, <3>1, DivIsFloor
        <4> QED
          BY <4>1
      <3> QED
        BY <1>0, <2>1, <3>2 DEF update_xnt_accumulator
    <2>2. CASE ~(lamports <= f.last_seen)
      BY <1>1, <1>2, <2>2 DEF update_xnt_accumulator
    <2> QED
      BY <2>1, <2>2
  <1>9. CreditedTo(n, update_xnt_accumulator(f, lamports, total), h) = a + g
    <2>1. PICK w \in Nat, i \in Nat, j \in Nat : w = Weight[n] /\ i = f.acc /\ j = ACC_SCALE * h.xnt
      BY <1>0
    <2>2. UNIT * (w * (i + q) + j) = UNIT * (w * i + j) + UNIT * (w * q)
      <3>1. w * (i + q) = w * i + w * q
        OBVIOUS
      <3>2. PICK v \in Nat, y \in Nat : v = w * i /\ y = w * q
        OBVIOUS
      <3>3. UNIT * (v + y + j) = UNIT * (v + j) + UNIT * y
        BY <1>0
      <3> QED
        BY <3>1, <3>2, <3>3
    <2> QED
      BY <1>3, <1>4, <1>8, <2>1, <2>2 DEF CreditedTo
  <1> QED
    BY <1>4, <1>7, <1>9 DEF Fair

\* A snapshot starts it.
LEMMA FairSnapshot ==
    ASSUME NEW n \in Nfts, NEW f \in FeeType, NEW h \in HistoryType,
           h.xnt = 0, h.fair = 0, h.rounded = 0
    PROVE  Fair(n, f, h, Entitled(Weight[n], f.acc))
  <1>0. UNIT \in Nat \ {0} /\ ACC_SCALE \in Nat \ {0} /\ Weight[n] \in Nat /\ f.acc \in Nat
    BY ScaleAssumption, UnitAssumption, WeightNat DEF FeeType
  <1>1. PICK x \in Nat, y \in Nat, e \in Nat :
          /\ e = Entitled(Weight[n], f.acc) /\ x = Weight[n] * f.acc /\ y = ACC_SCALE * e
          /\ y <= x /\ x < y + ACC_SCALE
    <2>1. /\ Entitled(Weight[n], f.acc) \in Nat /\ Weight[n] * f.acc \in Nat
          /\ ACC_SCALE * Entitled(Weight[n], f.acc) \in Nat
          /\ ACC_SCALE * Entitled(Weight[n], f.acc) <= Weight[n] * f.acc
          /\ Weight[n] * f.acc < ACC_SCALE * Entitled(Weight[n], f.acc) + ACC_SCALE
      BY <1>0, EntitledBounds
    <2> QED
      BY <2>1, Zenon
  <1>2. CreditedTo(n, f, h) = UNIT * x
    <2>1. x + ACC_SCALE * 0 = x
      BY <1>0
    <2> QED
      BY <1>1, <2>1 DEF CreditedTo
  <1>3. DueTo(h, e) = UNIT * y
    <2>1. ACC_SCALE * 0 + UNIT * y = UNIT * y
      BY <1>0
    <2> QED
      BY <1>1, <2>1 DEF DueTo
  <1>4. UNIT * y <= UNIT * x /\ UNIT * x \in Nat /\ UNIT * y \in Nat /\ UNIT * 0 = 0
    BY <1>0, <1>1, ProductGrows
  <1>5. UNIT * x < UNIT * y + UNIT * ACC_SCALE
    <2>1. UNIT * x + UNIT <= UNIT * (y + ACC_SCALE)
      BY <1>0, <1>1, ProductSteps
    <2>2. UNIT * (y + ACC_SCALE) = UNIT * y + UNIT * ACC_SCALE /\ UNIT * ACC_SCALE \in Nat
      BY <1>0
    <2> QED
      BY <1>0, <1>4, <2>1, <2>2
  <1> QED
    BY <1>1, <1>2, <1>3, <1>4, <1>5 DEF Fair

\* A payment moves credit and debt alike.
LEMMA FairPaid ==
    ASSUME NEW n \in Nfts, NEW f \in FeeType, NEW h \in HistoryType, NEW debt \in Nat,
           NEW paid \in Nat, NEW g \in HistoryType,
           g.xnt = h.xnt + paid, g.fair = h.fair, g.rounded = h.rounded,
           Fair(n, f, h, debt)
    PROVE  Fair(n, f, g, debt + paid)
  <1>0. /\ UNIT \in Nat /\ ACC_SCALE \in Nat /\ UNIT * ACC_SCALE \in Nat
        /\ Weight[n] \in Nat /\ f.acc \in Nat /\ h.xnt \in Nat /\ h.fair \in Nat
        /\ UNIT * h.rounded \in Nat
        /\ CreditedTo(n, f, h) \in Nat /\ DueTo(h, debt) \in Nat
    BY FairNumbers
  <1>1. PICK p \in Nat, x \in Nat, z \in Nat, v \in Nat, d \in Nat :
          /\ p = ACC_SCALE * paid /\ x = Weight[n] * f.acc /\ z = ACC_SCALE * h.xnt
          /\ v = ACC_SCALE * h.fair /\ d = ACC_SCALE * debt
    <2>1. \A i, j \in Nat : i * j \in Nat
      OBVIOUS
    <2> QED
      BY <1>0, <2>1
  <1>2. ACC_SCALE * (h.xnt + paid) = z + p /\ ACC_SCALE * (debt + paid) = d + p
    BY <1>0, <1>1
  <1>3. UNIT * (x + (z + p)) = UNIT * (x + z) + UNIT * p /\ UNIT * (d + p) = UNIT * d + UNIT * p
        /\ UNIT * p \in Nat /\ UNIT * d \in Nat
    BY <1>0
  <1>4. CreditedTo(n, f, g) = CreditedTo(n, f, h) + UNIT * p
    BY <1>1, <1>2, <1>3 DEF CreditedTo
  <1>5. DueTo(g, debt + paid) = DueTo(h, debt) + UNIT * p
    BY <1>1, <1>2, <1>3 DEF DueTo
  <1>6. PICK a \in Nat, b \in Nat, c \in Nat, s \in Nat, r \in Nat :
          /\ a = CreditedTo(n, f, h) /\ b = DueTo(h, debt) /\ c = UNIT * p
          /\ s = UNIT * ACC_SCALE /\ r = UNIT * h.rounded
    BY <1>0, <1>3
  <1>7. a < b + s /\ b <= a + r
    BY <1>6 DEF Fair
  <1>8. a + c < b + c + s /\ b + c <= a + c + r
    BY <1>7
  <1> QED
    BY <1>4, <1>5, <1>6, <1>8 DEF Fair

\* A deposit of d, too, while it is on its way.
LEMMA FairShared ==
    ASSUME NEW n \in Nfts, NEW f \in FeeType, NEW h \in HistoryType, NEW debt \in Nat,
           NEW total \in Nat \ {0}, UNIT % total = 0,
           NEW x \in Nat, NEW d \in Nat, NEW g \in HistoryType,
           g.xnt = h.xnt, g.fair = h.fair + (UNIT * Weight[n] * d) \div total,
           g.rounded = h.rounded + CutOff(n, d, total),
           FairWith(n, x, total, f, h, debt)
    PROVE  FairWith(n, x + d, total, f, g, debt)
  <1>0. /\ UNIT \in Nat /\ ACC_SCALE \in Nat /\ h.fair \in Nat
        /\ CreditedTo(n, f, h) \in Nat /\ DueTo(h, debt) \in Nat /\ UNIT * ACC_SCALE \in Nat
        /\ h.rounded \in Nat
    BY FairNumbers
  <1>1. PICK e \in Nat : e = (UNIT * Weight[n] * d) \div total
    BY DepositShared
  <1>2. PICK i \in Nat, j \in Nat, k \in Nat, p \in Nat :
          /\ i = CutOff(n, x, total) /\ j = CutOff(n, d, total) /\ k = CutOff(n, x + d, total)
          /\ p = PendingShare(n, x, total) /\ k <= i + j
    <2>1. x + d \in Nat
      OBVIOUS
    <2> QED
      BY <2>1, CutIsRounded, DepositShared
  <1>3. PICK q \in Nat : q = ACC_SCALE * e
    BY <1>0
  <1>4. PendingShare(n, x + d, total) = p + q
    BY <1>1, <1>2, <1>3, DepositShared
  <1>5. CreditedTo(n, f, g) = CreditedTo(n, f, h)
    BY DEF CreditedTo
  <1>6. DueTo(g, debt) = DueTo(h, debt) + q
    <2>1. ACC_SCALE * (h.fair + e) = ACC_SCALE * h.fair + q
      BY <1>0, <1>3
    <2>2. PICK a \in Nat, b \in Nat : a = ACC_SCALE * h.fair /\ b = UNIT * (ACC_SCALE * debt)
      BY <1>0
    <2>3. a + q + b = a + b + q
      OBVIOUS
    <2> QED
      BY <1>1, <2>1, <2>2, <2>3 DEF DueTo
  <1>7. PICK a \in Nat, b \in Nat, s \in Nat, r \in Nat :
          a = CreditedTo(n, f, h) /\ b = DueTo(h, debt) /\ s = UNIT * ACC_SCALE /\ r = h.rounded
    BY <1>0
  <1>8. a + p < b + s /\ i <= r /\ b <= a + p + UNIT * (r - i)
    BY <1>2, <1>7 DEF FairWith
  <1>9. k <= r + j /\ r - i <= r + j - k
    BY <1>2, <1>8
  <1>10. UNIT * (r - i) <= UNIT * (r + j - k) /\ UNIT * (r - i) \in Nat /\ UNIT * (r + j - k) \in Nat
    <2>1. r - i \in Nat /\ r + j - k \in Nat
      BY <1>8, <1>9
    <2> QED
      BY <1>0, <1>9, <2>1, ProductGrows
  <1>11. a + (p + q) < b + q + s /\ b + q <= a + (p + q) + UNIT * (r + j - k)
    <2>1. PICK y \in Nat, z \in Nat : y = UNIT * (r - i) /\ z = UNIT * (r + j - k)
      BY <1>10
    <2> QED
      BY <1>8, <1>10, <2>1
  <1>12. g.rounded = r + j
    BY <1>2, <1>7
  <1> QED
    BY <1>2, <1>4, <1>5, <1>6, <1>7, <1>9, <1>11, <1>12 DEF FairWith

\* What it is for.
LEMMA FairPays ==
    ASSUME NEW n \in Nfts, NEW f \in FeeType, NEW h \in HistoryType, NEW debt \in Nat,
           debt <= Entitled(Weight[n], f.acc), NEW got \in Nat,
           got = h.xnt + (Entitled(Weight[n], f.acc) - debt),
           Fair(n, f, h, debt)
    PROVE  /\ UNIT * got < h.fair + UNIT
           /\ ACC_SCALE * h.fair < UNIT * (ACC_SCALE * got + ACC_SCALE + h.rounded)
  <1>0. /\ UNIT \in Nat \ {0} /\ ACC_SCALE \in Nat \ {0} /\ Weight[n] \in Nat /\ f.acc \in Nat
        /\ h.xnt \in Nat /\ h.fair \in Nat /\ h.rounded \in Nat
    BY FairNumbers
  <1>1. PICK x \in Nat, e \in Nat :
          /\ x = Weight[n] * f.acc /\ e = Entitled(Weight[n], f.acc)
          /\ ACC_SCALE * e <= x /\ x < ACC_SCALE * e + ACC_SCALE
    BY <1>0, EntitledBounds
  <1>2. got + debt = e + h.xnt
    BY <1>0, <1>1
  <1>3. PICK a \in Nat, b \in Nat, c \in Nat, z \in Nat :
          a = ACC_SCALE * got /\ b = ACC_SCALE * debt /\ c = ACC_SCALE * e /\ z = ACC_SCALE * h.xnt
    <2>1. \A i, j \in Nat : i * j \in Nat
      OBVIOUS
    <2> QED
      BY <1>0, <2>1
  <1>4. a + b = c + z
    <2>1. ACC_SCALE * (got + debt) = ACC_SCALE * (e + h.xnt)
      BY <1>2
    <2>2. PICK i \in Nat, s \in Nat : i = h.xnt /\ s = ACC_SCALE
      BY <1>0
    <2>3. s * (got + debt) = s * got + s * debt /\ s * (e + i) = s * e + s * i
      OBVIOUS
    <2>4. ACC_SCALE * (got + debt) = a + b /\ ACC_SCALE * (e + h.xnt) = c + z
      BY <1>3, <2>2, <2>3
    <2> QED
      BY <2>1, <2>4
  <1>5. a + b <= x + z /\ x + z < a + b + ACC_SCALE
    BY <1>0, <1>1, <1>3, <1>4
  <1>6. PICK m \in Nat, v \in Nat : m = UNIT * ACC_SCALE /\ v = ACC_SCALE * h.fair
    <2>1. \A i, j \in Nat : i * j \in Nat
      OBVIOUS
    <2> QED
      BY <1>0, <2>1
  <1>7. UNIT * (x + z) < v + UNIT * b + m /\ v + UNIT * b <= UNIT * (x + z) + UNIT * h.rounded
    BY <1>1, <1>3, <1>6 DEF Fair, CreditedTo, DueTo
  <1>8. UNIT * a + UNIT * b <= UNIT * (x + z)
    <2>1. UNIT * (a + b) <= UNIT * (x + z)
      BY <1>0, <1>5, ProductGrows
    <2>2. UNIT * (a + b) = UNIT * a + UNIT * b
      BY <1>0
    <2> QED
      BY <2>1, <2>2
  <1>9. PICK ua \in Nat, ub \in Nat, ux \in Nat, ur \in Nat :
          ua = UNIT * a /\ ub = UNIT * b /\ ux = UNIT * (x + z) /\ ur = UNIT * h.rounded
    <2>1. \A i, j \in Nat : i * j \in Nat
      OBVIOUS
    <2>2. x + z \in Nat
      OBVIOUS
    <2> QED
      BY <1>0, <2>1, <2>2
  <1>10. ua < v + m
    BY <1>7, <1>8, <1>9
  <1>11. UNIT * got < h.fair + UNIT
    <2>1. PICK ug \in Nat : ug = UNIT * got
      BY <1>0
    <2>2. ua = ACC_SCALE * ug
      BY <1>0, <1>3, <1>9, <2>1
    <2>3. v + m = ACC_SCALE * (h.fair + UNIT)
      BY <1>0, <1>6
    <2>4. SUFFICES ASSUME h.fair + UNIT <= ug PROVE FALSE
      BY <1>0, <2>1
    <2>5. ACC_SCALE * (h.fair + UNIT) <= ACC_SCALE * ug
      BY <1>0, <2>4, ProductGrows
    <2> QED
      BY <1>6, <1>9, <1>10, <2>2, <2>3, <2>5
  <1>12. UNIT * (x + z) < UNIT * (a + b + ACC_SCALE)
    <2>1. UNIT * (x + z) + UNIT <= UNIT * (a + b + ACC_SCALE)
      BY <1>0, <1>5, ProductSteps
    <2>2. UNIT * (a + b + ACC_SCALE) \in Nat
      BY <1>0
    <2> QED
      BY <1>0, <1>9, <2>1, <2>2
  <1>13. UNIT * (a + b + ACC_SCALE) = ua + ub + m
    BY <1>0, <1>6, <1>9
  <1>14. v < ua + m + ur
    BY <1>6, <1>7, <1>9, <1>12, <1>13
  <1>15. UNIT * (a + ACC_SCALE + h.rounded) = ua + m + ur
    BY <1>0, <1>6, <1>9
  <1> QED
    BY <1>3, <1>6, <1>11, <1>14, <1>15

-----------------------------------------------------------------------------
(* Every share is fair, action by action.                                 *)

\* A gumball that takes no part in the fees has got none.
IdleGotNothing ==
    \A n \in Staked :
        debts[n].bump = 0 => hist[n].xnt = 0 /\ hist[n].fair = 0 /\ hist[n].rounded = 0

\* Each position that earns has the credit of its deposits, with what is on its way.
EarnersFair ==
    \A n \in Earning :
        FairWith(n, pool - fee.last_seen, config.total_nft_weight, fee, hist[n], debts[n].debt)

\* The inductive invariant: the shares are covered, and fair.
FairInv == SharesInv /\ IdleGotNothing /\ EarnersFair

\* What a position that earns is made of.
LEMMA EarnerParts ==
    ASSUME AccountsOK, PoolKeepsRent, WeightIsSum, NEW n \in Earning
    PROVE  /\ n \in Nfts /\ n \in Staked
           /\ fee \in FeeType /\ pool \in Nat /\ fee.last_seen \in Nat /\ fee.last_seen <= pool
           /\ hist[n] \in HistoryType
           /\ debts[n].debt \in Nat
           /\ config.total_nft_weight \in Nat \ {0}
           /\ UNIT % config.total_nft_weight = 0
           /\ config.total_nft_weight = SumOfWeights(Staked)
  <1>1. n \in Nfts /\ n \in Staked /\ Staked \in SUBSET Nfts /\ Staked # {}
    BY EarningFinite, StakedFinite
  <1>2. config.total_nft_weight = SumOfWeights(Staked)
    BY DEF WeightIsSum
  <1>3. SumOfWeights(Staked) \in Nat \ {0} /\ UNIT % SumOfWeights(Staked) = 0
    BY <1>1, UnitParts
  <1> QED
    BY <1>1, <1>2, <1>3
       DEF AccountsOK, FeeOK, FeeType, HistOK, DebtsOK, DebtType, PoolKeepsRent

\* The stream brought up to date keeps what everybody in it was promised.
LEMMA FairNow ==
    ASSUME FairInv, NEW n \in Earning
    PROVE  Fair(n, FeeNow, hist[n], debts[n].debt)
  <1>1. AccountsOK /\ PoolKeepsRent /\ WeightIsSum /\ EarnersFair
    BY DEF FairInv, SharesInv, NftInv
  <1>2. FairWith(n, pool - fee.last_seen, config.total_nft_weight, fee, hist[n], debts[n].debt)
    BY <1>1 DEF EarnersFair
  <1> QED
    BY <1>1, <1>2, EarnerParts, FairBroughtUp DEF FeeNow

\* What a handler leaves that brought the stream up to date.
SeenAndFair ==
    /\ AccountsOK /\ PoolKeepsRent /\ WeightIsSum
    /\ fee.last_seen = pool
    /\ \A n \in Earning : Fair(n, fee, hist[n], debts[n].debt)

\* With nothing on its way, everybody in the stream got its share.
LEMMA SeenIsFair == SeenAndFair => EarnersFair
  <1>1. SUFFICES ASSUME SeenAndFair, NEW n \in Earning
                 PROVE  FairWith(n, pool - fee.last_seen, config.total_nft_weight, fee, hist[n],
                                 debts[n].debt)
    BY DEF EarnersFair
  <1>2. AccountsOK /\ PoolKeepsRent /\ WeightIsSum /\ fee.last_seen = pool
        /\ Fair(n, fee, hist[n], debts[n].debt)
    BY <1>1 DEF SeenAndFair
  <1>3. pool - fee.last_seen = 0
    BY <1>1, <1>2, EarnerParts
  <1>4. FairWith(n, 0, config.total_nft_weight, fee, hist[n], debts[n].debt)
    BY <1>1, <1>2, EarnerParts, FairWhenSeen
  <1> QED
    BY <1>3, <1>4

\* Nobody earns in the beginning.
LEMMA InitFair == Init => FairInv
  <1>1. SUFFICES ASSUME Init PROVE FairInv
    OBVIOUS
  <1>2. PICK legacy \in SUBSET Nfts, stale \in SUBSET Nfts :
            /\ legacy \cap stale = {}
            /\ stakes = [n \in Nfts |-> [NoStake EXCEPT !.open = n \in legacy]]
            /\ debts = [n \in Nfts |-> IF n \in stale THEN Snapshot(Weight[n], 0) ELSE NoDebt]
            /\ hist = [n \in Nfts |-> NoHistory]
    BY <1>1 DEF Init
  <1>3. ASSUME NEW n \in Staked
        PROVE  /\ debts[n].bump = 0
               /\ hist[n].xnt = 0 /\ hist[n].fair = 0 /\ hist[n].rounded = 0
    <2>1. n \in Nfts /\ stakes[n].open
      BY <1>3 DEF Staked
    <2>2. stakes[n].open = (n \in legacy)
      BY <1>2, <2>1, Zenon DEF NoStake
    <2> QED
      BY <1>2, <2>1, <2>2 DEF NoDebt, NoHistory
  <1>4. Earning = {}
    <2>1. \A n \in Earning : n \in Staked /\ debts[n].bump = 1
      BY DEF Earning
    <2> QED
      BY <1>3, <2>1
  <1>5. SharesInv
    BY <1>1, InitShares
  <1> QED
    BY <1>3, <1>4, <1>5 DEF FairInv, IdleGotNothing, EarnersFair

\* What fairness adds to SharesInv.
FairOK == IdleGotNothing /\ EarnersFair

\* A step that leaves pool, debts and history of the fees as they are.
LEMMA FairUntouched ==
    ASSUME FairInv, fee' = fee, pool' = pool, debts' = debts, Staked' = Staked,
           config'.total_nft_weight = config.total_nft_weight,
           \A n \in Nfts : /\ hist'[n].xnt = hist[n].xnt
                           /\ hist'[n].fair = hist[n].fair
                           /\ hist'[n].rounded = hist[n].rounded
    PROVE  FairOK'
  <1>1. IdleGotNothing'
    BY StakedFinite DEF FairInv, IdleGotNothing
  <1>2. EarnersFair'
    <2>1. Earning' = Earning
      BY DEF Earning
    <2>2. SUFFICES ASSUME NEW n \in Earning
                   PROVE  FairWith(n, pool - fee.last_seen, config.total_nft_weight, fee, hist'[n],
                                   debts[n].debt)
      BY <2>1 DEF EarnersFair
    <2>3. n \in Nfts
      BY EarningFinite
    <2>4. FairWith(n, pool - fee.last_seen, config.total_nft_weight, fee, hist[n], debts[n].debt)
      BY DEF FairInv, EarnersFair
    <2>5. CreditedTo(n, fee, hist'[n]) = CreditedTo(n, fee, hist[n])
          /\ DueTo(hist'[n], debts[n].debt) = DueTo(hist[n], debts[n].debt)
      BY <2>3 DEF CreditedTo, DueTo
    <2> QED
      BY <2>3, <2>4, <2>5, Zenon DEF FairWith
  <1> QED
    BY <1>1, <1>2 DEF FairOK

\* A gumball m leaves, joins or is paid; for everybody else the handler has
\* only brought the stream up to date.
LEMMA FairSeenStep ==
    ASSUME FairInv, SharesInv', NEW m \in Nfts,
           fee'.last_seen = pool',
           Staked \ {m} = Staked' \ {m},
           Earning \ {m} # {} => fee'.acc = FeeNow.acc,
           \A n \in Nfts \ {m} : debts'[n] = debts[n] /\ hist'[n] = hist[n],
           m \in Staked' => debts'[m].bump = 1,
           m \in Earning' => Fair(m, fee', hist'[m], debts'[m].debt)
    PROVE  FairOK'
  <1>1. Earning' \ {m} = Earning \ {m}
    BY StakedFinite DEF Earning
  <1>2. IdleGotNothing'
    BY StakedFinite DEF FairInv, IdleGotNothing
  <1>3. ASSUME NEW n \in Earning', n # m
        PROVE  Fair(n, fee', hist'[n], debts'[n].debt)
    <2>1. n \in Earning /\ fee'.acc = FeeNow.acc /\ n \in Nfts
      BY <1>1, <1>3, EarningFinite
    <2>2. Fair(n, FeeNow, hist[n], debts[n].debt)
      BY <2>1, FairNow
    <2>3. debts'[n] = debts[n] /\ hist'[n] = hist[n]
      BY <1>3, <2>1
    <2> QED
      BY <2>1, <2>2, <2>3, Zenon DEF Fair, CreditedTo
  <1>4. SeenAndFair'
    BY <1>3 DEF SeenAndFair, SharesInv, NftInv
  <1>5. EarnersFair'
    BY <1>4, SeenIsFair, PTL
  <1> QED
    BY <1>2, <1>5 DEF FairOK

\* A gumball that stakes starts with a snapshot; the others are brought up to date.
LEMMA FairStake ==
    ASSUME FairInv, SharesInv', NEW m \in Nfts, stake(m)
    PROVE  FairOK'
  <1>0. AccountsOK /\ PoolKeepsRent /\ WeightIsSum
    BY DEF FairInv, SharesInv, NftInv
  <1>1. fee \in FeeType /\ pool \in Nat /\ config.total_nft_weight \in Nat /\ fee.last_seen <= pool
    BY <1>0 DEF AccountsOK, FeeOK, ConfigOK, ConfigType, PoolKeepsRent
  <1>2. PICK f : f = advance_xnt_for_stake(fee, pool, config.total_nft_weight)
    OBVIOUS
  <1>3. f \in FeeType /\ f.last_seen = pool
        /\ (config.total_nft_weight # 0 => f = FeeNow)
    BY <1>1, <1>2, FeeAdvance DEF FeeNow
  <1>4. fee' = f /\ pool' = pool /\ debts' = [debts EXCEPT ![m] = Snapshot(Weight[m], f.acc)]
        /\ hist' = [hist EXCEPT ![m] = NoHistory]
    BY <1>2 DEF stake, DebtAtStake
  <1>5. Staked' \ {m} = Staked \ {m}
    BY <1>0 DEF stake, Staked, AccountsOK, StakesOK
  <1>6. Earning \ {m} # {} => fee'.acc = FeeNow.acc
    BY <1>0, <1>3, <1>4, EarnerParts
  <1>7. \A n \in Nfts \ {m} : debts'[n] = debts[n] /\ hist'[n] = hist[n]
    BY <1>0, <1>4 DEF AccountsOK, DebtsOK, HistOK
  <1>8. debts'[m] = [debt |-> Entitled(Weight[m], f.acc), bump |-> 1] /\ hist'[m] = NoHistory
    BY <1>0, <1>4 DEF AccountsOK, DebtsOK, HistOK, Snapshot
  <1>9. Fair(m, f, NoHistory, Entitled(Weight[m], f.acc))
    <2>1. NoHistory \in HistoryType /\ NoHistory.xnt = 0 /\ NoHistory.fair = 0
          /\ NoHistory.rounded = 0
      BY DEF NoHistory, HistoryType
    <2> QED
      BY <1>3, <2>1, FairSnapshot
  <1>10. Fair(m, fee', hist'[m], debts'[m].debt)
    BY <1>4, <1>8, <1>9
  <1> QED
    BY <1>3, <1>4, <1>5, <1>6, <1>7, <1>8, <1>10, FairSeenStep

\* What a settlement leaves in the stream.
LEMMA SettledSeen ==
    ASSUME FairInv, NEW m \in Staked, NEW k \in Nfts
    PROVE  /\ SettledOn(m, k).fee.acc = FeeNow.acc
           /\ SettledOn(m, k).fee.last_seen = SettledOn(m, k).pool
           /\ SettledOn(m, k).fee \in FeeType
           /\ FeeNow \in FeeType
           /\ SettledOn(m, k).paid \in Nat
  <1>0. AccountsOK /\ PoolKeepsRent /\ SharesInv
    BY DEF FairInv, SharesInv, NftInv
  <1>1. PICK s : s = SettledOn(m, k)
    OBVIOUS
  <1>2. /\ s.fee = [acc |-> FeeNow.acc, last_seen |-> FeeNow.last_seen - s.paid]
        /\ s.paid \in Nat /\ s.fee \in FeeType /\ s.pool = s.fee.last_seen
    BY <1>0, <1>1, SettledLeaves
  <1>3. FeeNow \in FeeType
    BY <1>0, FeeNowType
  <1> QED
    BY <1>1, <1>2, <1>3

\* A gumball that leaves is settled, and so is the one whose token it takes; the
\* others are brought up to date.
LEMMA FairUnstake ==
    ASSUME FairInv, SharesInv', NEW n \in Nfts, NEW m \in Nfts, unstake(n, m)
    PROVE  FairOK'
  <1>0. AccountsOK
    BY DEF FairInv, SharesInv, NftInv
  <1>1. n \in Staked
    BY DEF unstake, Staked
  <1>2. /\ fee' = SettledOn(n, m).fee /\ pool' = SettledOn(n, m).pool
        /\ debts' = [debts EXCEPT ![m] = NoDebt]
        /\ hist' = [[hist EXCEPT ![m] = WithoutFees(hist[m])] EXCEPT ![n] = NoHistory]
    BY DEF unstake, SettledOn, FeeBeforeUnstake
  <1>3. fee'.acc = FeeNow.acc /\ fee'.last_seen = pool'
    BY <1>1, <1>2, SettledSeen
  <1>4. ~stakes'[n].open /\ \A k \in Nfts \ {n} : stakes'[k] = stakes[k]
    BY <1>0 DEF unstake, AccountsOK, StakesOK, NoStake
  <1>5. debts'[m].bump = 0 /\ \A k \in Nfts \ {n, m} : debts'[k] = debts[k] /\ hist'[k] = hist[k]
    BY <1>0, <1>2 DEF AccountsOK, DebtsOK, HistOK, NoDebt
  <1>6. m # n => hist'[m].xnt = 0 /\ hist'[m].fair = 0 /\ hist'[m].rounded = 0
    <2>1. hist[m] \in HistoryType
      BY <1>0 DEF AccountsOK, HistOK
    <2>2. m # n => hist'[m] = WithoutFees(hist[m])
      BY <1>0, <1>2 DEF AccountsOK, HistOK
    <2> QED
      BY <2>1, <2>2 DEF WithoutFees, HistoryType
  <1>7. IdleGotNothing'
    <2>1. SUFFICES ASSUME NEW k \in Staked', debts'[k].bump = 0
                   PROVE  hist'[k].xnt = 0 /\ hist'[k].fair = 0 /\ hist'[k].rounded = 0
      BY DEF IdleGotNothing
    <2>2. k \in Nfts /\ k # n
      BY <1>4, <2>1 DEF Staked
    <2>3. CASE k = m
      BY <1>6, <2>2, <2>3
    <2>4. CASE k # m
      <3>1. k \in Staked /\ debts[k].bump = 0 /\ hist'[k] = hist[k]
        BY <1>4, <1>5, <2>1, <2>2, <2>4 DEF Staked
      <3> QED
        BY <3>1 DEF FairInv, IdleGotNothing
    <2> QED
      BY <2>3, <2>4
  <1>8. ASSUME NEW k \in Earning' PROVE Fair(k, fee', hist'[k], debts'[k].debt)
    <2>1. k \in Nfts /\ k # n /\ k # m /\ stakes'[k].open /\ debts'[k].bump = 1
      BY <1>4, <1>5 DEF Earning, Staked
    <2>2. k \in Earning /\ debts'[k] = debts[k] /\ hist'[k] = hist[k]
      BY <1>4, <1>5, <2>1 DEF Earning, Staked
    <2>3. Fair(k, FeeNow, hist[k], debts[k].debt)
      BY <2>2, FairNow
    <2> QED
      BY <1>3, <2>2, <2>3, Zenon DEF Fair, CreditedTo
  <1>9. SeenAndFair'
    BY <1>3, <1>8 DEF SeenAndFair, SharesInv, NftInv
  <1>10. EarnersFair'
    BY <1>9, SeenIsFair, PTL
  <1> QED
    BY <1>7, <1>10 DEF FairOK

\* A claim pays, or starts with a snapshot the gumball that took no part so far.
LEMMA FairClaim ==
    ASSUME FairInv, SharesInv', NEW m \in Nfts, claim_xnt_fees_nft(m)
    PROVE  FairOK'
  <1>0. AccountsOK /\ PoolKeepsRent /\ WeightIsSum /\ SharesInv
    BY DEF FairInv, SharesInv, NftInv
  <1>1. m \in Staked /\ Staked' = Staked
    BY DEF claim_xnt_fees_nft, Staked
  <1>2. PICK s : s = SettledFor(m)
    OBVIOUS
  <1>3. /\ fee' = s.fee /\ pool' = s.pool /\ debts' = [debts EXCEPT ![m] = s.debt]
    BY <1>2 DEF claim_xnt_fees_nft, SettledFor, SettledOn
  <1>4. fee'.acc = FeeNow.acc /\ fee'.last_seen = pool' /\ FeeNow \in FeeType
        /\ s.fee \in FeeType /\ s.paid \in Nat
    <2>1. m \in Nfts
      OBVIOUS
    <2> QED
      BY <1>1, <1>2, <1>3, <2>1, SettledSeen DEF SettledFor
  <1>5. PICK h : h = hist[m] /\ h \in HistoryType
    BY <1>0 DEF AccountsOK, HistOK
  <1>6. debts'[m] = s.debt /\ \A n \in Nfts \ {m} : debts'[n] = debts[n] /\ hist'[n] = hist[n]
    BY <1>0, <1>3 DEF claim_xnt_fees_nft, AccountsOK, DebtsOK, HistOK
  <1>9. hist' = [hist EXCEPT ![m].xnt = @ + s.paid]
    BY <1>2 DEF claim_xnt_fees_nft, SettledFor, SettledOn
  <1>7. CASE m \in Earning
    <2>1. debts[m].bump = 1 /\ debts[m].debt \in Nat
      BY <1>0, <1>7, EarnerParts DEF Earning
    <2>2. s.debt = [debt |-> debts[m].debt + s.paid, bump |-> 1]
      BY <1>0, <1>1, <1>2, <1>7, SettledPays
    <2>4. hist'[m] = [h EXCEPT !.xnt = @ + s.paid]
      BY <1>0, <1>5, <1>9 DEF AccountsOK, HistOK
    <2>5. PICK g \in HistoryType : /\ g = hist'[m] /\ g.xnt = h.xnt + s.paid
                                   /\ g.fair = h.fair /\ g.rounded = h.rounded
      BY <1>4, <1>5, <2>4 DEF HistoryType
    <2>6. Fair(m, FeeNow, h, debts[m].debt)
      BY <1>5, <1>7, FairNow
    <2>7. Fair(m, FeeNow, g, debts[m].debt + s.paid)
      BY <1>4, <1>5, <2>1, <2>5, <2>6, FairPaid
    <2>8. Fair(m, fee', hist'[m], debts'[m].debt)
      <3>1. debts'[m].debt = debts[m].debt + s.paid
        BY <1>6, <2>2
      <3> QED
        BY <1>4, <2>5, <2>7, <3>1, Zenon DEF Fair, CreditedTo
    <2>9. debts'[m].bump = 1
      BY <1>6, <2>2
    <2> QED
      BY <1>1, <1>4, <1>6, <2>8, <2>9, FairSeenStep
  <1>8. CASE m \notin Earning
    <2>1. s.debt = Snapshot(Weight[m], FeeNow.acc) /\ debts[m].bump = 0 /\ s.paid = 0
      BY <1>0, <1>1, <1>2, <1>8, SettledPays
    <2>2. h.xnt = 0 /\ h.fair = 0 /\ h.rounded = 0
      BY <1>1, <1>5, <2>1 DEF FairInv, IdleGotNothing
    <2>3. hist'[m] = [h EXCEPT !.xnt = @ + s.paid]
      BY <1>0, <1>5, <1>9 DEF AccountsOK, HistOK
    <2>5. PICK g \in HistoryType : /\ g = hist'[m] /\ g.xnt = 0 /\ g.fair = 0 /\ g.rounded = 0
      BY <1>5, <2>1, <2>2, <2>3 DEF HistoryType
    <2>6. Fair(m, s.fee, g, Entitled(Weight[m], s.fee.acc))
      BY <1>4, <2>5, FairSnapshot
    <2>7. debts'[m].debt = Entitled(Weight[m], s.fee.acc) /\ debts'[m].bump = 1
      BY <1>3, <1>4, <1>6, <2>1 DEF Snapshot
    <2>8. Fair(m, fee', hist'[m], debts'[m].debt)
      BY <1>3, <2>5, <2>6, <2>7
    <2> QED
      BY <1>1, <1>4, <1>6, <2>7, <2>8, FairSeenStep
  <1> QED
    BY <1>7, <1>8

\* A deposit is on its way to whoever is staked now.
LEMMA FairDeposit ==
    ASSUME FairInv, SharesInv', NEW d \in Deposits, Deposit(d)
    PROVE  FairOK'
  <1>0. AccountsOK /\ PoolKeepsRent /\ WeightIsSum /\ EarnersFair /\ HistOK' /\ d \in Nat
    BY DepositAssumption DEF FairInv, SharesInv, NftInv, AccountsOK
  <1>1. /\ pool' = pool + d /\ fee' = fee /\ debts' = debts /\ config' = config
        /\ Staked' = Staked /\ Earning' = Earning
    BY DEF Deposit, Staked, Earning
  <1>2. ASSUME NEW n \in Earning
        PROVE  /\ hist'[n].xnt = hist[n].xnt
               /\ hist'[n].fair = hist[n].fair
                    + (UNIT * Weight[n] * d) \div SumOfWeights(Staked)
               /\ hist'[n].rounded = hist[n].rounded + CutOff(n, d, SumOfWeights(Staked))
    <2>1. n \in Nfts /\ hist[n] \in HistoryType
      BY <1>0, <1>2, EarningFinite DEF AccountsOK, HistOK
    <2>2. PICK q, c : /\ q = (UNIT * Weight[n] * d) \div SumOfWeights(Staked)
                      /\ c = CutOff(n, d, SumOfWeights(Staked))
      OBVIOUS
    <2>3. hist'[n] = [hist[n] EXCEPT !.fair = @ + q, !.rounded = @ + c]
      BY <1>2, <2>1, <2>2 DEF Deposit
    <2> QED
      BY <2>1, <2>2, <2>3 DEF HistoryType
  <1>3. IdleGotNothing'
    <2>1. SUFFICES ASSUME NEW n \in Staked, debts[n].bump = 0
                   PROVE  hist'[n].xnt = 0 /\ hist'[n].fair = 0 /\ hist'[n].rounded = 0
      BY <1>1 DEF IdleGotNothing
    <2>2. n \in Nfts /\ n \notin Earning
      BY <2>1, StakedFinite DEF Earning
    <2>3. hist'[n] = hist[n]
      BY <2>2 DEF Deposit
    <2> QED
      BY <2>1, <2>3 DEF FairInv, IdleGotNothing
  <1>4. EarnersFair'
    <2>1. SUFFICES ASSUME NEW n \in Earning
                   PROVE  FairWith(n, pool' - fee.last_seen, config.total_nft_weight, fee,
                                   hist'[n], debts[n].debt)
      <3>1. /\ fee' = fee /\ debts' = debts /\ config' = config /\ Earning' = Earning
        BY <1>1
      <3> QED
        BY <3>1 DEF EarnersFair
    <2>2. /\ n \in Nfts /\ n \in Staked /\ fee \in FeeType /\ pool \in Nat
          /\ fee.last_seen \in Nat /\ fee.last_seen <= pool
          /\ hist[n] \in HistoryType /\ debts[n].debt \in Nat
          /\ config.total_nft_weight \in Nat \ {0}
          /\ UNIT % config.total_nft_weight = 0
          /\ config.total_nft_weight = SumOfWeights(Staked)
      BY <1>0, EarnerParts
    <2>3. PICK x \in Nat : x = pool - fee.last_seen /\ pool' - fee.last_seen = x + d
      BY <1>0, <1>1, <2>2
    <2>4. PICK g \in HistoryType :
            /\ g = hist'[n] /\ g.xnt = hist[n].xnt
            /\ g.fair = hist[n].fair + (UNIT * Weight[n] * d) \div config.total_nft_weight
            /\ g.rounded = hist[n].rounded + CutOff(n, d, config.total_nft_weight)
      BY <1>0, <1>2, <2>2 DEF HistOK
    <2>5. FairWith(n, x, config.total_nft_weight, fee, hist[n], debts[n].debt)
      BY <1>0, <2>3 DEF EarnersFair
    <2>6. FairWith(n, x + d, config.total_nft_weight, fee, g, debts[n].debt)
      BY <1>0, <2>2, <2>4, <2>5, FairShared
    <2> QED
      BY <2>3, <2>4, <2>6
  <1> QED
    BY <1>3, <1>4 DEF FairOK

\* Every step keeps it: deposits put credit on its way, the handlers hand it out.
LEMMA FairInvStep == FairInv /\ [Next]_vars => FairInv'
  <1>1. SUFFICES ASSUME FairInv, [Next]_vars PROVE FairOK'
    BY SharesInvStep DEF FairInv, FairOK
  <1>2. AccountsOK /\ PoolKeepsRent /\ WeightIsSum /\ SharesInv'
    BY <1>1, SharesInvStep DEF FairInv, SharesInv, NftInv
  <1>3. CASE UNCHANGED vars
    BY <1>1, <1>3, FairUntouched DEF vars, Staked
  <1>4. ASSUME NEW n \in Nfts, claim(n) PROVE FairOK'
    <2>1. Staked' = Staked
      BY <1>2, <1>4 DEF claim, Staked, AccountsOK, StakesOK, StakeType
    <2>2. config'.total_nft_weight = config.total_nft_weight
      BY <1>2, <1>4 DEF claim, AccountsOK, ConfigOK, ConfigType
    <2>3. PICK x : hist' = [hist EXCEPT ![n].gum = @ + x]
      BY <1>4 DEF claim
    <2>4. \A k \in Nfts : /\ hist'[k].xnt = hist[k].xnt
                          /\ hist'[k].fair = hist[k].fair
                          /\ hist'[k].rounded = hist[k].rounded
      BY <1>2, <2>3 DEF AccountsOK, HistOK, HistoryType
    <2>5. fee' = fee /\ pool' = pool /\ debts' = debts
      BY <1>4 DEF claim
    <2> QED
      BY <1>1, <2>1, <2>2, <2>4, <2>5, FairUntouched
  <1>5. ASSUME NEW n \in Nfts, stake(n) \/ claim_xnt_fees_nft(n) PROVE FairOK'
    BY <1>1, <1>2, <1>5, FairStake, FairClaim
  <1>9. ASSUME NEW n \in Nfts, NEW m \in Nfts, unstake(n, m) PROVE FairOK'
    BY <1>1, <1>2, <1>9, FairUnstake
  <1>6. CASE sweep_xnt_pool_nft
    <2>1. Staked = {} /\ Earning = {}
      BY <1>2, <1>6, NobodyEarns DEF sweep_xnt_pool_nft, Sweepable
    <2>2. Staked' = {} /\ Earning' = {}
      BY <1>6, <2>1 DEF sweep_xnt_pool_nft, Staked, Earning
    <2> QED
      BY <2>2 DEF FairOK, IdleGotNothing, EarnersFair
  <1>7. CASE \E d \in Deposits : Deposit(d)
    BY <1>1, <1>2, <1>7, FairDeposit
  <1>8. CASE Tick
    <2>1. PICK e : e = vault * EMISSION_NUM
      OBVIOUS
    <2>2. \A k \in Nfts : /\ hist'[k].xnt = hist[k].xnt
                          /\ hist'[k].fair = hist[k].fair
                          /\ hist'[k].rounded = hist[k].rounded
      BY <1>2, <1>8 DEF Tick, AccountsOK, HistOK, HistoryType
    <2>3. /\ Staked' = Staked /\ fee' = fee /\ pool' = pool /\ debts' = debts /\ config' = config
      BY <1>8 DEF Tick, Staked
    <2> QED
      BY <1>1, <2>2, <2>3, FairUntouched
  <1>10. ASSUME NEW n \in Nfts, MoveToken(n) PROVE FairOK'
    BY <1>1, <1>10, FairUntouched DEF MoveToken, Staked
  <1> QED
    BY <1>1, <1>3, <1>4, <1>5, <1>6, <1>7, <1>8, <1>9, <1>10 DEF Next

\* Every position gets its share of each deposit since its XntDebt was made, by
\* the weights at the moment it arrives, whatever happens until the stream notices it and for any
\* weights, deposits and scale: never a lamport more, and a lamport less only
\* with what the accumulator cut off.
THEOREM NftSharesAreFair == Spec => []SharesAreFair
  <1>1. FairInv => SharesAreFair
    <2>1. SUFFICES ASSUME FairInv, NEW n \in Earning
                   PROVE  LET got == hist[n].xnt + Owed(n)
                          IN  /\ UNIT * got < hist[n].fair + UNIT
                              /\ ACC_SCALE * hist[n].fair
                                   < UNIT * (ACC_SCALE * got + ACC_SCALE + hist[n].rounded)
      BY DEF SharesAreFair
    <2>2. SharesInv /\ AccountsOK /\ PoolKeepsRent /\ WeightIsSum
      BY <2>1 DEF FairInv, SharesInv, NftInv
    <2>3. Fair(n, FeeNow, hist[n], debts[n].debt)
      BY <2>1, FairNow
    <2>4. n \in Nfts /\ hist[n] \in HistoryType /\ hist[n].xnt \in Nat /\ debts[n].debt \in Nat
      BY <2>1, <2>2, EarnerParts DEF HistoryType
    <2>5. FeeNow \in FeeType /\ FeeNow.acc \in Nat /\ DebtsCoveredAt(FeeNow.acc)
      BY <2>2, FeeNowType, SharesUpToDate DEF FeeType
    <2>6. PICK o \in Nat : o = Owed(n) /\ o = Entitled(Weight[n], FeeNow.acc) - debts[n].debt
      BY <2>1, <2>2, OwedIs
    <2>7. debts[n].debt <= Entitled(Weight[n], FeeNow.acc)
      BY <2>1, <2>2, <2>5, SharesNat
    <2>8. PICK got \in Nat : got = hist[n].xnt + o
      BY <2>4
    <2>9. /\ UNIT * got < hist[n].fair + UNIT
          /\ ACC_SCALE * hist[n].fair < UNIT * (ACC_SCALE * got + ACC_SCALE + hist[n].rounded)
      BY <2>3, <2>4, <2>5, <2>6, <2>7, <2>8, FairPays
    <2> QED
      BY <2>6, <2>8, <2>9
  <1> QED
    BY <1>1, InitFair, FairInvStep, PTL DEF Spec

-----------------------------------------------------------------------------
(* GUM.                                                                    *)

\* What the vault has emitted covers what a staked gumball was paid and may
\* still claim, in the units the stream has credited it with.
GumCovered ==
    /\ gum.last_update <= now
    /\ \A n \in Staked : PaidAsEmitted(Weight[n], gum, vault, now,
                                       hist[n].emitted, hist[n].gum, stakes[n].reward_debt)

GumInv == NftInv /\ GumCovered

\* What a handler finds of a staked gumball.
LEMMA GumParts ==
    ASSUME NftInv, NEW n \in Staked
    PROVE  /\ n \in Nfts /\ Weight[n] \in Nat /\ config.total_nft_weight \in Nat
           /\ Weight[n] <= config.total_nft_weight
           /\ gum \in GumType /\ gum.last_update \in Nat /\ vault \in Nat /\ now \in Nat
           /\ hist[n].emitted \in Nat /\ hist[n].gum \in Nat /\ stakes[n].reward_debt \in Nat
  <1>0. AccountsOK /\ WeightIsSum
    BY DEF NftInv
  <1>1. n \in Nfts /\ Staked \in SUBSET Nfts
    BY StakedFinite
  <1>2. Weight[n] <= SumOfWeights(Staked)
    BY <1>1, WeightOfSet
  <1>3. gum \in GumType /\ gum.last_update \in Nat /\ vault \in Nat
    BY <1>0 DEF AccountsOK, GumOK, GumType
  <1>4. now \in Nat /\ config.total_nft_weight \in Nat
    BY <1>0, BoundAssumption DEF AccountsOK, TimeOK, ConfigOK, ConfigType
  <1>5. hist[n].emitted \in Nat /\ hist[n].gum \in Nat
    BY <1>0, <1>1 DEF AccountsOK, HistOK, HistoryType
  <1>6. stakes[n].reward_debt \in Nat
    BY <1>0, <1>1 DEF AccountsOK, StakesOK, StakeType
  <1> QED
    BY <1>0, <1>1, <1>2, <1>3, <1>4, <1>5, <1>6, WeightNat DEF WeightIsSum

\* Every handler brings the stream up to date first.
LEMMA GumUpToDate ==
    ASSUME GumInv
    PROVE  GumNow \in GumType /\ GumNow.last_update = now
  <1>1. /\ gum \in GumType /\ vault \in Nat /\ now \in Nat /\ config.total_nft_weight \in Nat
        /\ gum.last_update <= now
    BY BoundAssumption
       DEF GumInv, GumCovered, NftInv, AccountsOK, GumOK, TimeOK, ConfigOK, ConfigType
  <1>2. 0 \in Nat /\ 0 <= config.total_nft_weight
    BY <1>1
  <1> QED
    BY <1>1, <1>2, GumUpdate DEF GumNow

LEMMA GumCoveredNow ==
    ASSUME GumInv, NEW n \in Staked
    PROVE  /\ PendingGum(n, GumNow) \in Nat
           /\ PendingGum(n, GumNow) = 0 => stakes[n].reward_debt = Entitled(Weight[n], GumNow.acc)
           /\ (hist[n].gum + PendingGum(n, GumNow)) * EMISSION_DEN <= hist[n].emitted
           /\ \A left \in Nat :
                PaidAsEmitted(Weight[n], GumNow, left, now,
                              hist[n].emitted, hist[n].gum, stakes[n].reward_debt)
           /\ \A left \in Nat, paid \in Nat : paid <= PendingGum(n, GumNow) =>
                PaidAsEmitted(Weight[n], GumNow, left, now, hist[n].emitted, hist[n].gum + paid,
                              Entitled(Weight[n], GumNow.acc))
  <1>0. NftInv /\ PaidAsEmitted(Weight[n], gum, vault, now,
                                hist[n].emitted, hist[n].gum, stakes[n].reward_debt)
    BY DEF GumInv, GumCovered
  <1>1. PICK w \in Nat, got \in Nat, emitted \in Nat, debt \in Nat, t \in Nat, v \in Nat :
           /\ w = Weight[n] /\ got = hist[n].gum /\ emitted = hist[n].emitted
           /\ debt = stakes[n].reward_debt /\ t = now /\ v = vault
    BY <1>0, GumParts
  <1>2. PICK g \in GumType : g = GumNow /\ g.last_update = t
    BY <1>1, GumUpToDate
  <1>3. PaidAsEmitted(w, g, v, t, emitted, got, debt)
    <2>1. PICK total \in Nat : total = config.total_nft_weight /\ w <= total
      BY <1>0, <1>1, GumParts
    <2>2. gum \in GumType /\ PaidAsEmitted(w, gum, v, t, emitted, got, debt)
      BY <1>0, <1>1, GumParts
    <2>3. PaidAsEmitted(w, UpdateGum(gum, v, total, t), v, t, emitted, got, debt)
      BY <2>1, <2>2, GumBroughtUp
    <2> QED
      BY <1>1, <1>2, <2>1, <2>3 DEF GumNow
  <1>4. PendingGum(n, GumNow) = saturating_sub(Entitled(w, g.acc), debt)
    BY <1>1, <1>2 DEF PendingGum
  <1>5. ASSUME NEW left \in Nat
        PROVE  LET due == saturating_sub(Entitled(w, g.acc), debt)
               IN  /\ due \in Nat
                   /\ due = 0 => debt = Entitled(w, g.acc)
                   /\ (got + due) * EMISSION_DEN <= emitted
                   /\ PaidAsEmitted(w, g, left, t, emitted, got, debt)
                   /\ \A paid \in Nat : paid <= due =>
                        PaidAsEmitted(w, g, left, t, emitted, got + paid, Entitled(w, g.acc))
    <2>1. g \in GumType /\ g.last_update = t /\ PaidAsEmitted(w, g, v, t, emitted, got, debt)
      BY <1>2, <1>3
    <2> QED
      BY <2>1, GumPaid, ZenonT(30)
  <1>6. 0 \in Nat
    OBVIOUS
  <1> QED
    BY <1>1, <1>2, <1>4, <1>5, <1>6, Zenon

LEMMA InitGum == Init => GumInv
  <1>1. SUFFICES ASSUME Init PROVE GumInv
    OBVIOUS
  <1>2. NftInv
    BY <1>1, InitNftInv
  <1>3. gum = [acc |-> 0, last_update |-> 0] /\ now = 0 /\ hist = [m \in Nfts |-> NoHistory]
        /\ \E legacy \in SUBSET Nfts : stakes = [m \in Nfts |-> [NoStake EXCEPT !.open = m \in legacy]]
    BY <1>1 DEF Init
  <1>4. gum.acc = 0 /\ gum.last_update = now
    BY <1>3
  <1>5. ASSUME NEW n \in Staked
        PROVE  PaidAsEmitted(Weight[n], gum, vault, now,
                             hist[n].emitted, hist[n].gum, stakes[n].reward_debt)
    <2>1. hist[n].gum = 0 /\ hist[n].emitted = 0 /\ stakes[n].reward_debt = 0
      BY <1>2, <1>3, GumParts DEF NoHistory, NoStake
    <2>2. Entitled(Weight[n], gum.acc) = 0
      <3>1. Weight[n] * 0 < ACC_SCALE * 0 + ACC_SCALE /\ 0 \in Nat /\ Weight[n] \in Nat
        BY <1>2, GumParts, ScaleAssumption
      <3>2. Entitled(Weight[n], 0) <= 0 /\ Entitled(Weight[n], 0) \in Nat
        BY <3>1, EntitledAtMost, EntitledBounds
      <3> QED
        BY <1>4, <3>2
    <2>3. PICK g \in Nat, e \in Nat, w \in Nat, v \in Nat, t \in Nat :
             /\ g = hist[n].gum /\ e = hist[n].emitted /\ w = Weight[n] /\ v = vault /\ t = now
      BY <1>2, GumParts
    <2>4. gum \in GumType /\ g * EMISSION_DEN <= e
      BY <1>2, <2>1, <2>3, GumParts, EmissionAssumption
    <2>5. PaidAsEmitted(w, gum, v, t, e, g, Entitled(w, gum.acc))
      BY <1>4, <2>3, <2>4, GumStarts
    <2> QED
      BY <2>1, <2>2, <2>3, <2>5
  <1>6. gum.last_update <= now
    BY <1>3
  <1> QED
    BY <1>2, <1>5, <1>6 DEF GumInv, GumCovered

LEMMA GumInvStep ==
    ASSUME GumInv, [Next]_vars
    PROVE  GumInv'
  <1>0. NftInv /\ NftInv' /\ AccountsOK /\ gum.last_update <= now
    BY NftInvStep DEF GumInv, NftInv, GumCovered
  <1>1. /\ gum.last_update \in Nat /\ now \in Nat /\ vault \in Nat /\ vault' \in Nat
        /\ GumNow \in GumType /\ GumNow.last_update = now
    BY <1>0, GumUpToDate, BoundAssumption DEF NftInv, AccountsOK, GumOK, GumType, TimeOK
  <1> DEFINE Covered(n) == PaidAsEmitted(Weight[n], gum, vault, now,
                                         hist[n].emitted, hist[n].gum, stakes[n].reward_debt)
  <1>2. \A n \in Staked : Covered(n)
    BY DEF GumInv, GumCovered
  <1>3. SUFFICES gum'.last_update <= now' /\ \A n \in Staked' : Covered(n)'
    BY <1>0 DEF GumInv, GumCovered
  <1>4. ASSUME UNCHANGED <<gum, vault, now, stakes>>,
               \A n \in Staked : hist'[n].emitted = hist[n].emitted /\ hist'[n].gum = hist[n].gum
        PROVE  gum'.last_update <= now' /\ \A n \in Staked' : Covered(n)'
    <2>1. Staked' = Staked
      BY <1>4 DEF Staked
    <2> QED
      BY <1>0, <1>2, <1>4, <2>1
  <1>5. ASSUME gum' = GumNow, now' = now,
               NEW n \in Staked, stakes'[n].reward_debt = stakes[n].reward_debt,
               hist'[n].emitted = hist[n].emitted, hist'[n].gum = hist[n].gum
        PROVE  Covered(n)'
    BY <1>1, <1>5, GumCoveredNow
  <1>6. ASSUME gum' = GumNow, now' = now PROVE gum'.last_update <= now'
    BY <1>1, <1>6
  <1>7. CASE UNCHANGED vars
    BY <1>4, <1>7 DEF vars
  <1>8. ASSUME NEW m \in Nfts, stake(m)
        PROVE  gum'.last_update <= now' /\ \A n \in Staked' : Covered(n)'
    <2>1. /\ gum' = GumNow /\ now' = now /\ vault' = vault
          /\ stakes' = [stakes EXCEPT ![m] = StakeAt(m, GumNow)]
          /\ hist' = [hist EXCEPT ![m] = NoHistory]
      BY <1>8 DEF stake
    <2>2. Covered(m)'
      <3>1. hist'[m].gum = 0 /\ hist'[m].emitted = 0
            /\ stakes'[m].reward_debt = Entitled(Weight[m], GumNow.acc)
        BY <1>0, <2>1 DEF AccountsOK, StakesOK, HistOK, StakeAt, NoHistory
      <3>2. Weight[m] \in Nat /\ 0 \in Nat /\ 0 * EMISSION_DEN <= 0
        BY WeightNat, EmissionAssumption
      <3>3. PaidAsEmitted(Weight[m], GumNow, vault, now, 0, 0, Entitled(Weight[m], GumNow.acc))
        BY <1>1, <3>2, GumStarts
      <3> QED
        BY <2>1, <3>1, <3>3
    <2>3. ASSUME NEW n \in Staked', n # m PROVE Covered(n)'
      <3>1. n \in Staked /\ stakes'[n] = stakes[n] /\ hist'[n] = hist[n]
        BY <1>0, <2>1, <2>3 DEF Staked, AccountsOK, StakesOK, HistOK
      <3> QED
        BY <1>5, <2>1, <3>1
    <2> QED
      BY <1>6, <2>1, <2>2, <2>3
  <1>9. ASSUME NEW m \in Nfts, claim(m)
        PROVE  gum'.last_update <= now' /\ \A n \in Staked' : Covered(n)'
    <2>1. m \in Staked
      BY <1>9 DEF claim, Staked
    <2>2. PICK due \in Nat, e \in Nat : due = PendingGum(m, GumNow) /\ e = Entitled(Weight[m], GumNow.acc)
      BY <1>0, <2>1, GumCoveredNow, PendingGumNat, GumParts
    <2>3. PICK paid \in Nat : paid = AtMost(due, vault) /\ paid <= due
      BY <1>1, <2>2, SaturatingNat
    <2>4. /\ gum' = GumNow /\ now' = now
          /\ stakes' = IF due = 0 THEN stakes ELSE [stakes EXCEPT ![m].reward_debt = e]
          /\ hist' = [hist EXCEPT ![m].gum = @ + paid]
      BY <1>9, <2>2, <2>3 DEF claim
    <2>5. Staked' = Staked
      BY <1>0, <2>4 DEF Staked, AccountsOK, StakesOK, StakeType
    <2>6. hist'[m].gum = hist[m].gum + paid /\ hist'[m].emitted = hist[m].emitted
      BY <1>0, <2>1, <2>4, GumParts DEF AccountsOK, HistOK, HistoryType
    <2>7. stakes'[m].reward_debt = e
      <3>1. CASE due = 0
        BY <2>1, <2>2, <2>4, <3>1, GumCoveredNow
      <3>2. CASE due # 0
        BY <1>0, <2>4, <3>2 DEF AccountsOK, StakesOK, StakeType
      <3> QED
        BY <3>1, <3>2
    <2>8. Covered(m)'
      BY <1>1, <2>1, <2>2, <2>3, <2>4, <2>6, <2>7, GumCoveredNow
    <2>9. ASSUME NEW n \in Staked, n # m PROVE Covered(n)'
      <3>1. n \in Nfts /\ hist'[n] = hist[n]
        BY <1>0, <2>4, <2>9, GumParts DEF AccountsOK, HistOK
      <3>2. stakes'[n] = stakes[n]
        BY <1>0, <2>4, <2>9, <3>1 DEF AccountsOK, StakesOK
      <3> QED
        BY <1>5, <2>4, <3>1, <3>2
    <2> QED
      BY <1>6, <2>4, <2>5, <2>8, <2>9
  <1>10. ASSUME NEW m \in Nfts, NEW k \in Nfts, unstake(m, k)
         PROVE  gum'.last_update <= now' /\ \A n \in Staked' : Covered(n)'
    <2>1. /\ gum' = GumNow /\ now' = now
          /\ stakes' = [stakes EXCEPT ![m] = NoStake]
          /\ hist' = [[hist EXCEPT ![k] = WithoutFees(hist[k])] EXCEPT ![m] = NoHistory]
      BY <1>10 DEF unstake
    <2>2. ASSUME NEW n \in Staked' PROVE Covered(n)'
      <3>1. n \in Nfts /\ n # m /\ n \in Staked /\ stakes'[n] = stakes[n]
        BY <1>0, <2>1, <2>2 DEF Staked, AccountsOK, StakesOK, NoStake
      <3>2. hist'[n] = IF n = k THEN WithoutFees(hist[n]) ELSE hist[n]
        BY <1>0, <2>1, <3>1 DEF AccountsOK, HistOK
      <3>3. hist[n] \in HistoryType
        BY <1>0, <3>1 DEF AccountsOK, HistOK
      <3>4. hist'[n].emitted = hist[n].emitted /\ hist'[n].gum = hist[n].gum
        BY <3>2, <3>3 DEF WithoutFees, HistoryType
      <3> QED
        BY <1>5, <2>1, <3>1, <3>4
    <2> QED
      BY <1>6, <2>1, <2>2
  <1>11. ASSUME NEW m \in Nfts, claim_xnt_fees_nft(m)
         PROVE  gum'.last_update <= now' /\ \A n \in Staked' : Covered(n)'
    <2>1. UNCHANGED <<gum, vault, now, stakes>>
      BY <1>11 DEF claim_xnt_fees_nft
    <2>2. ASSUME NEW n \in Staked
          PROVE  hist'[n].emitted = hist[n].emitted /\ hist'[n].gum = hist[n].gum
      <3>1. hist[n] \in HistoryType /\ hist[m] \in HistoryType /\ n \in Nfts
        BY <1>0, <2>2, GumParts DEF AccountsOK, HistOK
      <3>2. PICK h : /\ hist' = [hist EXCEPT ![m] = h]
                     /\ h.emitted = hist[m].emitted /\ h.gum = hist[m].gum
        <4>1. PICK x : hist' = [hist EXCEPT ![m] = [hist[m] EXCEPT !.xnt = x]]
          BY <1>0, <1>11 DEF claim_xnt_fees_nft, AccountsOK, HistOK
        <4>2. /\ [hist[m] EXCEPT !.xnt = x].emitted = hist[m].emitted
              /\ [hist[m] EXCEPT !.xnt = x].gum = hist[m].gum
          BY <3>1 DEF HistoryType
        <4> QED
          BY <4>1, <4>2
      <3> QED
        BY <1>0, <3>1, <3>2 DEF AccountsOK, HistOK
    <2> QED
      BY <1>4, <2>1, <2>2
  <1>12. CASE sweep_xnt_pool_nft
    BY <1>4, <1>12 DEF sweep_xnt_pool_nft
  <1>13. ASSUME NEW d \in Deposits, Deposit(d)
         PROVE  gum'.last_update <= now' /\ \A n \in Staked' : Covered(n)'
    <2>1. UNCHANGED <<gum, vault, now, stakes>>
      BY <1>13 DEF Deposit
    <2>2. ASSUME NEW n \in Staked
          PROVE  hist'[n].emitted = hist[n].emitted /\ hist'[n].gum = hist[n].gum
      <3>1. hist[n] \in HistoryType /\ n \in Nfts
        BY <1>0, <2>2, GumParts DEF AccountsOK, HistOK
      <3> QED
        BY <1>13, <3>1 DEF Deposit, HistoryType
    <2> QED
      BY <1>4, <2>1, <2>2
  <1>14. CASE Tick
    <2>1. gum' = gum /\ vault' = vault /\ now' = now + 1 /\ stakes' = stakes
      BY <1>14 DEF Tick
    <2>2. Staked' = Staked
      BY <2>1 DEF Staked
    <2>3. ASSUME NEW n \in Staked PROVE Covered(n)'
      <3>1. n \in Nfts /\ hist[n] \in HistoryType
        BY <1>0, <2>3, GumParts DEF AccountsOK, HistOK
      <3>2. hist'[n].emitted = hist[n].emitted + vault * EMISSION_NUM /\ hist'[n].gum = hist[n].gum
        BY <1>14, <2>3, <3>1 DEF Tick, HistoryType
      <3>3. PaidAsEmitted(Weight[n], gum, vault, now + 1, hist[n].emitted + vault * EMISSION_NUM,
                          hist[n].gum, stakes[n].reward_debt)
        BY <1>0, <1>2, <2>3, GumParts, GumTicks
      <3> QED
        BY <2>1, <3>2, <3>3
    <2> QED
      BY <1>0, <1>1, <2>1, <2>2, <2>3
  <1>15. ASSUME NEW m \in Nfts, MoveToken(m)
         PROVE  gum'.last_update <= now' /\ \A n \in Staked' : Covered(n)'
    BY <1>4, <1>15 DEF MoveToken
  <1> QED
    BY <1>7, <1>8, <1>9, <1>10, <1>11, <1>12, <1>13, <1>14, <1>15 DEF Next

LEMMA GumAlways == Spec => []GumInv
  <1> QED
    BY InitGum, GumInvStep, PTL DEF Spec

\* A gumball is paid GUM only out of what the vault emits while it is staked
\* (update_nft_accumulator): neither the time before nor the time nobody was
\* staked counts, for any weights, vault and rate.
THEOREM NftGumOnlyWhileStaked == Spec => []GumOnlyWhileStaked
  <1>1. GumInv => GumOnlyWhileStaked
    BY GumCoveredNow DEF GumOnlyWhileStaked
  <1> QED
    BY <1>1, GumAlways, PTL

=============================================================================
