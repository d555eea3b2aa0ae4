--------------------------- MODULE LpStakingProofs ----------------------------
(***************************************************************************)
(* LP staking for any finite set of positions, any lock tiers, amounts,    *)
(* deposits and amounts of time: LpInvariant, EarnsOnlyAfterStaking,       *)
(* EarnsOnlyWhileOpen and XntNeverForgotten.                               *)
(***************************************************************************)
EXTENDS LpStaking, ArithmeticProofs

ConfigType == [total_lp_weight : Nat, total_claimed : Nat]
HistoryType == [deposited : Nat, xnt : Nat, emitted : Nat, gum : Nat]

\* TypeOK, one part for what an action changes together.
ConfigOK == config \in ConfigType
GumOK == gum \in GumType /\ vault \in Nat
PositionsOK ==
    /\ positions \in [Positions -> PositionType]
    /\ lp_vault \in [LpMints -> Nat] /\ taken \in [LpMints -> Nat]
FeeOK == fee \in FeeType /\ pool \in Nat
DebtsOK == debts \in [Positions -> DebtType]
TimeOK == treasury \in Nat /\ now \in 0..MAX_TIME /\ deposits \in 0..MAX_DEPOSITS
HistOK == hist \in [Positions -> HistoryType]

AccountsOK == ConfigOK /\ GumOK /\ PositionsOK /\ FeeOK /\ DebtsOK /\ TimeOK /\ HistOK

LEMMA TypeParts == TypeOK <=> AccountsOK
  BY DEF TypeOK, AccountsOK, ConfigOK, GumOK, PositionsOK, FeeOK, DebtsOK, TimeOK, HistOK,
         ConfigType, GumType, FeeType, DebtType, HistoryType

\* The pool keeps its rent, and the stream has not seen more than there is.
PoolKeepsRent == POOL_RENT <= pool /\ fee.last_seen <= pool

\* LP tokens of a mint that its positions can count on.
Backing(m) == lp_vault[m] + taken[m]

\* TotalsCoverPositions, one part for each total.
WeightCovers == config.total_lp_weight >= SumOver(Open, weightOf)
VaultCovers(m) == Backing(m) >= SumOver(Open, amountIn(m))

LEMMA TotalsParts == TotalsCoverPositions <=> WeightCovers /\ \A m \in LpMints : VaultCovers(m)
  BY DEF TotalsCoverPositions, WeightCovers, VaultCovers, Backing

\* An open position holds tokens and weighs what its amount and tier say.
PositionsWeighed ==
    \A p \in Open :
      /\ positions[p].tier \in Tiers
      /\ positions[p].amount # 0
      /\ positions[p].weight = LpWeight(positions[p].amount, positions[p].tier)

LpInv == AccountsOK /\ PoolKeepsRent /\ PositionsWeighed /\ TotalsCoverPositions

-----------------------------------------------------------------------------
(* Weights and penalties.                                                  *)

LEMMA TierNat ==
    /\ BPS_DENOMINATOR \in Nat \ {0}
    /\ PENALTY_BURN_BPS \in 0..BPS_DENOMINATOR
    /\ \A t \in Tiers : /\ LOCK_DAYS[t] \in Nat
                        /\ LOCK_MULTIPLIER_BPS[t] \in Nat /\ 100 <= LOCK_MULTIPLIER_BPS[t]
                        /\ EARLY_EXIT_PENALTY_BPS[t] \in 0..BPS_DENOMINATOR
  <1>1. BPS_DENOMINATOR \in Nat \ {0}
    BY DEF BPS_DENOMINATOR
  <1> QED
    BY <1>1, TierAssumption

\* A position weighs at least its amount.
LEMMA LpWeightBounds ==
    ASSUME NEW a \in Nat, NEW t \in Tiers
    PROVE  LpWeight(a, t) \in Nat /\ a <= LpWeight(a, t)
  <1>1. PICK m \in Nat : m = LOCK_MULTIPLIER_BPS[t] /\ 100 <= m
    BY TierNat
  <1>2. PICK x \in Nat : x = a * m
    OBVIOUS
  <1>3. a * 100 <= x
    BY <1>1, <1>2, ProductGrows
  <1>4. 100 \in Nat \ {0} /\ 100 * a <= x
    BY <1>3
  <1>5. x \div 100 \in Nat /\ a <= x \div 100
    BY <1>4, DivIsFloor, DivAtLeast
  <1> QED
    BY <1>1, <1>2, <1>5 DEF LpWeight

\* The weights of two parts, each rounded down, are no more than the whole's:
\* checked_sub of the removed weight leaves room for what stays.
LEMMA LpWeightOfParts ==
    ASSUME NEW a \in Nat, NEW b \in Nat, NEW t \in Tiers
    PROVE  LpWeight(a, t) + LpWeight(b, t) <= LpWeight(a + b, t)
  <1>1. PICK m \in Nat : m = LOCK_MULTIPLIER_BPS[t]
    BY TierNat
  <1>2. PICK x \in Nat, y \in Nat : x = a * m /\ y = b * m
    OBVIOUS
  <1>3. (a + b) * m = x + y
    BY <1>2
  <1>4. 100 \in Nat \ {0}
    OBVIOUS
  <1>5. PICK i \in Nat, j \in Nat : i = x \div 100 /\ j = y \div 100
    BY <1>4, DivIsFloor
  <1>6. 100 * i <= x /\ 100 * j <= y
    BY <1>4, <1>5, DivIsFloor
  <1>7. 100 * (i + j) <= x + y
    BY <1>6
  <1>8. i + j <= (x + y) \div 100
    BY <1>4, <1>7, DivAtLeast
  <1> QED
    BY <1>1, <1>2, <1>3, <1>5, <1>8 DEF LpWeight

\* A part of at most the whole, in basis points.
LEMMA ShareInBps ==
    ASSUME NEW x \in Nat, NEW b \in 0..BPS_DENOMINATOR
    PROVE  /\ (x * b) \div BPS_DENOMINATOR \in Nat
           /\ (x * b) \div BPS_DENOMINATOR <= x
  <1>1. PICK d \in Nat \ {0} : d = BPS_DENOMINATOR /\ b \in Nat /\ b <= d
    BY TierNat
  <1>2. PICK y \in Nat : y = x * b
    BY <1>1
  <1>3. y <= x * d
    BY <1>1, <1>2, ProductGrows
  <1>4. y < d * x + d
    BY <1>3
  <1>5. y \div d \in Nat /\ y \div d <= x
    BY <1>4, DivIsFloor, DivAtMost
  <1> QED
    BY <1>1, <1>2, <1>5

\* What leaves the LP vault is never more than what is withdrawn.
LEMMA LpOutBounds ==
    ASSUME NEW p \in Positions, positions[p].tier \in Tiers, NEW amount \in Nat
    PROVE  LpOut(p, amount) \in Nat /\ LpOut(p, amount) <= amount
  <1>1. Penalty(p, amount) \in Nat /\ Penalty(p, amount) <= amount
    <2>1. PICK b \in 0..BPS_DENOMINATOR : b = EARLY_EXIT_PENALTY_BPS[positions[p].tier]
      BY TierNat
    <2>2. PICK y \in Nat : y = (amount * b) \div BPS_DENOMINATOR /\ y <= amount
      BY ShareInBps
    <2>3. Penalty(p, amount) = y \/ Penalty(p, amount) = 0
      BY <2>1, <2>2 DEF Penalty
    <2> QED
      BY <2>2, <2>3
  <1>2. PICK x \in Nat : x = Penalty(p, amount) /\ x <= amount
    BY <1>1
  <1>3. PenaltyBurned(x) \in Nat /\ PenaltyBurned(x) <= x
    BY TierNat, ShareInBps DEF PenaltyBurned
  <1>4. PICK y \in Nat : y = PenaltyBurned(x) /\ y <= x
    BY <1>3
  <1>5. LpOut(p, amount) = (amount - x) + y
    BY <1>2, <1>4 DEF LpOut
  <1> QED
    BY <1>2, <1>4, <1>5

-----------------------------------------------------------------------------
(* What the handlers find.                                                 *)

LEMMA OpenFinite == IsFiniteSet(Open) /\ Open \subseteq Positions
  <1>1. Open \subseteq Positions
    BY DEF Open
  <1> QED
    BY <1>1, PositionAssumption, FS_Subset

LEMMA OpenPositionParts ==
    ASSUME LpInv, NEW p \in Open
    PROVE  /\ p \in Positions /\ positions[p] \in PositionType /\ positions[p].status = "open"
           /\ positions[p].tier \in Tiers
           /\ positions[p].amount \in Nat \ {0}
           /\ positions[p].weight \in Nat \ {0}
           /\ positions[p].weight = LpWeight(positions[p].amount, positions[p].tier)
           /\ positions[p].reward_debt \in Nat
           /\ weightOf[p] = positions[p].weight
           /\ \A m : amountIn(m)[p] \in Nat
  <1>1. p \in Positions /\ positions[p] \in PositionType /\ positions[p].status = "open"
    BY DEF Open, LpInv, AccountsOK, PositionsOK
  <1>2. positions[p].amount \in Nat /\ positions[p].weight \in Nat /\ positions[p].reward_debt \in Nat
    BY <1>1 DEF PositionType
  <1>3. /\ positions[p].tier \in Tiers /\ positions[p].amount # 0
        /\ positions[p].weight = LpWeight(positions[p].amount, positions[p].tier)
    BY DEF LpInv, PositionsWeighed
  <1>4. PICK a \in Nat, w \in Nat : a = positions[p].amount /\ w = positions[p].weight
    BY <1>2
  <1>5. a <= w
    BY <1>3, <1>4, LpWeightBounds
  <1>6. w # 0
    BY <1>3, <1>4, <1>5
  <1> QED
    BY <1>1, <1>2, <1>3, <1>4, <1>6 DEF weightOf, amountIn

\* The totals are natural, and the total weight covers every single position.
LEMMA TotalsCoverEach ==
    ASSUME LpInv
    PROVE  /\ SumOver(Open, weightOf) \in Nat /\ config.total_lp_weight \in Nat
           /\ SumOver(Open, weightOf) <= config.total_lp_weight
           /\ \A p \in Open : positions[p].weight <= config.total_lp_weight
           /\ Open # {} => config.total_lp_weight # 0
  <1>1. \A p \in Open : weightOf[p] \in Nat
    BY OpenPositionParts
  <1>2. SumOver(Open, weightOf) \in Nat
    BY <1>1, OpenFinite, SumIsNat
  <1>3. config.total_lp_weight \in Nat
    BY DEF LpInv, AccountsOK, ConfigOK, ConfigType
  <1>4. SumOver(Open, weightOf) <= config.total_lp_weight
    BY <1>2, <1>3, TotalsParts DEF LpInv, WeightCovers
  <1>5. ASSUME NEW p \in Open
        PROVE  positions[p].weight <= config.total_lp_weight /\ config.total_lp_weight # 0
    <2>1. weightOf[p] <= SumOver(Open, weightOf)
      BY <1>1, OpenFinite, SumCoversEach
    <2>2. PICK w \in Nat : w = positions[p].weight /\ w = weightOf[p] /\ w # 0
      BY OpenPositionParts
    <2> QED
      BY <1>2, <1>3, <1>4, <2>1, <2>2
  <1> QED
    BY <1>2, <1>3, <1>4, <1>5

\* So is what a mint's positions add up to, and its vault backs it.
LEMMA VaultCoversAll ==
    ASSUME LpInv, NEW m \in LpMints
    PROVE  /\ \A q \in Open : amountIn(m)[q] \in Nat
           /\ SumOver(Open, amountIn(m)) \in Nat
           /\ lp_vault[m] \in Nat /\ taken[m] \in Nat /\ Backing(m) \in Nat
           /\ SumOver(Open, amountIn(m)) <= Backing(m)
  <1>1. \A q \in Open : amountIn(m)[q] \in Nat
    BY OpenPositionParts
  <1>2. SumOver(Open, amountIn(m)) \in Nat
    BY <1>1, OpenFinite, SumIsNat
  <1>3. lp_vault[m] \in Nat /\ taken[m] \in Nat
    BY DEF LpInv, AccountsOK, PositionsOK
  <1>4. Backing(m) \in Nat
    BY <1>3 DEF Backing
  <1>5. Backing(m) >= SumOver(Open, amountIn(m))
    BY TotalsParts DEF LpInv, VaultCovers
  <1> QED
    BY <1>1, <1>2, <1>3, <1>4, <1>5

\* Where the streams stand when a handler has brought them up to date.
LEMMA GumNowType ==
    ASSUME AccountsOK
    PROVE  GumNow \in GumType /\ gum.acc <= GumNow.acc
  <1>1. config.total_lp_weight \in Nat /\ now \in Nat /\ gum \in GumType /\ vault \in Nat
    BY VaultAssumption DEF AccountsOK, ConfigOK, ConfigType, TimeOK, GumOK
  <1>2. 0 \in Nat /\ 0 <= config.total_lp_weight
    BY <1>1
  <1> QED
    BY <1>1, <1>2, GumUpdate DEF GumNow

LEMMA FeeNowType ==
    ASSUME AccountsOK, PoolKeepsRent
    PROVE  /\ FeeNow \in FeeType /\ FeeNow.acc \in Nat /\ pool \in Nat
           /\ FeeNow.last_seen <= pool /\ POOL_RENT <= pool
           /\ fee.acc <= FeeNow.acc
           /\ config.total_lp_weight # 0 => FeeNow.last_seen = pool
  <1>1. config.total_lp_weight \in Nat /\ fee \in FeeType /\ pool \in Nat
    BY DEF AccountsOK, ConfigOK, ConfigType, FeeOK
  <1>2. 0 \in Nat /\ 0 <= config.total_lp_weight
    BY <1>1
  <1>3. fee.last_seen <= pool /\ POOL_RENT <= pool
    BY DEF PoolKeepsRent
  <1>4. FeeNow \in FeeType
    BY <1>1, <1>2, FeeUpdate DEF FeeNow
  <1> QED
    BY <1>1, <1>2, <1>3, <1>4, FeeUpdate DEF FeeNow, FeeType

LEMMA PendingGumNat ==
    ASSUME LpInv, NEW p \in Open
    PROVE  /\ PendingGum(p, GumNow) \in Nat
           /\ Entitled(positions[p].weight, GumNow.acc) \in Nat
           /\ AtMost(PendingGum(p, GumNow), vault) \in 0..vault
           /\ AtMost(PendingGum(p, GumNow), vault) <= PendingGum(p, GumNow)
  <1>1. GumNow.acc \in Nat /\ vault \in Nat
    BY GumNowType DEF LpInv, GumType, AccountsOK, GumOK
  <1>2. Entitled(positions[p].weight, GumNow.acc) \in Nat
    BY <1>1, OpenPositionParts, EntitledBounds
  <1>3. PendingGum(p, GumNow) \in Nat
    BY <1>2, OpenPositionParts, SaturatingNat DEF PendingGum
  <1>4. PICK x \in Nat, v \in Nat : x = PendingGum(p, GumNow) /\ v = vault
    BY <1>1, <1>3
  <1>5. AtMost(x, v) \in 0..v /\ AtMost(x, v) <= x
    BY SaturatingNat
  <1> QED
    BY <1>2, <1>4, <1>5

\* A settlement of p's fees, after the stream was brought up to date.
SettledFor(p) == settle_xnt_fees(FeeNow, pool, debts[p], positions[p].weight)

LEMMA SettledType ==
    ASSUME LpInv, NEW p \in Open
    PROVE  LET s == SettledFor(p)
           IN  /\ s.fee \in FeeType /\ s.pool \in Nat /\ s.debt \in DebtType
               /\ POOL_RENT <= s.pool /\ s.fee.last_seen <= s.pool
               /\ s.paid \in Nat /\ s.remaining \in Nat
  <1>1. FeeNow \in FeeType /\ FeeNow.last_seen <= pool /\ pool \in Nat /\ POOL_RENT <= pool
    BY FeeNowType DEF LpInv
  <1>2. debts[p] \in DebtType /\ positions[p].weight \in Nat
    BY OpenPositionParts DEF LpInv, AccountsOK, DebtsOK
  <1> QED
    BY <1>1, <1>2, Settlement DEF SettledFor

-----------------------------------------------------------------------------
(* LpInvariant, action by action.                                          *)

\* A new position, its record spelled out.
LEMMA OpenPositionType ==
    ASSUME NEW m \in LpMints, NEW a \in Nat \ {0}, NEW t \in Tiers, NEW acc \in Nat, now \in Nat
    PROVE  LET r == OpenPosition(m, a, t, acc)
           IN  /\ r \in PositionType
               /\ r.status = "open" /\ r.mint = m /\ r.amount = a /\ r.tier = t
               /\ r.weight = LpWeight(a, t) /\ r.weight \in Nat
               /\ r.reward_debt = Entitled(LpWeight(a, t), acc)
  <1>1. PICK w \in Nat : w = LpWeight(a, t)
    BY LpWeightBounds
  <1>2. PICK e \in Nat : e = Entitled(w, acc)
    BY EntitledBounds
  <1>3. PICK l \in Nat : l = now + LOCK_DAYS[t]
    BY TierNat
  <1>4. OpenPosition(m, a, t, acc) = [status |-> "open", mint |-> m, amount |-> a, tier |-> t,
                                   lock_until |-> l, weight |-> w, reward_debt |-> e]
    BY <1>1, <1>2, <1>3 DEF OpenPosition
  <1>5. [status |-> "open", mint |-> m, amount |-> a, tier |-> t, lock_until |-> l,
         weight |-> w, reward_debt |-> e] \in PositionType
    BY DEF PositionType
  <1> QED
    BY <1>1, <1>2, <1>4, <1>5

LEMMA NoPositionType ==
    /\ NoPosition \in PositionType /\ NoPosition.status # "open"
    /\ [NoPosition EXCEPT !.status = "closed"] \in PositionType
    /\ [NoPosition EXCEPT !.status = "closed"].status = "closed"
  <1>1. [NoPosition EXCEPT !.status = "closed"]
          = [status |-> "closed", mint |-> NoMint, amount |-> 0, tier |-> 0, lock_until |-> 0,
             weight |-> 0, reward_debt |-> 0]
    BY DEF NoPosition
  <1> QED
    BY <1>1 DEF NoPosition, PositionType

LEMMA InitLpInv == Init => LpInv
  <1>1. SUFFICES ASSUME NEW legacy \in SUBSET Legacies, NEW m \in LpMints, NEW a \in Amounts,
                        NEW t \in Tiers, now = 0,
                        config = [total_lp_weight |-> Cardinality(legacy) * LpWeight(a, t),
                                  total_claimed |-> 0],
                        gum = [acc |-> 0, last_update |-> 0],
                        vault = INITIAL_VAULT,
                        positions = [p \in Positions |-> IF p \in legacy THEN OpenPosition(m, a, t, 0)
                                                                         ELSE NoPosition],
                        lp_vault = [mint \in LpMints |->
                                      IF mint = m THEN Cardinality(legacy) * a ELSE 0],
                        taken = [mint \in LpMints |-> 0],
                        fee = [acc |-> 0, last_seen |-> POOL_RENT],
                        pool = POOL_RENT,
                        debts = [p \in Positions |-> NoDebt],
                        treasury = 0,
                        hist = [p \in Positions |-> NoHistory],
                        deposits = 0
                 PROVE  LpInv
    BY DEF Init
  <1>2. a \in Nat \ {0}
    BY AmountAssumption
  <1>3. legacy \in SUBSET Positions /\ IsFiniteSet(legacy)
    BY PositionAssumption, FS_Subset
  <1>4. PICK k \in Nat : k = Cardinality(legacy)
    BY <1>3, FS_CardinalityType
  <1>5. PICK w \in Nat : w = LpWeight(a, t)
    BY <1>2, LpWeightBounds
  <1>6. PICK r \in PositionType : /\ r = OpenPosition(m, a, t, 0)
                                  /\ r.status = "open" /\ r.mint = m /\ r.amount = a /\ r.tier = t
                                  /\ r.weight = w
    <2>1. now \in Nat /\ 0 \in Nat
      BY <1>1
    <2> QED
      BY <1>2, <1>5, <2>1, OpenPositionType
  <1>7. \A p \in Positions : positions[p] = IF p \in legacy THEN r ELSE NoPosition
    BY <1>1, <1>6
  <1>8. ConfigOK
    <2>1. k * w \in Nat
      OBVIOUS
    <2> QED
      BY <1>1, <1>4, <1>5, <2>1 DEF ConfigOK, ConfigType
  <1>9. GumOK
    BY <1>1, VaultAssumption DEF GumOK, GumType
  <1>10. PositionsOK
    <2>1. k * a \in Nat
      BY <1>2
    <2>3. /\ lp_vault \in [LpMints -> Nat] /\ taken \in [LpMints -> Nat]
      BY <1>1, <1>4, <2>1
    <2>2. \A p \in Positions : (IF p \in legacy THEN r ELSE NoPosition) \in PositionType
      BY <1>6, NoPositionType
    <2> QED
      BY <1>1, <1>6, <2>2, <2>3 DEF PositionsOK
  <1>11. FeeOK /\ PoolKeepsRent
    BY <1>1, ScaleAssumption DEF FeeOK, FeeType, PoolKeepsRent
  <1>12. DebtsOK /\ TimeOK /\ HistOK
    BY <1>1, VaultAssumption DEF DebtsOK, DebtType, NoDebt, TimeOK, HistOK, HistoryType, NoHistory
  <1>13. Open = legacy
    BY <1>3, <1>6, <1>7, NoPositionType DEF Open
  <1>14. PositionsWeighed
    BY <1>2, <1>3, <1>5, <1>6, <1>7, <1>13 DEF PositionsWeighed
  <1>15. TotalsCoverPositions
    <2>1. WeightCovers
      <3>1. \A p \in legacy : weightOf[p] = w
        BY <1>3, <1>6, <1>7 DEF weightOf
      <3>2. SumOver(legacy, weightOf) = k * w
        BY <1>3, <1>4, <3>1, SumOfEqual
      <3>3. k * w \in Nat
        OBVIOUS
      <3> QED
        BY <1>1, <1>4, <1>5, <1>13, <3>2, <3>3 DEF WeightCovers
    <2>2. ASSUME NEW n \in LpMints PROVE VaultCovers(n)
      <3>1. PICK b \in Nat : b = IF n = m THEN a ELSE 0
        BY <1>2
      <3>2. \A p \in legacy : amountIn(n)[p] = b
        BY <1>3, <1>6, <1>7, <3>1 DEF amountIn
      <3>3. SumOver(legacy, amountIn(n)) = k * b
        BY <1>3, <1>4, <3>2, SumOfEqual
      <3>4. k * b \in Nat
        OBVIOUS
      <3>5. lp_vault[n] = k * b /\ taken[n] = 0
        BY <1>1, <1>4, <2>2, <3>1
      <3> QED
        BY <1>13, <3>3, <3>4, <3>5 DEF VaultCovers, Backing
    <2> QED
      BY <2>1, <2>2, TotalsParts
  <1> QED
    BY <1>8, <1>9, <1>10, <1>11, <1>12, <1>14, <1>15 DEF LpInv, AccountsOK

\* What a step keeps that leaves the positions alone, or changes only what
\* their owners were paid.
LEMMA SamePositions ==
    ASSUME LpInv, positions' \in [Positions -> PositionType],
           \A p \in Positions : /\ positions'[p].status = positions[p].status
                                /\ positions'[p].mint = positions[p].mint
                                /\ positions'[p].amount = positions[p].amount
                                /\ positions'[p].tier = positions[p].tier
                                /\ positions'[p].weight = positions[p].weight,
           config'.total_lp_weight = config.total_lp_weight,
           lp_vault' = lp_vault, taken' = taken
    PROVE  PositionsOK' /\ PositionsWeighed' /\ TotalsCoverPositions' /\ Open' = Open
  <1>1. Open' = Open
    BY DEF Open
  <1>2. PositionsOK'
    BY DEF LpInv, AccountsOK, PositionsOK
  <1>3. PositionsWeighed'
    BY <1>1 DEF LpInv, PositionsWeighed, Open
  <1>4. weightOf' = weightOf /\ \A m \in LpMints : amountIn(m)' = amountIn(m)
    BY DEF weightOf, amountIn
  <1>5. TotalsCoverPositions'
    BY <1>1, <1>4 DEF LpInv, TotalsCoverPositions
  <1> QED
    BY <1>1, <1>2, <1>3, <1>5

LEMMA StakeStep ==
    ASSUME LpInv, NEW p \in Positions, NEW m \in LpMints, NEW a \in Amounts, NEW t \in Tiers,
           stake_lp(p, m, a, t)
    PROVE  LpInv' /\ Open' = Open \cup {p}
  <1>0. AccountsOK /\ PoolKeepsRent
    BY DEF LpInv
  <1>1. a \in Nat \ {0} /\ now \in Nat /\ GumNow \in GumType /\ GumNow.acc \in Nat
    BY <1>0, AmountAssumption, VaultAssumption, GumNowType DEF AccountsOK, TimeOK, GumType
  <1>2. PICK w \in Nat : w = LpWeight(a, t)
    BY <1>1, LpWeightBounds
  <1>3. PICK r \in PositionType : /\ r = OpenPosition(m, a, t, GumNow.acc)
                                  /\ r.status = "open" /\ r.mint = m /\ r.amount = a /\ r.tier = t
                                  /\ r.weight = w
    BY <1>1, <1>2, OpenPositionType
  <1>4. positions' = [positions EXCEPT ![p] = r] /\ p \notin Open
    BY <1>3 DEF stake_lp, Open
  <1>5. \A q \in Positions : positions'[q] = IF q = p THEN r ELSE positions[q]
    BY <1>0, <1>4 DEF AccountsOK, PositionsOK
  <1>6. Open' = Open \cup {p}
    BY <1>3, <1>5 DEF Open
  <1>7. PICK f : f = advance_xnt_for_stake(fee, pool, config.total_lp_weight)
    OBVIOUS
  <1>8. f \in FeeType /\ f.last_seen = pool /\ pool \in Nat /\ f.acc \in Nat
    <2>1. /\ fee \in FeeType /\ pool \in Nat /\ config.total_lp_weight \in Nat
          /\ fee.last_seen <= pool
      BY <1>0 DEF AccountsOK, FeeOK, ConfigOK, ConfigType, PoolKeepsRent
    <2> QED
      BY <1>7, <2>1, FeeAdvance DEF FeeType
  <1>9. config' = [total_lp_weight |-> config.total_lp_weight + w,
                   total_claimed |-> config.total_claimed]
    BY <1>0, <1>2 DEF stake_lp, AccountsOK, ConfigOK, ConfigType
  <1>10. ConfigOK'
    BY <1>0, <1>9 DEF AccountsOK, ConfigOK, ConfigType
  <1>11. GumOK' /\ TimeOK' /\ HistOK'
    BY <1>0, <1>1 DEF stake_lp, AccountsOK, GumOK, TimeOK, HistOK
  <1>12. lp_vault' = [lp_vault EXCEPT ![m] = lp_vault[m] + a] /\ taken' = taken
    BY DEF stake_lp
  <1>13. PositionsOK'
    <2>1. lp_vault \in [LpMints -> Nat] /\ lp_vault[m] + a \in Nat
      BY <1>0, <1>1 DEF AccountsOK, PositionsOK
    <2> QED
      BY <1>0, <1>4, <1>12, <2>1 DEF AccountsOK, PositionsOK
  <1>14. FeeOK' /\ PoolKeepsRent'
    BY <1>0, <1>7, <1>8 DEF stake_lp, FeeOK, PoolKeepsRent
  <1>15. DebtsOK'
    <2>1. Snapshot(w, f.acc) \in DebtType
      <3>1. Entitled(w, f.acc) \in Nat
        BY <1>8, EntitledBounds
      <3> QED
        BY <3>1 DEF Snapshot, DebtType
    <2> QED
      BY <1>0, <1>2, <1>7, <2>1 DEF stake_lp, AccountsOK, DebtsOK
  <1>16. PositionsWeighed'
    <2>1. ASSUME NEW q \in Open'
          PROVE  /\ positions'[q].tier \in Tiers /\ positions'[q].amount # 0
                 /\ positions'[q].weight = LpWeight(positions'[q].amount, positions'[q].tier)
      <3>1. CASE q = p
        BY <1>1, <1>2, <1>3, <1>5, <3>1
      <3>2. CASE q # p
        BY <1>5, <1>6, <2>1, <3>2, OpenPositionParts
      <3> QED
        BY <3>1, <3>2
    <2> QED
      BY <2>1 DEF PositionsWeighed
  <1>17. TotalsCoverPositions'
    <2>1. WeightCovers'
      <3>0. PICK old, new : old = weightOf /\ new = weightOf'
        OBVIOUS
      <3>1. PICK x \in Nat : x = SumOver(Open, old) /\ x <= config.total_lp_weight
        BY <3>0, TotalsCoverEach
      <3>2. new[p] = w /\ new[p] \in Nat /\ \A q \in Open : old[q] \in Nat /\ new[q] = old[q]
        BY <1>3, <1>4, <1>5, <3>0, <3>1, OpenPositionParts DEF weightOf
      <3>3. SumOver(Open \cup {p}, new) = x + w
        <4>1. SumOver(Open \cup {p}, new) = SumOver(Open, old) + new[p]
          BY <1>4, <3>2, OpenFinite, SumJoins
        <4> QED
          BY <3>1, <3>2, <4>1
      <3>4. config.total_lp_weight \in Nat
        BY TotalsCoverEach
      <3> QED
        BY <1>6, <1>9, <3>0, <3>1, <3>3, <3>4 DEF WeightCovers
    <2>2. ASSUME NEW n \in LpMints PROVE VaultCovers(n)'
      <3>0. PICK old, new : old = amountIn(n) /\ new = amountIn(n)'
        OBVIOUS
      <3>1. PICK x \in Nat, y \in Nat, z \in Nat :
               /\ x = SumOver(Open, old)
               /\ y = lp_vault[n]
               /\ z = taken[n]
               /\ x <= y + z
        BY <3>0, <2>2, VaultCoversAll DEF Backing
      <3>2. PICK b \in Nat : b = IF n = m THEN a ELSE 0
        BY <1>1
      <3>3. new[p] = b /\ new[p] \in Nat /\ \A q \in Open : old[q] \in Nat /\ new[q] = old[q]
        BY <1>3, <1>4, <1>5, <3>0, <3>1, <3>2, OpenPositionParts DEF amountIn
      <3>4. SumOver(Open \cup {p}, new) = x + b
        <4>1. p \notin Open /\ IsFiniteSet(Open)
          BY <1>4, OpenFinite
        <4>2. new[p] \in Nat /\ \A q \in Open : old[q] \in Nat /\ new[q] = old[q]
          BY <3>3
        <4>3. SumOver(Open \cup {p}, new) = SumOver(Open, old) + new[p]
          BY <4>1, <4>2, SumJoins
        <4> QED
          BY <3>1, <3>3, <4>3
      <3>5. lp_vault'[n] = y + b /\ taken'[n] = z
        BY <1>0, <1>1, <1>12, <2>2, <3>0, <3>1, <3>2 DEF AccountsOK, PositionsOK
      <3> QED
        BY <1>6, <3>0, <3>1, <3>4, <3>5 DEF VaultCovers, Backing
    <2> QED
      BY <2>1, <2>2 DEF TotalsCoverPositions, WeightCovers, VaultCovers, Backing
  <1> QED
    BY <1>6, <1>10, <1>11, <1>13, <1>14, <1>15, <1>16, <1>17 DEF LpInv, AccountsOK

LEMMA ClaimStep ==
    ASSUME LpInv, NEW p \in Positions, claim_lp(p)
    PROVE  LpInv' /\ Open' = Open
  <1>0. AccountsOK /\ PoolKeepsRent
    BY DEF LpInv
  <1>1. p \in Open
    BY DEF claim_lp
  <1>2. PICK paid \in Nat, e \in Nat : /\ paid = AtMost(PendingGum(p, GumNow), vault)
                                       /\ paid <= vault
                                       /\ e = Entitled(positions[p].weight, GumNow.acc)
    BY <1>0, <1>1, PendingGumNat DEF AccountsOK, GumOK
  <1>3. config' = [total_lp_weight |-> config.total_lp_weight,
                   total_claimed |-> config.total_claimed + paid]
    BY <1>0, <1>2 DEF claim_lp, AccountsOK, ConfigOK, ConfigType
  <1>4. ConfigOK'
    BY <1>0, <1>3 DEF AccountsOK, ConfigOK, ConfigType
  <1>5. GumOK'
    <2>1. gum' = GumNow /\ vault' = vault - paid
      BY <1>2 DEF claim_lp
    <2>2. vault - paid \in Nat
      BY <1>0, <1>2 DEF AccountsOK, GumOK
    <2> QED
      BY <1>0, <2>1, <2>2, GumNowType DEF GumOK
  <1>6. positions' = positions \/ positions' = [positions EXCEPT ![p].reward_debt = e]
    BY <1>2 DEF claim_lp
  <1>7. /\ positions' \in [Positions -> PositionType]
        /\ \A q \in Positions : /\ positions'[q].status = positions[q].status
                                /\ positions'[q].mint = positions[q].mint
                                /\ positions'[q].amount = positions[q].amount
                                /\ positions'[q].tier = positions[q].tier
                                /\ positions'[q].weight = positions[q].weight
    <2>1. PICK r : r = [positions[p] EXCEPT !.reward_debt = e]
      OBVIOUS
    <2>2. positions[p] \in PositionType
      BY <1>0 DEF AccountsOK, PositionsOK
    <2>3. /\ r \in PositionType /\ r.status = positions[p].status
          /\ r.mint = positions[p].mint /\ r.amount = positions[p].amount
          /\ r.tier = positions[p].tier /\ r.weight = positions[p].weight
      BY <2>1, <2>2 DEF PositionType
    <2>4. positions' = positions \/ positions' = [positions EXCEPT ![p] = r]
      BY <1>6, <2>1
    <2> QED
      BY <1>0, <2>3, <2>4 DEF AccountsOK, PositionsOK
  <1>8. FeeOK' /\ PoolKeepsRent' /\ DebtsOK' /\ TimeOK' /\ lp_vault' = lp_vault /\ taken' = taken
    BY <1>0 DEF claim_lp, AccountsOK, FeeOK, PoolKeepsRent, DebtsOK, TimeOK
  <1>9. HistOK'
    <2>1. hist' = [hist EXCEPT ![p] = [hist[p] EXCEPT !.gum = @ + paid]]
      BY <1>2 DEF claim_lp
    <2>2. hist[p] \in HistoryType /\ hist[p].gum + paid \in Nat
      BY <1>0 DEF AccountsOK, HistOK, HistoryType
    <2>3. [hist[p] EXCEPT !.gum = @ + paid] \in HistoryType
      BY <2>2 DEF HistoryType
    <2> QED
      BY <1>0, <2>1, <2>3 DEF AccountsOK, HistOK
  <1>10. PositionsOK' /\ PositionsWeighed' /\ TotalsCoverPositions' /\ Open' = Open
    BY <1>3, <1>7, <1>8, SamePositions
  <1> QED
    BY <1>4, <1>5, <1>8, <1>9, <1>10 DEF LpInv, AccountsOK

LEMMA ClaimXntStep ==
    ASSUME LpInv, NEW p \in Positions, claim_xnt_fees_lp(p)
    PROVE  LpInv' /\ Open' = Open
  <1>0. AccountsOK /\ PoolKeepsRent /\ p \in Open
    BY DEF LpInv, claim_xnt_fees_lp
  <1>1. PICK s : s = SettledFor(p)
    OBVIOUS
  <1>2. /\ s.fee \in FeeType /\ s.pool \in Nat /\ s.debt \in DebtType /\ s.paid \in Nat
        /\ POOL_RENT <= s.pool /\ s.fee.last_seen <= s.pool
    BY <1>0, <1>1, SettledType
  <1>3. /\ fee' = s.fee /\ pool' = s.pool /\ debts' = [debts EXCEPT ![p] = s.debt]
        /\ hist' = [hist EXCEPT ![p].xnt = @ + s.paid]
        /\ UNCHANGED <<config, gum, vault, positions, lp_vault, treasury, now, taken, deposits>>
    BY <1>1 DEF claim_xnt_fees_lp, SettledFor
  <1>4. FeeOK' /\ PoolKeepsRent' /\ DebtsOK'
    BY <1>0, <1>2, <1>3 DEF AccountsOK, FeeOK, PoolKeepsRent, DebtsOK
  <1>5. ConfigOK' /\ GumOK' /\ TimeOK'
    BY <1>0, <1>3 DEF AccountsOK, ConfigOK, GumOK, TimeOK
  <1>6. HistOK'
    <2>1. hist[p] \in HistoryType /\ hist[p].xnt + s.paid \in Nat
      BY <1>0, <1>2 DEF AccountsOK, HistOK, HistoryType
    <2>2. [hist[p] EXCEPT !.xnt = @ + s.paid] \in HistoryType
      BY <2>1 DEF HistoryType
    <2>3. hist' = [hist EXCEPT ![p] = [hist[p] EXCEPT !.xnt = @ + s.paid]]
      BY <1>3
    <2> QED
      BY <1>0, <2>2, <2>3 DEF AccountsOK, HistOK
  <1>7. PositionsOK' /\ PositionsWeighed' /\ TotalsCoverPositions' /\ Open' = Open
    BY <1>0, <1>3, SamePositions DEF AccountsOK, PositionsOK
  <1> QED
    BY <1>4, <1>5, <1>6, <1>7 DEF LpInv, AccountsOK

-----------------------------------------------------------------------------
(* Withdrawals.                                                            *)

\* What both forms of unstake_lp leave of the accounts they share.
LEMMA WithdrawParts ==
    ASSUME LpInv, NEW p \in Open, NEW mint \in LpMints, NEW amount \in Nat,
           Withdraw(p, mint, amount, SettledFor(p))
    PROVE  /\ ConfigOK' /\ GumOK' /\ FeeOK' /\ PoolKeepsRent' /\ TimeOK' /\ HistOK'
           /\ config'.total_lp_weight = config.total_lp_weight - WeightRemoved(p, amount)
           /\ WeightRemoved(p, amount) \in Nat
           /\ WeightRemoved(p, amount) <= config.total_lp_weight
           /\ lp_vault' \in [LpMints -> Nat] /\ taken' \in [LpMints -> Nat]
           /\ \A m \in LpMints :
                Backing(m) - (IF m = positions[p].mint THEN amount ELSE 0) <= Backing(m)'
  <1>0. AccountsOK /\ p \in Positions
    BY OpenFinite DEF LpInv
  <1>1. PICK s : s = SettledFor(p)
    OBVIOUS
  <1>2. /\ s.fee \in FeeType /\ s.pool \in Nat /\ s.paid \in Nat
        /\ POOL_RENT <= s.pool /\ s.fee.last_seen <= s.pool
    BY <1>1, SettledType
  <1>3. PICK paid \in Nat :
           /\ paid <= vault
           /\ paid = IF IsEarly(p) THEN 0 ELSE AtMost(PendingGum(p, GumNow), vault)
    <2>1. vault \in Nat /\ AtMost(PendingGum(p, GumNow), vault) \in 0..vault
      BY <1>0, PendingGumNat DEF AccountsOK, GumOK
    <2>2. CASE IsEarly(p)
      BY <2>1, <2>2
    <2>3. CASE ~ IsEarly(p)
      BY <2>1, <2>3
    <2> QED
      BY <2>2, <2>3
  <1>4. PICK w \in Nat, out \in Nat : /\ w = WeightRemoved(p, amount)
                                      /\ out = LpOut(p, amount) /\ out <= amount
    BY <1>0, OpenPositionParts, LpWeightBounds, LpOutBounds DEF WeightRemoved
  <1>5. /\ gum' = GumNow /\ vault' = vault - paid
        /\ lp_vault[mint] >= out /\ lp_vault' = [lp_vault EXCEPT ![mint] = lp_vault[mint] - out]
        /\ taken' = IF mint = positions[p].mint THEN taken
                    ELSE [taken EXCEPT ![mint] = taken[mint] + out]
        /\ fee' = s.fee /\ pool' = s.pool
        /\ config.total_lp_weight >= w
        /\ config' = [total_lp_weight |-> config.total_lp_weight - w,
                      total_claimed |-> config.total_claimed + paid]
        /\ hist' = [hist EXCEPT ![p].xnt = @ + s.paid, ![p].gum = @ + paid]
        /\ UNCHANGED <<treasury, now, deposits>>
    BY <1>1, <1>3, <1>4 DEF Withdraw
  <1>6. config.total_lp_weight \in Nat /\ config.total_claimed \in Nat /\ vault \in Nat
    BY <1>0 DEF AccountsOK, ConfigOK, ConfigType, GumOK
  <1>7. ConfigOK' /\ config'.total_lp_weight = config.total_lp_weight - w
    BY <1>5, <1>6 DEF ConfigOK, ConfigType
  <1>8. GumOK'
    BY <1>0, <1>3, <1>5, <1>6, GumNowType DEF GumOK
  <1>9. FeeOK' /\ PoolKeepsRent' /\ TimeOK'
    BY <1>0, <1>2, <1>5 DEF AccountsOK, FeeOK, PoolKeepsRent, TimeOK
  <1>10. HistOK'
    <2>1. hist[p] \in HistoryType /\ hist \in [Positions -> HistoryType]
      BY <1>0 DEF AccountsOK, HistOK
    <2>2. hist[p].xnt + s.paid \in Nat /\ hist[p].gum + paid \in Nat
      BY <1>2, <2>1 DEF HistoryType
    <2>3. hist'[p] = [deposited |-> hist[p].deposited, xnt |-> hist[p].xnt + s.paid,
                      emitted |-> hist[p].emitted, gum |-> hist[p].gum + paid]
      BY <1>0, <1>5, <2>1 DEF HistoryType
    <2>4. hist'[p] \in HistoryType
      BY <2>1, <2>2, <2>3 DEF HistoryType
    <2>5. \A q \in Positions \ {p} : hist'[q] = hist[q]
      BY <1>5, <2>1
    <2>6. hist' = [q \in Positions |-> hist'[q]]
      BY <1>5, <2>1
    <2> QED
      BY <2>1, <2>4, <2>5, <2>6 DEF HistOK
  <1>11. lp_vault \in [LpMints -> Nat] /\ taken \in [LpMints -> Nat]
    BY <1>0 DEF AccountsOK, PositionsOK
  <1>12. lp_vault' \in [LpMints -> Nat] /\ taken' \in [LpMints -> Nat]
    <2>1. lp_vault[mint] - out \in Nat /\ taken[mint] + out \in Nat
      BY <1>4, <1>5, <1>11
    <2> QED
      BY <1>5, <1>11, <2>1
  <1>13. ASSUME NEW m \in LpMints
         PROVE  Backing(m) - (IF m = positions[p].mint THEN amount ELSE 0) <= Backing(m)'
    <2>1. PICK x \in Nat, y \in Nat : x = lp_vault[m] /\ y = taken[m]
      BY <1>11
    <2>2. CASE m # mint
      <3>1. lp_vault'[m] = x /\ taken'[m] = y
        BY <1>5, <1>11, <2>1, <2>2
      <3> QED
        BY <2>1, <3>1 DEF Backing
    <2>3. CASE m = mint /\ mint = positions[p].mint
      <3>1. lp_vault'[m] = x - out /\ taken'[m] = y
        BY <1>5, <1>11, <2>1, <2>3
      <3> QED
        BY <1>4, <2>1, <2>3, <3>1 DEF Backing
    <2>4. CASE m = mint /\ mint # positions[p].mint
      <3>1. lp_vault'[m] = x - out /\ taken'[m] = y + out
        BY <1>5, <1>11, <2>1, <2>4
      <3> QED
        BY <1>4, <2>1, <2>4, <3>1 DEF Backing
    <2> QED
      BY <2>2, <2>3, <2>4
  <1> QED
    BY <1>4, <1>5, <1>6, <1>7, <1>8, <1>9, <1>10, <1>12, <1>13

LEMMA PartialStep ==
    ASSUME LpInv, NEW p \in Positions, NEW mint \in LpMints, NEW a \in 1..positions[p].amount,
           unstake_lp_partial(p, mint, a)
    PROVE  LpInv' /\ Open' = Open
  <1>0. AccountsOK /\ p \in Open
    BY DEF LpInv, unstake_lp_partial
  <1>1. PICK n \in Nat, t \in Tiers : /\ n = positions[p].amount /\ t = positions[p].tier
                                      /\ positions[p].weight = LpWeight(n, t)
    BY <1>0, OpenPositionParts
  <1>2. a \in Nat /\ a < n /\ n - a \in Nat \ {0}
    BY <1>1 DEF unstake_lp_partial
  <1>3. PICK w \in Nat, e \in Nat : /\ w = LpWeight(n - a, t)
                                    /\ e = GumDebtAtNewWeight(p, w)
    <2>1. LpWeight(n - a, t) \in Nat /\ GumNow.acc \in Nat
      BY <1>0, <1>2, LpWeightBounds, GumNowType DEF GumType
    <2>2. GumDebtAtNewWeight(p, LpWeight(n - a, t)) \in Nat
      BY <2>1, EntitledBounds DEF GumDebtAtNewWeight
    <2> QED
      BY <2>1, <2>2
  <1>4. PICK r \in PositionType : /\ r = Shrunk(p, a)
                                  /\ r.status = "open" /\ r.mint = positions[p].mint
                                  /\ r.amount = n - a /\ r.tier = t
                                  /\ r.weight = w /\ r.reward_debt = e
    <2>1. Shrunk(p, a) = [positions[p] EXCEPT !.amount = n - a, !.weight = w, !.reward_debt = e]
      BY <1>1, <1>3 DEF Shrunk
    <2>2. positions[p] \in PositionType /\ positions[p].status = "open"
      BY <1>0, OpenPositionParts
    <2> QED
      BY <1>1, <1>2, <2>1, <2>2 DEF PositionType
  <1>5. positions' = [positions EXCEPT ![p] = r] /\ Withdraw(p, mint, a, SettledFor(p))
    BY <1>4 DEF unstake_lp_partial, SettledFor
  <1>6. /\ ConfigOK' /\ GumOK' /\ FeeOK' /\ PoolKeepsRent' /\ TimeOK' /\ HistOK'
        /\ config'.total_lp_weight = config.total_lp_weight - LpWeight(a, t)
        /\ LpWeight(a, t) \in Nat /\ LpWeight(a, t) <= config.total_lp_weight
        /\ lp_vault' \in [LpMints -> Nat] /\ taken' \in [LpMints -> Nat]
        /\ \A m \in LpMints :
             Backing(m) - (IF m = positions[p].mint THEN a ELSE 0) <= Backing(m)'
    BY <1>0, <1>1, <1>2, <1>5, WithdrawParts DEF WeightRemoved
  <1>7. \A q \in Positions : positions'[q] = IF q = p THEN r ELSE positions[q]
    BY <1>0, <1>5 DEF AccountsOK, PositionsOK
  <1>8. Open' = Open
    BY <1>0, <1>4, <1>7 DEF Open
  <1>9. PositionsOK'
    BY <1>0, <1>5, <1>6 DEF AccountsOK, PositionsOK
  <1>10. DebtsOK'
    <2>1. PICK s : s = SettledFor(p) /\ s.fee \in FeeType /\ s.remaining \in Nat
      BY <1>0, SettledType
    <2>2. debts' = [debts EXCEPT ![p] = DebtAtNewWeight(w, s.fee, s.remaining)]
      BY <1>4, <2>1 DEF unstake_lp_partial, SettledFor
    <2>3. PICK x \in Nat : x = Entitled(w, s.fee.acc)
      BY <2>1, EntitledBounds DEF FeeType
    <2>4. saturating_sub(x, s.remaining) \in Nat
      BY <2>1, SaturatingNat
    <2>5. DebtAtNewWeight(w, s.fee, s.remaining) \in DebtType
      BY <2>3, <2>4 DEF DebtAtNewWeight, DebtType
    <2> QED
      BY <1>0, <2>2, <2>5 DEF AccountsOK, DebtsOK
  <1>11. PositionsWeighed'
    <2>1. ASSUME NEW q \in Open
          PROVE  /\ positions'[q].tier \in Tiers /\ positions'[q].amount # 0
                 /\ positions'[q].weight = LpWeight(positions'[q].amount, positions'[q].tier)
      <3>1. CASE q = p
        BY <1>2, <1>3, <1>4, <1>7, <3>1
      <3>2. CASE q # p
        BY <1>7, <2>1, <3>2, OpenPositionParts
      <3> QED
        BY <3>1, <3>2
    <2> QED
      BY <1>8, <2>1 DEF PositionsWeighed
  <1>12. TotalsCoverPositions'
    <2>1. WeightCovers'
      <3>0. PICK f, g : f = weightOf /\ g = weightOf'
        OBVIOUS
      <3>1. PICK x \in Nat : x = SumOver(Open, f) /\ x <= config.total_lp_weight
        BY <3>0, TotalsCoverEach
      <3>2. PICK u \in Nat, v \in Nat : u = LpWeight(n, t) /\ v = LpWeight(a, t) /\ w + v <= u
        <4>1. LpWeight(n - a, t) + LpWeight(a, t) <= LpWeight((n - a) + a, t)
          BY <1>2, LpWeightOfParts
        <4>2. (n - a) + a = n
          BY <1>2
        <4> QED
          BY <1>1, <1>2, <1>3, <4>1, <4>2, LpWeightBounds
      <3>3. f[p] = u /\ g[p] = w
        BY <1>0, <1>1, <1>4, <1>7, <3>0, <3>1, <3>2, OpenPositionParts DEF weightOf
      <3>4. \A q \in Open : f[q] \in Nat
        BY <3>0, <3>1, OpenPositionParts
      <3>5. \A q \in Open \ {p} : g[q] = f[q]
        BY <1>7, <3>0, <3>1, OpenPositionParts DEF weightOf
      <3>6. \A q \in Open : f[q] \in Nat /\ g[q] \in Nat
        BY <3>3, <3>4, <3>5
      <3>7. PICK i \in Nat : i = SumOver(Open, g) /\ i + u = x + w
        <4>1. SumOver(Open, g) + f[p] = SumOver(Open, f) + g[p]
          BY <1>0, <3>5, <3>6, OpenFinite, SumChange
        <4>2. SumOver(Open, g) \in Nat
          BY <3>6, OpenFinite, SumIsNat
        <4> QED
          BY <3>0, <3>1, <3>3, <4>1, <4>2
      <3>8. config.total_lp_weight \in Nat /\ config'.total_lp_weight = config.total_lp_weight - v
        BY <1>6, <3>2, TotalsCoverEach
      <3>9. i <= config'.total_lp_weight /\ config'.total_lp_weight \in Nat
        BY <1>6, <3>0, <3>1, <3>2, <3>7, <3>8
      <3> QED
        BY <1>8, <3>0, <3>1, <3>7, <3>9 DEF WeightCovers
    <2>2. ASSUME NEW m \in LpMints PROVE VaultCovers(m)'
      <3>0. PICK f, g : f = amountIn(m) /\ g = amountIn(m)'
        OBVIOUS
      <3>1. PICK x \in Nat, y \in Nat : x = SumOver(Open, f) /\ y = Backing(m) /\ x <= y
        BY <3>0, <2>2, VaultCoversAll
      <3>2. PICK b \in Nat, c \in Nat : /\ b = (IF m = positions[p].mint THEN a ELSE 0)
                                         /\ c = (IF m = positions[p].mint THEN n - a ELSE 0)
        BY <1>2
      <3>3. f[p] = b + c /\ g[p] = c
        BY <1>0, <1>1, <1>2, <1>4, <1>7, <3>0, <3>1, <3>2 DEF amountIn
      <3>4. \A q \in Open : f[q] \in Nat
        BY <3>0, <3>1, OpenPositionParts
      <3>5. \A q \in Open \ {p} : g[q] = f[q]
        BY <1>7, <3>0, <3>1, OpenPositionParts DEF amountIn
      <3>6. \A q \in Open : f[q] \in Nat /\ g[q] \in Nat
        BY <3>3, <3>4, <3>5
      <3>7. PICK i \in Nat : i = SumOver(Open, g) /\ i + b = x
        <4>1. SumOver(Open, g) + f[p] = SumOver(Open, f) + g[p]
          BY <1>0, <3>5, <3>6, OpenFinite, SumChange
        <4>2. SumOver(Open, g) \in Nat
          BY <3>6, OpenFinite, SumIsNat
        <4> QED
          BY <3>0, <3>1, <3>2, <3>3, <4>1, <4>2
      <3>8. y - b <= Backing(m)' /\ Backing(m)' \in Nat
        BY <1>6, <2>2, <3>0, <3>1, <3>2 DEF Backing
      <3> QED
        BY <1>8, <3>0, <3>1, <3>7, <3>8 DEF VaultCovers
    <2> QED
      BY <2>1, <2>2 DEF TotalsCoverPositions, WeightCovers, VaultCovers, Backing
  <1> QED
    BY <1>6, <1>8, <1>9, <1>10, <1>11, <1>12 DEF LpInv, AccountsOK

LEMMA FullStep ==
    ASSUME LpInv, NEW p \in Positions, NEW mint \in LpMints, unstake_lp_full(p, mint)
    PROVE  LpInv' /\ Open' = Open \ {p} /\ positions'[p].status = "closed"
  <1>0. AccountsOK /\ p \in Open
    BY DEF LpInv, unstake_lp_full
  <1>1. PICK n \in Nat, t \in Tiers : /\ n = positions[p].amount /\ t = positions[p].tier
                                      /\ positions[p].weight = LpWeight(n, t)
    BY <1>0, OpenPositionParts
  <1>2. PICK r \in PositionType : r = [NoPosition EXCEPT !.status = "closed"] /\ r.status = "closed"
    BY NoPositionType
  <1>3. positions' = [positions EXCEPT ![p] = r] /\ Withdraw(p, mint, n, SettledFor(p))
    BY <1>1, <1>2 DEF unstake_lp_full, SettledFor
  <1>4. /\ ConfigOK' /\ GumOK' /\ FeeOK' /\ PoolKeepsRent' /\ TimeOK' /\ HistOK'
        /\ config'.total_lp_weight = config.total_lp_weight - LpWeight(n, t)
        /\ LpWeight(n, t) \in Nat /\ LpWeight(n, t) <= config.total_lp_weight
        /\ lp_vault' \in [LpMints -> Nat] /\ taken' \in [LpMints -> Nat]
        /\ \A m \in LpMints :
             Backing(m) - (IF m = positions[p].mint THEN n ELSE 0) <= Backing(m)'
    BY <1>0, <1>1, <1>3, WithdrawParts DEF WeightRemoved
  <1>5. \A q \in Positions : positions'[q] = IF q = p THEN r ELSE positions[q]
    BY <1>0, <1>3 DEF AccountsOK, PositionsOK
  <1>6. Open' = Open \ {p}
    BY <1>2, <1>5 DEF Open
  <1>7. PositionsOK'
    BY <1>0, <1>3, <1>4 DEF AccountsOK, PositionsOK
  <1>8. DebtsOK'
    BY <1>0 DEF unstake_lp_full, AccountsOK, DebtsOK, DebtType, NoDebt
  <1>9. PositionsWeighed'
    <2>1. ASSUME NEW q \in Open \ {p}
          PROVE  /\ positions'[q].tier \in Tiers /\ positions'[q].amount # 0
                 /\ positions'[q].weight = LpWeight(positions'[q].amount, positions'[q].tier)
      BY <1>5, <2>1, OpenPositionParts
    <2> QED
      BY <1>6, <2>1 DEF PositionsWeighed
  <1>10. TotalsCoverPositions'
    <2>1. WeightCovers'
      <3>0. PICK f, g : f = weightOf /\ g = weightOf'
        OBVIOUS
      <3>1. PICK x \in Nat, u \in Nat :
               /\ x = SumOver(Open, f)
               /\ u = LpWeight(n, t)
               /\ x <= config.total_lp_weight
        BY <3>0, <1>4, TotalsCoverEach
      <3>2. f[p] = u /\ \A q \in Open : f[q] \in Nat
        BY <1>0, <1>1, <3>0, <3>1, OpenPositionParts
      <3>3. \A q \in Open \ {p} : g[q] = f[q]
        BY <1>5, <3>0, <3>1, OpenPositionParts DEF weightOf
      <3>4. SumOver(Open \ {p}, g) = x - u
        <4>1. SumOver(Open \ {p}, g) = SumOver(Open, f) - f[p]
          BY <1>0, <3>2, <3>3, OpenFinite, SumLeaves
        <4> QED
          BY <3>1, <3>2, <4>1
      <3>5. /\ config.total_lp_weight \in Nat /\ config'.total_lp_weight = config.total_lp_weight - u
            /\ config'.total_lp_weight \in Nat
        BY <1>4, <3>0, <3>1, TotalsCoverEach DEF ConfigOK, ConfigType
      <3> QED
        BY <1>6, <3>0, <3>1, <3>4, <3>5 DEF WeightCovers
    <2>2. ASSUME NEW m \in LpMints PROVE VaultCovers(m)'
      <3>0. PICK f, g : f = amountIn(m) /\ g = amountIn(m)'
        OBVIOUS
      <3>1. PICK x \in Nat, y \in Nat : x = SumOver(Open, f) /\ y = Backing(m) /\ x <= y
        BY <3>0, <2>2, VaultCoversAll
      <3>2. PICK b \in Nat : b = (IF m = positions[p].mint THEN n ELSE 0)
        OBVIOUS
      <3>3. f[p] = b /\ \A q \in Open : f[q] \in Nat
        BY <1>0, <1>1, <3>0, <3>1, <3>2, OpenPositionParts DEF amountIn
      <3>4. \A q \in Open \ {p} : g[q] = f[q]
        BY <1>5, <3>0, <3>1, OpenPositionParts DEF amountIn
      <3>5. SumOver(Open \ {p}, g) = x - b
        <4>1. SumOver(Open \ {p}, g) = SumOver(Open, f) - f[p]
          BY <1>0, <3>3, <3>4, OpenFinite, SumLeaves
        <4> QED
          BY <3>1, <3>3, <4>1
      <3>6. y - b <= Backing(m)' /\ Backing(m)' \in Nat
        BY <1>4, <2>2, <3>0, <3>1, <3>2 DEF Backing
      <3> QED
        BY <1>6, <3>0, <3>1, <3>5, <3>6 DEF VaultCovers
    <2> QED
      BY <2>1, <2>2 DEF TotalsCoverPositions, WeightCovers, VaultCovers, Backing
  <1> QED
    BY <1>2, <1>4, <1>5, <1>6, <1>7, <1>8, <1>9, <1>10 DEF LpInv, AccountsOK

-----------------------------------------------------------------------------
(* The pool and the time.                                                  *)

LEMMA SweepStep ==
    ASSUME LpInv, sweep_xnt_pool_lp
    PROVE  LpInv' /\ Open' = Open
  <1>0. AccountsOK /\ PoolKeepsRent
    BY DEF LpInv
  <1>1. /\ pool \in Nat /\ POOL_RENT \in Nat /\ POOL_RENT <= pool /\ fee \in FeeType /\ treasury \in Nat
    BY <1>0, ScaleAssumption DEF AccountsOK, FeeOK, TimeOK, PoolKeepsRent
  <1>2. PICK x \in Nat : x = Withdrawable(pool) /\ x = pool - POOL_RENT
    BY <1>1 DEF Withdrawable, saturating_sub
  <1>3. /\ pool' = pool - x /\ treasury' = treasury + x /\ fee' = [fee EXCEPT !.last_seen = pool - x]
        /\ UNCHANGED <<config, gum, vault, positions, lp_vault, debts, now, taken, hist, deposits>>
    BY <1>2 DEF sweep_xnt_pool_lp
  <1>4. fee' = [acc |-> fee.acc, last_seen |-> pool - x] /\ fee.acc \in Nat
    BY <1>1, <1>3 DEF FeeType
  <1>5. FeeOK' /\ PoolKeepsRent'
    BY <1>1, <1>2, <1>3, <1>4 DEF FeeOK, FeeType, PoolKeepsRent
  <1>6. ConfigOK' /\ GumOK' /\ DebtsOK' /\ TimeOK' /\ HistOK'
    BY <1>0, <1>1, <1>3 DEF AccountsOK, ConfigOK, GumOK, DebtsOK, TimeOK, HistOK
  <1>7. PositionsOK' /\ PositionsWeighed' /\ TotalsCoverPositions' /\ Open' = Open
    BY <1>0, <1>3, SamePositions DEF AccountsOK, PositionsOK
  <1> QED
    BY <1>5, <1>6, <1>7 DEF LpInv, AccountsOK

LEMMA DepositStep ==
    ASSUME LpInv, NEW d \in Deposits, Deposit(d)
    PROVE  LpInv' /\ Open' = Open
  <1>0. AccountsOK /\ PoolKeepsRent
    BY DEF LpInv
  <1>1. d \in Nat /\ pool \in Nat /\ fee \in FeeType /\ fee.last_seen \in Nat /\ POOL_RENT \in Nat
    BY <1>0, DepositAssumption, ScaleAssumption DEF AccountsOK, FeeOK, FeeType
  <1>2. FeeOK' /\ PoolKeepsRent'
    BY <1>0, <1>1 DEF Deposit, FeeOK, PoolKeepsRent
  <1>3. HistOK'
    <2>1. ASSUME NEW p \in Positions
          PROVE  (IF debts[p].bump = 1 THEN [hist[p] EXCEPT !.deposited = @ + d] ELSE hist[p])
                    \in HistoryType
      <3>1. hist[p] \in HistoryType /\ hist[p].deposited + d \in Nat
        BY <1>0, <1>1 DEF AccountsOK, HistOK, HistoryType
      <3>2. [hist[p] EXCEPT !.deposited = @ + d] \in HistoryType
        BY <3>1 DEF HistoryType
      <3> QED
        BY <3>1, <3>2
    <2> QED
      BY <2>1 DEF Deposit, HistOK
  <1>4. TimeOK'
    <2>1. deposits' = deposits + 1 /\ deposits + 1 \in 0..MAX_DEPOSITS
      BY <1>0, VaultAssumption DEF Deposit, AccountsOK, TimeOK
    <2> QED
      BY <1>0, <2>1 DEF Deposit, AccountsOK, TimeOK
  <1>5. ConfigOK' /\ GumOK' /\ DebtsOK'
    BY <1>0 DEF Deposit, AccountsOK, ConfigOK, GumOK, DebtsOK
  <1>6. PositionsOK' /\ PositionsWeighed' /\ TotalsCoverPositions' /\ Open' = Open
    BY <1>0, SamePositions DEF AccountsOK, PositionsOK, Deposit
  <1> QED
    BY <1>2, <1>3, <1>4, <1>5, <1>6 DEF LpInv, AccountsOK

LEMMA TickStep ==
    ASSUME LpInv, Tick
    PROVE  LpInv' /\ Open' = Open
  <1>0. AccountsOK /\ PoolKeepsRent
    BY DEF LpInv
  <1>1. PICK x \in Nat : x = vault * EMISSION_NUM
    BY <1>0, EmissionAssumption DEF AccountsOK, GumOK
  <1>2. HistOK'
    <2>1. ASSUME NEW p \in Positions
          PROVE  (IF p \in Open THEN [hist[p] EXCEPT !.emitted = @ + x] ELSE hist[p]) \in HistoryType
      <3>1. hist[p] \in HistoryType /\ hist[p].emitted + x \in Nat
        BY <1>0, <1>1 DEF AccountsOK, HistOK, HistoryType
      <3>2. [hist[p] EXCEPT !.emitted = @ + x] \in HistoryType
        BY <3>1 DEF HistoryType
      <3> QED
        BY <3>1, <3>2
    <2> QED
      BY <1>1, <2>1 DEF Tick, HistOK
  <1>3. TimeOK'
    <2>1. now' = now + 1 /\ now + 1 \in 0..MAX_TIME
      BY <1>0, VaultAssumption DEF Tick, AccountsOK, TimeOK
    <2> QED
      BY <1>0, <2>1 DEF Tick, AccountsOK, TimeOK
  <1>4. ConfigOK' /\ GumOK' /\ DebtsOK' /\ FeeOK' /\ PoolKeepsRent'
    BY <1>0 DEF Tick, AccountsOK, ConfigOK, GumOK, DebtsOK, FeeOK, PoolKeepsRent
  <1>5. PositionsOK' /\ PositionsWeighed' /\ TotalsCoverPositions' /\ Open' = Open
    BY <1>0, SamePositions DEF AccountsOK, PositionsOK, Tick
  <1> QED
    BY <1>2, <1>3, <1>4, <1>5 DEF LpInv, AccountsOK

LEMMA LpInvStep == LpInv /\ [Next]_vars => LpInv'
  <1>1. SUFFICES ASSUME LpInv, [Next]_vars PROVE LpInv'
    OBVIOUS
  <1>2. CASE UNCHANGED vars
    BY <1>1, <1>2 DEF vars, LpInv, AccountsOK, ConfigOK, GumOK, PositionsOK, FeeOK, DebtsOK,
         TimeOK, HistOK, PoolKeepsRent, PositionsWeighed, TotalsCoverPositions,
         Open, weightOf, amountIn
  <1>3. CASE \E p \in Positions, m \in LpMints, a \in Amounts, t \in Tiers :
              stake_lp(p, m, a, t)
    BY <1>1, <1>3, StakeStep
  <1>4. ASSUME NEW p \in Positions, NEW m \in LpMints, NEW a \in 1..positions[p].amount,
               unstake_lp_partial(p, m, a)
        PROVE  LpInv'
    BY <1>1, <1>4, PartialStep
  <1>5. CASE \E p \in Positions : \/ claim_lp(p) \/ claim_xnt_fees_lp(p)
                                 \/ \E m \in LpMints : unstake_lp_full(p, m)
    BY <1>1, <1>5, ClaimStep, FullStep, ClaimXntStep
  <1>6. CASE sweep_xnt_pool_lp
    BY <1>1, <1>6, SweepStep
  <1>7. CASE \E d \in Deposits : Deposit(d)
    BY <1>1, <1>7, DepositStep
  <1>8. CASE Tick
    BY <1>1, <1>8, TickStep
  <1> QED
    BY <1>1, <1>2, <1>3, <1>4, <1>5, <1>6, <1>7, <1>8 DEF Next

\* Every LP position could be unstaked in full at any time: the total weight
\* and the LP vault cover all open positions, over every sequence of stakes,
\* partial, early and full withdrawals, for any tiers and penalties.
THEOREM LpStakingInvariant == Spec => []LpInvariant
  <1>1. LpInv => LpInvariant
    BY TypeParts DEF LpInv, LpInvariant
  <1> QED
    BY <1>1, InitLpInv, LpInvStep, PTL DEF Spec

-----------------------------------------------------------------------------
(* Fees.  What a position of weight w got and may still claim, counted in  *)
(* fractions of a lamport, together with the lamports that the stream has  *)
(* not seen yet, is covered by what was deposited in its time; a snapshot  *)
(* leaves less than one lamport over.                                      *)

Credited(w, f, lamports, got, deposited, debt) ==
    /\ debt <= Entitled(w, f.acc)
    /\ w * f.acc + ACC_SCALE * (got + (lamports - f.last_seen))
         < ACC_SCALE * (debt + deposited) + ACC_SCALE

\* It stays so when the stream is brought up to date,
LEMMA CreditBroughtUp ==
    ASSUME NEW f \in FeeType, NEW lamports \in Nat, f.last_seen <= lamports,
           NEW total \in Nat, NEW w \in Nat, w <= total,
           NEW got \in Nat, NEW deposited \in Nat, NEW debt \in Nat,
           Credited(w, f, lamports, got, deposited, debt)
    PROVE  Credited(w, update_xnt_accumulator(f, lamports, total), lamports, got, deposited, debt)
  <1>1. PICK new : new = update_xnt_accumulator(f, lamports, total)
    OBVIOUS
  <1>2. /\ new \in FeeType /\ f.acc <= new.acc /\ new.last_seen <= lamports
        /\ f.last_seen <= new.last_seen
        /\ w * new.acc + ACC_SCALE * f.last_seen <= w * f.acc + ACC_SCALE * new.last_seen
    BY <1>1, FeeUpdate
  <1>3. /\ f.acc \in Nat /\ f.last_seen \in Nat /\ new.acc \in Nat /\ new.last_seen \in Nat
        /\ ACC_SCALE \in Nat
    BY <1>2, ScaleAssumption DEF FeeType
  <1>4. debt <= Entitled(w, new.acc)
    <2>1. Entitled(w, f.acc) <= Entitled(w, new.acc)
      BY <1>2, <1>3, EntitledRises
    <2>2. PICK i \in Nat, j \in Nat : i = Entitled(w, f.acc) /\ j = Entitled(w, new.acc)
      BY <1>3, EntitledBounds
    <2>3. debt <= i
      BY <2>2 DEF Credited
    <2> QED
      BY <2>1, <2>2, <2>3
  <1>5. PICK x \in Nat, y \in Nat : /\ x = lamports - f.last_seen /\ y = lamports - new.last_seen
                                    /\ new.last_seen + y = f.last_seen + x
    BY <1>2, <1>3
  <1>6. PICK a \in Nat, b \in Nat, l \in Nat, m \in Nat, u \in Nat, v \in Nat, g \in Nat, d \in Nat :
           /\ a = w * f.acc /\ b = w * new.acc
           /\ l = ACC_SCALE * f.last_seen /\ m = ACC_SCALE * new.last_seen
           /\ u = ACC_SCALE * x /\ v = ACC_SCALE * y
           /\ g = ACC_SCALE * got /\ d = ACC_SCALE * (debt + deposited)
    <2>1. /\ w * f.acc \in Nat /\ w * new.acc \in Nat
          /\ ACC_SCALE * f.last_seen \in Nat /\ ACC_SCALE * new.last_seen \in Nat
          /\ ACC_SCALE * x \in Nat /\ ACC_SCALE * y \in Nat
          /\ ACC_SCALE * got \in Nat /\ ACC_SCALE * (debt + deposited) \in Nat
      BY <1>3
    <2> QED
      BY <2>1, Zenon
  <1>7. b + l <= a + m
    BY <1>2, <1>6
  <1>8. m + v = l + u
    <2>1. ACC_SCALE * (new.last_seen + y) = m + v
      BY <1>3, <1>6
    <2>2. ACC_SCALE * (f.last_seen + x) = l + u
      BY <1>3, <1>6
    <2> QED
      BY <1>5, <2>1, <2>2
  <1>9. ACC_SCALE * (got + x) = g + u /\ ACC_SCALE * (got + y) = g + v
    BY <1>3, <1>6
  <1>10. a + (g + u) < d + ACC_SCALE
    BY <1>5, <1>6, <1>9 DEF Credited
  <1>11. b + (g + v) < d + ACC_SCALE
    BY <1>3, <1>7, <1>8, <1>10
  <1> QED
    BY <1>1, <1>4, <1>5, <1>6, <1>9, <1>11 DEF Credited

\* when lamports arrive that count as deposited,
LEMMA CreditDeposit ==
    ASSUME NEW f \in FeeType, NEW lamports \in Nat, f.last_seen <= lamports, NEW d \in Nat,
           NEW w \in Nat, NEW got \in Nat, NEW deposited \in Nat, NEW debt \in Nat,
           Credited(w, f, lamports, got, deposited, debt)
    PROVE  Credited(w, f, lamports + d, got, deposited + d, debt)
  <1>1. f.acc \in Nat /\ f.last_seen \in Nat /\ ACC_SCALE \in Nat
    BY ScaleAssumption DEF FeeType
  <1>2. PICK x \in Nat : x = lamports - f.last_seen /\ (lamports + d) - f.last_seen = x + d
    BY <1>1
  <1>3. PICK a \in Nat, g \in Nat, e \in Nat, b \in Nat :
           /\ a = w * f.acc /\ g = ACC_SCALE * (got + x) /\ e = ACC_SCALE * d
           /\ b = ACC_SCALE * (debt + deposited)
    <2>1. /\ w * f.acc \in Nat /\ ACC_SCALE * (got + x) \in Nat /\ ACC_SCALE * d \in Nat
          /\ ACC_SCALE * (debt + deposited) \in Nat
      BY <1>1
    <2> QED
      BY <2>1, Zenon
  <1>4. /\ ACC_SCALE * (got + (x + d)) = g + e
        /\ ACC_SCALE * (debt + (deposited + d)) = b + e
    BY <1>1, <1>3
  <1>5. a + g < b + ACC_SCALE
    BY <1>2, <1>3 DEF Credited
  <1>6. a + (g + e) < (b + e) + ACC_SCALE
    BY <1>1, <1>5
  <1> QED
    BY <1>2, <1>3, <1>4, <1>6 DEF Credited

\* and when, the stream being up to date, part of what is pending is paid,
\* wherever the payments have put the pool.
LEMMA CreditPaid ==
    ASSUME NEW f \in FeeType, NEW w \in Nat,
           NEW got \in Nat, NEW deposited \in Nat, NEW debt \in Nat,
           Credited(w, f, f.last_seen, got, deposited, debt)
    PROVE  LET due == saturating_sub(Entitled(w, f.acc), debt)
           IN  /\ due \in Nat
               /\ due = Entitled(w, f.acc) - debt
               /\ got + due <= deposited
               /\ \A paid \in Nat, g \in FeeType :
                    paid <= due /\ g.acc = f.acc =>
                       Credited(w, g, g.last_seen, got + paid, deposited, debt + paid)
  <1>1. f.acc \in Nat /\ f.last_seen \in Nat /\ ACC_SCALE \in Nat \ {0}
    BY ScaleAssumption DEF FeeType
  <1>2. PICK e \in Nat : /\ e = Entitled(w, f.acc) /\ ACC_SCALE * e <= w * f.acc
                         /\ w * f.acc < ACC_SCALE * e + ACC_SCALE
    BY <1>1, EntitledBounds
  <1>3. PICK due \in Nat : due = saturating_sub(e, debt) /\ due = e - debt
    <2>1. debt <= e
      BY <1>2 DEF Credited
    <2> QED
      BY <2>1, SaturatingNat
  <1>4. PICK a \in Nat, b \in Nat, g \in Nat, d \in Nat :
           /\ a = w * f.acc /\ b = ACC_SCALE * e
           /\ g = ACC_SCALE * got /\ d = ACC_SCALE * (debt + deposited)
    <2>1. /\ w * f.acc \in Nat /\ ACC_SCALE * e \in Nat
          /\ ACC_SCALE * got \in Nat /\ ACC_SCALE * (debt + deposited) \in Nat
      BY <1>1
    <2> QED
      BY <2>1, Zenon
  <1>5. a + g < d + ACC_SCALE
    <2>1. got + (f.last_seen - f.last_seen) = got
      BY <1>1
    <2> QED
      BY <1>4, <2>1 DEF Credited
  <1>6. got + due <= deposited
    <2>1. ACC_SCALE * (got + e) = g + b
      BY <1>1, <1>4
    <2>2. ACC_SCALE * ((debt + deposited) + 1) = d + ACC_SCALE
      BY <1>1, <1>4
    <2>3. g + b < d + ACC_SCALE
      BY <1>1, <1>2, <1>4, <1>5
    <2>4. ~ ((debt + deposited) + 1 <= got + e)
      <3>1. (debt + deposited) + 1 <= got + e
              => ACC_SCALE * ((debt + deposited) + 1) <= ACC_SCALE * (got + e)
        BY <1>1, ProductGrows
      <3> QED
        BY <1>1, <2>1, <2>2, <2>3, <3>1
    <2> QED
      BY <1>3, <2>4
  <1>7. ASSUME NEW paid \in Nat, NEW h \in FeeType, paid <= due, h.acc = f.acc
        PROVE  Credited(w, h, h.last_seen, got + paid, deposited, debt + paid)
    <2>1. PICK x \in Nat : x = ACC_SCALE * paid
      BY <1>1
    <2>2. /\ ACC_SCALE * (got + paid) = g + x
          /\ ACC_SCALE * ((debt + paid) + deposited) = d + x
      BY <1>1, <1>4, <2>1
    <2>3. (got + paid) + (h.last_seen - h.last_seen) = got + paid
      BY DEF FeeType
    <2>4. a + (g + x) < (d + x) + ACC_SCALE
      BY <1>1, <1>5
    <2>5. debt + paid <= e
      BY <1>3, <1>7
    <2> QED
      BY <1>2, <1>4, <1>7, <2>2, <2>3, <2>4, <2>5 DEF Credited
  <1> QED
    BY <1>2, <1>3, <1>6, <1>7

\* A debt that is taken again, at any weight, starts with what it leaves
\* pending.
LEMMA CreditStarts ==
    ASSUME NEW f \in FeeType, NEW w \in Nat,
           NEW got \in Nat, NEW deposited \in Nat, NEW debt \in Nat, NEW pending \in Nat,
           debt <= Entitled(w, f.acc), Entitled(w, f.acc) <= debt + pending,
           got + pending <= deposited
    PROVE  Credited(w, f, f.last_seen, got, deposited, debt)
  <1>1. f.acc \in Nat /\ f.last_seen \in Nat /\ ACC_SCALE \in Nat
    BY ScaleAssumption DEF FeeType
  <1>2. PICK e \in Nat : e = Entitled(w, f.acc) /\ w * f.acc < ACC_SCALE * e + ACC_SCALE
    BY <1>1, EntitledBounds
  <1>3. e + got <= debt + deposited
    BY <1>2
  <1>4. ACC_SCALE * (e + got) <= ACC_SCALE * (debt + deposited)
    BY <1>1, <1>3, ProductGrows
  <1>5. PICK a \in Nat, b \in Nat, g \in Nat, d \in Nat :
           /\ a = w * f.acc /\ b = ACC_SCALE * e
           /\ g = ACC_SCALE * got /\ d = ACC_SCALE * (debt + deposited)
    <2>1. /\ w * f.acc \in Nat /\ ACC_SCALE * e \in Nat
          /\ ACC_SCALE * got \in Nat /\ ACC_SCALE * (debt + deposited) \in Nat
      BY <1>1
    <2> QED
      BY <2>1, Zenon
  <1>6. ACC_SCALE * (e + got) = b + g
    BY <1>1, <1>5
  <1>7. a + g < d + ACC_SCALE
    BY <1>1, <1>2, <1>4, <1>5, <1>6
  <1>8. got + (f.last_seen - f.last_seen) = got
    BY <1>1
  <1> QED
    BY <1>2, <1>5, <1>7, <1>8 DEF Credited

-----------------------------------------------------------------------------
(* EarnsOnlyAfterStaking, action by action.                                *)

\* A position with a debt account is credited within what was deposited; one
\* without has got nothing.
XntCovered ==
    \A p \in Open :
      IF debts[p].bump = 1
      THEN Credited(positions[p].weight, fee, pool, hist[p].xnt, hist[p].deposited, debts[p].debt)
      ELSE hist[p].xnt = 0

\* Nobody is paid for a position that was never opened.
NothingBefore ==
    \A p \in Positions : positions[p].status = "none" => hist[p].xnt = 0 /\ hist[p].gum = 0

XntInv == LpInv /\ NothingBefore /\ XntCovered

LEMMA XntParts ==
    ASSUME LpInv, NEW p \in Open
    PROVE  /\ p \in Positions /\ positions[p].weight \in Nat
           /\ positions[p].weight <= config.total_lp_weight
           /\ config.total_lp_weight \in Nat /\ config.total_lp_weight # 0
           /\ fee \in FeeType /\ pool \in Nat /\ fee.last_seen <= pool
           /\ FeeNow \in FeeType /\ FeeNow.acc \in Nat /\ FeeNow.last_seen = pool
           /\ hist[p].xnt \in Nat /\ hist[p].deposited \in Nat
           /\ debts[p].debt \in Nat /\ debts[p].bump \in 0..1 /\ debts[p] \in DebtType
  <1>0. AccountsOK /\ PoolKeepsRent
    BY DEF LpInv
  <1>1. p \in Positions /\ positions[p].weight \in Nat
    BY OpenPositionParts
  <1>2. /\ config.total_lp_weight \in Nat /\ positions[p].weight <= config.total_lp_weight
        /\ config.total_lp_weight # 0
    BY TotalsCoverEach
  <1>3. fee \in FeeType /\ pool \in Nat /\ fee.last_seen <= pool
    BY <1>0 DEF AccountsOK, FeeOK, PoolKeepsRent
  <1>4. FeeNow \in FeeType /\ FeeNow.acc \in Nat /\ FeeNow.last_seen = pool
    BY <1>0, <1>2, FeeNowType
  <1>5. hist[p].xnt \in Nat /\ hist[p].deposited \in Nat
    BY <1>0, <1>1 DEF AccountsOK, HistOK, HistoryType
  <1>6. debts[p].debt \in Nat /\ debts[p].bump \in 0..1 /\ debts[p] \in DebtType
    BY <1>0, <1>1 DEF AccountsOK, DebtsOK, DebtType
  <1> QED
    BY <1>1, <1>2, <1>3, <1>4, <1>5, <1>6

\* What a handler finds of an open position.
LEMMA CreditedNow ==
    ASSUME XntInv, NEW p \in Open
    PROVE  /\ Owed(p) \in Nat
           /\ hist[p].xnt + Owed(p) <= hist[p].deposited
           /\ debts[p].bump = 0 => Owed(p) = 0 /\ hist[p].xnt = 0
           /\ debts[p].bump = 1 =>
                /\ Owed(p) = Entitled(positions[p].weight, FeeNow.acc) - debts[p].debt
                /\ \A paid \in Nat, g \in FeeType :
                     paid <= Owed(p) /\ g.acc = FeeNow.acc =>
                       Credited(positions[p].weight, g, g.last_seen, hist[p].xnt + paid,
                                hist[p].deposited, debts[p].debt + paid)
  <1>0. LpInv
    BY DEF XntInv
  <1>1. CASE debts[p].bump = 0
    <2>1. Owed(p) = 0
      BY <1>1 DEF Owed, PendingXnt
    <2>2. hist[p].xnt = 0 /\ hist[p].deposited \in Nat
      BY <1>0, <1>1, XntParts DEF XntInv, XntCovered
    <2> QED
      BY <1>1, <2>1, <2>2
  <1>2. CASE debts[p].bump = 1
    <2>1. PICK w \in Nat, got \in Nat, dep \in Nat, debt \in Nat, total \in Nat :
             /\ w = positions[p].weight /\ got = hist[p].xnt /\ dep = hist[p].deposited
             /\ debt = debts[p].debt /\ total = config.total_lp_weight /\ w <= total
      BY <1>0, XntParts
    <2>2. Credited(w, fee, pool, got, dep, debt)
      BY <1>2, <2>1 DEF XntInv, XntCovered
    <2>3. fee \in FeeType /\ pool \in Nat /\ fee.last_seen <= pool
      BY <1>0, XntParts
    <2>4. Credited(w, update_xnt_accumulator(fee, pool, total), pool, got, dep, debt)
      BY <2>1, <2>2, <2>3, CreditBroughtUp
    <2>5. PICK f \in FeeType : f = FeeNow /\ f.last_seen = pool
      BY <1>0, XntParts
    <2>6. Credited(w, f, f.last_seen, got, dep, debt)
      BY <2>1, <2>4, <2>5 DEF FeeNow
    <2>7. Owed(p) = saturating_sub(Entitled(w, f.acc), debt)
      BY <1>2, <2>1, <2>5 DEF Owed, PendingXnt
    <2>8. LET due == saturating_sub(Entitled(w, f.acc), debt)
          IN  /\ due \in Nat
              /\ due = Entitled(w, f.acc) - debt
              /\ got + due <= dep
              /\ \A paid \in Nat, g \in FeeType :
                   paid <= due /\ g.acc = f.acc =>
                      Credited(w, g, g.last_seen, got + paid, dep, debt + paid)
      BY <2>6, CreditPaid
    <2>9. 0 # 1
      OBVIOUS
    <2> QED
      BY <1>2, <2>1, <2>5, <2>7, <2>8, <2>9
  <1> QED
    BY <1>0, <1>1, <1>2, XntParts

\* What a settlement leaves.
LEMMA SettledPays ==
    ASSUME XntInv, NEW p \in Open
    PROVE  LET s == SettledFor(p)
           IN  /\ s.fee \in FeeType /\ s.fee.acc = FeeNow.acc /\ s.fee.last_seen = s.pool
               /\ s.pool \in Nat
               /\ s.paid \in Nat /\ s.remaining \in Nat
               /\ s.paid + s.remaining = Owed(p)
               /\ s.debt = IF debts[p].bump = 0 THEN Snapshot(positions[p].weight, FeeNow.acc)
                           ELSE [debt |-> debts[p].debt + s.paid, bump |-> 1]
  <1>0. LpInv /\ PoolKeepsRent
    BY DEF XntInv, LpInv
  <1>1. PICK f \in FeeType, d \in DebtType, w \in Nat, l \in Nat :
           /\ f = FeeNow /\ d = debts[p] /\ w = positions[p].weight /\ l = pool
           /\ f.last_seen = l /\ POOL_RENT <= l
    BY <1>0, XntParts DEF PoolKeepsRent
  <1>2. f.last_seen <= l
    BY <1>1
  <1>3. f \in FeeType /\ d \in DebtType /\ w \in Nat /\ l \in Nat /\ f.last_seen <= l /\ POOL_RENT <= l
    BY <1>1, <1>2
  <1> DEFINE s == settle_xnt_fees(f, l, d, w)
  <1>4. /\ s.paid \in Nat /\ s.remaining \in Nat
        /\ s.paid + s.remaining = PendingXnt(f, d, w)
        /\ s.fee = [acc |-> f.acc, last_seen |-> saturating_sub(f.last_seen, s.paid)]
        /\ s.fee \in FeeType
        /\ s.pool = l - s.paid /\ s.pool \in Nat
        /\ s.debt = IF d.bump = 0 THEN Snapshot(w, f.acc)
                    ELSE [debt |-> d.debt + s.paid, bump |-> 1]
    BY <1>3, Settlement
  <1>8. s = SettledFor(p) /\ PendingXnt(f, d, w) = Owed(p)
    BY <1>1 DEF SettledFor, Owed
  <1> HIDE DEF s
  <1>5. s.paid <= l
    BY <1>4
  <1>6. saturating_sub(l, s.paid) = l - s.paid
    BY <1>4, <1>5, SaturatingNat
  <1>7. s.fee.acc = f.acc /\ s.fee.last_seen = s.pool
    BY <1>1, <1>4, <1>6
  <1> QED
    BY <1>1, <1>4, <1>7, <1>8

LEMMA InitXnt == Init => XntInv
  <1>1. SUFFICES ASSUME Init PROVE XntInv
    OBVIOUS
  <1>2. LpInv
    BY <1>1, InitLpInv
  <1>3. hist = [q \in Positions |-> NoHistory] /\ debts = [q \in Positions |-> NoDebt]
    BY <1>1 DEF Init
  <1>4. NothingBefore
    BY <1>3 DEF NothingBefore, NoHistory
  <1>5. XntCovered
    BY <1>3, OpenFinite DEF XntCovered, NoHistory, NoDebt
  <1> QED
    BY <1>2, <1>4, <1>5 DEF XntInv

\* Every step that touches the stream brings it up to date and leaves it so:
\* what it does not pay out or take again stays covered.
LEMMA OthersCovered ==
    ASSUME XntInv, LpInv', NEW p \in Open, p \in Open',
           positions'[p].weight = positions[p].weight, debts'[p] = debts[p],
           hist'[p].xnt = hist[p].xnt, hist'[p].deposited = hist[p].deposited,
           \/ fee' = fee /\ pool' = pool
           \/ fee'.acc = FeeNow.acc /\ fee'.last_seen = pool'
    PROVE  IF debts'[p].bump = 1
           THEN Credited(positions'[p].weight, fee', pool', hist'[p].xnt,
                         hist'[p].deposited, debts'[p].debt)
           ELSE hist'[p].xnt = 0
  <1>0. LpInv
    BY DEF XntInv
  <1>1. CASE fee' = fee /\ pool' = pool
    BY <1>1 DEF XntInv, XntCovered
  <1>2. CASE fee'.acc = FeeNow.acc /\ fee'.last_seen = pool'
    <2>1. fee' \in FeeType
      BY DEF LpInv, AccountsOK, FeeOK
    <2>2. CASE debts[p].bump = 1
      <3>1. PICK x \in Nat, y \in Nat : x = hist[p].xnt /\ y = debts[p].debt /\ x + 0 = x /\ y + 0 = y
        BY <1>0, XntParts
      <3>2. 0 \in Nat /\ 0 <= Owed(p)
        BY CreditedNow
      <3>3. Credited(positions[p].weight, fee', fee'.last_seen, x + 0, hist[p].deposited, y + 0)
        BY <1>2, <2>1, <2>2, <3>1, <3>2, CreditedNow
      <3> QED
        BY <1>2, <2>2, <3>1, <3>3
    <2>3. CASE debts[p].bump # 1
      BY <2>3 DEF XntInv, XntCovered
    <2> QED
      BY <2>2, <2>3
  <1> QED
    BY <1>1, <1>2

\* The stream, brought up to date by somebody else's handler.
LEMMA StreamAdvanced ==
    ASSUME LpInv, Open # {}
    PROVE  advance_xnt_for_stake(fee, pool, config.total_lp_weight) = FeeNow
  <1>1. PICK q \in Open : TRUE
    OBVIOUS
  <1>2. /\ fee \in FeeType /\ pool \in Nat /\ fee.last_seen <= pool
        /\ config.total_lp_weight \in Nat /\ config.total_lp_weight # 0
    BY <1>1, XntParts
  <1> QED
    BY <1>2, FeeAdvance DEF FeeNow

XntCoveredAt(p) ==
    IF debts[p].bump = 1
    THEN Credited(positions[p].weight, fee, pool, hist[p].xnt, hist[p].deposited, debts[p].debt)
    ELSE hist[p].xnt = 0

LEMMA XntStakeStep ==
    ASSUME XntInv, LpInv', NEW p \in Positions, NEW m \in LpMints, NEW a \in Amounts,
           NEW t \in Tiers, stake_lp(p, m, a, t)
    PROVE  NothingBefore' /\ XntCovered'
  <1>0. LpInv /\ AccountsOK
    BY DEF XntInv, LpInv
  <1>1. Open' = Open \cup {p} /\ p \notin Open
    BY <1>0, StakeStep DEF stake_lp, Open
  <1>2. PICK f \in FeeType : /\ f = advance_xnt_for_stake(fee, pool, config.total_lp_weight)
                             /\ f.last_seen = pool /\ f.acc \in Nat
    <2>1. /\ fee \in FeeType /\ pool \in Nat /\ config.total_lp_weight \in Nat
          /\ fee.last_seen <= pool
      BY <1>0 DEF AccountsOK, FeeOK, ConfigOK, ConfigType, LpInv, PoolKeepsRent
    <2> QED
      BY <2>1, FeeAdvance DEF FeeType
  <1>3. PICK w \in Nat : w = LpWeight(a, t)
    BY AmountAssumption, LpWeightBounds
  <1>4. PICK r : r = OpenPosition(m, a, t, GumNow.acc) /\ r.weight = w /\ r.status = "open"
    <2>1. OpenPosition(m, a, t, GumNow.acc).weight = w
      BY <1>3 DEF OpenPosition
    <2>2. OpenPosition(m, a, t, GumNow.acc).status = "open"
      BY DEF OpenPosition
    <2> QED
      BY <2>1, <2>2
  <1>5. /\ fee' = f /\ pool' = pool /\ hist' = hist
        /\ debts' = [debts EXCEPT ![p] = Snapshot(w, f.acc)]
        /\ positions' = [positions EXCEPT ![p] = r]
        /\ positions[p].status = "none"
    BY <1>2, <1>3, <1>4 DEF stake_lp
  <1>6. \A q \in Positions : /\ positions'[q] = IF q = p THEN r ELSE positions[q]
                             /\ debts'[q] = IF q = p THEN Snapshot(w, f.acc) ELSE debts[q]
    BY <1>0, <1>5 DEF AccountsOK, PositionsOK, DebtsOK
  <1>7. NothingBefore'
    BY <1>4, <1>5, <1>6 DEF XntInv, NothingBefore
  <1>8. XntCoveredAt(p)'
    <2>1. hist[p].xnt = 0 /\ hist[p].deposited \in Nat
      BY <1>0, <1>5 DEF XntInv, NothingBefore, AccountsOK, HistOK, HistoryType
    <2>2. PICK e \in Nat, dep \in Nat : e = Entitled(w, f.acc) /\ dep = hist[p].deposited
      BY <1>2, <2>1, EntitledBounds
    <2>3. 0 \in Nat /\ e <= e + 0 /\ e <= e /\ 0 + 0 <= dep
      OBVIOUS
    <2>4. Credited(w, f, f.last_seen, 0, dep, e)
      BY <2>2, <2>3, CreditStarts
    <2>5. debts'[p].bump = 1 /\ debts'[p].debt = e
      BY <1>6, <2>2 DEF Snapshot
    <2> QED
      BY <1>2, <1>4, <1>5, <1>6, <2>1, <2>2, <2>4, <2>5 DEF XntCoveredAt
  <1>9. ASSUME NEW q \in Open', q # p
        PROVE  XntCoveredAt(q)'
    <2>1. q \in Open /\ q \in Positions
      BY <1>1, <1>9, OpenFinite
    <2>2. fee'.acc = FeeNow.acc /\ fee'.last_seen = pool'
      BY <1>0, <1>2, <1>5, <2>1, StreamAdvanced
    <2> QED
      BY <1>5, <1>6, <1>9, <2>1, <2>2, OthersCovered DEF XntCoveredAt
  <1> QED
    BY <1>7, <1>8, <1>9 DEF XntCovered, XntCoveredAt

\* The payout of fees and the withdrawals, for the positions of others.
LEMMA XntOthers ==
    ASSUME XntInv, LpInv', NEW p \in Open, NEW s, s = SettledFor(p),
           fee' = s.fee, pool' = s.pool, NEW q \in Open, q \in Open', q # p,
           positions'[q] = positions[q], debts'[q] = debts[q], hist'[q] = hist[q]
    PROVE  XntCoveredAt(q)'
  <1>1. fee'.acc = FeeNow.acc /\ fee'.last_seen = pool'
    BY SettledPays
  <1> QED
    BY <1>1, OthersCovered DEF XntCoveredAt

LEMMA XntClaimStep ==
    ASSUME XntInv, LpInv', NEW p \in Positions, claim_xnt_fees_lp(p)
    PROVE  NothingBefore' /\ XntCovered'
  <1>0. LpInv /\ AccountsOK /\ p \in Open /\ Open' = Open
    BY ClaimXntStep DEF XntInv, LpInv, claim_xnt_fees_lp
  <1>1. PICK s : s = SettledFor(p)
    OBVIOUS
  <1>2. /\ s.fee \in FeeType /\ s.fee.acc = FeeNow.acc /\ s.fee.last_seen = s.pool
        /\ s.paid \in Nat /\ s.remaining \in Nat /\ s.paid + s.remaining = Owed(p)
        /\ s.debt = IF debts[p].bump = 0 THEN Snapshot(positions[p].weight, FeeNow.acc)
                    ELSE [debt |-> debts[p].debt + s.paid, bump |-> 1]
    BY <1>0, <1>1, SettledPays
  <1>3. /\ fee' = s.fee /\ pool' = s.pool /\ positions' = positions
        /\ debts' = [debts EXCEPT ![p] = s.debt]
        /\ hist' = [hist EXCEPT ![p].xnt = @ + s.paid]
    BY <1>1 DEF claim_xnt_fees_lp, SettledFor
  <1>4. /\ hist'[p].xnt = hist[p].xnt + s.paid /\ hist'[p].deposited = hist[p].deposited
        /\ hist'[p].gum = hist[p].gum
        /\ \A q \in Positions \ {p} : hist'[q] = hist[q] /\ debts'[q] = debts[q]
        /\ debts'[p] = s.debt
    BY <1>0, <1>3 DEF AccountsOK, HistOK, HistoryType, DebtsOK
  <1>5. NothingBefore'
    BY <1>0, <1>3, <1>4 DEF XntInv, NothingBefore, Open
  <1>6. XntCoveredAt(p)'
    <2>1. CASE debts[p].bump = 1
      <3>1. debts'[p].bump = 1 /\ debts'[p].debt = debts[p].debt + s.paid
        BY <1>2, <1>4, <2>1
      <3>2. s.paid <= Owed(p)
        BY <1>2
      <3>3. Credited(positions[p].weight, s.fee, s.fee.last_seen, hist[p].xnt + s.paid,
                     hist[p].deposited, debts[p].debt + s.paid)
        BY <1>0, <1>2, <2>1, <3>2, CreditedNow
      <3> QED
        BY <1>2, <1>3, <1>4, <3>1, <3>3 DEF XntCoveredAt
    <2>2. CASE debts[p].bump = 0
      <3>1. PICK e \in Nat, dep \in Nat, w \in Nat :
               /\ w = positions[p].weight /\ e = Entitled(w, FeeNow.acc) /\ dep = hist[p].deposited
        BY <1>0, XntParts, EntitledBounds
      <3>2. debts'[p].bump = 1 /\ debts'[p].debt = e
        BY <1>2, <1>4, <2>2, <3>1 DEF Snapshot
      <3>3. hist'[p].xnt = 0
        <4>1. Owed(p) = 0 /\ hist[p].xnt = 0
          BY <1>0, <2>2, CreditedNow
        <4> QED
          BY <1>2, <1>4, <4>1
      <3>4. 0 \in Nat /\ e <= e + 0 /\ e <= e /\ 0 + 0 <= dep
        OBVIOUS
      <3>5. Credited(w, s.fee, s.fee.last_seen, 0, dep, e)
        BY <1>2, <3>1, <3>4, CreditStarts
      <3> QED
        BY <1>2, <1>3, <1>4, <3>1, <3>2, <3>3, <3>5 DEF XntCoveredAt
    <2> QED
      BY <1>0, <2>1, <2>2, XntParts
  <1>7. ASSUME NEW q \in Open, q # p PROVE XntCoveredAt(q)'
    <2>1. q \in Positions
      BY OpenFinite
    <2> QED
      BY <1>0, <1>1, <1>3, <1>4, <1>7, <2>1, XntOthers
  <1> QED
    BY <1>0, <1>5, <1>6, <1>7 DEF XntCovered, XntCoveredAt

LEMMA XntPartialStep ==
    ASSUME XntInv, LpInv', NEW p \in Positions, NEW m \in LpMints,
           NEW a \in 1..positions[p].amount, unstake_lp_partial(p, m, a)
    PROVE  NothingBefore' /\ XntCovered'
  <1>0. LpInv /\ AccountsOK /\ p \in Open /\ Open' = Open
    BY PartialStep DEF XntInv, LpInv, unstake_lp_partial
  <1>1. PICK s : s = SettledFor(p)
    OBVIOUS
  <1>2. /\ s.fee \in FeeType /\ s.fee.acc = FeeNow.acc /\ s.fee.last_seen = s.pool
        /\ s.paid \in Nat /\ s.remaining \in Nat /\ s.paid + s.remaining = Owed(p)
    BY <1>0, <1>1, SettledPays
  <1>3. PICK r, g : r = Shrunk(p, a) /\ r.status = positions[p].status
                    /\ g = IF IsEarly(p) THEN 0 ELSE AtMost(PendingGum(p, GumNow), vault)
    <2>1. Shrunk(p, a).status = positions[p].status
      BY <1>0, OpenPositionParts DEF Shrunk, PositionType
    <2> QED
      BY <2>1
  <1>4. /\ fee' = s.fee /\ pool' = s.pool
        /\ positions' = [positions EXCEPT ![p] = r]
        /\ debts' = [debts EXCEPT ![p] = DebtAtNewWeight(r.weight, s.fee, s.remaining)]
        /\ hist' = [hist EXCEPT ![p].xnt = @ + s.paid, ![p].gum = @ + g]
    BY <1>1, <1>3 DEF unstake_lp_partial, Withdraw, SettledFor
  <1>5. /\ hist'[p].xnt = hist[p].xnt + s.paid /\ hist'[p].deposited = hist[p].deposited
        /\ \A q \in Positions \ {p} : /\ hist'[q] = hist[q] /\ debts'[q] = debts[q]
                                      /\ positions'[q] = positions[q]
        /\ debts'[p] = DebtAtNewWeight(r.weight, s.fee, s.remaining)
        /\ positions'[p] = r
    BY <1>0, <1>4 DEF AccountsOK, HistOK, HistoryType, DebtsOK, PositionsOK
  <1>6. NothingBefore'
    BY <1>0, <1>3, <1>5 DEF XntInv, NothingBefore, Open
  <1>7. XntCoveredAt(p)'
    <2>1. PICK w \in Nat : w = r.weight
      <3>1. positions'[p].weight \in Nat
        BY <1>0 DEF LpInv, AccountsOK, PositionsOK, PositionType
      <3> QED
        BY <1>5, <3>1
    <2>2. PICK e \in Nat : e = Entitled(w, s.fee.acc)
      BY <1>2, EntitledBounds DEF FeeType
    <2>3. PICK d \in Nat, rem \in Nat : /\ rem = s.remaining /\ d = saturating_sub(e, rem)
                                        /\ d <= e /\ e <= d + rem
      BY <1>2, SaturatingNat
    <2>4. debts'[p].bump = 1 /\ debts'[p].debt = d
      BY <1>5, <2>1, <2>2, <2>3 DEF DebtAtNewWeight
    <2>5. PICK got \in Nat, dep \in Nat : /\ got = hist[p].xnt + s.paid /\ dep = hist[p].deposited
                                          /\ got + rem <= dep
      <3>1. /\ hist[p].xnt \in Nat /\ hist[p].deposited \in Nat
            /\ hist[p].xnt + Owed(p) <= hist[p].deposited
        BY <1>0, XntParts, CreditedNow
      <3> QED
        BY <1>2, <2>3, <3>1
    <2>6. Credited(w, s.fee, s.fee.last_seen, got, dep, d)
      BY <1>2, <2>2, <2>3, <2>5, CreditStarts
    <2> QED
      BY <1>2, <1>4, <1>5, <2>1, <2>4, <2>5, <2>6 DEF XntCoveredAt
  <1>8. ASSUME NEW q \in Open, q # p PROVE XntCoveredAt(q)'
    <2>1. q \in Positions
      BY OpenFinite
    <2> QED
      BY <1>0, <1>1, <1>4, <1>5, <1>8, <2>1, XntOthers
  <1> QED
    BY <1>0, <1>6, <1>7, <1>8 DEF XntCovered, XntCoveredAt

LEMMA XntFullStep ==
    ASSUME XntInv, LpInv', NEW p \in Positions, NEW m \in LpMints, unstake_lp_full(p, m)
    PROVE  NothingBefore' /\ XntCovered'
  <1>0. LpInv /\ AccountsOK /\ p \in Open /\ Open' = Open \ {p} /\ positions'[p].status = "closed"
    BY FullStep DEF XntInv, LpInv, unstake_lp_full
  <1>1. PICK s, g : /\ s = SettledFor(p)
                    /\ g = IF IsEarly(p) THEN 0 ELSE AtMost(PendingGum(p, GumNow), vault)
    OBVIOUS
  <1>2. /\ fee' = s.fee /\ pool' = s.pool
        /\ positions' = [positions EXCEPT ![p] = [NoPosition EXCEPT !.status = "closed"]]
        /\ debts' = [debts EXCEPT ![p] = NoDebt]
        /\ hist' = [hist EXCEPT ![p].xnt = @ + s.paid, ![p].gum = @ + g]
    BY <1>1 DEF unstake_lp_full, Withdraw, SettledFor
  <1>3. \A q \in Positions \ {p} : /\ hist'[q] = hist[q] /\ debts'[q] = debts[q]
                                   /\ positions'[q] = positions[q]
    BY <1>0, <1>2 DEF AccountsOK, HistOK, DebtsOK, PositionsOK
  <1>4. NothingBefore'
    BY <1>0, <1>3 DEF XntInv, NothingBefore
  <1>5. ASSUME NEW q \in Open, q # p PROVE XntCoveredAt(q)'
    <2>1. q \in Positions
      BY OpenFinite
    <2> QED
      BY <1>0, <1>1, <1>2, <1>3, <1>5, <2>1, XntOthers
  <1> QED
    BY <1>0, <1>4, <1>5 DEF XntCovered, XntCoveredAt

LEMMA XntDepositStep ==
    ASSUME XntInv, LpInv', NEW d \in Deposits, Deposit(d)
    PROVE  NothingBefore' /\ XntCovered'
  <1>0. LpInv /\ AccountsOK /\ Open' = Open
    BY DepositStep DEF XntInv, LpInv
  <1>1. /\ d \in Nat /\ pool' = pool + d
        /\ UNCHANGED <<fee, positions, debts>>
        /\ hist' = [p \in Positions |->
                      IF debts[p].bump = 1 THEN [hist[p] EXCEPT !.deposited = @ + d] ELSE hist[p]]
    BY DepositAssumption DEF Deposit
  <1>2. ASSUME NEW q \in Positions
        PROVE  /\ hist'[q].xnt = hist[q].xnt /\ hist'[q].gum = hist[q].gum
               /\ debts[q].bump = 1 => hist'[q].deposited = hist[q].deposited + d
    BY <1>0, <1>1 DEF AccountsOK, HistOK, HistoryType
  <1>3. NothingBefore'
    BY <1>1, <1>2 DEF XntInv, NothingBefore
  <1>4. ASSUME NEW q \in Open PROVE XntCoveredAt(q)'
    <2>1. /\ q \in Positions /\ positions[q].weight \in Nat
          /\ fee \in FeeType /\ pool \in Nat /\ fee.last_seen <= pool
          /\ hist[q].xnt \in Nat /\ hist[q].deposited \in Nat /\ debts[q].debt \in Nat
      BY <1>0, XntParts
    <2>2. CASE debts[q].bump = 1
      <3>1. Credited(positions[q].weight, fee, pool, hist[q].xnt, hist[q].deposited, debts[q].debt)
        BY <2>2 DEF XntInv, XntCovered
      <3>2. Credited(positions[q].weight, fee, pool + d, hist[q].xnt, hist[q].deposited + d,
                     debts[q].debt)
        BY <1>1, <2>1, <3>1, CreditDeposit
      <3> QED
        BY <1>1, <1>2, <2>1, <2>2, <3>2 DEF XntCoveredAt
    <2>3. CASE debts[q].bump # 1
      BY <1>1, <1>2, <2>1, <2>3 DEF XntCoveredAt, XntInv, XntCovered
    <2> QED
      BY <2>2, <2>3
  <1> QED
    BY <1>0, <1>3, <1>4 DEF XntCovered, XntCoveredAt

\* GUM that is claimed, a sweep and the clock.
LEMMA XntUntouched ==
    ASSUME XntInv, LpInv', Open' = Open,
           \A p \in Positions :
             /\ positions'[p].status = positions[p].status
             /\ positions'[p].weight = positions[p].weight
             /\ debts'[p] = debts[p]
             /\ hist'[p].xnt = hist[p].xnt /\ hist'[p].deposited = hist[p].deposited
             /\ hist'[p].gum = hist[p].gum \/ p \in Open,
           (fee' = fee /\ pool' = pool) \/ Open = {}
    PROVE  NothingBefore' /\ XntCovered'
  <1>1. NothingBefore'
    BY DEF XntInv, NothingBefore, Open
  <1>2. ASSUME NEW q \in Open PROVE XntCoveredAt(q)'
    <2>1. q \in Positions /\ fee' = fee /\ pool' = pool
      BY <1>2, OpenFinite
    <2> QED
      BY <1>2, <2>1 DEF XntCoveredAt, XntInv, XntCovered
  <1> QED
    BY <1>1, <1>2 DEF XntCovered, XntCoveredAt

LEMMA XntInvStep == XntInv /\ [Next]_vars => XntInv'
  <1>1. SUFFICES ASSUME XntInv, [Next]_vars PROVE XntInv'
    OBVIOUS
  <1>2. LpInv /\ LpInv' /\ AccountsOK
    BY <1>1, LpInvStep DEF XntInv, LpInv
  <1>3. SUFFICES NothingBefore' /\ XntCovered'
    BY <1>2 DEF XntInv
  <1>4. CASE UNCHANGED vars
    BY <1>1, <1>4 DEF vars, XntInv, NothingBefore, XntCovered, Open
  <1>5. CASE \E p \in Positions, m \in LpMints, a \in Amounts, t \in Tiers :
              stake_lp(p, m, a, t)
    BY <1>1, <1>2, <1>5, XntStakeStep
  <1>6. ASSUME NEW p \in Positions, NEW m \in LpMints, NEW a \in 1..positions[p].amount,
               unstake_lp_partial(p, m, a)
        PROVE  NothingBefore' /\ XntCovered'
    BY <1>1, <1>2, <1>6, XntPartialStep
  <1>7. CASE \E p \in Positions : claim_xnt_fees_lp(p) \/ \E m \in LpMints : unstake_lp_full(p, m)
    BY <1>1, <1>2, <1>7, XntFullStep, XntClaimStep
  <1>8. ASSUME NEW p \in Positions, claim_lp(p)
        PROVE  NothingBefore' /\ XntCovered'
    <2>1. Open' = Open /\ p \in Open
      BY <1>2, <1>8, ClaimStep DEF claim_lp
    <2>2. PICK x, e : /\ hist' = [hist EXCEPT ![p].gum = x] /\ fee' = fee /\ pool' = pool /\ debts' = debts
                      /\ positions' = positions \/ positions' = [positions EXCEPT ![p].reward_debt = e]
      BY <1>8 DEF claim_lp
    <2>3. ASSUME NEW q \in Positions
          PROVE  /\ positions'[q].status = positions[q].status
                 /\ positions'[q].weight = positions[q].weight
                 /\ hist'[q].xnt = hist[q].xnt /\ hist'[q].deposited = hist[q].deposited
                 /\ hist'[q].gum = hist[q].gum \/ q \in Open
      <3>1. positions[q] \in PositionType /\ positions[p] \in PositionType
            /\ hist[q] \in HistoryType /\ hist[p] \in HistoryType
        BY <1>2 DEF AccountsOK, PositionsOK, HistOK
      <3>2. /\ positions'[q].status = positions[q].status
            /\ positions'[q].weight = positions[q].weight
        BY <1>2, <2>2, <3>1 DEF AccountsOK, PositionsOK, PositionType
      <3>3. /\ hist'[q].xnt = hist[q].xnt /\ hist'[q].deposited = hist[q].deposited
            /\ hist'[q].gum = hist[q].gum \/ q \in Open
        BY <1>2, <2>1, <2>2, <3>1 DEF AccountsOK, HistOK, HistoryType
      <3> QED
        BY <3>2, <3>3
    <2> QED
      BY <1>1, <1>2, <2>1, <2>2, <2>3, XntUntouched
  <1>9. CASE sweep_xnt_pool_lp
    <2>1. Open' = Open /\ Open = {}
      BY <1>2, <1>9, SweepStep, TotalsCoverEach DEF sweep_xnt_pool_lp
    <2>2. UNCHANGED <<positions, debts, hist>>
      BY <1>9 DEF sweep_xnt_pool_lp
    <2> QED
      BY <1>1, <1>2, <2>1, <2>2, XntUntouched
  <1>10. ASSUME NEW d \in Deposits, Deposit(d) PROVE NothingBefore' /\ XntCovered'
    BY <1>1, <1>2, <1>10, XntDepositStep
  <1>11. CASE Tick
    <2>1. Open' = Open
      BY <1>2, <1>11, TickStep
    <2>2. /\ UNCHANGED <<positions, debts, fee, pool>>
          /\ \A q \in Positions : /\ hist'[q].xnt = hist[q].xnt
                                  /\ hist'[q].deposited = hist[q].deposited
                                  /\ hist'[q].gum = hist[q].gum
      BY <1>2, <1>11 DEF Tick, AccountsOK, HistOK, HistoryType
    <2> QED
      BY <1>1, <1>2, <2>1, <2>2, XntUntouched
  <1> QED
    BY <1>1, <1>4, <1>5, <1>6, <1>7, <1>8, <1>9, <1>10, <1>11 DEF Next

LEMMA XntAlways == Spec => []XntInv
  <1> QED
    BY InitXnt, XntInvStep, PTL DEF Spec

\* Positions earn only fees deposited after they staked or after their debt
\* account was made (README), also when they shrink and their debt is taken
\* again at the smaller weight, for any weights, deposits and orders.
THEOREM LpEarnsOnlyAfterStaking == Spec => []EarnsOnlyAfterStaking
  <1>1. XntInv => EarnsOnlyAfterStaking
    BY CreditedNow DEF EarnsOnlyAfterStaking
  <1> QED
    BY <1>1, XntAlways, PTL

-----------------------------------------------------------------------------
(* What is owed is never taken away.                                       *)

\* While a position is open, the accumulator, brought up to date, never falls.
LEMMA StreamNeverFalls ==
    ASSUME XntInv, LpInv', [Next]_vars, NEW p \in Open
    PROVE  FeeNow.acc <= FeeNow'.acc
  <1>0. LpInv /\ AccountsOK /\ PoolKeepsRent /\ AccountsOK' /\ PoolKeepsRent'
    BY DEF XntInv, LpInv
  <1>1. /\ fee \in FeeType /\ pool \in Nat /\ fee.last_seen <= pool
        /\ config.total_lp_weight \in Nat /\ config.total_lp_weight # 0
        /\ FeeNow \in FeeType /\ FeeNow.acc \in Nat /\ FeeNow.acc <= FeeNow.acc
    BY <1>0, XntParts
  <1>2. /\ fee' \in FeeType /\ pool' \in Nat /\ config'.total_lp_weight \in Nat
    BY <1>0 DEF AccountsOK, FeeOK, ConfigOK, ConfigType
  <1>3. fee'.acc <= FeeNow'.acc
    <2>1. 0 \in Nat /\ 0 <= config'.total_lp_weight
      BY <1>2
    <2> QED
      BY <1>2, <2>1, FeeUpdate DEF FeeNow
  <1>4. ASSUME FeeNow' = FeeNow PROVE FeeNow.acc <= FeeNow'.acc
    BY <1>1, <1>4
  <1>5. ASSUME fee'.acc = FeeNow.acc PROVE FeeNow.acc <= FeeNow'.acc
    BY <1>3, <1>5
  <1>6. CASE UNCHANGED vars
    BY <1>4, <1>6 DEF vars, FeeNow
  <1>7. ASSUME NEW q \in Positions, NEW m \in LpMints, NEW a \in Amounts, NEW t \in Tiers,
               stake_lp(q, m, a, t)
        PROVE  FeeNow.acc <= FeeNow'.acc
    <2>1. fee' = FeeNow
      BY <1>0, <1>7, StreamAdvanced DEF stake_lp
    <2> QED
      BY <1>5, <2>1
  <1>8. ASSUME NEW q \in Positions, claim_lp(q) PROVE FeeNow.acc <= FeeNow'.acc
    <2>1. config'.total_lp_weight = config.total_lp_weight /\ fee' = fee /\ pool' = pool
      BY <1>0, <1>8 DEF claim_lp, AccountsOK, ConfigOK, ConfigType
    <2> QED
      BY <1>4, <2>1 DEF FeeNow
  <1>9. ASSUME NEW q \in Positions, q \in Open, fee' = SettledFor(q).fee
        PROVE  FeeNow.acc <= FeeNow'.acc
    BY <1>5, <1>9, SettledPays
  <1>10. ASSUME NEW q \in Positions, NEW m \in LpMints, NEW a \in 1..positions[q].amount,
               unstake_lp_partial(q, m, a)
         PROVE  FeeNow.acc <= FeeNow'.acc
    BY <1>9, <1>10 DEF unstake_lp_partial, Withdraw, SettledFor
  <1>11. ASSUME NEW q \in Positions, NEW m \in LpMints, unstake_lp_full(q, m) PROVE FeeNow.acc <= FeeNow'.acc
    BY <1>9, <1>11 DEF unstake_lp_full, Withdraw, SettledFor
  <1>12. ASSUME NEW q \in Positions, claim_xnt_fees_lp(q) PROVE FeeNow.acc <= FeeNow'.acc
    BY <1>9, <1>12 DEF claim_xnt_fees_lp, SettledFor
  <1>13. CASE sweep_xnt_pool_lp
    BY <1>1, <1>13 DEF sweep_xnt_pool_lp
  <1>14. ASSUME NEW d \in Deposits, Deposit(d) PROVE FeeNow.acc <= FeeNow'.acc
    <2>1. d \in Nat
      BY <1>14, DepositAssumption
    <2>2. fee' = fee /\ config' = config /\ pool' = pool + d
      BY <1>14 DEF Deposit
    <2>3. pool <= pool'
      BY <1>1, <2>1, <2>2
    <2> QED
      BY <1>1, <2>2, <2>3, FeeUpdateRises DEF FeeNow
  <1>15. CASE Tick
    BY <1>4, <1>15 DEF Tick, FeeNow
  <1> QED
    BY <1>6, <1>7, <1>8, <1>10, <1>11, <1>12, <1>13, <1>14, <1>15 DEF Next

\* What the debt of p leaves it, at the accumulator before the step, together
\* with what p has received, is no less than it was.
KeepsItsDue(p) ==
    /\ debts'[p].bump = 0 => hist'[p].xnt = hist[p].xnt /\ Owed(p) = 0
    /\ debts'[p].bump = 1 =>
          hist[p].xnt + Owed(p) + debts'[p].debt
             <= hist'[p].xnt + Entitled(positions'[p].weight, FeeNow.acc)

LEMMA DueKeptUntouched ==
    ASSUME XntInv, NEW p \in Open,
           positions'[p].weight = positions[p].weight,
           debts'[p] = debts[p], hist'[p].xnt = hist[p].xnt
    PROVE  KeepsItsDue(p)
  <1>0. LpInv
    BY DEF XntInv
  <1>1. CASE debts[p].bump = 0
    <2>1. Owed(p) = 0
      BY <1>1, CreditedNow
    <2> QED
      BY <1>1, <2>1 DEF KeepsItsDue
  <1>2. CASE debts[p].bump = 1
    <2>1. PICK e \in Nat, d \in Nat, o \in Nat, h \in Nat :
             /\ e = Entitled(positions[p].weight, FeeNow.acc) /\ d = debts[p].debt
             /\ o = Owed(p) /\ h = hist[p].xnt
      BY <1>0, XntParts, EntitledBounds, CreditedNow
    <2>2. o = e - d
      BY <1>2, <2>1, CreditedNow
    <2>3. h + o + d <= h + e
      BY <2>2
    <2> QED
      BY <1>2, <2>1, <2>3 DEF KeepsItsDue
  <1> QED
    BY <1>0, <1>1, <1>2, XntParts

LEMMA DueKeptClaiming ==
    ASSUME XntInv, NEW p \in Open, claim_xnt_fees_lp(p)
    PROVE  KeepsItsDue(p)
  <1>0. LpInv /\ AccountsOK /\ p \in Positions
    BY OpenFinite DEF XntInv, LpInv
  <1>1. PICK s : s = SettledFor(p)
    OBVIOUS
  <1>2. /\ s.paid \in Nat /\ s.remaining \in Nat /\ s.paid + s.remaining = Owed(p)
        /\ s.debt = IF debts[p].bump = 0 THEN Snapshot(positions[p].weight, FeeNow.acc)
                    ELSE [debt |-> debts[p].debt + s.paid, bump |-> 1]
    BY <1>1, SettledPays
  <1>3. /\ positions' = positions /\ debts' = [debts EXCEPT ![p] = s.debt]
        /\ hist' = [hist EXCEPT ![p].xnt = @ + s.paid]
    BY <1>1 DEF claim_xnt_fees_lp, SettledFor
  <1>4. hist'[p].xnt = hist[p].xnt + s.paid /\ debts'[p] = s.debt
    BY <1>0, <1>3 DEF AccountsOK, HistOK, HistoryType, DebtsOK
  <1>5. PICK e \in Nat, d \in Nat, o \in Nat, h \in Nat, x \in Nat :
           /\ e = Entitled(positions[p].weight, FeeNow.acc) /\ d = debts[p].debt
           /\ o = Owed(p) /\ h = hist[p].xnt /\ x = s.paid
    BY <1>0, <1>2, XntParts, EntitledBounds, CreditedNow
  <1>6. CASE debts[p].bump = 0
    <2>1. o = 0 /\ debts'[p].bump = 1 /\ debts'[p].debt = e
      BY <1>2, <1>4, <1>5, <1>6, CreditedNow DEF Snapshot
    <2>2. h + o + e <= (h + x) + e
      BY <2>1
    <2> QED
      BY <1>3, <1>4, <1>5, <2>1, <2>2 DEF KeepsItsDue
  <1>7. CASE debts[p].bump = 1
    <2>1. o = e - d
      BY <1>5, <1>7, CreditedNow
    <2>2. debts'[p].bump = 1 /\ debts'[p].debt = d + x
      BY <1>2, <1>4, <1>5, <1>7
    <2>3. h + o + (d + x) <= (h + x) + e
      BY <2>1
    <2> QED
      BY <1>3, <1>4, <1>5, <2>2, <2>3 DEF KeepsItsDue
  <1> QED
    BY <1>0, <1>6, <1>7, XntParts

\* The snapshot at the smaller weight leaves what the pool did not pay, as
\* long as that weight is entitled to so much.
LEMMA DueKeptShrinking ==
    ASSUME XntInv, LpInv', NEW p \in Open, NEW m, NEW a, unstake_lp_partial(p, m, a),
           Entitled(positions'[p].weight, FeeNow.acc) >= Owed(p)
    PROVE  KeepsItsDue(p)
  <1>0. LpInv /\ AccountsOK /\ p \in Positions /\ AccountsOK'
    BY OpenFinite DEF XntInv, LpInv
  <1>1. PICK s : s = SettledFor(p)
    OBVIOUS
  <1>2. /\ s.paid \in Nat /\ s.remaining \in Nat /\ s.paid + s.remaining = Owed(p)
        /\ s.fee.acc = FeeNow.acc
    BY <1>1, SettledPays
  <1>3. PICK g : g = IF IsEarly(p) THEN 0 ELSE AtMost(PendingGum(p, GumNow), vault)
    OBVIOUS
  <1>4. PICK r : /\ positions' = [positions EXCEPT ![p] = r]
                 /\ debts' = [debts EXCEPT ![p] = DebtAtNewWeight(r.weight, s.fee, s.remaining)]
                 /\ hist' = [hist EXCEPT ![p].xnt = @ + s.paid, ![p].gum = @ + g]
    BY <1>1, <1>3 DEF unstake_lp_partial, Withdraw, SettledFor
  <1>5. /\ hist'[p].xnt = hist[p].xnt + s.paid /\ positions'[p] = r
        /\ debts'[p] = DebtAtNewWeight(r.weight, s.fee, s.remaining)
    BY <1>0, <1>4 DEF AccountsOK, HistOK, HistoryType, DebtsOK, PositionsOK
  <1>6. PICK w \in Nat : w = r.weight
    BY <1>0, <1>5 DEF AccountsOK, PositionsOK, PositionType
  <1>7. PICK e \in Nat, o \in Nat, h \in Nat, x \in Nat, rem \in Nat :
           /\ e = Entitled(w, FeeNow.acc) /\ o = Owed(p) /\ h = hist[p].xnt
           /\ x = s.paid /\ rem = s.remaining /\ o <= e /\ x + rem = o
    <2>1. FeeNow.acc \in Nat /\ hist[p].xnt \in Nat /\ Owed(p) \in Nat
      BY <1>0, XntParts, CreditedNow
    <2>2. PICK e \in Nat : e = Entitled(w, FeeNow.acc)
      BY <2>1, EntitledBounds
    <2>3. Owed(p) <= e
      BY <1>5, <1>6, <2>1, <2>2
    <2> QED
      BY <1>2, <2>1, <2>2, <2>3
  <1>8. rem <= e /\ saturating_sub(e, rem) = e - rem
    BY <1>7 DEF saturating_sub
  <1>9. debts'[p].bump = 1 /\ debts'[p].debt = e - rem
    BY <1>2, <1>5, <1>6, <1>7, <1>8 DEF DebtAtNewWeight
  <1>10. h + o + (e - rem) <= (h + x) + e
    BY <1>7
  <1> QED
    BY <1>5, <1>6, <1>7, <1>9, <1>10 DEF KeepsItsDue

LEMMA DueIsKept ==
    ASSUME XntInv, LpInv', [Next]_vars, NEW p \in Open, p \in Open',
           Entitled(positions'[p].weight, FeeNow.acc) >= Owed(p)
    PROVE  KeepsItsDue(p)
  <1>0. LpInv /\ AccountsOK
    BY DEF XntInv, LpInv
  <1>1. /\ p \in Positions /\ positions[p] \in PositionType /\ positions[p].status = "open"
        /\ positions'[p].status = "open" /\ hist[p] \in HistoryType
    BY <1>0, OpenPositionParts DEF Open, AccountsOK, HistOK
  <1>2. CASE UNCHANGED vars
    BY <1>2, DueKeptUntouched DEF vars
  <1>3. ASSUME NEW q \in Positions, NEW m \in LpMints, NEW a \in Amounts, NEW t \in Tiers,
               stake_lp(q, m, a, t)
        PROVE  KeepsItsDue(p)
    <2>1. p # q /\ hist' = hist
      BY <1>1, <1>3 DEF stake_lp
    <2>2. positions'[p] = positions[p] /\ debts'[p] = debts[p]
      BY <1>0, <1>1, <1>3, <2>1 DEF stake_lp, AccountsOK, PositionsOK, DebtsOK
    <2> QED
      BY <2>1, <2>2, DueKeptUntouched
  <1>4. ASSUME NEW q \in Positions, claim_lp(q) PROVE KeepsItsDue(p)
    <2>1. PICK x, e : /\ hist' = [hist EXCEPT ![q].gum = x] /\ debts' = debts
                      /\ positions' = positions \/ positions' = [positions EXCEPT ![q].reward_debt = e]
      BY <1>4 DEF claim_lp
    <2>2. positions'[p].weight = positions[p].weight
      BY <1>0, <1>1, <2>1 DEF AccountsOK, PositionsOK, PositionType
    <2>3. hist'[p].xnt = hist[p].xnt
      BY <1>0, <1>1, <2>1 DEF AccountsOK, HistOK, HistoryType
    <2> QED
      BY <2>1, <2>2, <2>3, DueKeptUntouched
  <1>5. ASSUME NEW q \in Positions, NEW m \in LpMints, NEW a \in 1..positions[q].amount,
               unstake_lp_partial(q, m, a)
        PROVE  KeepsItsDue(p)
    <2>1. CASE p = q
      BY <1>5, <2>1, DueKeptShrinking
    <2>2. CASE p # q
      <3>1. positions'[p] = positions[p] /\ debts'[p] = debts[p]
        BY <1>0, <1>1, <1>5, <2>2 DEF unstake_lp_partial, AccountsOK, PositionsOK, DebtsOK
      <3>2. hist'[p] = hist[p]
        BY <1>0, <1>1, <1>5, <2>2 DEF unstake_lp_partial, Withdraw, AccountsOK, HistOK
      <3> QED
        BY <3>1, <3>2, DueKeptUntouched
    <2> QED
      BY <2>1, <2>2
  <1>6. ASSUME NEW q \in Positions, NEW m \in LpMints, unstake_lp_full(q, m) PROVE KeepsItsDue(p)
    <2>1. p # q
      BY <1>0, <1>1, <1>6, NoPositionType DEF unstake_lp_full, AccountsOK, PositionsOK
    <2>2. positions'[p] = positions[p] /\ debts'[p] = debts[p]
      BY <1>0, <1>1, <1>6, <2>1 DEF unstake_lp_full, AccountsOK, PositionsOK, DebtsOK
    <2>3. hist'[p] = hist[p]
      BY <1>0, <1>1, <1>6, <2>1 DEF unstake_lp_full, Withdraw, AccountsOK, HistOK
    <2> QED
      BY <2>2, <2>3, DueKeptUntouched
  <1>7. ASSUME NEW q \in Positions, claim_xnt_fees_lp(q) PROVE KeepsItsDue(p)
    <2>1. CASE p = q
      BY <1>7, <2>1, DueKeptClaiming
    <2>2. CASE p # q
      <3>1. positions'[p] = positions[p] /\ debts'[p] = debts[p] /\ hist'[p] = hist[p]
        BY <1>0, <1>1, <1>7, <2>2 DEF claim_xnt_fees_lp, AccountsOK, HistOK, DebtsOK
      <3> QED
        BY <3>1, DueKeptUntouched
    <2> QED
      BY <2>1, <2>2
  <1>8. CASE sweep_xnt_pool_lp
    BY <1>8, DueKeptUntouched DEF sweep_xnt_pool_lp
  <1>9. CASE Tick \/ \E d \in Deposits : Deposit(d)
    <2>1. positions' = positions /\ debts' = debts
      BY <1>9 DEF Tick, Deposit
    <2>2. hist'[p].xnt = hist[p].xnt
      BY <1>1, <1>9 DEF Tick, Deposit, HistoryType
    <2> QED
      BY <2>1, <2>2, DueKeptUntouched
  <1> QED
    BY <1>2, <1>3, <1>4, <1>5, <1>6, <1>7, <1>8, <1>9 DEF Next

\* No step of anybody takes away XNT that a position has received or can
\* claim, while the snapshot of its weight covers what the pool left unpaid:
\* no claim, no withdrawal of this or of another position, no sweep.
THEOREM LpXntNeverForgotten == Spec => XntNeverForgotten
  <1> DEFINE Owing == \A q \in Open :
                        /\ Owed(q) \in Nat /\ FeeNow.acc \in Nat
                        /\ debts[q].bump \in 0..1 /\ debts[q].debt \in Nat
                        /\ positions[q].weight \in Nat /\ hist[q].xnt \in Nat
                        /\ debts[q].bump = 1 =>
                             Owed(q) = Entitled(positions[q].weight, FeeNow.acc) - debts[q].debt
  <1>a. XntInv => Owing
    <2>1. SUFFICES ASSUME XntInv PROVE Owing
      OBVIOUS
    <2>2. LpInv
      BY <2>1 DEF XntInv
    <2> QED
      BY <2>1, <2>2, XntParts, CreditedNow
  <1>b. (XntInv => Owing)'
    BY <1>a, PTL
  <1>1. ASSUME XntInv, XntInv', [Next]_vars, NEW p \in Positions, p \in Open, p \in Open',
               Entitled(positions'[p].weight, FeeNow.acc) >= Owed(p)
        PROVE  hist'[p].xnt + Owed(p)' >= hist[p].xnt + Owed(p)
    <2>1. LpInv' /\ Owing /\ Owing'
      BY <1>1, <1>a, <1>b DEF XntInv
    <2>2. KeepsItsDue(p)
      BY <1>1, <2>1, DueIsKept
    <2>3. FeeNow.acc <= FeeNow'.acc
      BY <1>1, <2>1, StreamNeverFalls
    <2>4. PICK o \in Nat, n \in Nat, h \in Nat, i \in Nat, d \in Nat, w \in Nat :
             /\ o = Owed(p) /\ n = Owed(p)' /\ h = hist[p].xnt /\ i = hist'[p].xnt
             /\ d = debts'[p].debt /\ w = positions'[p].weight
      BY <1>1, <2>1
    <2>5. PICK e1 \in Nat, e2 \in Nat : /\ e1 = Entitled(w, FeeNow.acc)
                                        /\ e2 = Entitled(w, FeeNow'.acc) /\ e1 <= e2
      BY <1>1, <2>1, <2>3, EntitledBounds, EntitledRises
    <2>6. CASE debts'[p].bump = 0
      BY <2>2, <2>4, <2>6 DEF KeepsItsDue
    <2>7. CASE debts'[p].bump = 1
      <3>1. n = e2 - d
        BY <1>1, <2>1, <2>4, <2>5, <2>7
      <3>2. h + o + d <= i + e1
        BY <2>2, <2>4, <2>5, <2>7 DEF KeepsItsDue
      <3>3. i + n >= h + o
        BY <2>5, <3>1, <3>2
      <3> QED
        BY <2>4, <3>3
    <2> QED
      BY <1>1, <2>1, <2>6, <2>7
  <1>2. XntInv /\ XntInv' /\ [Next]_vars
          => \A p \in Positions :
               /\ p \in Open
               /\ p \in Open'
               /\ Entitled(positions'[p].weight, FeeNow.acc) >= Owed(p)
               => hist'[p].xnt + Owed(p)' >= hist[p].xnt + Owed(p)
    BY <1>1
  <1> QED
    BY <1>2, XntAlways, PTL DEF Spec, XntNeverForgotten

-----------------------------------------------------------------------------
(* GUM.                                                                    *)

\* What the vault has emitted covers what an open position was paid and may
\* still claim, in the units the stream has credited it with.
GumCoveredAt(p) ==
    PaidAsEmitted(positions[p].weight, gum, vault, now,
                  hist[p].emitted, hist[p].gum, positions[p].reward_debt)

GumCovered == gum.last_update <= now /\ \A p \in Open : GumCoveredAt(p)

GumInv == XntInv /\ GumCovered

LEMMA GumParts ==
    ASSUME LpInv
    PROVE  /\ gum \in GumType /\ gum.last_update \in Nat /\ vault \in Nat /\ now \in Nat
           /\ config.total_lp_weight \in Nat
           /\ \A p \in Positions : /\ hist[p] \in HistoryType
                                   /\ hist[p].emitted \in Nat /\ hist[p].gum \in Nat
  <1>1. AccountsOK
    BY DEF LpInv
  <1>2. gum \in GumType /\ gum.last_update \in Nat /\ vault \in Nat
    BY <1>1 DEF AccountsOK, GumOK, GumType
  <1>3. now \in Nat /\ config.total_lp_weight \in Nat
    BY <1>1, VaultAssumption DEF AccountsOK, TimeOK, ConfigOK, ConfigType
  <1> QED
    BY <1>1, <1>2, <1>3 DEF AccountsOK, HistOK, HistoryType

\* Every handler of GUM brings the stream up to date first.
LEMMA GumUpToDate ==
    ASSUME GumInv
    PROVE  GumNow \in GumType /\ GumNow.last_update = now
  <1>1. /\ gum \in GumType /\ vault \in Nat /\ now \in Nat /\ config.total_lp_weight \in Nat
        /\ gum.last_update <= now
    BY GumParts DEF GumInv, GumCovered, XntInv
  <1>2. 0 \in Nat /\ 0 <= config.total_lp_weight
    BY <1>1
  <1> QED
    BY <1>1, <1>2, GumUpdate DEF GumNow

LEMMA GumCoveredNow ==
    ASSUME GumInv, NEW p \in Open
    PROVE  LET w == positions[p].weight
           IN  /\ PendingGum(p, GumNow) \in Nat
               /\ PendingGum(p, GumNow) = 0 => positions[p].reward_debt = Entitled(w, GumNow.acc)
               /\ (hist[p].gum + PendingGum(p, GumNow)) * EMISSION_DEN <= hist[p].emitted
               /\ \A left \in Nat :
                    PaidAsEmitted(w, GumNow, left, now,
                                  hist[p].emitted, hist[p].gum, positions[p].reward_debt)
               /\ \A left \in Nat, paid \in Nat : paid <= PendingGum(p, GumNow) =>
                    PaidAsEmitted(w, GumNow, left, now, hist[p].emitted, hist[p].gum + paid,
                                  Entitled(w, GumNow.acc))
  <1>0. LpInv /\ GumCoveredAt(p)
    BY DEF GumInv, XntInv, GumCovered
  <1>1. PICK w \in Nat, got \in Nat, emitted \in Nat, debt \in Nat, t \in Nat, v \in Nat, total \in Nat :
           /\ w = positions[p].weight /\ got = hist[p].gum /\ emitted = hist[p].emitted
           /\ debt = positions[p].reward_debt /\ t = now /\ v = vault
           /\ total = config.total_lp_weight /\ w <= total
    <2>1. p \in Positions /\ positions[p].weight \in Nat /\ positions[p].reward_debt \in Nat
      BY <1>0, OpenPositionParts
    <2>2. positions[p].weight <= config.total_lp_weight
      BY <1>0, TotalsCoverEach
    <2> QED
      BY <1>0, <2>1, <2>2, GumParts
  <1>2. PICK g \in GumType : g = GumNow /\ g.last_update = t
    BY <1>1, GumUpToDate
  <1>3. PaidAsEmitted(w, g, v, t, emitted, got, debt)
    <2>1. gum \in GumType /\ PaidAsEmitted(w, gum, v, t, emitted, got, debt)
      BY <1>0, <1>1, GumParts DEF GumCoveredAt
    <2>a. {w, total, v, t, got, emitted, debt} \subseteq Nat /\ w <= total
      BY <1>1
    <2>2. PaidAsEmitted(w, UpdateGum(gum, v, total, t), v, t, emitted, got, debt)
      BY <2>a, <2>1, GumBroughtUp
    <2> QED
      BY <1>1, <1>2, <2>2 DEF GumNow
  <1>4. PendingGum(p, GumNow) = saturating_sub(Entitled(w, g.acc), debt)
    BY <1>1, <1>2 DEF PendingGum
  <1>5. \A left \in Nat :
           LET due == saturating_sub(Entitled(w, g.acc), debt)
           IN  /\ due \in Nat
               /\ due = 0 => debt = Entitled(w, g.acc)
               /\ (got + due) * EMISSION_DEN <= emitted
               /\ PaidAsEmitted(w, g, left, t, emitted, got, debt)
               /\ \A paid \in Nat : paid <= due =>
                    PaidAsEmitted(w, g, left, t, emitted, got + paid, Entitled(w, g.acc))
    BY <1>2, <1>3, GumPaid
  <1>6. 0 \in Nat
    OBVIOUS
  <1> QED
    BY <1>1, <1>2, <1>4, <1>5, <1>6, Zenon

LEMMA InitGum == Init => GumInv
  <1>1. SUFFICES ASSUME Init PROVE GumInv
    OBVIOUS
  <1>2. XntInv /\ LpInv
    BY <1>1, InitXnt DEF XntInv
  <1>3. SUFFICES ASSUME NEW legacy \in SUBSET Legacies, NEW m \in LpMints, NEW a \in Amounts,
                        NEW t \in Tiers, now = 0,
                        config = [total_lp_weight |-> Cardinality(legacy) * LpWeight(a, t),
                                  total_claimed |-> 0],
                        gum = [acc |-> 0, last_update |-> 0],
                        positions = [p \in Positions |-> IF p \in legacy THEN OpenPosition(m, a, t, 0)
                                                                         ELSE NoPosition],
                        hist = [p \in Positions |-> NoHistory]
                 PROVE  GumInv
    BY <1>1 DEF Init
  <1>4. gum.acc = 0 /\ gum.last_update = now
    BY <1>3
  <1>5. ASSUME NEW p \in Open PROVE GumCoveredAt(p)
    <2>1. p \in Positions /\ positions[p].weight \in Nat /\ positions[p].status = "open"
      BY <1>2, OpenPositionParts
    <2>2. hist[p].gum = 0 /\ hist[p].emitted = 0
      BY <1>3, <2>1 DEF NoHistory
    <2>3. positions[p] = OpenPosition(m, a, t, 0)
      BY <1>3, <2>1, NoPositionType
    <2>4. positions[p].reward_debt = Entitled(positions[p].weight, gum.acc)
      <3>1. /\ OpenPosition(m, a, t, 0).weight = LpWeight(a, t)
            /\ OpenPosition(m, a, t, 0).reward_debt = Entitled(LpWeight(a, t), 0)
        BY DEF OpenPosition
      <3> QED
        BY <1>4, <2>3, <3>1
    <2>5. 0 \in Nat /\ 0 * EMISSION_DEN <= 0
      BY EmissionAssumption
    <2>6. PaidAsEmitted(positions[p].weight, gum, vault, now, 0, 0,
                        Entitled(positions[p].weight, gum.acc))
      BY <1>2, <1>4, <2>1, <2>5, GumParts, GumStarts
    <2> QED
      BY <2>2, <2>4, <2>6 DEF GumCoveredAt
  <1>6. gum.last_update <= now
    BY <1>3
  <1> QED
    BY <1>2, <1>5, <1>6 DEF GumInv, GumCovered

\* A position whose account and history stay as they are, while GUM is paid to
\* another one or the weights change,
LEMMA GumOthers ==
    ASSUME GumInv, XntInv', gum' = GumNow, now' = now, NEW q \in Open,
           positions'[q].weight = positions[q].weight,
           positions'[q].reward_debt = positions[q].reward_debt,
           hist'[q].emitted = hist[q].emitted, hist'[q].gum = hist[q].gum
    PROVE  GumCoveredAt(q)'
  <1>1. vault' \in Nat
    BY DEF XntInv, LpInv, AccountsOK, GumOK
  <1> QED
    BY <1>1, GumCoveredNow DEF GumCoveredAt

\* or while no handler of GUM runs.
LEMMA GumUntouched ==
    ASSUME GumInv, XntInv', UNCHANGED <<gum, vault, now, positions>>,
           \A q \in Open : hist'[q].emitted = hist[q].emitted /\ hist'[q].gum = hist[q].gum
    PROVE  GumCovered'
  <1>1. Open' = Open
    BY DEF Open
  <1> QED
    BY <1>1 DEF GumInv, GumCovered, GumCoveredAt

\* A withdrawal pays at most what is pending, and nothing before the lock ends.
LEMMA WithdrawPays ==
    ASSUME GumInv, NEW p \in Open
    PROVE  LET paid == IF IsEarly(p) THEN 0 ELSE AtMost(PendingGum(p, GumNow), vault)
           IN  paid \in Nat /\ paid <= PendingGum(p, GumNow)
  <1>1. PICK due \in Nat, v \in Nat : due = PendingGum(p, GumNow) /\ v = vault
    BY GumCoveredNow, GumParts DEF GumInv, XntInv
  <1>2. AtMost(due, v) \in Nat /\ AtMost(due, v) <= due /\ 0 \in Nat /\ 0 <= due
    BY SaturatingNat
  <1>3. CASE IsEarly(p)
    BY <1>1, <1>2, <1>3
  <1>4. CASE ~ IsEarly(p)
    BY <1>1, <1>2, <1>4
  <1> QED
    BY <1>3, <1>4

LEMMA GumStakeStep ==
    ASSUME GumInv, XntInv', NEW p \in Positions, NEW m \in LpMints, NEW a \in Amounts,
           NEW t \in Tiers, stake_lp(p, m, a, t)
    PROVE  GumCovered'
  <1>0. LpInv /\ AccountsOK /\ NothingBefore
    BY DEF GumInv, XntInv, LpInv
  <1>1. Open' = Open \cup {p} /\ p \notin Open
    BY <1>0, StakeStep DEF stake_lp, Open
  <1>2. GumNow \in GumType /\ GumNow.last_update = now /\ now \in Nat
    BY <1>0, GumUpToDate, GumParts
  <1>3. PICK r : r = OpenPosition(m, a, t, GumNow.acc)
    OBVIOUS
  <1>4. /\ gum' = GumNow /\ vault' = vault /\ now' = now /\ hist' = hist
        /\ positions' = [positions EXCEPT ![p] = r]
        /\ positions[p].status = "none"
    BY <1>3 DEF stake_lp
  <1>5. GumCoveredAt(p)'
    <2>1. PICK w \in Nat : w = LpWeight(a, t)
      BY AmountAssumption, LpWeightBounds
    <2>2. r.weight = w /\ r.reward_debt = Entitled(w, GumNow.acc)
      <3>1. OpenPosition(m, a, t, GumNow.acc).weight = LpWeight(a, t)
        BY DEF OpenPosition
      <3>2. OpenPosition(m, a, t, GumNow.acc).reward_debt = Entitled(LpWeight(a, t), GumNow.acc)
        BY DEF OpenPosition
      <3> QED
        BY <1>3, <2>1, <3>1, <3>2
    <2>3. hist[p].gum = 0 /\ hist[p].emitted \in Nat /\ vault \in Nat
      BY <1>0, <1>4, GumParts DEF NothingBefore
    <2>4. 0 \in Nat /\ 0 * EMISSION_DEN <= hist[p].emitted
      BY <2>3, EmissionAssumption
    <2>5. PaidAsEmitted(w, GumNow, vault, now, hist[p].emitted, 0, Entitled(w, GumNow.acc))
      BY <1>2, <2>3, <2>4, GumStarts
    <2>6. positions'[p] = r
      BY <1>0, <1>4 DEF AccountsOK, PositionsOK
    <2> QED
      BY <1>4, <2>2, <2>3, <2>5, <2>6 DEF GumCoveredAt
  <1>6. ASSUME NEW q \in Open, q # p PROVE GumCoveredAt(q)'
    <2>1. positions'[q] = positions[q]
      BY <1>0, <1>4, <1>6, OpenFinite DEF AccountsOK, PositionsOK
    <2> QED
      BY <1>4, <1>6, <2>1, GumOthers
  <1>7. gum'.last_update <= now'
    BY <1>2, <1>4
  <1> QED
    BY <1>1, <1>5, <1>6, <1>7 DEF GumCovered

LEMMA GumClaimStep ==
    ASSUME GumInv, XntInv', NEW p \in Positions, claim_lp(p)
    PROVE  GumCovered'
  <1>0. LpInv /\ AccountsOK /\ p \in Open
    BY DEF GumInv, XntInv, LpInv, claim_lp
  <1>1. Open' = Open
    BY <1>0, ClaimStep
  <1>2. GumNow.last_update = now /\ now \in Nat /\ vault \in Nat /\ vault' \in Nat
    BY <1>0, GumUpToDate, GumParts DEF XntInv, LpInv, AccountsOK, GumOK
  <1>a. PICK due \in Nat : due = PendingGum(p, GumNow)
    BY <1>0, GumCoveredNow
  <1>b. PICK e, w : w = positions[p].weight /\ e = Entitled(w, GumNow.acc)
    OBVIOUS
  <1>3. due = PendingGum(p, GumNow) /\ w = positions[p].weight /\ e = Entitled(w, GumNow.acc)
    BY <1>a, <1>b
  <1>4. PICK paid \in Nat : paid = AtMost(due, vault) /\ paid <= due
    BY <1>2, SaturatingNat
  <1>5. /\ gum' = GumNow /\ now' = now
        /\ positions' = IF due = 0 THEN positions ELSE [positions EXCEPT ![p].reward_debt = e]
        /\ hist' = [hist EXCEPT ![p].gum = @ + paid]
    BY <1>3, <1>4 DEF claim_lp
  <1>6. positions[p] \in PositionType /\ hist[p] \in HistoryType
    BY <1>0 DEF AccountsOK, PositionsOK, HistOK
  <1>7. hist'[p].gum = hist[p].gum + paid /\ hist'[p].emitted = hist[p].emitted
    BY <1>0, <1>5, <1>6 DEF AccountsOK, HistOK, HistoryType
  <1>8. positions'[p].reward_debt = e /\ positions'[p].weight = w
    <2>1. CASE due = 0
      BY <1>0, <1>3, <1>5, <2>1, GumCoveredNow
    <2>2. CASE due # 0
      BY <1>0, <1>3, <1>5, <1>6, <2>2 DEF AccountsOK, PositionsOK, PositionType
    <2> QED
      BY <2>1, <2>2
  <1>9. GumCoveredAt(p)'
    BY <1>0, <1>2, <1>3, <1>4, <1>5, <1>7, <1>8, GumCoveredNow DEF GumCoveredAt
  <1>10. ASSUME NEW q \in Open, q # p PROVE GumCoveredAt(q)'
    <2>1. positions'[q] = positions[q] /\ hist'[q] = hist[q]
      BY <1>0, <1>5, <1>10, OpenFinite DEF AccountsOK, PositionsOK, HistOK
    <2> QED
      BY <1>5, <1>10, <2>1, GumOthers
  <1>11. gum'.last_update <= now'
    BY <1>2, <1>5
  <1> QED
    BY <1>1, <1>9, <1>10, <1>11 DEF GumCovered

LEMMA GumPartialStep ==
    ASSUME GumInv, XntInv', NEW p \in Positions, NEW m \in LpMints,
           NEW a \in 1..positions[p].amount, unstake_lp_partial(p, m, a)
    PROVE  GumCovered'
  <1>0. LpInv /\ AccountsOK /\ p \in Open /\ LpInv'
    BY DEF GumInv, XntInv, LpInv, unstake_lp_partial
  <1>1. Open' = Open
    BY <1>0, PartialStep
  <1>2. /\ GumNow \in GumType /\ GumNow.last_update = now /\ now \in Nat
        /\ vault' \in Nat /\ hist[p].emitted \in Nat /\ hist[p].gum \in Nat
    BY <1>0, GumUpToDate, GumParts DEF LpInv, AccountsOK, GumOK
  <1>a. PICK paid \in Nat :
           /\ paid = IF IsEarly(p) THEN 0 ELSE AtMost(PendingGum(p, GumNow), vault)
           /\ paid <= PendingGum(p, GumNow)
    BY <1>0, WithdrawPays
  <1>b. PICK x, r : x = SettledFor(p).paid /\ r = Shrunk(p, a)
    OBVIOUS
  <1>3. /\ paid = IF IsEarly(p) THEN 0 ELSE AtMost(PendingGum(p, GumNow), vault)
        /\ paid <= PendingGum(p, GumNow)
        /\ x = SettledFor(p).paid /\ r = Shrunk(p, a)
    BY <1>a, <1>b
  <1>4. /\ gum' = GumNow /\ now' = now
        /\ positions' = [positions EXCEPT ![p] = r]
        /\ hist' = [hist EXCEPT ![p].xnt = @ + x, ![p].gum = @ + paid]
    BY <1>3 DEF unstake_lp_partial, Withdraw, SettledFor
  <1>5. /\ hist'[p].gum = hist[p].gum + paid /\ hist'[p].emitted = hist[p].emitted
        /\ positions'[p] = r
    BY <1>0, <1>4 DEF AccountsOK, HistOK, HistoryType, PositionsOK
  <1>6. PICK w \in Nat : w = r.weight /\ r.reward_debt = Entitled(w, GumNow.acc)
    <2>1. r.weight \in Nat
      BY <1>0, <1>5 DEF LpInv, AccountsOK, PositionsOK, PositionType
    <2>2. r.reward_debt = Entitled(r.weight, GumNow.acc)
      BY <1>0, <1>3, OpenPositionParts DEF Shrunk, GumDebtAtNewWeight, PositionType
    <2> QED
      BY <2>1, <2>2
  <1>7. GumCoveredAt(p)'
    <2>1. PICK got \in Nat, due \in Nat, den \in Nat :
             /\ got = hist[p].gum /\ due = PendingGum(p, GumNow) /\ den = EMISSION_DEN
             /\ (got + due) * den <= hist[p].emitted /\ paid <= due
      BY <1>0, <1>2, <1>3, GumCoveredNow, EmissionAssumption
    <2>2. (got + paid) * EMISSION_DEN <= hist[p].emitted
      <3>1. den * (got + paid) <= den * (got + due)
        BY <2>1, ProductGrows
      <3>2. den * (got + paid) = (got + paid) * den /\ den * (got + due) = (got + due) * den
        OBVIOUS
      <3>3. (got + paid) * den \in Nat /\ (got + due) * den \in Nat
        OBVIOUS
      <3> QED
        BY <1>2, <2>1, <3>1, <3>2, <3>3
    <2>3. got + paid \in Nat
      OBVIOUS
    <2>4. PaidAsEmitted(w, GumNow, vault', now, hist[p].emitted, got + paid, Entitled(w, GumNow.acc))
      BY <1>2, <2>2, <2>3, GumStarts
    <2> QED
      BY <1>4, <1>5, <1>6, <2>1, <2>4 DEF GumCoveredAt
  <1>8. ASSUME NEW q \in Open, q # p PROVE GumCoveredAt(q)'
    <2>1. positions'[q] = positions[q] /\ hist'[q] = hist[q]
      BY <1>0, <1>4, <1>8, OpenFinite DEF AccountsOK, PositionsOK, HistOK
    <2> QED
      BY <1>4, <1>8, <2>1, GumOthers
  <1>9. gum'.last_update <= now'
    BY <1>2, <1>4
  <1> QED
    BY <1>1, <1>7, <1>8, <1>9 DEF GumCovered

LEMMA GumFullStep ==
    ASSUME GumInv, XntInv', NEW p \in Positions, NEW m \in LpMints, unstake_lp_full(p, m)
    PROVE  GumCovered'
  <1>0. LpInv /\ AccountsOK /\ p \in Open
    BY DEF GumInv, XntInv, LpInv, unstake_lp_full
  <1>1. Open' = Open \ {p}
    BY <1>0, FullStep
  <1>2. GumNow.last_update = now /\ now \in Nat
    BY <1>0, GumUpToDate, GumParts
  <1>3. PICK paid, x, r :
           /\ paid = IF IsEarly(p) THEN 0 ELSE AtMost(PendingGum(p, GumNow), vault)
           /\ x = SettledFor(p).paid /\ r = [NoPosition EXCEPT !.status = "closed"]
    OBVIOUS
  <1>4. /\ gum' = GumNow /\ now' = now
        /\ positions' = [positions EXCEPT ![p] = r]
        /\ hist' = [hist EXCEPT ![p].xnt = @ + x, ![p].gum = @ + paid]
    BY <1>3 DEF unstake_lp_full, Withdraw, SettledFor
  <1>5. ASSUME NEW q \in Open, q # p PROVE GumCoveredAt(q)'
    <2>1. positions'[q] = positions[q] /\ hist'[q] = hist[q]
      BY <1>0, <1>4, <1>5, OpenFinite DEF AccountsOK, PositionsOK, HistOK
    <2> QED
      BY <1>4, <1>5, <2>1, GumOthers
  <1>6. gum'.last_update <= now'
    BY <1>2, <1>4
  <1> QED
    BY <1>1, <1>5, <1>6 DEF GumCovered

LEMMA GumTickStep ==
    ASSUME GumInv, XntInv', Tick
    PROVE  GumCovered'
  <1>0. LpInv /\ AccountsOK /\ GumCovered
    BY DEF GumInv, XntInv, LpInv
  <1>1. gum' = gum /\ vault' = vault /\ now' = now + 1 /\ positions' = positions /\ Open' = Open
    BY <1>0, TickStep DEF Tick
  <1>2. ASSUME NEW p \in Open PROVE GumCoveredAt(p)'
    <2>1. /\ p \in Positions /\ positions[p].weight \in Nat /\ positions[p].reward_debt \in Nat
          /\ hist[p] \in HistoryType
      BY <1>0, OpenPositionParts, GumParts
    <2>2. /\ hist'[p].emitted = hist[p].emitted + vault * EMISSION_NUM
          /\ hist'[p].gum = hist[p].gum
      BY <1>2, <2>1 DEF Tick, HistoryType
    <2>3. PaidAsEmitted(positions[p].weight, gum, vault, now, hist[p].emitted, hist[p].gum,
                        positions[p].reward_debt)
      BY <1>0 DEF GumCovered, GumCoveredAt
    <2>4. PaidAsEmitted(positions[p].weight, gum, vault, now + 1,
                        hist[p].emitted + vault * EMISSION_NUM, hist[p].gum,
                        positions[p].reward_debt)
      BY <1>0, <2>1, <2>3, GumParts, GumTicks
    <2> QED
      BY <1>1, <2>2, <2>4 DEF GumCoveredAt
  <1>3. gum'.last_update <= now'
    BY <1>0, <1>1, GumParts DEF GumCovered
  <1> QED
    BY <1>1, <1>2, <1>3 DEF GumCovered

LEMMA GumInvStep == GumInv /\ [Next]_vars => GumInv'
  <1>1. SUFFICES ASSUME GumInv, [Next]_vars PROVE GumInv'
    OBVIOUS
  <1>2. XntInv' /\ AccountsOK
    BY <1>1, XntInvStep DEF GumInv, XntInv, LpInv
  <1>3. SUFFICES GumCovered'
    BY <1>2 DEF GumInv
  <1>4. CASE UNCHANGED vars
    BY <1>1, <1>2, <1>4, GumUntouched DEF vars
  <1>5. CASE \E p \in Positions, m \in LpMints, a \in Amounts, t \in Tiers :
              stake_lp(p, m, a, t)
    BY <1>1, <1>2, <1>5, GumStakeStep
  <1>6. ASSUME NEW p \in Positions, NEW m \in LpMints, NEW a \in 1..positions[p].amount,
               unstake_lp_partial(p, m, a)
        PROVE  GumCovered'
    BY <1>1, <1>2, <1>6, GumPartialStep
  <1>7. CASE \E p \in Positions : claim_lp(p) \/ \E m \in LpMints : unstake_lp_full(p, m)
    BY <1>1, <1>2, <1>7, GumFullStep, GumClaimStep
  <1>8. ASSUME NEW p \in Positions, claim_xnt_fees_lp(p) PROVE GumCovered'
    <2>1. PICK x : hist' = [hist EXCEPT ![p].xnt = x] /\ UNCHANGED <<gum, vault, now, positions>>
      BY <1>8 DEF claim_xnt_fees_lp
    <2>2. ASSUME NEW q \in Open
          PROVE  hist'[q].emitted = hist[q].emitted /\ hist'[q].gum = hist[q].gum
      <3>1. q \in Positions /\ hist[q] \in HistoryType /\ hist[p] \in HistoryType
        BY <1>2, OpenFinite DEF AccountsOK, HistOK
      <3> QED
        BY <1>2, <2>1, <3>1 DEF AccountsOK, HistOK, HistoryType
    <2> QED
      BY <1>1, <1>2, <2>1, <2>2, GumUntouched
  <1>9. CASE sweep_xnt_pool_lp
    BY <1>1, <1>2, <1>9, GumUntouched DEF sweep_xnt_pool_lp
  <1>10. ASSUME NEW d \in Deposits, Deposit(d) PROVE GumCovered'
    <2>1. UNCHANGED <<gum, vault, now, positions>>
      BY <1>10 DEF Deposit
    <2>2. ASSUME NEW q \in Open
          PROVE  hist'[q].emitted = hist[q].emitted /\ hist'[q].gum = hist[q].gum
      <3>1. q \in Positions /\ hist[q] \in HistoryType
        BY <1>2, OpenFinite DEF AccountsOK, HistOK
      <3> QED
        BY <1>10, <3>1 DEF Deposit, HistoryType
    <2> QED
      BY <1>1, <1>2, <2>1, <2>2, GumUntouched
  <1>11. CASE Tick
    BY <1>1, <1>2, <1>11, GumTickStep
  <1> QED
    BY <1>1, <1>4, <1>5, <1>6, <1>7, <1>8, <1>9, <1>10, <1>11 DEF Next

LEMMA GumAlways == Spec => []GumInv
  <1> QED
    BY InitGum, GumInvStep, PTL DEF Spec

\* A position is paid for the time it is open and for no other: XNT only from
\* what was deposited, GUM only from what the vault emitted while it was open.
THEOREM LpEarnsOnlyWhileOpen == Spec => []EarnsOnlyWhileOpen
  <1>1. GumInv => GumOnlyWhileStaked
    BY GumCoveredNow DEF GumOnlyWhileStaked
  <1>2. GumInv => EarnsOnlyAfterStaking
    BY CreditedNow DEF EarnsOnlyAfterStaking, GumInv
  <1> QED
    BY <1>1, <1>2, GumAlways, PTL DEF EarnsOnlyWhileOpen

=============================================================================
