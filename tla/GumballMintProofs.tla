-------------------------- MODULE GumballMintProofs --------------------------
(***************************************************************************)
(* Theorems about GumballMint, for every set of minters and oracles, every *)
(* supply, price curve and timeout.                                        *)
(***************************************************************************)
EXTENDS GumballMint, SequenceTheorems, TLAPS

-----------------------------------------------------------------------------
(* Arithmetic of the split and of the shares.                              *)

\* The two fee shares of reveal_and_mint are natural and together at most the
\* payment, so the treasury's rest is never negative.
LEMMA SplitBounds ==
    ASSUME NEW paid \in Nat
    PROVE  /\ ToNft(paid) \in Nat
           /\ ToLp(paid) \in Nat
           /\ ToNft(paid) + ToLp(paid) <= paid
  BY DEF ToNft, ToLp, FEE_NFT_BPS_MINT, FEE_LP_BPS_MINT

\* The price of a mint is a positive number of lamports, at any count.
LEMMA PriceIsPositive ==
    ASSUME NEW n \in Nat
    PROVE  get_mint_price(n) \in Nat \ {0}
  BY SupplyAssumption, PriceAssumption DEF get_mint_price

\* Equal floor shares: k of them never take more than the price, and what is
\* left still covers the other units at the average price.
LEMMA SharesLeaveEnough ==
    ASSUME NEW p \in Nat, NEW q \in Nat \ {0}, NEW k \in Nat, k <= q
    PROVE  /\ UnitShare(p, q) \in Nat
           /\ Taken(p, q, k) \in Nat
           /\ Taken(p, q, k) <= p
           /\ Taken(p, q, k + 1) = Taken(p, q, k) + UnitShare(p, q)
           /\ (p - Taken(p, q, k)) * q >= p * (q - k)
  <1> DEFINE f == p \div q
  <1>1. f \in Nat /\ q * f <= p
    OBVIOUS
  <1> HIDE DEF f
  <1>2. k * f \in Nat /\ k * f <= q * f /\ (k + 1) * f = k * f + f
    BY <1>1
  <1>3. k * (q * f) <= k * p
    BY <1>1
  <1>4. k * f <= p
    BY <1>1, <1>2
  <1>5. (p - k * f) * q = p * q - k * (q * f)
    BY <1>1
  <1>6. p * (q - k) = p * q - k * p
    OBVIOUS
  <1>7. (p - k * f) * q >= p * (q - k)
    BY <1>1, <1>3, <1>5, <1>6
  <1> QED
    BY <1>1, <1>2, <1>4, <1>7 DEF f, UnitShare, Taken

LEMMA NothingTaken ==
    ASSUME NEW p \in Nat, NEW q \in Nat \ {0}
    PROVE  Taken(p, q, 0) = 0
  <1>1. UnitShare(p, q) \in Nat
    BY DEF UnitShare
  <1> QED
    BY <1>1 DEF Taken

\* Distributing a payment keeps the three revenue counters natural.
LEMMA DistributeType ==
    ASSUME NEW paid \in Nat,
           revenue \in [treasury : Nat, nft_pool : Nat, lp_pool : Nat],
           Distribute(paid)
    PROVE  revenue' \in [treasury : Nat, nft_pool : Nat, lp_pool : Nat]
  <1>1. /\ ToNft(paid) \in Nat
        /\ ToLp(paid) \in Nat
        /\ ToNft(paid) + ToLp(paid) <= paid
    BY SplitBounds
  <1>2. paid - ToNft(paid) - ToLp(paid) \in Nat
    BY <1>1
  <1> QED
    BY <1>1, <1>2 DEF Distribute

-----------------------------------------------------------------------------
(* The inductive invariant, one lemma per kind of step.                    *)

Balanced(req, l) == l.paid = l.forwarded + l.refunded + req.lamports

LEMMA InitInvariant == Init => MintInvariant
  <1> SUFFICES ASSUME Init PROVE MintInvariant
    OBVIOUS
  <1>1. TypeOK
    BY TimeoutAssumption DEF Init, TypeOK, NoRequest, RequestType, LedgerType
  <1>2. EscrowExact
    BY DEF Init, EscrowExact, NoRequest, HoldsItsShare
  <1>3. EveryLamportAccounted
    BY DEF Init, EveryLamportAccounted, NoRequest
  <1>4. UsedCommits /\ CommitServesOnce
    BY DEF Init, UsedCommits, CommitServesOnce, NoRequest
  <1>5. LedgerExact
    BY DEF Init, LedgerExact, NoRequest, LedgerMatches
  <1>6. SerialsContiguous
    BY DEF Init, SerialsContiguous
  <1> QED
    BY <1>1, <1>2, <1>3, <1>4, <1>5, <1>6 DEF MintInvariant

\* A step that gives one request and its ledger good new values, and leaves
\* the other requests alone, keeps the parts about requests.
LEMMA OneRequestChanges ==
    ASSUME TypeOK, EscrowExact, EveryLamportAccounted, LedgerExact,
           NEW r \in Requests,
           NEW req \in RequestType, NEW l \in LedgerType,
           HoldsItsShare(req), LedgerMatches(req, l), Balanced(req, l),
           requests' = [requests EXCEPT ![r] = req],
           ledger' = [ledger EXCEPT ![r] = l]
    PROVE  /\ requests' \in [Requests -> RequestType]
           /\ ledger' \in [Requests -> LedgerType]
           /\ EscrowExact'
           /\ EveryLamportAccounted'
           /\ LedgerExact'
  <1>1. /\ requests' \in [Requests -> RequestType]
        /\ ledger' \in [Requests -> LedgerType]
    BY DEF TypeOK
  <1>2. /\ requests'[r] = req
        /\ ledger'[r] = l
        /\ \A s \in Requests : s # r => requests'[s] = requests[s] /\ ledger'[s] = ledger[s]
    BY DEF TypeOK
  <1>3. EscrowExact'
    BY <1>2 DEF EscrowExact
  <1>4. EveryLamportAccounted'
    BY <1>2 DEF EveryLamportAccounted, Balanced
  <1>5. LedgerExact'
    BY <1>2 DEF LedgerExact
  <1> QED
    BY <1>1, <1>3, <1>4, <1>5

\* Administration, and new commitments, touch no request and no gumball.
LEMMA AdminPreserves ==
    ASSUME MintInvariant,
           Admin \/ \E c \in Commits : SubmitCommitment(c)
    PROVE  MintInvariant'
  <1>1. TypeOK'
    <2> USE DEF MintInvariant, TypeOK
    <2>1. CASE \E o \in Oracles : SetOracle(o)
      BY <2>1 DEF SetOracle
    <2>2. CASE \E b \in BOOLEAN : SetActive(b)
      BY <2>2 DEF SetActive
    <2>3. CASE \E p \in MintPrices : SetMintPrice(p)
      BY <2>3 DEF SetMintPrice
    <2>4. CASE MigrateMachine
      BY <2>4 DEF MigrateMachine
    <2>5. CASE \E c \in Commits : SubmitCommitment(c)
      BY <2>5 DEF SubmitCommitment
    <2> QED
      BY <2>1, <2>2, <2>3, <2>4, <2>5 DEF Admin
  <1>2. /\ UNCHANGED <<requests, ledger, gumballs>>
        /\ machine'.total_minted = machine.total_minted
    BY DEF MintInvariant, TypeOK, Admin, SetOracle, SetActive, SetMintPrice,
           MigrateMachine, SubmitCommitment
  <1>3. UsedCommits'
    <2>1. \A c \in Commits : commits[c] = "used" => commits'[c] = "used"
      BY DEF MintInvariant, TypeOK, Admin, SetOracle, SetActive, SetMintPrice,
             MigrateMachine, SubmitCommitment
    <2> QED
      BY <1>2, <2>1 DEF MintInvariant, UsedCommits, Requests, CommitOf
  <1>4. EscrowExact' /\ EveryLamportAccounted' /\ LedgerExact' /\ CommitServesOnce'
    BY <1>2 DEF MintInvariant, EscrowExact, EveryLamportAccounted, LedgerExact,
                CommitServesOnce
  <1>5. SerialsContiguous'
    BY <1>2 DEF MintInvariant, SerialsContiguous
  <1> QED
    BY <1>1, <1>3, <1>4, <1>5 DEF MintInvariant

LEMMA RequestMintPreserves ==
    ASSUME MintInvariant,
           NEW m \in Minters, NEW c \in Commits, NEW q \in 1..MAX_PER_TX,
           RequestMint(m, c, q)
    PROVE  MintInvariant'
  <1> DEFINE r == <<m, c>>
             cost == BatchCost(machine.total_minted, q)
             new == [status |-> "pending", quantity |-> q,
                     remaining_quantity |-> q, paid_amount |-> cost,
                     age |-> 0, lamports |-> RENT + cost]
             l == [ledger[r] EXCEPT !.paid = @ + RENT + cost]
  <1>1. /\ r \in Requests
        /\ CommitOf(r) = c
        /\ cost \in Nat
        /\ q \in Nat \ {0}
    BY DEF RequestMint, Requests, CommitOf
  <1>2. /\ commits[c] = "unused"
        /\ requests' = [requests EXCEPT ![r] = new]
        /\ commits' = [commits EXCEPT ![c] = "used"]
        /\ ledger' = [ledger EXCEPT ![r] = l]
        /\ UNCHANGED <<machine, revenue, gumballs, blanks>>
    BY DEF RequestMint, MarkUsed
  <1>3. \A s \in Requests : CommitOf(s) = c => requests[s].status = "none"
    BY <1>2 DEF MintInvariant, UsedCommits
  <1> HIDE DEF r, cost
  <1>4. /\ ledger[r] \in LedgerType
        /\ requests[r].status = "none"
        /\ requests[r].lamports = 0
        /\ ledger[r].minted = 0
        /\ ledger[r].refunded = 0
        /\ ledger[r].paid = ledger[r].forwarded
    <2>1. requests[r].status = "none" /\ requests[r] \in RequestType /\ ledger[r] \in LedgerType
      BY <1>1, <1>3 DEF MintInvariant, TypeOK
    <2>2. HoldsItsShare(requests[r]) /\ LedgerMatches(requests[r], ledger[r])
      BY <1>1 DEF MintInvariant, EscrowExact, LedgerExact
    <2>3. ledger[r].paid = ledger[r].forwarded + ledger[r].refunded + requests[r].lamports
      BY <1>1 DEF MintInvariant, EveryLamportAccounted
    <2> QED
      BY <2>1, <2>2, <2>3 DEF HoldsItsShare, LedgerMatches, RequestType, LedgerType
  <1>5. new \in RequestType /\ l \in LedgerType
    <2>1. new \in RequestType
      BY TimeoutAssumption, LamportAssumption, <1>1 DEF RequestType
    <2>2. ledger[r].paid + RENT + cost \in Nat
      BY LamportAssumption, <1>1, <1>4 DEF LedgerType
    <2>3. l \in LedgerType
      BY <1>4, <2>2 DEF LedgerType
    <2> QED
      BY <2>1, <2>3
  <1>6. HoldsItsShare(new)
    BY <1>1, NothingTaken DEF HoldsItsShare
  <1>7. LedgerMatches(new, l) /\ Balanced(new, l)
    BY LamportAssumption, <1>1, <1>4 DEF LedgerMatches, Balanced, LedgerType
  <1> HIDE DEF new, l
  <1>8. /\ requests' \in [Requests -> RequestType]
        /\ ledger' \in [Requests -> LedgerType]
        /\ EscrowExact' /\ EveryLamportAccounted' /\ LedgerExact'
    BY <1>1, <1>2, <1>5, <1>6, <1>7, OneRequestChanges DEF MintInvariant
  <1>9. TypeOK'
    BY <1>2, <1>8 DEF MintInvariant, TypeOK
  <1>10. UsedCommits'
    BY <1>1, <1>2 DEF MintInvariant, TypeOK, UsedCommits, Requests, CommitOf
  <1>11. CommitServesOnce'
    BY <1>1, <1>2, <1>3 DEF MintInvariant, TypeOK, CommitServesOnce
  <1>12. SerialsContiguous'
    BY <1>2 DEF MintInvariant, SerialsContiguous
  <1> QED
    BY <1>8, <1>9, <1>10, <1>11, <1>12 DEF MintInvariant

\* What is known of a request the oracle may reveal, or that may be refunded.
LEMMA PendingRequest ==
    ASSUME NEW req \in RequestType, NEW l \in LedgerType,
           req.status = "pending",
           HoldsItsShare(req), LedgerMatches(req, l), Balanced(req, l),
           NEW p, p = req.paid_amount,
           NEW q, q = req.quantity,
           NEW k, k = l.minted
    PROVE  /\ p \in Nat /\ q \in Nat \ {0} /\ k \in Nat
           /\ req.remaining_quantity \in 1..q
           /\ req.remaining_quantity = q - k
           /\ req.lamports \in Nat
           /\ UnitShare(p, q) \in Nat
           /\ Taken(p, q, k) \in Nat
           /\ Taken(p, q, k) <= p
           /\ Taken(p, q, k + 1) = Taken(p, q, k) + UnitShare(p, q)
           /\ Taken(p, q, k + 1) <= p
           /\ req.lamports = RENT + p - Taken(p, q, k)
           /\ l.forwarded \in Nat
           /\ l.refunded = 0
           /\ l.paid = l.forwarded + req.lamports
  <1>1. /\ p \in Nat /\ q \in Nat /\ k \in Nat
        /\ l.forwarded \in Nat /\ l.paid \in Nat
        /\ req.remaining_quantity \in Nat
        /\ req.lamports \in Nat
    BY DEF RequestType, LedgerType
  <1>2. /\ req.remaining_quantity \in 1..q
        /\ k = q - req.remaining_quantity
        /\ l.refunded = 0
    BY <1>1 DEF HoldsItsShare, LedgerMatches
  <1>3. /\ q - req.remaining_quantity = k
        /\ req.remaining_quantity = q - k
        /\ q \in Nat \ {0}
        /\ k + 1 \in Nat
        /\ k <= q
        /\ k + 1 <= q
    BY <1>1, <1>2
  <1>4. req.lamports = RENT + p - Taken(p, q, k)
    BY <1>3 DEF HoldsItsShare
  <1>5. l.paid = l.forwarded + req.lamports
    BY <1>1, <1>2 DEF Balanced
  <1>6. /\ UnitShare(p, q) \in Nat
        /\ Taken(p, q, k) \in Nat
        /\ Taken(p, q, k) <= p
        /\ Taken(p, q, k + 1) = Taken(p, q, k) + UnitShare(p, q)
    <2>1. k \in Nat /\ k <= q /\ p \in Nat /\ q \in Nat \ {0}
      BY <1>1, <1>3
    <2> QED
      BY <2>1, SharesLeaveEnough, Zenon
  <1>7. Taken(p, q, k + 1) <= p
    <2>1. k + 1 \in Nat /\ k + 1 <= q /\ p \in Nat /\ q \in Nat \ {0}
      BY <1>1, <1>3
    <2> QED
      BY <2>1, SharesLeaveEnough, Zenon
  <1> QED
    BY <1>1, <1>2, <1>3, <1>4, <1>5, <1>6, <1>7

LEMMA RevealPreserves ==
    ASSUME MintInvariant,
           NEW r \in Requests, NEW rarity \in Rarities,
           RevealAndMint(r, rarity)
    PROVE  MintInvariant'
  <1> DEFINE req == requests[r]
             l == ledger[r]
             p == req.paid_amount
             q == req.quantity
             k == l.minted
             f == UnitShare(p, q)
             paid == Share(req)
             left == req.remaining_quantity - 1
             new == [req EXCEPT !.lamports = @ - paid,
                                !.remaining_quantity = left,
                                !.status = IF left = 0 THEN "fulfilled" ELSE @]
             newl == [l EXCEPT !.forwarded = @ + paid, !.minted = @ + 1]
             g == NewGumball(r[1], rarity)
  <1>1. /\ req.status = "pending"
        /\ req.remaining_quantity = 1 => paid > 0
        /\ requests' = [requests EXCEPT ![r] = new]
        /\ Distribute(paid)
        /\ gumballs' = Append(gumballs, g)
        /\ machine' = [machine EXCEPT !.total_minted = @ + 1]
        /\ ledger' = [ledger EXCEPT ![r] = newl]
        /\ UNCHANGED <<commits, blanks>>
    BY DEF RevealAndMint, Pending
  <1>2. /\ req \in RequestType
        /\ l \in LedgerType
        /\ HoldsItsShare(req) /\ LedgerMatches(req, l) /\ Balanced(req, l)
    BY DEF MintInvariant, TypeOK, EscrowExact, LedgerExact, EveryLamportAccounted, Balanced
  <1>3. /\ p \in Nat /\ q \in Nat \ {0} /\ k \in Nat
        /\ req.remaining_quantity \in 1..q
        /\ req.remaining_quantity = q - k
        /\ req.lamports \in Nat
        /\ f \in Nat
        /\ Taken(p, q, k) \in Nat
        /\ Taken(p, q, k) <= p
        /\ Taken(p, q, k + 1) = Taken(p, q, k) + f
        /\ Taken(p, q, k + 1) <= p
        /\ req.lamports = RENT + p - Taken(p, q, k)
        /\ l.forwarded \in Nat
        /\ l.refunded = 0
        /\ l.paid = l.forwarded + req.lamports
    BY <1>1, <1>2, PendingRequest
  <1>4. /\ left # 0 => paid = f
        /\ left = 0 => paid = req.lamports - RENT
        /\ paid \in Nat
        /\ paid <= req.lamports
        /\ left \in Nat
    <2>1. left \in Nat
      BY <1>3
    <2>2. left # 0 => paid = f
      BY <1>3 DEF Share
    <2>3. left = 0 => paid = req.lamports - RENT /\ paid \in Nat
      <3>1. CASE req.lamports > RENT
        BY <1>3, <3>1, LamportAssumption DEF Share
      <3>2. CASE ~(req.lamports > RENT)
        BY <1>1, <1>3, <3>2, LamportAssumption DEF Share
      <3> QED
        BY <3>1, <3>2
    <2>4. f <= req.lamports
      BY <1>3, LamportAssumption
    <2> HIDE DEF paid, left, f
    <2>5. left = 0 => paid <= req.lamports
      BY <1>3, <2>3, LamportAssumption
    <2> QED
      BY <1>3, <2>1, <2>2, <2>3, <2>4, <2>5
  <1> HIDE DEF paid, left, f
  <1>5. new \in RequestType
    <2>1. req.lamports - paid \in Nat
      BY <1>3, <1>4
    <2> QED
      BY <1>2, <1>4, <2>1 DEF RequestType
  <1>6. /\ new.lamports = req.lamports - paid
        /\ new.remaining_quantity = left
        /\ new.status = IF left = 0 THEN "fulfilled" ELSE "pending"
        /\ new.quantity = q
        /\ new.paid_amount = p
    BY <1>1, <1>2 DEF RequestType
  <1>7. newl \in LedgerType
    <2>1. l.forwarded + paid \in Nat /\ l.minted + 1 \in Nat
      BY <1>3, <1>4
    <2> QED
      BY <1>2, <2>1 DEF LedgerType
  <1>8. /\ newl.forwarded = l.forwarded + paid
        /\ newl.minted = k + 1
        /\ newl.paid = l.paid
        /\ newl.refunded = 0
    BY <1>2, <1>3 DEF LedgerType
  <1>9. /\ q - left = k + 1
        /\ left = q - (k + 1)
        /\ left # 0 => left \in 1..q
    BY <1>3 DEF left
  <1> HIDE DEF req, l, p, q, k, new, newl, g
  <1>10. HoldsItsShare(new)
    <2>1. CASE left = 0
      BY LamportAssumption, <1>3, <1>4, <1>6, <2>1 DEF HoldsItsShare
    <2>2. CASE left # 0
      <3>1. req.lamports - paid = RENT + p - Taken(p, q, q - left)
        BY LamportAssumption, <1>3, <1>4, <1>9, <2>2
      <3> QED
        BY <1>6, <1>9, <2>2, <3>1 DEF HoldsItsShare
    <2> QED
      BY <2>1, <2>2
  <1>11. LedgerMatches(new, newl)
    BY <1>6, <1>8, <1>9 DEF LedgerMatches
  <1>12. Balanced(new, newl)
    BY <1>3, <1>4, <1>6, <1>8 DEF Balanced
  <1>13. /\ requests' \in [Requests -> RequestType]
         /\ ledger' \in [Requests -> LedgerType]
         /\ EscrowExact' /\ EveryLamportAccounted' /\ LedgerExact'
    BY <1>1, <1>5, <1>7, <1>10, <1>11, <1>12, OneRequestChanges DEF MintInvariant
  <1>14. TypeOK'
    <2>1. revenue' \in [treasury : Nat, nft_pool : Nat, lp_pool : Nat]
      BY <1>1, <1>4, DistributeType DEF MintInvariant, TypeOK
    <2>2. gumballs' \in Seq(GumballType)
      <3>1. g \in GumballType
        <4>1. machine.total_minted + 1 \in Nat
          BY DEF MintInvariant, TypeOK
        <4>2. r[1] \in Minters
          BY DEF Requests
        <4> QED
          BY <4>1, <4>2 DEF g, NewGumball, GumballType
      <3> QED
        BY <1>1, <3>1 DEF MintInvariant, TypeOK
    <2>3. machine' \in [oracle : Oracles, is_active : BOOLEAN, mint_price : MintPrices,
                        total_minted : Nat, total_burned : Nat]
      <3>1. machine.total_minted + 1 \in Nat
        BY DEF MintInvariant, TypeOK
      <3> QED
        BY <1>1, <3>1 DEF MintInvariant, TypeOK
    <2> QED
      BY <1>1, <1>13, <2>1, <2>2, <2>3 DEF MintInvariant, TypeOK
  <1>15. \A s \in Requests : requests'[s].status # "none" => requests[s].status # "none"
    BY <1>1 DEF MintInvariant, TypeOK, req
  <1>16. UsedCommits' /\ CommitServesOnce'
    BY <1>1, <1>15 DEF MintInvariant, UsedCommits, CommitServesOnce
  <1>17. SerialsContiguous'
    BY <1>1 DEF MintInvariant, SerialsContiguous, TypeOK, g, NewGumball
  <1> QED
    BY <1>13, <1>14, <1>16, <1>17 DEF MintInvariant

\* A late reveal and a refund are the same step of the escrow.
LEMMA ReturnPreserves ==
    ASSUME MintInvariant, NEW r \in Requests, RevealExpired(r) \/ RefundMint(r)
    PROVE  MintInvariant'
  <1> DEFINE req == requests[r]
             l == ledger[r]
             p == req.paid_amount
             q == req.quantity
             k == l.minted
             new == [req EXCEPT !.status = "closed", !.lamports = 0]
             newl == [l EXCEPT !.refunded = @ + req.lamports]
  <1>1. /\ req.status = "pending"
        /\ requests' = [requests EXCEPT ![r] = new]
        /\ ledger' = [ledger EXCEPT ![r] = newl]
        /\ UNCHANGED <<machine, commits, revenue, gumballs>>
    BY DEF RevealExpired, RefundMint, ReturnEscrow, Pending
  <1>2. /\ req \in RequestType
        /\ l \in LedgerType
        /\ HoldsItsShare(req) /\ LedgerMatches(req, l) /\ Balanced(req, l)
    BY DEF MintInvariant, TypeOK, EscrowExact, LedgerExact, EveryLamportAccounted, Balanced
  <1>3. /\ q \in Nat \ {0} /\ k \in Nat
        /\ req.remaining_quantity \in 1..q
        /\ req.remaining_quantity = q - k
        /\ req.lamports \in Nat
        /\ req.lamports = RENT + p - Taken(p, q, k)
        /\ l.forwarded \in Nat
        /\ l.refunded = 0
        /\ l.paid = l.forwarded + req.lamports
    BY <1>1, <1>2, PendingRequest
  <1>4. /\ new \in RequestType
        /\ new.status = "closed"
        /\ new.lamports = 0
        /\ new.quantity = q
        /\ new.remaining_quantity = req.remaining_quantity
        /\ new.paid_amount = p
    BY <1>2 DEF RequestType
  <1>5. /\ newl \in LedgerType
        /\ newl.refunded = req.lamports
        /\ newl.minted = k
        /\ newl.paid = l.paid
        /\ newl.forwarded = l.forwarded
    <2>1. l.refunded + req.lamports = req.lamports
      BY <1>3
    <2> QED
      BY <1>2, <1>3, <2>1 DEF LedgerType
  <1> HIDE DEF req, l, p, q, k, new, newl
  <1>6. HoldsItsShare(new)
    BY <1>4 DEF HoldsItsShare
  <1>7. LedgerMatches(new, newl)
    BY <1>3, <1>4, <1>5 DEF LedgerMatches
  <1>8. Balanced(new, newl)
    BY <1>3, <1>4, <1>5 DEF Balanced
  <1>9. /\ requests' \in [Requests -> RequestType]
        /\ ledger' \in [Requests -> LedgerType]
        /\ EscrowExact' /\ EveryLamportAccounted' /\ LedgerExact'
    BY <1>1, <1>4, <1>5, <1>6, <1>7, <1>8, OneRequestChanges DEF MintInvariant
  <1>10. TypeOK'
    <2>1. blanks' \in Nat
      BY DEF RevealExpired, RefundMint, MintInvariant, TypeOK
    <2> QED
      BY <1>1, <1>9, <2>1 DEF MintInvariant, TypeOK
  <1>11. \A s \in Requests : requests'[s].status # "none" => requests[s].status # "none"
    BY <1>1 DEF MintInvariant, TypeOK, req
  <1>12. UsedCommits' /\ CommitServesOnce'
    BY <1>1, <1>11 DEF MintInvariant, UsedCommits, CommitServesOnce
  <1>13. SerialsContiguous'
    BY <1>1 DEF MintInvariant, SerialsContiguous
  <1> QED
    BY <1>9, <1>10, <1>12, <1>13 DEF MintInvariant

\* Clearing owners leaves the length and the serials of the collection.
LEMMA ClearingOwners ==
    ASSUME gumballs \in Seq(GumballType), NEW S
    PROVE  /\ WithoutOwners(S) \in Seq(GumballType)
           /\ Len(WithoutOwners(S)) = Len(gumballs)
           /\ \A i \in DOMAIN gumballs : WithoutOwners(S)[i].serial = gumballs[i].serial
  <1> DEFINE n == Len(gumballs)
             w(i) == IF i \in S THEN [gumballs[i] EXCEPT !.owner = NoOwner] ELSE gumballs[i]
  <1>1. n \in Nat /\ DOMAIN gumballs = 1..n
    OBVIOUS
  <1>2. \A i \in 1..n : gumballs[i] \in GumballType
    OBVIOUS
  <1>3. \A i \in 1..n : w(i) \in GumballType /\ w(i).serial = gumballs[i].serial
    BY <1>2 DEF GumballType
  <1>4. WithoutOwners(S) = [i \in 1..n |-> w(i)]
    BY <1>1 DEF WithoutOwners
  <1> HIDE DEF w
  <1>5. WithoutOwners(S) \in [1..n -> GumballType]
    BY <1>3, <1>4
  <1>6. WithoutOwners(S) \in Seq(GumballType)
    BY <1>1, <1>5, SeqDef
  <1>7. Len(WithoutOwners(S)) = n
    BY <1>1, <1>4, <1>6, LenProperties
  <1> QED
    BY <1>1, <1>3, <1>4, <1>6, <1>7

LEMMA UpgradePreserves ==
    ASSUME MintInvariant,
           NEW b \in Minters, NEW S \in SUBSET DOMAIN gumballs, NEW rarity \in Rarities,
           Upgrade(b, S, rarity)
    PROVE  MintInvariant'
  <1> DEFINE g == NewGumball(b, rarity + 1)
  <1>1. /\ rarity < RARITY_LEGENDARY
        /\ Distribute(get_mint_price(machine.total_minted))
        /\ gumballs' = Append(WithoutOwners(S), g)
        /\ machine' = [machine EXCEPT !.total_minted = @ + 1,
                                      !.total_burned = @ + BURNS_REQUIRED[rarity]]
        /\ UNCHANGED <<commits, requests, ledger, blanks>>
    BY DEF Upgrade
  <1>2. /\ machine.total_minted \in Nat
        /\ machine.total_burned \in Nat
        /\ revenue \in [treasury : Nat, nft_pool : Nat, lp_pool : Nat]
        /\ gumballs \in Seq(GumballType)
    BY DEF MintInvariant, TypeOK
  <1>3. machine' \in [oracle : Oracles, is_active : BOOLEAN, mint_price : MintPrices,
                      total_minted : Nat, total_burned : Nat]
    <2>1. BURNS_REQUIRED[rarity] \in Nat
      BY <1>1, RarityAssumption DEF Rarities
    <2>2. machine.total_minted + 1 \in Nat /\ machine.total_burned + BURNS_REQUIRED[rarity] \in Nat
      BY <1>2, <2>1
    <2> QED
      BY <1>1, <2>2 DEF MintInvariant, TypeOK
  <1>4. revenue' \in [treasury : Nat, nft_pool : Nat, lp_pool : Nat]
    <2>1. get_mint_price(machine.total_minted) \in Nat
      BY <1>2, PriceIsPositive
    <2> QED
      BY <1>1, <1>2, <2>1, DistributeType
  <1>5. g \in GumballType /\ g.serial = machine.total_minted + 1
    <2>1. rarity + 1 \in Rarities
      BY <1>1, RarityAssumption DEF Rarities
    <2>2. machine.total_minted + 1 \in Nat
      BY <1>2
    <2> QED
      BY <2>1, <2>2 DEF NewGumball, GumballType
  <1> HIDE DEF g
  <1>6. gumballs' \in Seq(GumballType)
    BY <1>1, <1>2, <1>5, ClearingOwners
  <1>7. SerialsContiguous'
    <2> DEFINE w == WithoutOwners(S)
               n == Len(gumballs)
    <2>1. /\ w \in Seq(GumballType)
          /\ Len(w) = n
          /\ \A i \in 1..n : w[i].serial = gumballs[i].serial
      BY <1>2, ClearingOwners
    <2>2. /\ machine.total_minted = n
          /\ \A i \in 1..n : gumballs[i].serial = i
      BY <1>2 DEF MintInvariant, SerialsContiguous
    <2>3. n \in Nat
      BY <1>2
    <2> HIDE DEF w, n
    <2>4. /\ Len(gumballs') = n + 1
          /\ DOMAIN gumballs' = 1..(n + 1)
          /\ \A i \in 1..n : gumballs'[i] = w[i]
          /\ gumballs'[n + 1] = g
      BY <1>1, <1>5, <2>1, <2>3 DEF w
    <2>5. machine'.total_minted = n + 1
      BY <1>1, <2>2 DEF MintInvariant, TypeOK
    <2>6. \A i \in 1..(n + 1) : gumballs'[i].serial = i
      <3> SUFFICES ASSUME NEW i \in 1..(n + 1) PROVE gumballs'[i].serial = i
        OBVIOUS
      <3>1. CASE i \in 1..n
        BY <2>1, <2>2, <2>4, <3>1
      <3>2. CASE i = n + 1
        BY <1>5, <2>2, <2>4, <3>2
      <3> QED
        BY <2>3, <3>1, <3>2
    <2> QED
      BY <2>4, <2>5, <2>6 DEF SerialsContiguous
  <1>8. TypeOK'
    BY <1>1, <1>3, <1>4, <1>6 DEF MintInvariant, TypeOK
  <1>9. /\ EscrowExact' /\ EveryLamportAccounted' /\ LedgerExact'
        /\ UsedCommits' /\ CommitServesOnce'
    BY <1>1 DEF MintInvariant, EscrowExact, EveryLamportAccounted, LedgerExact,
                UsedCommits, CommitServesOnce
  <1> QED
    BY <1>7, <1>8, <1>9 DEF MintInvariant

LEMMA TickPreserves ==
    ASSUME MintInvariant, Tick
    PROVE  MintInvariant'
  <1>1. /\ requests' = [r \in Requests |->
                          IF Pending(r) /\ ~TimedOut(r)
                          THEN [requests[r] EXCEPT !.age = @ + 1]
                          ELSE requests[r]]
        /\ UNCHANGED <<machine, commits, ledger, revenue, gumballs, blanks>>
    BY DEF Tick
  <1>2. \A r \in Requests : requests[r] \in RequestType
    BY DEF MintInvariant, TypeOK
  <1>3. \A r \in Requests :
          /\ requests'[r] \in RequestType
          /\ requests'[r].status = requests[r].status
          /\ requests'[r].quantity = requests[r].quantity
          /\ requests'[r].remaining_quantity = requests[r].remaining_quantity
          /\ requests'[r].paid_amount = requests[r].paid_amount
          /\ requests'[r].lamports = requests[r].lamports
    <2> SUFFICES ASSUME NEW r \in Requests
                 PROVE  /\ requests'[r] \in RequestType
                        /\ requests'[r].status = requests[r].status
                        /\ requests'[r].quantity = requests[r].quantity
                        /\ requests'[r].remaining_quantity = requests[r].remaining_quantity
                        /\ requests'[r].paid_amount = requests[r].paid_amount
                        /\ requests'[r].lamports = requests[r].lamports
      OBVIOUS
    <2>1. CASE Pending(r) /\ ~TimedOut(r)
      <3>1. requests'[r] = [requests[r] EXCEPT !.age = @ + 1]
        BY <1>1, <2>1
      <3>2. requests[r].age + 1 \in 0..(MINT_TIMEOUT + 1)
        BY <1>2, <2>1, TimeoutAssumption DEF RequestType, TimedOut
      <3> QED
        BY <1>2, <3>1, <3>2 DEF RequestType
    <2>2. CASE ~(Pending(r) /\ ~TimedOut(r))
      BY <1>1, <1>2, <2>2
    <2> QED
      BY <2>1, <2>2
  <1>4. TypeOK'
    BY <1>1, <1>3 DEF MintInvariant, TypeOK
  <1>5. EscrowExact'
    BY <1>3 DEF MintInvariant, EscrowExact, HoldsItsShare
  <1>6. EveryLamportAccounted'
    BY <1>1, <1>3 DEF MintInvariant, EveryLamportAccounted
  <1>7. LedgerExact'
    BY <1>1, <1>3 DEF MintInvariant, LedgerExact, LedgerMatches
  <1>8. UsedCommits' /\ CommitServesOnce'
    BY <1>1, <1>3 DEF MintInvariant, UsedCommits, CommitServesOnce
  <1>9. SerialsContiguous'
    BY <1>1 DEF MintInvariant, SerialsContiguous
  <1> QED
    BY <1>4, <1>5, <1>6, <1>7, <1>8, <1>9 DEF MintInvariant

-----------------------------------------------------------------------------
(* Invariants.                                                             *)

LEMMA NextPreserves == MintInvariant /\ [Next]_vars => MintInvariant'
  <1> SUFFICES ASSUME MintInvariant, [Next]_vars PROVE MintInvariant'
    OBVIOUS
  <1>1. CASE Admin \/ \E c \in Commits : SubmitCommitment(c)
    BY <1>1, AdminPreserves
  <1>2. CASE \E m \in Minters, c \in Commits, q \in 1..MAX_PER_TX : RequestMint(m, c, q)
    BY <1>2, RequestMintPreserves
  <1>3. CASE \E r \in Requests, rarity \in Rarities : RevealAndMint(r, rarity)
    BY <1>3, RevealPreserves
  <1>4. CASE \E r \in Requests : RevealExpired(r) \/ RefundMint(r)
    BY <1>4, ReturnPreserves
  <1>5. CASE Burn
    BY <1>5, UpgradePreserves DEF Burn, BurnToUpgrade, BurnMulti
  <1>6. CASE Tick
    BY <1>6, TickPreserves
  <1>7. CASE UNCHANGED vars
    BY <1>7 DEF vars, MintInvariant, TypeOK, EscrowExact, EveryLamportAccounted,
                UsedCommits, CommitServesOnce, LedgerExact, SerialsContiguous
  <1> QED
    BY <1>1, <1>2, <1>3, <1>4, <1>5, <1>6, <1>7 DEF Next, Mint

\* The inductive invariant holds in every reachable state of the mint.
THEOREM Safety == Spec => []MintInvariant
  BY InitInvariant, NextPreserves, PTL DEF Spec

\* The accounts stay well formed, and no lamport count ever goes negative.
THEOREM TypeCorrect == Spec => []TypeOK
  <1>1. MintInvariant => TypeOK
    BY DEF MintInvariant
  <1> QED
    BY <1>1, Safety, PTL

\* A commitment serves one request ever.
THEOREM OneRequestPerCommitment == Spec => []CommitServesOnce
  <1>1. MintInvariant => CommitServesOnce
    BY DEF MintInvariant
  <1> QED
    BY <1>1, Safety, PTL

\* What a minter paid is forwarded, refunded or still held, to the lamport.
THEOREM MoneyConserved == Spec => [](EscrowExact /\ EveryLamportAccounted)
  <1>1. MintInvariant => EscrowExact /\ EveryLamportAccounted
    BY DEF MintInvariant
  <1> QED
    BY <1>1, Safety, PTL

\* Serials are issued once each and without a gap.
THEOREM SerialsSound == Spec => []SerialsContiguous
  <1>1. MintInvariant => SerialsContiguous
    BY DEF MintInvariant
  <1> QED
    BY <1>1, Safety, PTL

\* A refund pays the rent and at least the average price of every gumball
\* that was not delivered, whatever part of the batch was revealed before.
THEOREM RefundIsFair == Spec => []RefundCoversUndelivered
  <1>1. MintInvariant => RefundCoversUndelivered
    <2> SUFFICES ASSUME MintInvariant, NEW r \in Requests
                 PROVE  /\ requests[r].status = "closed" =>
                             (ledger[r].refunded - RENT) * requests[r].quantity
                               >= requests[r].paid_amount
                                    * (requests[r].quantity - ledger[r].minted)
                        /\ requests[r].status = "fulfilled" =>
                             ledger[r].minted = requests[r].quantity
      BY DEF RefundCoversUndelivered
    <2> DEFINE req == requests[r]
               p == req.paid_amount
               q == req.quantity
               k == ledger[r].minted
    <2>1. req \in RequestType /\ ledger[r] \in LedgerType
      BY DEF MintInvariant, TypeOK
    <2>2. LedgerMatches(req, ledger[r]) /\ HoldsItsShare(req)
      BY DEF MintInvariant, LedgerExact, EscrowExact
    <2>3. p \in Nat /\ q \in Nat /\ k \in Nat /\ req.remaining_quantity \in Nat
      BY <2>1 DEF RequestType, LedgerType
    <2>4. ASSUME req.status = "closed"
          PROVE  (ledger[r].refunded - RENT) * q >= p * (q - k)
      <3>1. /\ req.remaining_quantity \in 1..q
            /\ k = q - req.remaining_quantity
            /\ ledger[r].refunded = RENT + p - Taken(p, q, k)
        BY <2>2, <2>4 DEF LedgerMatches
      <3>2. q \in Nat \ {0} /\ k <= q
        BY <2>3, <3>1
      <3> HIDE DEF req, p, q, k
      <3>3. /\ Taken(p, q, k) \in Nat
            /\ (p - Taken(p, q, k)) * q >= p * (q - k)
        BY <2>3, <3>2, SharesLeaveEnough
      <3>4. ledger[r].refunded - RENT = p - Taken(p, q, k)
        BY <2>3, <3>1, <3>3, LamportAssumption
      <3> QED
        BY <3>3, <3>4
    <2>5. ASSUME req.status = "fulfilled"
          PROVE  k = q
      <3>1. req.remaining_quantity = 0 /\ k = q - req.remaining_quantity
        BY <2>2, <2>5 DEF LedgerMatches, HoldsItsShare
      <3> QED
        BY <2>3, <3>1
    <2> QED
      BY <2>4, <2>5
  <1> QED
    BY <1>1, Safety, PTL

-----------------------------------------------------------------------------
(* Steps.                                                                  *)

\* What a step may do to one request: nothing but age, open it, reveal one
\* unit of it, or return its money.
LEMMA RequestSteps ==
    ASSUME MintInvariant, Next, NEW r \in Requests
    PROVE  \/ UNCHANGED <<requests[r], ledger[r]>>
           \/ Tick /\ UNCHANGED ledger
           \/ \E m \in Minters, c \in Commits, q \in 1..MAX_PER_TX :
                 r = <<m, c>> /\ RequestMint(m, c, q)
           \/ \E rarity \in Rarities : RevealAndMint(r, rarity)
           \/ ReturnEscrow(r)
  <1> USE DEF MintInvariant, TypeOK
  <1>1. CASE Admin \/ \E c \in Commits : SubmitCommitment(c)
    BY <1>1 DEF Admin, SetOracle, SetActive, SetMintPrice, MigrateMachine, SubmitCommitment
  <1>2. CASE \E m \in Minters, c \in Commits, q \in 1..MAX_PER_TX : RequestMint(m, c, q)
    <2>1. PICK m \in Minters, c \in Commits, q \in 1..MAX_PER_TX : RequestMint(m, c, q)
      BY <1>2
    <2>2. CASE r = <<m, c>>
      BY <2>1, <2>2
    <2>3. CASE r # <<m, c>>
      BY <2>1, <2>3 DEF RequestMint
    <2> QED
      BY <2>2, <2>3
  <1>3. CASE \E s \in Requests, rarity \in Rarities : RevealAndMint(s, rarity)
    <2>1. PICK s \in Requests, rarity \in Rarities : RevealAndMint(s, rarity)
      BY <1>3
    <2>2. CASE r = s
      BY <2>1, <2>2
    <2>3. CASE r # s
      BY <2>1, <2>3 DEF RevealAndMint
    <2> QED
      BY <2>2, <2>3
  <1>4. CASE \E s \in Requests : RevealExpired(s) \/ RefundMint(s)
    BY <1>4 DEF RevealExpired, RefundMint, ReturnEscrow
  <1>5. CASE Burn
    BY <1>5 DEF Burn, BurnToUpgrade, BurnMulti, Upgrade
  <1>6. CASE Tick
    BY <1>6 DEF Tick
  <1> QED
    BY <1>1, <1>2, <1>3, <1>4, <1>5, <1>6 DEF Next, Mint

\* A refunded request's account is gone, but its commitment is used for good:
\* no step opens the request again.
THEOREM ClosedForGood == Spec => ClosedStaysClosed
  <1> DEFINE A == \A r \in Requests :
                     requests[r].status = "closed" => requests'[r].status = "closed"
  <1>1. MintInvariant /\ [Next]_vars => [A]_vars
    <2> SUFFICES ASSUME MintInvariant, Next, NEW r \in Requests,
                        requests[r].status = "closed"
                 PROVE  requests'[r].status = "closed"
      OBVIOUS
    <2>1. CASE UNCHANGED <<requests[r], ledger[r]>>
      BY <2>1
    <2>2. CASE Tick
      BY <2>2 DEF Tick, Pending, MintInvariant, TypeOK
    <2>3. ASSUME NEW m \in Minters, NEW c \in Commits, NEW q \in 1..MAX_PER_TX,
                 r = <<m, c>>, RequestMint(m, c, q)
          PROVE  FALSE
      BY <2>3 DEF RequestMint, MintInvariant, UsedCommits, CommitOf
    <2>4. ASSUME NEW rarity \in Rarities, RevealAndMint(r, rarity)
          PROVE  FALSE
      BY <2>4 DEF RevealAndMint, Pending
    <2>5. CASE ReturnEscrow(r)
      BY <2>5 DEF ReturnEscrow, Pending
    <2> QED
      BY <2>1, <2>2, <2>3, <2>4, <2>5, RequestSteps
  <1> QED
    BY <1>1, Safety, PTL DEF Spec, ClosedStaysClosed

\* A gumball is minted for a request only up to MINT_TIMEOUT after it, money
\* goes back only later: the oracle and a refunder never both win.
THEOREM MintXorRefund == Spec => MintOrRefund
  <1> DEFINE A == \A r \in Requests :
                     /\ ledger'[r].minted # ledger[r].minted => requests[r].age <= MINT_TIMEOUT
                     /\ ledger'[r].refunded # ledger[r].refunded => requests[r].age > MINT_TIMEOUT
  <1>1. MintInvariant /\ [Next]_vars => [A]_vars
    <2> SUFFICES ASSUME MintInvariant, Next, NEW r \in Requests
                 PROVE  /\ ledger'[r].minted # ledger[r].minted =>
                             requests[r].age <= MINT_TIMEOUT
                        /\ ledger'[r].refunded # ledger[r].refunded =>
                             requests[r].age > MINT_TIMEOUT
      OBVIOUS
    <2>1. /\ ledger \in [Requests -> LedgerType]
          /\ ledger[r] \in LedgerType
          /\ requests[r].age \in Int
      BY TimeoutAssumption DEF MintInvariant, TypeOK, RequestType
    <2>2. CASE UNCHANGED <<requests[r], ledger[r]>>
      BY <2>2
    <2>3. CASE UNCHANGED ledger
      BY <2>3
    <2>4. ASSUME NEW m \in Minters, NEW c \in Commits, NEW q \in 1..MAX_PER_TX,
                 r = <<m, c>>, RequestMint(m, c, q)
          PROVE  ledger'[r].minted = ledger[r].minted /\ ledger'[r].refunded = ledger[r].refunded
      BY <2>1, <2>4 DEF RequestMint, LedgerType
    <2>5. ASSUME NEW rarity \in Rarities, RevealAndMint(r, rarity)
          PROVE  requests[r].age <= MINT_TIMEOUT /\ ledger'[r].refunded = ledger[r].refunded
      BY <2>1, <2>5, TimeoutAssumption DEF RevealAndMint, TimedOut, LedgerType
    <2>6. CASE ReturnEscrow(r)
      BY <2>1, <2>6 DEF ReturnEscrow, TimedOut, LedgerType
    <2> QED
      BY <2>2, <2>3, <2>4, <2>5, <2>6, RequestSteps
  <1> QED
    BY <1>1, Safety, PTL DEF Spec, MintOrRefund

\* A request has one outcome: a refunded one stays closed, and minting ends
\* where refunding begins (refund_mint, reveal_and_mint).
THEOREM OutcomeFinal == Spec => OutcomeIsFinal
  BY ClosedForGood, MintXorRefund DEF OutcomeIsFinal

\* At the cap request_mint and both burns are closed, for any supply and any
\* number of requests already admitted.
THEOREM CapCloses == Spec => AdmissionClosesAtCap
  <1>1. ASSUME MintInvariant, [Next]_vars, machine.total_minted >= MAX_SUPPLY
        PROVE  /\ \A r \in Requests : requests'[r].status = "pending" => requests[r].status = "pending"
               /\ \A i \in DOMAIN gumballs : gumballs'[i].owner = gumballs[i].owner
    <2> USE <1>1
    <2>1. machine.total_minted \in Nat /\ gumballs \in Seq(GumballType)
      BY DEF MintInvariant, TypeOK
    <2>2. ASSUME NEW m \in Minters, NEW c \in Commits, NEW q \in 1..MAX_PER_TX,
                 RequestMint(m, c, q)
          PROVE  FALSE
      BY <2>1, <2>2, SupplyAssumption DEF RequestMint, Remaining
    <2>3. ASSUME NEW b \in Minters, NEW S \in SUBSET DOMAIN gumballs, NEW rarity \in Rarities,
                 Upgrade(b, S, rarity)
          PROVE  FALSE
      BY <2>1, <2>3, SupplyAssumption DEF Upgrade
    <2>4. ~Burn
      BY <2>3 DEF Burn, BurnToUpgrade, BurnMulti
    <2>5. ASSUME NEW r \in Requests
          PROVE  requests'[r].status = "pending" => requests[r].status = "pending"
      <3>1. requests[r] \in RequestType
        BY DEF MintInvariant, TypeOK
      <3>2. CASE UNCHANGED requests[r]
        BY <3>2
      <3>3. CASE Tick
        BY <3>1, <3>3 DEF Tick, Pending
      <3>4. CASE \E rarity \in Rarities : RevealAndMint(r, rarity)
        BY <3>4 DEF RevealAndMint, Pending
      <3>5. CASE ReturnEscrow(r)
        BY <3>5 DEF ReturnEscrow, Pending
      <3>6. CASE UNCHANGED vars
        BY <3>6 DEF vars
      <3>7. CASE Next
        <4>1. \/ UNCHANGED requests[r]
              \/ Tick
              \/ \E rarity \in Rarities : RevealAndMint(r, rarity)
              \/ ReturnEscrow(r)
          BY <2>2, <3>7, RequestSteps
        <4> QED
          BY <3>2, <3>3, <3>4, <3>5, <4>1
      <3> QED
        BY <3>6, <3>7
    <2>6. ASSUME NEW i \in DOMAIN gumballs
          PROVE  gumballs'[i].owner = gumballs[i].owner
      <3>1. CASE UNCHANGED gumballs
        BY <3>1
      <3>2. ASSUME NEW r \in Requests, NEW rarity \in Rarities, RevealAndMint(r, rarity)
            PROVE  gumballs'[i].owner = gumballs[i].owner
        <4>1. gumballs' = Append(gumballs, NewGumball(r[1], rarity))
          BY <3>2 DEF RevealAndMint
        <4>2. gumballs'[i] = gumballs[i]
          BY <2>1, <4>1
        <4> QED
          BY <4>2
      <3> QED
        BY <2>2, <2>4, <3>1, <3>2
           DEF Next, Admin, SetOracle, SetActive, SetMintPrice, MigrateMachine, Mint,
               SubmitCommitment, RevealExpired, RefundMint, ReturnEscrow, Tick, vars
    <2> QED
      BY <2>5, <2>6
  <1> QED
    BY <1>1, Safety, PTL DEF Spec, AdmissionClosesAtCap

-----------------------------------------------------------------------------
(* The mint implements MintEscrow.                                         *)

LEMMA OneDealChanges ==
    ASSUME NEW r \in Requests,
           \A s \in Requests : s # r => requests'[s] = requests[s]
    PROVE  /\ dealOf[r] = DealFor(requests[r])
           /\ dealOf'[r] = DealFor(requests'[r])
           /\ dealOf' = [dealOf EXCEPT ![r] = dealOf'[r]]
  <1>1. dealOf[r] = DealFor(requests[r]) /\ dealOf'[r] = DealFor(requests'[r])
    BY DEF dealOf
  <1>2. \A s \in Requests : s # r => dealOf'[s] = dealOf[s]
    <2> SUFFICES ASSUME NEW s \in Requests, s # r PROVE dealOf'[s] = dealOf[s]
      OBVIOUS
    <2>1. dealOf'[s] = DealFor(requests'[s]) /\ dealOf[s] = DealFor(requests[s])
      BY DEF dealOf
    <2>2. requests'[s] = requests[s]
      OBVIOUS
    <2> QED
      BY <2>1, <2>2 DEF DealFor
  <1>3. /\ dealOf' = [s \in Requests |-> dealOf'[s]]
        /\ dealOf = [s \in Requests |-> dealOf[s]]
    BY DEF dealOf
  <1> QED
    BY <1>1, <1>2, <1>3

\* A request that is paid for becomes an open deal at its full price.
LEMMA RequestPays ==
    ASSUME MintInvariant,
           NEW m \in Minters, NEW c \in Commits, NEW q \in 1..MAX_PER_TX,
           RequestMint(m, c, q)
    PROVE  Escrow!Pay(<<m, c>>)
  <1> DEFINE r == <<m, c>>
             cost == BatchCost(machine.total_minted, q)
             new == [status |-> "pending", quantity |-> q,
                     remaining_quantity |-> q, paid_amount |-> cost,
                     age |-> 0, lamports |-> RENT + cost]
  <1>1. /\ r \in Requests
        /\ commits[c] = "unused"
        /\ CommitOf(r) = c
        /\ cost \in Nat
        /\ q \in Nat \ {0}
        /\ requests' = [requests EXCEPT ![r] = new]
    BY DEF RequestMint, Requests, CommitOf
  <1>2. requests[r].status = "none"
    BY <1>1 DEF MintInvariant, UsedCommits
  <1>3. dealOf[r].phase = "none"
    BY <1>1, <1>2 DEF dealOf, DealFor
  <1>4. requests'[r] = new /\ \A s \in Requests : s # r => requests'[s] = requests[s]
    BY <1>1 DEF MintInvariant, TypeOK
  <1>5. DealFor(new) = [phase |-> "open", size |-> q, owed |-> q, price |-> cost,
                        held |-> cost]
    BY <1>1, LamportAssumption DEF DealFor
  <1> HIDE DEF r, cost, new
  <1>6. /\ dealOf' = [dealOf EXCEPT ![r] = dealOf'[r]]
        /\ dealOf'[r] = DealFor(new)
    BY <1>1, <1>4, OneDealChanges
  <1>7. /\ dealOf'[r].phase = "open"
        /\ dealOf'[r].size = q
        /\ dealOf'[r].owed = q
        /\ dealOf'[r].price = cost
        /\ dealOf'[r].held = cost
    BY <1>5, <1>6
  <1> QED
    BY <1>1, <1>3, <1>6, <1>7 DEF Escrow!Pay, r

\* Above its rent a pending request holds what its units still have to pay.
LEMMA PendingDeal ==
    ASSUME NEW req \in RequestType, NEW l \in LedgerType,
           req.status = "pending",
           HoldsItsShare(req), LedgerMatches(req, l), Balanced(req, l)
    PROVE  /\ DealFor(req).phase = "open"
           /\ DealFor(req).size = req.quantity
           /\ DealFor(req).owed = req.remaining_quantity
           /\ DealFor(req).price = req.paid_amount
           /\ DealFor(req).held = req.paid_amount - Taken(req.paid_amount, req.quantity, l.minted)
           /\ DealFor(req).held \in Nat
           /\ DealFor(req).held * req.quantity >= req.paid_amount * req.remaining_quantity
  <1> DEFINE p == req.paid_amount
             q == req.quantity
             k == l.minted
  <1>1. /\ p \in Nat /\ q \in Nat \ {0} /\ k \in Nat
        /\ req.remaining_quantity = q - k
        /\ req.remaining_quantity \in 1..q
        /\ req.lamports = RENT + p - Taken(p, q, k)
        /\ Taken(p, q, k) \in Nat /\ Taken(p, q, k) <= p
    BY PendingRequest
  <1>2. /\ DealFor(req).phase = "open"
        /\ DealFor(req).size = q
        /\ DealFor(req).owed = req.remaining_quantity
        /\ DealFor(req).price = p
        /\ DealFor(req).held = IF req.lamports > RENT THEN req.lamports - RENT ELSE 0
    BY DEF DealFor
  <1> HIDE DEF p, q, k
  <1>3. DealFor(req).held = p - Taken(p, q, k) /\ DealFor(req).held \in Nat
    BY <1>1, <1>2, LamportAssumption
  <1>4. (p - Taken(p, q, k)) * q >= p * (q - k)
    <2>1. k <= q
      BY <1>1
    <2> QED
      BY <1>1, <2>1, SharesLeaveEnough, Zenon
  <1> QED
    BY <1>1, <1>2, <1>3, <1>4 DEF p, q, k

DealType ==
    [phase : {"none", "open", "done", "returned"},
     size : Nat, owed : Nat, price : Nat, held : Nat]

LEMMA DealForType ==
    ASSUME NEW req \in RequestType
    PROVE  DealFor(req) \in DealType
  <1> DEFINE h == IF req.lamports > RENT THEN req.lamports - RENT ELSE 0
  <1>1. h \in Nat
    BY LamportAssumption DEF RequestType
  <1> HIDE DEF h
  <1>2. DealFor(req) = [phase |-> CASE req.status = "pending" -> "open"
                                    [] req.status = "fulfilled" -> "done"
                                    [] req.status = "closed" -> "returned"
                                    [] OTHER -> "none",
                        size |-> req.quantity, owed |-> req.remaining_quantity,
                        price |-> req.paid_amount, held |-> h]
    BY DEF DealFor, h
  <1> QED
    BY <1>1, <1>2 DEF RequestType, DealType

\* A reveal delivers one unit and takes no more than its share.
LEMMA RevealDelivers ==
    ASSUME MintInvariant, MintInvariant',
           NEW r \in Requests, NEW rarity \in Rarities,
           RevealAndMint(r, rarity)
    PROVE  Escrow!Deliver(r)
  <1> DEFINE req == requests[r]
             new == requests'[r]
             left == req.remaining_quantity - 1
  <1>1. /\ req.status = "pending"
        /\ requests' = [requests EXCEPT ![r] =
                          [req EXCEPT !.lamports = @ - Share(req),
                                      !.remaining_quantity = left,
                                      !.status = IF left = 0 THEN "fulfilled" ELSE @]]
        /\ ledger' = [ledger EXCEPT ![r] =
                        [ledger[r] EXCEPT !.forwarded = @ + Share(req), !.minted = @ + 1]]
    BY DEF RevealAndMint, Pending
  <1>2. /\ req \in RequestType /\ new \in RequestType
        /\ ledger[r] \in LedgerType /\ ledger'[r] \in LedgerType
        /\ HoldsItsShare(req) /\ LedgerMatches(req, ledger[r]) /\ Balanced(req, ledger[r])
        /\ HoldsItsShare(new) /\ LedgerMatches(new, ledger'[r]) /\ Balanced(new, ledger'[r])
    BY DEF MintInvariant, TypeOK, EscrowExact, LedgerExact, EveryLamportAccounted, Balanced
  <1>3. /\ new.quantity = req.quantity
        /\ new.paid_amount = req.paid_amount
        /\ new.remaining_quantity = left
        /\ new.status = IF left = 0 THEN "fulfilled" ELSE "pending"
        /\ ledger'[r].minted = ledger[r].minted + 1
        /\ \A s \in Requests : s # r => requests'[s] = requests[s]
    BY <1>1, <1>2 DEF MintInvariant, TypeOK, RequestType, LedgerType
  <1> HIDE DEF req, new
  <1>4. /\ dealOf[r] = DealFor(req)
        /\ dealOf'[r] = DealFor(new)
        /\ dealOf' = [dealOf EXCEPT ![r] = dealOf'[r]]
    BY <1>3, OneDealChanges DEF req, new
  <1>5. /\ DealFor(req).phase = "open"
        /\ DealFor(req).size = req.quantity
        /\ DealFor(req).owed = req.remaining_quantity
        /\ DealFor(req).price = req.paid_amount
        /\ DealFor(req).held = req.paid_amount
                                 - Taken(req.paid_amount, req.quantity, ledger[r].minted)
        /\ DealFor(req).held \in Nat
    BY <1>1, <1>2, PendingDeal
  <1>6. /\ req.quantity \in Nat \ {0}
        /\ req.paid_amount \in Nat
        /\ left \in Nat
    BY <1>1, <1>2, PendingRequest
  <1>7. DealFor(new) = [DealFor(req) EXCEPT !.owed = left, !.held = DealFor(new).held,
                                            !.phase = IF left = 0 THEN "done" ELSE "open"]
    <2>1. DealFor(req) \in DealType /\ DealFor(new) \in DealType
      BY <1>2, DealForType
    <2>2. /\ DealFor(new).size = DealFor(req).size
          /\ DealFor(new).price = DealFor(req).price
          /\ DealFor(new).owed = left
      BY <1>3 DEF DealFor
    <2>3. DealFor(new).phase = IF left = 0 THEN "done" ELSE "open"
      <3> HIDE DEF left
      <3>1. CASE left = 0
        BY <1>3, <3>1 DEF DealFor
      <3>2. CASE left # 0
        BY <1>3, <3>2 DEF DealFor
      <3> QED
        BY <3>1, <3>2
    <2> HIDE DEF left
    <2> QED
      BY <2>1, <2>2, <2>3 DEF DealType
  <1>8. /\ DealFor(new).held \in 0..DealFor(req).held
        /\ DealFor(new).held * req.quantity >= req.paid_amount * left
        /\ left = 0 => DealFor(new).held = 0
    <2>1. CASE left = 0
      <3>1. new.lamports = RENT
        BY <1>2, <1>3, <2>1 DEF HoldsItsShare
      <3>2. DealFor(new).held = 0
        BY <3>1, LamportAssumption DEF DealFor
      <3> QED
        BY <1>5, <1>6, <2>1, <3>2
    <2>2. CASE left # 0
      <3>1. /\ DealFor(new).held = req.paid_amount
                 - Taken(req.paid_amount, req.quantity, ledger[r].minted + 1)
            /\ DealFor(new).held \in Nat
            /\ DealFor(new).held * req.quantity >= req.paid_amount * left
        <4>1. /\ DealFor(new).held = new.paid_amount
                   - Taken(new.paid_amount, new.quantity, ledger'[r].minted)
              /\ DealFor(new).held \in Nat
              /\ DealFor(new).held * new.quantity >= new.paid_amount * new.remaining_quantity
          BY <1>2, <1>3, <2>2, PendingDeal
        <4> QED
          BY <1>3, <4>1
      <3>2. /\ Taken(req.paid_amount, req.quantity, ledger[r].minted + 1)
                 = Taken(req.paid_amount, req.quantity, ledger[r].minted)
                     + UnitShare(req.paid_amount, req.quantity)
            /\ UnitShare(req.paid_amount, req.quantity) \in Nat
            /\ Taken(req.paid_amount, req.quantity, ledger[r].minted) \in Nat
        BY <1>1, <1>2, PendingRequest
      <3>3. DealFor(new).held <= DealFor(req).held
        BY <1>5, <1>6, <3>1, <3>2
      <3> QED
        BY <1>5, <2>2, <3>1, <3>3
    <2> QED
      BY <2>1, <2>2
  <1> HIDE DEF left
  <1>9. dealOf[r].owed - 1 = left
    BY <1>4, <1>5 DEF left
  <1>10. /\ dealOf[r].phase = "open"
         /\ dealOf[r].size = req.quantity
         /\ dealOf[r].price = req.paid_amount
    BY <1>4, <1>5
  <1>11. dealOf' = [dealOf EXCEPT ![r] =
                      [dealOf[r] EXCEPT !.owed = left, !.held = DealFor(new).held,
                                        !.phase = IF left = 0 THEN "done" ELSE "open"]]
    BY <1>4, <1>7
  <1>12. left >= 0 /\ dealOf[r].held = DealFor(req).held
    BY <1>4, <1>6
  <1> QED
    BY <1>8, <1>9, <1>10, <1>11, <1>12 DEF Escrow!Deliver

\* A late reveal, or a refund, returns what the deal holds.
LEMMA RefundReturns ==
    ASSUME MintInvariant, NEW r \in Requests, ReturnEscrow(r)
    PROVE  Escrow!Return(r)
  <1> DEFINE req == requests[r]
             new == [req EXCEPT !.status = "closed", !.lamports = 0]
  <1>1. /\ req.status = "pending"
        /\ req \in RequestType
        /\ requests' = [requests EXCEPT ![r] = new]
    BY DEF ReturnEscrow, Pending, MintInvariant, TypeOK
  <1>2. requests'[r] = new /\ \A s \in Requests : s # r => requests'[s] = requests[s]
    BY <1>1 DEF MintInvariant, TypeOK
  <1>3. /\ new.status = "closed"
        /\ new.lamports = 0
        /\ new.quantity = req.quantity
        /\ new.remaining_quantity = req.remaining_quantity
        /\ new.paid_amount = req.paid_amount
    BY <1>1 DEF RequestType
  <1> HIDE DEF req, new
  <1>4. /\ dealOf[r] = DealFor(req)
        /\ dealOf' = [dealOf EXCEPT ![r] = DealFor(new)]
    BY <1>2, OneDealChanges DEF req
  <1>5. DealFor(new) = [DealFor(req) EXCEPT !.phase = "returned", !.held = 0]
    <2>1. new \in RequestType
      BY <1>1 DEF new, RequestType
    <2>2. DealFor(req) \in DealType /\ DealFor(new) \in DealType
      BY <1>1, <2>1, DealForType
    <2>3. /\ DealFor(new).phase = "returned"
          /\ DealFor(new).size = DealFor(req).size
          /\ DealFor(new).owed = DealFor(req).owed
          /\ DealFor(new).price = DealFor(req).price
          /\ DealFor(new).held = 0
      BY <1>3, LamportAssumption DEF DealFor
    <2> QED
      BY <2>2, <2>3 DEF DealType
  <1>6. DealFor(req).phase = "open"
    BY <1>1 DEF DealFor
  <1> QED
    BY <1>4, <1>5, <1>6 DEF Escrow!Return

\* Every step of the mint is a step of MintEscrow, or leaves the deals alone:
\* a price is paid once, each unit is delivered or its money goes back.
THEOREM Refinement == Spec => KeepsEscrowPromise
  <1>1. Init => Escrow!EscrowInit
    BY LamportAssumption
       DEF Init, Escrow!EscrowInit, Escrow!NoDeal, dealOf, DealFor, NoRequest
  <1>2. MintInvariant /\ MintInvariant' /\ [Next]_vars => [Escrow!EscrowNext]_dealOf
    <2> SUFFICES ASSUME MintInvariant, MintInvariant', [Next]_vars
                 PROVE  Escrow!EscrowNext \/ UNCHANGED dealOf
      OBVIOUS
    <2>1. CASE UNCHANGED requests
      BY <2>1 DEF dealOf, DealFor
    <2>2. CASE Tick
      <3>1. ASSUME NEW r \in Requests PROVE DealFor(requests'[r]) = DealFor(requests[r])
        BY <2>2 DEF Tick, DealFor, MintInvariant, TypeOK, RequestType
      <3> QED
        BY <3>1 DEF dealOf
    <2>3. ASSUME NEW m \in Minters, NEW c \in Commits, NEW q \in 1..MAX_PER_TX,
                 RequestMint(m, c, q)
          PROVE  Escrow!EscrowNext
      BY <2>3, RequestPays DEF Escrow!EscrowNext, Requests
    <2>4. ASSUME NEW r \in Requests, NEW rarity \in Rarities, RevealAndMint(r, rarity)
          PROVE  Escrow!EscrowNext
      BY <2>4, RevealDelivers DEF Escrow!EscrowNext
    <2>5. ASSUME NEW r \in Requests, ReturnEscrow(r)
          PROVE  Escrow!EscrowNext
      BY <2>5, RefundReturns DEF Escrow!EscrowNext
    <2>6. CASE Admin \/ (\E c \in Commits : SubmitCommitment(c)) \/ Burn \/ UNCHANGED vars
      <3>1. UNCHANGED requests
        BY <2>6 DEF Admin, SetOracle, SetActive, SetMintPrice, MigrateMachine,
                    SubmitCommitment, Burn, BurnToUpgrade, BurnMulti, Upgrade, vars
      <3> QED
        BY <2>1, <3>1
    <2> QED
      BY <2>2, <2>3, <2>4, <2>5, <2>6 DEF Next, Mint, RevealExpired, RefundMint
  <1> QED
    BY <1>1, <1>2, Safety, PTL DEF Spec, KeepsEscrowPromise, Escrow!EscrowSpec

=============================================================================
