--------------------------- MODULE ServicesProofs ----------------------------
(***************************************************************************)
(* What the services beside the program keep to, for any number of         *)
(* requests, handlers, refreshes, wallets and addresses, and for any       *)
(* limits: the leaderboard adds up, the metadata API says what was on the  *)
(* chain, the faucet gives no more than it should, and a stop loses a      *)
(* bounded part of the price history.                                      *)
(***************************************************************************)
EXTENDS MCServices, FiniteSetTheorems, TLAPS

-----------------------------------------------------------------------------
(* The leaderboard.                                                        *)

\* Gumballs alive, by the counters of the machine.
Alive(m) == m.minted - m.burned

\* One run of refreshLeaderboard: whichever of the two answers it has is off
\* by no more than what moved since the run began, and so are the two of them
\* from each other.
RunAddsUp(r) ==
    /\ ~r.running => r.accounts = NoAccounts /\ r.machine = NoData
    /\ r.accounts # NoAccounts => Distance(r.accounts.live, Alive(machineData)) <= r.moved
    /\ r.machine # NoData => Distance(Alive(r.machine), Alive(machineData)) <= r.moved
    /\ (r.accounts # NoAccounts /\ r.machine # NoData) =>
          Distance(r.accounts.live, Alive(r.machine)) <= r.moved

Runs == [running : BOOLEAN, accounts : [live : Int, zeroed : Int],
         machine : [minted : Int, burned : Int], moved : Nat]

\* The chain keeps both books; every run and the board are off by what moved.
LeaderboardInv ==
    /\ accounts \in [live : Nat, zeroed : Nat]
    /\ machineData \in [minted : Nat, burned : Nat]
    /\ machineData.minted <= MaxMinted
    /\ accounts.live = Alive(machineData)
    /\ refreshes \in [Refreshes -> Runs]
    /\ \A t \in Refreshes : RunAddsUp(refreshes[t])
    /\ leaderboardCache.moved \in Nat
    /\ BoardAddsUp

LEMMA DistanceMoves ==
    ASSUME NEW a \in Int, NEW b \in Int, NEW c \in Int, NEW m \in Nat, NEW n \in Nat,
           Distance(a, b) <= m, c = b + n \/ c = b - n
    PROVE  Distance(a, c) <= m + n
  BY DEF Distance

LEMMA LeaderboardStarts == LeaderboardInit => LeaderboardInv
  BY LeaderboardAssumption
     DEF LeaderboardInit, LeaderboardInv, Alive, RunAddsUp, Runs, IdleRefresh, NoAccounts,
         NoData, NoBoard, BoardAddsUp

\* One run takes a step of its own, the chain does not.
LEMMA RunStepKeeps ==
    ASSUME LeaderboardInv, NEW t \in Refreshes, NEW r \in Runs, RunAddsUp(r),
           refreshes' = [refreshes EXCEPT ![t] = r],
           UNCHANGED <<accounts, machineData>>,
           leaderboardCache'.moved \in Nat, BoardAddsUp'
    PROVE  LeaderboardInv'
  <1>1. refreshes' \in [Refreshes -> Runs]
    BY DEF LeaderboardInv
  <1>2. \A u \in Refreshes : RunAddsUp(refreshes'[u])
    BY DEF LeaderboardInv
  <1>3. \A u \in Refreshes : RunAddsUp(refreshes[u])'
    BY <1>2 DEF RunAddsUp
  <1> QED
    BY <1>1, <1>3 DEF LeaderboardInv

\* The number of gumballs changes by n, in every running run's sight.
LEMMA ChainStepKeeps ==
    ASSUME LeaderboardInv, NEW n \in Nat, Moves(n),
           accounts' \in [live : Nat, zeroed : Nat],
           machineData' \in [minted : Nat, burned : Nat],
           machineData'.minted <= MaxMinted,
           accounts'.live = Alive(machineData'),
           \/ Alive(machineData') = Alive(machineData) + n
           \/ Alive(machineData') = Alive(machineData) - n,
           UNCHANGED leaderboardCache
    PROVE  LeaderboardInv'
  <1>1. ASSUME NEW t \in Refreshes
        PROVE  refreshes'[t] \in Runs /\ RunAddsUp(refreshes[t])'
    <2>1. PICK r \in Runs : r = refreshes[t] /\ RunAddsUp(r)
      BY DEF LeaderboardInv
    <2>2. PICK b \in Int : b = Alive(machineData)
      BY DEF LeaderboardInv, Alive
    <2>3. PICK c \in Int : c = Alive(machineData')
      BY DEF Alive
    <2>4. c = b + n \/ c = b - n
      BY <2>2, <2>3
    <2>5. CASE r.running
      <3>1. refreshes'[t] = [r EXCEPT !.moved = r.moved + n]
        BY <2>1, <2>5 DEF Moves
      <3>2. PICK q \in Runs : q = refreshes'[t] /\ q.running /\ q.accounts = r.accounts
                              /\ q.machine = r.machine /\ q.moved = r.moved + n
        BY <2>1, <2>5, <3>1 DEF Runs
      <3>3. r.moved \in Nat /\ r.accounts.live \in Int /\ Alive(r.machine) \in Int
        BY DEF Runs, Alive
      <3>4. r.accounts # NoAccounts => Distance(r.accounts.live, c) <= q.moved
        BY <2>1, <2>2, <2>4, <3>2, <3>3, DistanceMoves DEF RunAddsUp
      <3>5. r.machine # NoData => Distance(Alive(r.machine), c) <= q.moved
        BY <2>1, <2>2, <2>4, <3>2, <3>3, DistanceMoves DEF RunAddsUp
      <3>6. (r.accounts # NoAccounts /\ r.machine # NoData) =>
              Distance(r.accounts.live, Alive(r.machine)) <= q.moved
        BY <2>1, <3>2, <3>3 DEF RunAddsUp, Distance
      <3>7. (RunAddsUp(refreshes[t]))' <=>
              /\ ~q.running => q.accounts = NoAccounts /\ q.machine = NoData
              /\ q.accounts # NoAccounts => Distance(q.accounts.live, c) <= q.moved
              /\ q.machine # NoData => Distance(Alive(q.machine), c) <= q.moved
              /\ (q.accounts # NoAccounts /\ q.machine # NoData) =>
                    Distance(q.accounts.live, Alive(q.machine)) <= q.moved
        BY <2>3, <3>2 DEF RunAddsUp, Alive, Distance
      <3> QED
        BY <3>2, <3>4, <3>5, <3>6, <3>7
    <2>6. CASE ~r.running
      <3>1. refreshes'[t] = r
        BY <2>1, <2>6 DEF Moves
      <3> QED
        BY <2>1, <2>6, <3>1 DEF RunAddsUp
    <2> QED
      BY <2>5, <2>6
  <1>2. refreshes' \in [Refreshes -> Runs]
    BY <1>1 DEF Moves
  <1>3. (accounts.live = Alive(machineData))'
    BY DEF Alive
  <1>4. BoardAddsUp'
    BY DEF LeaderboardInv, BoardAddsUp
  <1> QED
    BY <1>1, <1>2, <1>3, <1>4 DEF LeaderboardInv

LEMMA LeaderboardSteps == LeaderboardInv /\ [LeaderboardNext]_leaderboardVars => LeaderboardInv'
  <1> SUFFICES ASSUME LeaderboardInv, [LeaderboardNext]_leaderboardVars
               PROVE  LeaderboardInv'
    OBVIOUS
  <1>1. BURNED \in Nat \ {0, 1} /\ MaxMinted \in Nat
    BY LeaderboardAssumption
  <1>2. leaderboardCache' = leaderboardCache => BoardAddsUp' /\ leaderboardCache'.moved \in Nat
    BY DEF LeaderboardInv, BoardAddsUp
  <1>3. IdleRefresh \in Runs /\ RunAddsUp(IdleRefresh)
    BY DEF IdleRefresh, Runs, RunAddsUp, NoAccounts, NoData
  <1>4. \A t \in Refreshes : refreshes[t] \in Runs /\ RunAddsUp(refreshes[t])
    BY DEF LeaderboardInv
  <1>5. ASSUME NEW t \in Refreshes, StartRefresh(t)
        PROVE  LeaderboardInv'
    <2> DEFINE r == [refreshes[t] EXCEPT !.running = TRUE]
    <2>1. r \in Runs /\ RunAddsUp(r)
      BY <1>4, <1>5 DEF Runs, RunAddsUp, StartRefresh
    <2>2. refreshes' = [refreshes EXCEPT ![t] = r]
      BY <1>5 DEF StartRefresh
    <2> HIDE DEF r
    <2> QED
      BY <1>2, <1>5, <2>1, <2>2, RunStepKeeps DEF StartRefresh
  <1>6. ASSUME NEW t \in Refreshes, ReadAccounts(t)
        PROVE  LeaderboardInv'
    <2> DEFINE r == [refreshes[t] EXCEPT !.accounts = accounts]
    <2>1. r \in Runs
      BY <1>4, <1>6 DEF Runs, LeaderboardInv
    <2>2. /\ r.running /\ r.accounts = accounts /\ r.machine = refreshes[t].machine
          /\ r.moved = refreshes[t].moved
      BY <1>4, <1>6 DEF Runs, ReadAccounts
    <2>3. refreshes' = [refreshes EXCEPT ![t] = r]
      BY <1>6 DEF ReadAccounts
    <2> HIDE DEF r
    <2>4. RunAddsUp(r)
      BY <1>4, <2>1, <2>2 DEF RunAddsUp, Distance, Alive, LeaderboardInv, Runs
    <2> QED
      BY <1>2, <1>6, <2>1, <2>3, <2>4, RunStepKeeps DEF ReadAccounts
  <1>7. ASSUME NEW t \in Refreshes, ReadMachine(t)
        PROVE  LeaderboardInv'
    <2> DEFINE r == [refreshes[t] EXCEPT !.machine = machineData]
    <2>1. r \in Runs
      BY <1>4, <1>7 DEF Runs, LeaderboardInv
    <2>2. /\ r.running /\ r.machine = machineData /\ r.accounts = refreshes[t].accounts
          /\ r.moved = refreshes[t].moved
      BY <1>4, <1>7 DEF Runs, ReadMachine
    <2>3. refreshes' = [refreshes EXCEPT ![t] = r]
      BY <1>7 DEF ReadMachine
    <2> HIDE DEF r
    <2>4. RunAddsUp(r)
      BY <1>4, <2>1, <2>2 DEF RunAddsUp, Distance, Alive, LeaderboardInv, Runs
    <2> QED
      BY <1>2, <1>7, <2>1, <2>3, <2>4, RunStepKeeps DEF ReadMachine
  <1>8. ASSUME NEW t \in Refreshes, Publish(t)
        PROVE  LeaderboardInv'
    <2>1. /\ leaderboardCache' = [minted |-> refreshes[t].machine.minted,
                                  burned |-> refreshes[t].machine.burned,
                                  circulating |-> refreshes[t].accounts.live,
                                  moved |-> refreshes[t].moved]
          /\ refreshes' = [refreshes EXCEPT ![t] = IdleRefresh]
          /\ UNCHANGED <<accounts, machineData>>
          /\ refreshes[t].accounts # NoAccounts /\ refreshes[t].machine # NoData
      BY <1>8 DEF Publish, Circulating
    <2>2. leaderboardCache'.moved \in Nat
      BY <1>4, <2>1 DEF Runs
    <2>3. BoardAddsUp'
      BY <1>4, <2>1 DEF BoardAddsUp, RunAddsUp, Alive
    <2> QED
      BY <1>3, <2>1, <2>2, <2>3, RunStepKeeps
  <1>9. ASSUME NEW t \in Refreshes, RefreshFails(t)
        PROVE  LeaderboardInv'
    BY <1>2, <1>3, <1>9, RunStepKeeps DEF RefreshFails
  <1>10. CASE MintGumball
    <2>1. /\ machineData' = [minted |-> machineData.minted + 1, burned |-> machineData.burned]
          /\ accounts' = [live |-> accounts.live + 1, zeroed |-> accounts.zeroed]
          /\ machineData.minted < MaxMinted
      BY <1>10 DEF MintGumball, LeaderboardInv
    <2> QED
      BY <1>1, <1>10, <2>1, ChainStepKeeps DEF MintGumball, LeaderboardInv, Alive
  <1>11. CASE UpgradeGumballs
    <2>1. PICK n \in Nat : n = BURNED - 1
      BY <1>1
    <2>2. /\ machineData' = [minted |-> machineData.minted + 1,
                             burned |-> machineData.burned + BURNED]
          /\ accounts' = [live |-> accounts.live - BURNED + 1,
                          zeroed |-> accounts.zeroed + BURNED]
          /\ machineData.minted < MaxMinted /\ accounts.live >= BURNED
          /\ Moves(n) /\ UNCHANGED leaderboardCache
      BY <1>11, <2>1 DEF UpgradeGumballs
    <2>3. accounts' \in [live : Nat, zeroed : Nat] /\ machineData' \in [minted : Nat, burned : Nat]
      BY <1>1, <2>2 DEF LeaderboardInv
    <2>4. /\ accounts'.live = Alive(machineData')
          /\ Alive(machineData') = Alive(machineData) - n
          /\ machineData'.minted <= MaxMinted
      BY <1>1, <2>1, <2>2 DEF LeaderboardInv, Alive
    <2> QED
      BY <2>2, <2>3, <2>4, ChainStepKeeps
  <1>12. CASE UNCHANGED leaderboardVars
    BY <1>12 DEF leaderboardVars, LeaderboardInv, BoardAddsUp, RunAddsUp
  <1> QED
    BY <1>5, <1>6, <1>7, <1>8, <1>9, <1>10, <1>11, <1>12 DEF LeaderboardNext

LEMMA LeaderboardInvIsEnough == LeaderboardInv => BoardAddsUp /\ LeaderboardTypeOK
  BY LeaderboardAssumption DEF LeaderboardInv, LeaderboardTypeOK, Runs

\* server.cjs, refreshLeaderboard: however the runs overlap, the board is off
\* by no more than what was minted and burned while it was being read.
THEOREM LeaderboardAddsUp == LeaderboardSpec => []BoardAddsUp
  <1>1. LeaderboardInit => LeaderboardInv
    BY LeaderboardStarts
  <1>2. LeaderboardInv /\ [LeaderboardNext]_leaderboardVars => LeaderboardInv'
    BY LeaderboardSteps
  <1>3. LeaderboardInv => BoardAddsUp
    BY LeaderboardInvIsEnough
  <1> QED
    BY <1>1, <1>2, <1>3, PTL DEF LeaderboardSpec

-----------------------------------------------------------------------------
(* The metadata API.                                                       *)

HandlerType == [reading : BOOLEAN, key : Keys \cup {""}, gd : Int, svg : Int, since : Nat]

\* One answer of the two reads: it was on the chain, and is outdated only if
\* the gumball was written meanwhile.
ReadIsHonest(k, v) ==
    v # Never => /\ v \in 0..version[k]
                 /\ v = version[k] \/ k \in raced

\* A handler that reads has not read for longer than RPC_MAX; if it saw no
\* account, the gumball was not minted before the handler began.
HandlerIsHonest(x) ==
    /\ ~x.reading => x.gd = Never /\ x.svg = Never
    /\ x.reading =>
         /\ x.key \in Keys \ BadKeys
         /\ x.since <= apiTime /\ apiTime <= x.since + RPC_MAX
         /\ ReadIsHonest(x.key, x.gd)
         /\ ReadIsHonest(x.key, x.svg)
         /\ (x.gd = 0 /\ version[x.key] > 0) => x.since <= bornAt[x.key]

\* No memo outlives NEGATIVE_TTL, and none outlives the mint by more than
\* that and a read.
MemoIsBrief(k) ==
    negative[k] # Never =>
      /\ negative[k] \in Nat
      /\ negative[k] <= apiTime + NEGATIVE_TTL
      /\ version[k] > 0 => negative[k] <= bornAt[k] + NEGATIVE_TTL + RPC_MAX

MetadataInv ==
    /\ apiTime \in Nat /\ apiTime <= MaxTime
    /\ version \in [Keys -> Nat]
    /\ \A k \in Keys : version[k] <= MaxVersion
    /\ \A k \in BadKeys : version[k] = 0
    /\ metadataCache \in [Keys -> [traits : Nat, art : Nat]]
    /\ negative \in [Keys -> Int]
    /\ handlers \in [Handlers -> HandlerType]
    /\ bornAt \in [Keys -> Nat]
    /\ \A k \in Keys : bornAt[k] <= apiTime
    /\ raced \subseteq Keys
    /\ \A h \in Handlers : HandlerIsHonest(handlers[h])
    /\ \A k \in Keys : MemoIsBrief(k)
    /\ EntryIsWhole

LEMMA MetadataConstants ==
    /\ BadKeys \subseteq Keys
    /\ NEGATIVE_TTL \in Nat /\ RPC_MAX \in Nat /\ MaxVersion \in Nat /\ MaxTime \in Nat
  BY MetadataAssumption

LEMMA IdleIsHonest == IdleHandler \in HandlerType /\ HandlerIsHonest(IdleHandler)
  BY DEF IdleHandler, HandlerType, HandlerIsHonest, Never

LEMMA MetadataStarts == MetadataInit => MetadataInv
  <1> SUFFICES ASSUME MetadataInit
               PROVE  MetadataInv
    OBVIOUS
  <1>1. /\ apiTime \in Nat /\ apiTime <= MaxTime
        /\ version \in [Keys -> Nat] /\ bornAt \in [Keys -> Nat]
        /\ \A k \in Keys : version[k] = 0 /\ bornAt[k] = 0
        /\ negative \in [Keys -> Int]
    BY MetadataConstants DEF MetadataInit, Never
  <1>2. /\ metadataCache \in [Keys -> [traits : Nat, art : Nat]]
        /\ EntryIsWhole
    BY DEF MetadataInit, NoEntry, EntryIsWhole, Cached
  <1>3. /\ handlers \in [Handlers -> HandlerType]
        /\ \A h \in Handlers : HandlerIsHonest(handlers[h])
    BY IdleIsHonest DEF MetadataInit
  <1>4. \A k \in Keys : MemoIsBrief(k)
    BY DEF MetadataInit, MemoIsBrief
  <1> QED
    BY <1>1, <1>2, <1>3, <1>4, MetadataConstants DEF MetadataInv, MetadataInit

\* negativeSet sets one entry and loses others, it makes none.
LEMMA NegativeSetEffect ==
    ASSUME NEW k \in Keys, negative \in [Keys -> Int], apiTime \in Nat
    PROVE  /\ NegativeSet(k) \in [Keys -> Int]
           /\ NegativeSet(k)[k] = apiTime + NEGATIVE_TTL
           /\ \A x \in Keys \ {k} : NegativeSet(k)[x] \in {negative[x], Never}
  <1> DEFINE full == Cardinality({x \in Keys : negative[x] # Never}) >= NEGATIVE_MAX
             kept == IF full THEN [x \in Keys |-> Never] ELSE negative
  <1>1. NegativeSet(k) = [kept EXCEPT ![k] = apiTime + NEGATIVE_TTL]
    BY DEF NegativeSet
  <1> HIDE DEF full
  <1>2. kept \in [Keys -> Int] /\ \A x \in Keys : kept[x] \in {negative[x], Never}
    BY DEF Never
  <1> HIDE DEF kept
  <1> QED
    BY <1>1, <1>2, MetadataConstants

LEMMA CacheSetEffect ==
    ASSUME NEW k \in Keys, NEW entry \in [traits : Nat, art : Nat],
           metadataCache \in [Keys -> [traits : Nat, art : Nat]]
    PROVE  /\ CacheSet(k, entry) \in [Keys -> [traits : Nat, art : Nat]]
           /\ CacheSet(k, entry)[k] = entry
           /\ \A x \in Keys \ {k} : CacheSet(k, entry)[x] \in {metadataCache[x], NoEntry}
  <1> DEFINE full == Cardinality({x \in Keys : Cached(x)}) > CACHE_MAX
             kept == IF full THEN [x \in Keys |-> NoEntry] ELSE metadataCache
  <1>1. CacheSet(k, entry) = [kept EXCEPT ![k] = entry]
    BY DEF CacheSet
  <1> HIDE DEF full
  <1>2. /\ kept \in [Keys -> [traits : Nat, art : Nat]]
        /\ \A x \in Keys : kept[x] \in {metadataCache[x], NoEntry}
    BY DEF NoEntry
  <1> HIDE DEF kept
  <1> QED
    BY <1>1, <1>2

\* One handler takes a step of its own, the chain and the clock do not.
LEMMA HandlerStepKeeps ==
    ASSUME MetadataInv, NEW h \in Handlers, NEW x \in HandlerType, HandlerIsHonest(x),
           handlers' = [handlers EXCEPT ![h] = x],
           UNCHANGED <<apiTime, version, bornAt, raced>>,
           metadataCache' \in [Keys -> [traits : Nat, art : Nat]], EntryIsWhole',
           negative' \in [Keys -> Int], \A k \in Keys : MemoIsBrief(k)'
    PROVE  MetadataInv'
  <1>1. handlers' \in [Handlers -> HandlerType]
    BY DEF MetadataInv
  <1>2. \A g \in Handlers : HandlerIsHonest(handlers'[g])
    BY DEF MetadataInv
  <1>3. \A g \in Handlers : HandlerIsHonest(handlers[g])'
    BY <1>2 DEF HandlerIsHonest, ReadIsHonest
  <1> QED
    BY <1>1, <1>3 DEF MetadataInv

LEMMA CacheKept ==
    ASSUME MetadataInv, UNCHANGED <<version, raced, metadataCache>>
    PROVE  metadataCache' \in [Keys -> [traits : Nat, art : Nat]] /\ EntryIsWhole'
  BY DEF MetadataInv, EntryIsWhole, Cached

LEMMA MemoKeptOK ==
    ASSUME MetadataInv, UNCHANGED <<apiTime, version, bornAt, negative>>
    PROVE  negative' \in [Keys -> Int] /\ \A k \in Keys : MemoIsBrief(k)'
  BY DEF MetadataInv, MemoIsBrief

\* A new memo is brief when the key is no mint yet or the read that missed it
\* began before it was.
LEMMA NewMemoIsBrief ==
    ASSUME MetadataInv, NEW k \in Keys,
           version[k] > 0 => apiTime <= bornAt[k] + RPC_MAX,
           negative' = NegativeSet(k), UNCHANGED <<apiTime, version, bornAt>>
    PROVE  negative' \in [Keys -> Int] /\ \A x \in Keys : MemoIsBrief(x)'
  <1>1. /\ negative' \in [Keys -> Int]
        /\ negative'[k] = apiTime + NEGATIVE_TTL
        /\ \A x \in Keys \ {k} : negative'[x] \in {negative[x], Never}
    BY NegativeSetEffect DEF MetadataInv
  <1>2. MemoIsBrief(k)'
    BY <1>1, MetadataConstants DEF MetadataInv, MemoIsBrief
  <1>3. ASSUME NEW x \in Keys \ {k}
        PROVE  MemoIsBrief(x)'
    BY <1>1 DEF MetadataInv, MemoIsBrief
  <1> QED
    BY <1>1, <1>2, <1>3

LEMMA AskKeeps ==
    ASSUME MetadataInv, NEW h \in Handlers, NEW k \in Keys, Ask(h, k)
    PROVE  MetadataInv'
  <1>1. metadataCache' \in [Keys -> [traits : Nat, art : Nat]] /\ EntryIsWhole'
    BY CacheKept DEF Ask
  <1>2. handlers[h] \in HandlerType /\ HandlerIsHonest(handlers[h])
    BY DEF MetadataInv
  <1>3. CASE k \in BadKeys
    <2>1. version[k] = 0
      BY <1>3 DEF MetadataInv
    <2>2. negative' \in [Keys -> Int] /\ \A x \in Keys : MemoIsBrief(x)'
      BY <1>3, <2>1, NewMemoIsBrief DEF Ask
    <2>3. handlers' = [handlers EXCEPT ![h] = handlers[h]]
      BY <1>3 DEF Ask, MetadataInv
    <2> QED
      BY <1>1, <1>2, <2>2, <2>3, HandlerStepKeeps DEF Ask
  <1>4. CASE k \notin BadKeys
    <2> DEFINE x == [handlers[h] EXCEPT !.reading = TRUE, !.key = k, !.since = apiTime]
    <2>1. /\ x \in HandlerType /\ x.reading /\ x.key = k /\ x.since = apiTime
          /\ x.gd = handlers[h].gd /\ x.svg = handlers[h].svg
      BY <1>2 DEF HandlerType, MetadataInv
    <2>2. handlers' = [handlers EXCEPT ![h] = x] /\ negative' = [negative EXCEPT ![k] = Never]
      BY <1>4 DEF Ask
    <2> HIDE DEF x
    <2>3. x.gd = Never /\ x.svg = Never
      BY <1>2, <2>1 DEF Ask, HandlerIsHonest
    <2>4. HandlerIsHonest(x)
      BY <1>4, <2>1, <2>3, MetadataConstants DEF HandlerIsHonest, ReadIsHonest, Never, MetadataInv
    <2>5. negative' \in [Keys -> Int] /\ \A y \in Keys : MemoIsBrief(y)'
      BY <2>2 DEF Ask, MetadataInv, MemoIsBrief, Never
    <2> QED
      BY <1>1, <2>1, <2>2, <2>4, <2>5, HandlerStepKeeps DEF Ask
  <1> QED
    BY <1>3, <1>4

LEMMA ReadsKeep ==
    ASSUME MetadataInv, NEW h \in Handlers, ReadTraits(h) \/ ReadArtwork(h)
    PROVE  MetadataInv'
  <1>1. UNCHANGED <<apiTime, version, metadataCache, negative, bornAt, raced>>
    BY DEF ReadTraits, ReadArtwork
  <1>2. handlers[h] \in HandlerType /\ HandlerIsHonest(handlers[h]) /\ handlers[h].reading
    BY DEF MetadataInv, ReadTraits, ReadArtwork
  <1>3. PICK k \in Keys : k = handlers[h].key
    BY <1>2 DEF HandlerIsHonest
  <1>4. PICK v \in Nat : v = version[k] /\ ReadIsHonest(k, v)
    BY DEF MetadataInv, ReadIsHonest
  <1>5. PICK x \in HandlerType : /\ handlers' = [handlers EXCEPT ![h] = x]
                                 /\ x.reading /\ x.key = k /\ x.since = handlers[h].since
                                 /\ \/ x.gd = v /\ x.svg = handlers[h].svg
                                    \/ x.svg = v /\ x.gd = handlers[h].gd
    <2>1. CASE ReadTraits(h)
      <3> DEFINE y == [handlers[h] EXCEPT !.gd = v]
      <3>1. /\ y \in HandlerType /\ y.reading /\ y.key = k /\ y.since = handlers[h].since
            /\ y.gd = v /\ y.svg = handlers[h].svg
        <4>1. PICK z \in HandlerType : z = handlers[h] /\ z.reading /\ z.key = k
          BY <1>2, <1>3
        <4>2. v \in Int
          BY <1>4
        <4> QED
          BY <4>1, <4>2 DEF HandlerType
      <3>2. handlers' = [handlers EXCEPT ![h] = y]
        BY <1>3, <1>4, <2>1 DEF ReadTraits
      <3> HIDE DEF y
      <3> QED
        BY <3>1, <3>2
    <2>2. CASE ReadArtwork(h)
      <3> DEFINE y == [handlers[h] EXCEPT !.svg = v]
      <3>1. /\ y \in HandlerType /\ y.reading /\ y.key = k /\ y.since = handlers[h].since
            /\ y.svg = v /\ y.gd = handlers[h].gd
        <4>1. PICK z \in HandlerType : z = handlers[h] /\ z.reading /\ z.key = k
          BY <1>2, <1>3
        <4>2. v \in Int
          BY <1>4
        <4> QED
          BY <4>1, <4>2 DEF HandlerType
      <3>2. handlers' = [handlers EXCEPT ![h] = y]
        BY <1>3, <1>4, <2>2 DEF ReadArtwork
      <3> HIDE DEF y
      <3> QED
        BY <3>1, <3>2
    <2> QED
      BY <2>1, <2>2
  <1>6. HandlerIsHonest(x)
    BY <1>2, <1>3, <1>4, <1>5 DEF HandlerIsHonest
  <1> QED
    BY <1>1, <1>5, <1>6, CacheKept, MemoKeptOK, HandlerStepKeeps

LEMMA AnswerKeeps ==
    ASSUME MetadataInv, NEW h \in Handlers, Answer(h)
    PROVE  MetadataInv'
  <1>1. PICK x \in HandlerType : x = handlers[h] /\ HandlerIsHonest(x)
    BY DEF MetadataInv
  <1>2. PICK k \in Keys \ BadKeys : k = x.key
    BY <1>1 DEF Answer, HandlerIsHonest
  <1>3. /\ x.gd \in 0..version[k] /\ x.svg \in 0..version[k]
        /\ x.gd = version[k] \/ k \in raced
        /\ x.svg = version[k] \/ k \in raced
        /\ x.since <= apiTime /\ apiTime <= x.since + RPC_MAX
        /\ (x.gd = 0 /\ version[k] > 0) => x.since <= bornAt[k]
    BY <1>1, <1>2 DEF Answer, HandlerIsHonest, ReadIsHonest
  <1>4. /\ UNCHANGED <<apiTime, version, bornAt, raced>>
        /\ handlers' = [handlers EXCEPT ![h] = IdleHandler]
    BY DEF Answer
  <1>5. CASE x.gd = 0 /\ negative' = NegativeSet(k) /\ UNCHANGED metadataCache
    <2>1. version[k] > 0 => apiTime <= bornAt[k] + RPC_MAX
      <3>1. bornAt[k] \in Nat /\ apiTime \in Nat /\ x.since \in Nat
        BY DEF MetadataInv, HandlerType
      <3> QED
        BY <1>3, <1>5, <3>1, MetadataConstants
    <2>2. negative' \in [Keys -> Int] /\ \A y \in Keys : MemoIsBrief(y)'
      BY <1>4, <1>5, <2>1, NewMemoIsBrief
    <2> QED
      BY <1>4, <1>5, <2>2, CacheKept, IdleIsHonest, HandlerStepKeeps
  <1>6. CASE /\ x.gd # 0 /\ UNCHANGED negative
             /\ metadataCache' = CacheSet(k, [traits |-> x.gd, art |-> x.svg])
    <2>1. PICK entry \in [traits : Nat, art : Nat] : entry = [traits |-> x.gd, art |-> x.svg]
      <3>1. version[k] \in Nat
        BY DEF MetadataInv
      <3>2. x.gd \in Nat /\ x.svg \in Nat
        BY <1>3, <3>1
      <3> QED
        BY <3>2
    <2>2. /\ metadataCache' \in [Keys -> [traits : Nat, art : Nat]]
          /\ metadataCache'[k] = entry
          /\ \A y \in Keys \ {k} : metadataCache'[y] \in {metadataCache[y], NoEntry}
      <3>1. metadataCache \in [Keys -> [traits : Nat, art : Nat]]
        BY DEF MetadataInv
      <3> QED
        BY <1>6, <2>1, <3>1, CacheSetEffect
    <2>3. /\ entry.traits \in 1..version[k] /\ entry.art <= version[k]
          /\ entry.traits = entry.art \/ k \in raced
      BY <1>3, <1>6, <2>1 DEF MetadataInv
    <2>4. EntryIsWhole'
      BY <1>4, <2>2, <2>3 DEF MetadataInv, EntryIsWhole, Cached
    <2> QED
      BY <1>4, <1>6, <2>2, <2>4, MemoKeptOK, IdleIsHonest, HandlerStepKeeps
  <1> QED
    BY <1>1, <1>2, <1>5, <1>6 DEF Answer

LEMMA WriteGumballKeeps ==
    ASSUME MetadataInv, NEW k \in Keys, WriteGumball(k)
    PROVE  MetadataInv'
  <1>1. UNCHANGED <<apiTime, metadataCache, negative, handlers>> /\ k \notin BadKeys
    BY DEF WriteGumball
  <1>2. /\ version' \in [Keys -> Nat]
        /\ version'[k] = version[k] + 1 /\ version'[k] <= MaxVersion
        /\ \A x \in Keys \ {k} : version'[x] = version[x]
    BY MetadataConstants DEF WriteGumball, MetadataInv
  <1>3. /\ bornAt' \in [Keys -> Nat]
        /\ bornAt'[k] = IF version[k] = 0 THEN apiTime ELSE bornAt[k]
        /\ \A x \in Keys \ {k} : bornAt'[x] = bornAt[x]
    BY DEF WriteGumball, MetadataInv
  <1>4. /\ raced \subseteq raced' /\ raced' \subseteq Keys
        /\ \A h \in Handlers : handlers[h].reading /\ handlers[h].key = k => k \in raced'
    BY DEF WriteGumball, MetadataInv
  <1>5. ASSUME NEW h \in Handlers
        PROVE  HandlerIsHonest(handlers[h])'
    <2>1. PICK x \in HandlerType : x = handlers[h] /\ x = handlers'[h] /\ HandlerIsHonest(x)
      BY <1>1 DEF MetadataInv
    <2>2. apiTime \in Nat /\ x.since \in Nat /\ x.gd \in Int /\ x.svg \in Int /\ version[k] \in Nat
      BY DEF HandlerType, MetadataInv
    <2>3. CASE ~x.reading
      BY <2>1, <2>3 DEF HandlerIsHonest
    <2>4. CASE x.reading /\ x.key # k
      <3>1. x.key \in Keys \ {k}
        BY <2>1, <2>4 DEF HandlerIsHonest
      <3> QED
        BY <1>1, <1>2, <1>3, <1>4, <2>1, <2>4, <3>1 DEF HandlerIsHonest, ReadIsHonest
    <2>5. CASE x.reading /\ x.key = k
      <3>1. k \in raced'
        BY <1>4, <2>1, <2>5
      <3>2. ReadIsHonest(k, x.gd)' /\ ReadIsHonest(k, x.svg)'
        BY <1>2, <2>1, <2>2, <2>5, <3>1 DEF HandlerIsHonest, ReadIsHonest
      <3>3. (x.gd = 0 /\ version[k] > 0)' => x.since <= bornAt'[k]
        BY <1>3, <2>1, <2>2, <2>5 DEF HandlerIsHonest
      <3> QED
        BY <1>1, <2>1, <2>5, <3>2, <3>3 DEF HandlerIsHonest
    <2> QED
      BY <2>1, <2>3, <2>4, <2>5
  <1>6. ASSUME NEW x \in Keys
        PROVE  MemoIsBrief(x)'
    BY <1>1, <1>2, <1>3, MetadataConstants DEF MetadataInv, MemoIsBrief
  <1>7. EntryIsWhole'
    BY <1>1, <1>2, <1>4 DEF MetadataInv, EntryIsWhole, Cached
  <1> QED
    BY <1>1, <1>2, <1>3, <1>4, <1>5, <1>6, <1>7, MetadataConstants DEF MetadataInv

LEMMA ApiTickKeeps ==
    ASSUME MetadataInv, ApiTick
    PROVE  MetadataInv'
  <1>1. /\ UNCHANGED <<version, metadataCache, negative, handlers, bornAt, raced>>
        /\ apiTime' = apiTime + 1 /\ apiTime < MaxTime
    BY DEF ApiTick
  <1>2. ASSUME NEW h \in Handlers
        PROVE  HandlerIsHonest(handlers[h])'
    <2>1. /\ handlers[h] \in HandlerType /\ HandlerIsHonest(handlers[h])
          /\ handlers[h].reading => apiTime - handlers[h].since < RPC_MAX
      BY DEF MetadataInv, ApiTick
    <2> QED
      <3>1. /\ handlers[h].since \in Nat /\ apiTime \in Nat
        BY <2>1 DEF HandlerType, MetadataInv
      <3>2. handlers[h].reading => handlers[h].since <= apiTime'
                                   /\ apiTime' <= handlers[h].since + RPC_MAX
        BY <1>1, <2>1, <3>1, MetadataConstants DEF HandlerIsHonest
      <3>3. handlers'[h] = handlers[h] /\ version' = version /\ raced' = raced /\ bornAt' = bornAt
        BY <1>1
      <3> QED
        BY <2>1, <3>2, <3>3 DEF HandlerIsHonest, ReadIsHonest
  <1>3. ASSUME NEW k \in Keys
        PROVE  MemoIsBrief(k)'
    BY <1>1, MetadataConstants DEF MetadataInv, MemoIsBrief
  <1> QED
    BY <1>1, <1>2, <1>3, MetadataConstants DEF MetadataInv, EntryIsWhole, Cached

LEMMA MetadataSteps == MetadataInv /\ [MetadataNext]_metadataVars => MetadataInv'
  <1> SUFFICES ASSUME MetadataInv, [MetadataNext]_metadataVars
               PROVE  MetadataInv'
    OBVIOUS
  <1>1. ASSUME NEW h \in Handlers, ReadFails(h)
        PROVE  MetadataInv'
    BY <1>1, CacheKept, MemoKeptOK, IdleIsHonest, HandlerStepKeeps DEF ReadFails
  <1>2. CASE UNCHANGED metadataVars
    BY <1>2 DEF metadataVars, MetadataInv, HandlerIsHonest, ReadIsHonest, MemoIsBrief,
                EntryIsWhole, Cached
  <1> QED
    BY <1>1, <1>2, AskKeeps, ReadsKeep, AnswerKeeps, WriteGumballKeeps, ApiTickKeeps
       DEF MetadataNext

LEMMA MetadataInvIsEnough == MetadataInv => MetadataHonest /\ MetadataTypeOK
  <1> SUFFICES ASSUME MetadataInv
               PROVE  MetadataHonest /\ MetadataTypeOK
    OBVIOUS
  <1>1. MissIsBrief
    BY MetadataConstants DEF MetadataInv, MissIsBrief, MemoSays404, MemoIsBrief
  <1>2. version \in [Keys -> Versions]
    BY MetadataConstants DEF MetadataInv, Versions
  <1>3. metadataCache \in [Keys -> [traits : Versions, art : Versions]]
    <2> SUFFICES ASSUME NEW k \in Keys
                 PROVE  metadataCache[k] \in [traits : Versions, art : Versions]
      BY DEF MetadataInv
    <2>1. PICK e \in [traits : Nat, art : Nat] : e = metadataCache[k]
      BY DEF MetadataInv
    <2>2. e.traits \in Versions /\ e.art \in Versions
      BY <2>1, MetadataConstants DEF MetadataInv, EntryIsWhole, Cached, NoEntry, Versions
    <2> QED
      BY <2>1, <2>2
  <1>4. negative \in [Keys -> {Never} \cup 0..(MaxTime + NEGATIVE_TTL)]
    BY MetadataConstants DEF MetadataInv, MemoIsBrief
  <1>5. ASSUME NEW h \in Handlers
        PROVE  {handlers[h].gd, handlers[h].svg} \subseteq Versions \cup {Never}
    <2>1. PICK x \in HandlerType : x = handlers[h] /\ HandlerIsHonest(x)
      BY DEF MetadataInv
    <2>2. \A k \in Keys, v \in Int : ReadIsHonest(k, v) => v \in Versions \cup {Never}
      BY MetadataConstants DEF MetadataInv, ReadIsHonest, Versions
    <2>3. x.gd \in Int /\ x.svg \in Int
      BY DEF HandlerType
    <2> QED
      BY <2>1, <2>2, <2>3 DEF HandlerIsHonest
  <1>6. bornAt \in [Keys -> 0..MaxTime]
    BY MetadataConstants DEF MetadataInv
  <1> QED
    BY <1>1, <1>2, <1>3, <1>4, <1>5, <1>6, MetadataConstants
       DEF MetadataInv, MetadataHonest, MetadataTypeOK

\* server.cjs, GET /api/metadata/:mint: a 404 outlives the mint by no more than
\* the memo and one read, and a cached entry is whole unless the gumball was
\* written between the two reads it was made of.
THEOREM MetadataIsHonest == MetadataSpec => []MetadataHonest
  <1>1. MetadataInit => MetadataInv
    BY MetadataStarts
  <1>2. MetadataInv /\ [MetadataNext]_metadataVars => MetadataInv'
    BY MetadataSteps
  <1>3. MetadataInv => MetadataHonest
    BY MetadataInvIsEnough
  <1> QED
    BY <1>1, <1>2, <1>3, PTL DEF MetadataSpec

-----------------------------------------------------------------------------
(* The faucet.                                                             *)

FiniteSubsets == {S \in SUBSET Reqs : IsFiniteSet(S)}

States == [wallets : [Wallets -> Nat], ips : [Ips -> FiniteSubsets], of : SUBSET Reqs]

Writes == [state : States, late : BOOLEAN]

Requests == [pc : {"unsent", "sending", "paid", "refused"}, wallet : Wallets \cup {""},
             ip : Ips \cup {""}, hits : FiniteSubsets, saw : SUBSET Reqs,
             checked : Nat, at : Nat]

\* What the maps or a file say covers the payments they stand for: a payment
\* that still counts is in them, unless another request wrote over it.
Covers(m) ==
    /\ m.of \subseteq Recorded
    /\ \A w \in Wallets : m.wallets[w] <= clock
    /\ \A g \in m.of : Fresh(reqs[g].at) =>
         /\ reqs[g].at <= m.wallets[reqs[g].wallet]
         /\ g \in m.ips[reqs[g].ip] \/ Overwritten(g)

\* A request that passed the check had not been paid within the cooldown, and
\* holds the hits that counted then, as far as nobody wrote over them.
PassedCheck(q) ==
    /\ q.pc # "paid" => q.at = 0
    /\ q.pc \in {"sending", "paid"} =>
         /\ q.wallet \in Wallets /\ q.ip \in Ips
         /\ 0 < q.checked /\ q.checked <= clock
         /\ q.saw \subseteq Recorded
         /\ Cardinality(q.hits) < FAUCET_IP_LIMIT
         /\ \A g \in q.saw :
              /\ reqs[g].wallet = q.wallet => reqs[g].at + FAUCET_COOLDOWN <= q.checked
              /\ (reqs[g].ip = q.ip /\ q.checked - reqs[g].at < FAUCET_COOLDOWN) =>
                   g \in q.hits \/ Overwritten(g)
         /\ q.pc = "paid" => q.checked <= q.at /\ q.at <= clock

\* While no save is due, the newest write carries the maps, or was overtaken;
\* with none under way the file does, or the last write was no good.
SaveIsDue ==
    saveTimer \/ IF writes = <<>> THEN stale \/ faucetFile = Memory
                 ELSE writes[Len(writes)].late \/ writes[Len(writes)].state = Memory

FaucetTypes ==
    /\ clock \in Nat \ {0} /\ clock <= MaxClock
    /\ cooldowns \in [Wallets -> Nat]
    /\ ipLog \in [Ips -> FiniteSubsets]
    /\ saveTimer \in BOOLEAN /\ stale \in BOOLEAN
    /\ writes \in Seq(Writes)
    /\ faucetFile \in States
    /\ reqs \in [Reqs -> Requests]
    /\ grantLog \in Seq(Reqs)
    /\ forgotten \subseteq Recorded
    /\ restarts \in Nat /\ restarts <= MaxRestarts

\* The log holds the paid requests, each of them once.
LogIsExact ==
    /\ \A i, j \in DOMAIN grantLog : grantLog[i] = grantLog[j] => i = j
    /\ \A r \in Reqs : r \in Recorded <=> reqs[r].pc = "paid"

FaucetInv ==
    /\ FaucetTypes
    /\ LogIsExact
    /\ \A r \in Reqs : PassedCheck(reqs[r])
    /\ Covers(Memory)
    /\ Covers(faucetFile)
    /\ \A i \in DOMAIN writes : Covers(writes[i].state)
    /\ SaveIsDue

-----------------------------------------------------------------------------

LEMMA FaucetConstants ==
    /\ FAUCET_COOLDOWN \in Nat \ {0} /\ FAUCET_IP_LIMIT \in Nat \ {0}
    /\ MaxClock \in Nat \ {0} /\ MaxRestarts \in Nat
  BY FaucetAssumption

LEMMA EmptyIsFiniteSubset == {} \in FiniteSubsets
  BY FS_EmptySet DEF FiniteSubsets

LEMMA RecordedIsPaid ==
    ASSUME FaucetTypes
    PROVE  Recorded \subseteq Reqs /\ Recorded = {grantLog[i] : i \in DOMAIN grantLog}
  BY DEF FaucetTypes, Recorded, Range

LEMMA MemoryHas ==
    /\ Memory.wallets = cooldowns /\ Memory.ips = ipLog /\ Memory.of = Remembered
    /\ FaucetTypes => Memory \in States
  <1>1. FaucetTypes => Remembered \in SUBSET Reqs
    BY RecordedIsPaid DEF Remembered
  <1> QED
    BY <1>1 DEF Memory, States, FaucetTypes

LEMMA EmptyCovers == EmptyState \in States /\ (clock \in Nat => Covers(EmptyState))
  BY EmptyIsFiniteSubset DEF EmptyState, States, Covers

\* A step leaves the payments that were made as they were.
Continues ==
    /\ Recorded \subseteq Recorded'
    /\ \A g \in Recorded : reqs'[g] = reqs[g] /\ (Overwritten(g) => Overwritten(g)')
    /\ clock' \in Nat /\ clock <= clock'

LEMMA CoversStays ==
    ASSUME FaucetInv, Continues, NEW m \in States, Covers(m)
    PROVE  Covers(m)'
  <1>1. m.of \subseteq Recorded' /\ m.of \subseteq Recorded
    BY DEF Continues, Covers
  <1>2. clock \in Nat /\ clock' \in Nat /\ clock <= clock'
    BY DEF FaucetInv, FaucetTypes, Continues
  <1>3. \A w \in Wallets : m.wallets[w] <= clock'
    BY <1>2 DEF Covers, States
  <1>4. ASSUME NEW g \in m.of, Fresh(reqs[g].at)'
        PROVE  /\ reqs'[g].at <= m.wallets[reqs'[g].wallet]
               /\ g \in m.ips[reqs'[g].ip] \/ Overwritten(g)'
    <2>1. reqs'[g] = reqs[g] /\ (Overwritten(g) => Overwritten(g)') /\ g \in Reqs
      BY <1>1, RecordedIsPaid DEF Continues, FaucetInv
    <2>2. reqs[g].at \in Nat
      BY <2>1 DEF FaucetInv, FaucetTypes, Requests
    <2>3. Fresh(reqs[g].at)
      BY <1>2, <1>4, <2>1, <2>2, FaucetConstants DEF Fresh
    <2> QED
      BY <2>1, <2>3 DEF Covers
  <1> QED
    BY <1>1, <1>3, <1>4 DEF Covers

LEMMA PassedCheckStays ==
    ASSUME FaucetInv, Continues, NEW q \in Requests, PassedCheck(q)
    PROVE  PassedCheck(q)'
  <1>1. clock \in Nat /\ clock' \in Nat /\ clock <= clock'
    BY DEF FaucetInv, FaucetTypes, Continues
  <1>2. q.checked \in Nat /\ q.at \in Nat
    BY DEF Requests
  <1>3. CASE q.pc \in {"sending", "paid"}
    <2>1. q.saw \subseteq Recorded /\ q.saw \subseteq Recorded'
      BY <1>3 DEF PassedCheck, Continues
    <2>2. \A g \in q.saw : reqs'[g] = reqs[g] /\ (Overwritten(g) => Overwritten(g)')
      BY <2>1 DEF Continues
    <2>3. q.checked <= clock' /\ (q.pc = "paid" => q.at <= clock')
      BY <1>1, <1>2, <1>3 DEF PassedCheck
    <2> QED
      BY <1>3, <2>1, <2>2, <2>3 DEF PassedCheck
  <1>4. CASE q.pc \notin {"sending", "paid"}
    BY <1>4 DEF PassedCheck
  <1> QED
    BY <1>3, <1>4

LEMMA LogUnchanged ==
    ASSUME FaucetInv, grantLog' = grantLog, clock' \in Nat, clock <= clock',
           \A g \in Recorded : reqs'[g] = reqs[g]
    PROVE  Continues /\ Recorded' = Recorded
  <1>1. Recorded' = Recorded /\ \A g : PositionOf(g)' = PositionOf(g)
    BY DEF Recorded, PositionOf
  <1>2. Recorded \subseteq Reqs
    BY RecordedIsPaid DEF FaucetInv
  <1>3. \A g \in Recorded : Overwritten(g) => Overwritten(g)'
    BY <1>1 DEF Overwritten
  <1> QED
    BY <1>1, <1>3 DEF Continues

Known == {m \in States : Covers(m)}

LEMMA AllKnown ==
    ASSUME FaucetInv
    PROVE  /\ Memory \in Known /\ faucetFile \in Known /\ EmptyState \in Known
           /\ \A i \in DOMAIN writes : writes[i].state \in Known
  <1>1. writes \in Seq(Writes)
    BY DEF FaucetInv, FaucetTypes
  <1>2. \A i \in DOMAIN writes : writes[i] \in Writes
    BY <1>1
  <1>3. \A i \in DOMAIN writes : writes[i].state \in Known
    BY <1>2 DEF FaucetInv, Writes, Known
  <1>4. faucetFile \in Known /\ EmptyState \in Known
    BY EmptyCovers DEF FaucetInv, FaucetTypes, Known
  <1>5. Memory \in Known
    BY MemoryHas DEF FaucetInv, Known
  <1> QED
    BY <1>3, <1>4, <1>5

\* The file and the writes only ever get states that were known before.
LEMMA StepKeeps ==
    ASSUME FaucetInv, Continues, FaucetTypes', LogIsExact',
           \A r \in Reqs : reqs'[r] = reqs[r] \/ PassedCheck(reqs[r])',
           Memory' \in Known \/ Covers(Memory)',
           faucetFile' \in Known,
           \A i \in DOMAIN writes' : writes'[i].state \in Known,
           SaveIsDue'
    PROVE  FaucetInv'
  <1>1. \A m \in Known : Covers(m)'
    BY CoversStays DEF Known
  <1>2. Covers(Memory)' /\ Covers(faucetFile)'
    BY <1>1 DEF Covers
  <1>3. \A i \in DOMAIN writes' : Covers(writes[i].state)'
    BY <1>1 DEF Covers
  <1>4. \A r \in Reqs : PassedCheck(reqs[r])'
    <2> SUFFICES ASSUME NEW r \in Reqs, reqs'[r] = reqs[r]
                 PROVE  PassedCheck(reqs[r])'
      OBVIOUS
    <2>1. PICK p \in Requests : p = reqs[r] /\ PassedCheck(p)
      BY DEF FaucetInv, FaucetTypes
    <2>2. PassedCheck(p)'
      BY <2>1, PassedCheckStays
    <2> QED
      BY <2>1, <2>2 DEF PassedCheck
  <1> QED
    BY <1>2, <1>3, <1>4 DEF FaucetInv

\* A step that pays nobody and leaves the maps, the file and the writes alone.
LEMMA RequestStepKeeps ==
    ASSUME FaucetInv, NEW r \in Reqs, NEW q \in Requests, PassedCheck(q),
           reqs' = [reqs EXCEPT ![r] = q], reqs[r].pc # "paid", q.pc # "paid",
           UNCHANGED <<clock, cooldowns, ipLog, saveTimer, writes, faucetFile,
                       stale, grantLog, forgotten, restarts>>
    PROVE  FaucetInv'
  <1>1. r \notin Recorded /\ Recorded \subseteq Reqs
    BY RecordedIsPaid DEF FaucetInv, LogIsExact
  <1>2. reqs \in [Reqs -> Requests] /\ clock \in Nat
    BY DEF FaucetInv, FaucetTypes
  <1>3. \A g \in Recorded : reqs'[g] = reqs[g]
    BY <1>1, <1>2
  <1>4. Continues /\ Recorded' = Recorded
    BY <1>2, <1>3, LogUnchanged
  <1>5. FaucetTypes'
    BY <1>4, <1>2 DEF FaucetInv, FaucetTypes
  <1>6. LogIsExact'
    BY <1>2, <1>4 DEF FaucetInv, LogIsExact
  <1>7. reqs'[r] = q /\ \A g \in Reqs \ {r} : reqs'[g] = reqs[g]
    BY <1>2
  <1>8. PassedCheck(reqs[r])'
    <2>1. PassedCheck(q)'
      BY <1>4, PassedCheckStays
    <2> QED
      BY <1>7, <2>1 DEF PassedCheck
  <1>9. Memory' = Memory
    BY <1>4 DEF Memory, Remembered
  <1>10. SaveIsDue'
    BY <1>9 DEF FaucetInv, SaveIsDue
  <1> QED
    BY <1>4, <1>5, <1>6, <1>7, <1>8, <1>9, <1>10, AllKnown, StepKeeps

\* A step that leaves the requests and the log alone.
LEMMA ServerStepKeeps ==
    ASSUME FaucetInv, UNCHANGED <<reqs, grantLog>>, clock' \in Nat, clock <= clock',
           FaucetTypes',
           Memory' \in Known \/ Covers(Memory)',
           faucetFile' \in Known,
           \A i \in DOMAIN writes' : writes'[i].state \in Known,
           SaveIsDue'
    PROVE  FaucetInv'
  <1>1. Continues /\ Recorded' = Recorded
    BY LogUnchanged
  <1>2. LogIsExact'
    BY <1>1 DEF FaucetInv, LogIsExact
  <1> QED
    BY <1>1, <1>2, StepKeeps

LEMMA FaucetStarts == FaucetInit => FaucetInv
  <1> SUFFICES ASSUME FaucetInit
               PROVE  FaucetInv
    OBVIOUS
  <1>1. Recorded = {}
    BY DEF FaucetInit, Recorded, Range
  <1>2. \A w \in Wallets : cooldowns[w] = 0
    BY DEF FaucetInit, EmptyState
  <1>3. cooldowns \in [Wallets -> Nat] /\ ipLog \in [Ips -> FiniteSubsets]
    BY EmptyCovers DEF FaucetInit, States
  <1>4. NoRequest \in Requests /\ PassedCheck(NoRequest) /\ NoRequest.pc = "unsent"
    BY EmptyIsFiniteSubset DEF NoRequest, Requests, PassedCheck
  <1>5. FaucetTypes
    <2>1. clock \in Nat \ {0} /\ clock <= MaxClock /\ restarts \in Nat /\ restarts <= MaxRestarts
      BY FaucetConstants DEF FaucetInit
    <2>2. faucetFile \in States /\ reqs \in [Reqs -> Requests]
      BY <1>4, EmptyCovers DEF FaucetInit
    <2>3. writes \in Seq(Writes) /\ grantLog \in Seq(Reqs)
      BY DEF FaucetInit
    <2> QED
      BY <1>3, <2>1, <2>2, <2>3 DEF FaucetInit, FaucetTypes
  <1>6. LogIsExact
    BY <1>1, <1>4 DEF FaucetInit, LogIsExact
  <1>7. Covers(faucetFile)
    BY EmptyCovers DEF FaucetInit
  <1>8. Memory = faucetFile
    BY <1>1 DEF FaucetInit, Memory, Remembered, EmptyState
  <1>9. \A r \in Reqs : PassedCheck(reqs[r])
    BY <1>4 DEF FaucetInit
  <1> QED
    BY <1>5, <1>6, <1>7, <1>8, <1>9 DEF FaucetInv, SaveIsDue, FaucetInit

LEMMA RefusedIsFair ==
    LET q == [NoRequest EXCEPT !.pc = "refused"]
    IN  q \in Requests /\ PassedCheck(q) /\ q.pc = "refused" /\ q.at = 0
  BY EmptyIsFiniteSubset DEF NoRequest, Requests, PassedCheck

LEMMA HitsAreFinite ==
    ASSUME FaucetTypes, NEW ip \in Ips
    PROVE  RecentHits(ip) \in FiniteSubsets
  <1>1. ipLog[ip] \in SUBSET Reqs /\ IsFiniteSet(ipLog[ip])
    BY DEF FaucetTypes, FiniteSubsets
  <1>2. RecentHits(ip) \in SUBSET ipLog[ip]
    BY DEF RecentHits
  <1>3. IsFiniteSet(RecentHits(ip))
    BY <1>1, <1>2, FS_Subset
  <1> QED
    BY <1>1, <1>2, <1>3 DEF FiniteSubsets

LEMMA CheckKeeps ==
    ASSUME FaucetInv, NEW r \in Reqs, NEW w \in Wallets, NEW ip \in Ips, Check(r, w, ip)
    PROVE  FaucetInv'
  <1>1. UNCHANGED <<clock, cooldowns, ipLog, saveTimer, writes, faucetFile, stale,
                    grantLog, forgotten, restarts>> /\ reqs[r].pc = "unsent"
    BY DEF Check
  <1>2. CASE Refuse(r)
    BY <1>1, <1>2, RefusedIsFair, RequestStepKeeps DEF Refuse
  <1>3. CASE ~Refuse(r)
    <2> DEFINE q == [reqs[r] EXCEPT !.pc = "sending", !.wallet = w, !.ip = ip,
                                    !.hits = RecentHits(ip), !.saw = Remembered,
                                    !.checked = clock]
    <2>1. /\ ~CoolingDown(w)
          /\ Cardinality(RecentHits(ip)) < FAUCET_IP_LIMIT
          /\ reqs' = [reqs EXCEPT ![r] = q]
      BY <1>3 DEF Check
    <2>2. RecentHits(ip) \in FiniteSubsets /\ Remembered \in SUBSET Reqs
      BY HitsAreFinite, RecordedIsPaid DEF FaucetInv, Remembered
    <2>3. reqs[r] \in Requests /\ reqs[r].at = 0 /\ clock \in Nat \ {0}
      BY <1>1 DEF FaucetInv, FaucetTypes, PassedCheck
    <2>4. /\ q \in Requests /\ q.pc = "sending" /\ q.wallet = w /\ q.ip = ip
          /\ q.hits = RecentHits(ip) /\ q.saw = Remembered /\ q.checked = clock /\ q.at = 0
      <3>1. PICK z \in Requests : z = reqs[r] /\ z.at = 0
        BY <2>3
      <3>2. clock \in Nat
        BY <2>3
      <3> QED
        BY <2>2, <3>1, <3>2 DEF Requests
    <2> HIDE DEF q
    <2>5. ASSUME NEW g \in Remembered
          PROVE  /\ reqs[g].wallet = w => reqs[g].at + FAUCET_COOLDOWN <= clock
                 /\ (reqs[g].ip = ip /\ clock - reqs[g].at < FAUCET_COOLDOWN) =>
                       g \in RecentHits(ip) \/ Overwritten(g)
      <3>1. g \in Reqs /\ reqs[g].pc = "paid"
        BY RecordedIsPaid DEF Remembered, FaucetInv, LogIsExact
      <3>2. reqs[g].at \in Nat \ {0} /\ reqs[g].at <= clock
        <4>1. PICK p \in Requests : p = reqs[g] /\ PassedCheck(p) /\ p.pc = "paid"
          BY <3>1 DEF FaucetInv, FaucetTypes
        <4>2. p.at \in Nat /\ p.checked \in Nat
          BY DEF Requests
        <4> QED
          BY <4>1, <4>2 DEF PassedCheck
      <3>3. Fresh(reqs[g].at) => /\ reqs[g].at <= cooldowns[reqs[g].wallet]
                                 /\ g \in ipLog[reqs[g].ip] \/ Overwritten(g)
        BY MemoryHas DEF FaucetInv, Covers
      <3>4. reqs[g].wallet = w => reqs[g].at + FAUCET_COOLDOWN <= clock
        <4>1. cooldowns[w] \in Nat
          BY DEF FaucetInv, FaucetTypes
        <4> QED
          BY <2>1, <2>3, <3>2, <3>3, <4>1, FaucetConstants DEF CoolingDown, Fresh
      <3>5. (reqs[g].ip = ip /\ clock - reqs[g].at < FAUCET_COOLDOWN) =>
               g \in RecentHits(ip) \/ Overwritten(g)
        BY <3>3 DEF RecentHits, Fresh
      <3> QED
        BY <3>4, <3>5
    <2>6. Remembered \subseteq Recorded
      BY DEF Remembered
    <2>7. PassedCheck(q)
      BY <2>1, <2>3, <2>4, <2>5, <2>6 DEF PassedCheck
    <2> QED
      BY <1>1, <2>1, <2>4, <2>7, RequestStepKeeps
  <1> QED
    BY <1>2, <1>3

LEMMA FailsKeeps ==
    ASSUME FaucetInv, NEW r \in Reqs, Fails(r)
    PROVE  FaucetInv'
  BY RefusedIsFair, RequestStepKeeps DEF Fails, Refuse

\* A new entry of the log stands after all the others.
LEMMA PositionsStay ==
    ASSUME grantLog \in Seq(Reqs), LogIsExact, NEW r \in Reqs, r \notin Recorded,
           grantLog' = Append(grantLog, r)
    PROVE  /\ Recorded' = Recorded \cup {r}
           /\ \A g \in Recorded : PositionOf(g)' = PositionOf(g)
           /\ \A g \in Recorded : PositionOf(r)' > PositionOf(g)
           /\ \A i, j \in DOMAIN grantLog' : grantLog'[i] = grantLog'[j] => i = j
  <1>1. /\ DOMAIN grantLog = 1..Len(grantLog) /\ DOMAIN grantLog' = 1..(Len(grantLog) + 1)
        /\ Len(grantLog) \in Nat
        /\ \A i \in 1..Len(grantLog) : grantLog'[i] = grantLog[i]
        /\ grantLog'[Len(grantLog) + 1] = r
    OBVIOUS
  <1>2. Recorded = {grantLog[i] : i \in 1..Len(grantLog)}
    BY <1>1 DEF Recorded, Range
  <1>3. Recorded' = {grantLog'[i] : i \in 1..(Len(grantLog) + 1)}
    BY <1>1 DEF Recorded, Range
  <1>4. PICK n \in Nat : n = Len(grantLog)
    BY <1>1
  <1>5. \A i, j \in 1..(n + 1) : grantLog'[i] = grantLog'[j] => i = j
    BY <1>1, <1>2, <1>4 DEF LogIsExact
  <1>6. Recorded' = Recorded \cup {r}
    BY <1>1, <1>2, <1>3, <1>4
  <1>7. ASSUME NEW g \in Recorded
        PROVE  PositionOf(g)' = PositionOf(g) /\ PositionOf(g) \in 1..n
    <2>1. PICK i \in 1..n : grantLog[i] = g
      BY <1>2, <1>4
    <2>2. PositionOf(g) = i
      BY <1>1, <1>4, <2>1 DEF PositionOf, LogIsExact
    <2>3. grantLog'[i] = g /\ i \in 1..(n + 1)
      BY <1>1, <1>4, <2>1
    <2>4. PositionOf(g)' = i
      BY <1>1, <1>4, <1>5, <2>3 DEF PositionOf
    <2> QED
      BY <2>2, <2>4
  <1>8. PositionOf(r)' = n + 1
    BY <1>1, <1>4, <1>5 DEF PositionOf
  <1> QED
    BY <1>1, <1>4, <1>5, <1>6, <1>7, <1>8

LEMMA PaidKeeps ==
    ASSUME FaucetInv, NEW r \in Reqs, Paid(r)
    PROVE  FaucetInv'
  <1>1. /\ UNCHANGED <<clock, writes, faucetFile, stale, forgotten, restarts>>
        /\ reqs[r].pc = "sending" /\ saveTimer'
        /\ reqs' = [reqs EXCEPT ![r] = [reqs[r] EXCEPT !.pc = "paid", !.at = clock]]
        /\ cooldowns' = [cooldowns EXCEPT ![reqs[r].wallet] = clock]
        /\ ipLog' = [ipLog EXCEPT ![reqs[r].ip] = reqs[r].hits \cup {r}]
        /\ grantLog' = Append(grantLog, r)
    BY DEF Paid, SaveFaucetState, HitsAfter
  <1>2. FaucetTypes /\ LogIsExact
    BY DEF FaucetInv
  <1>3. clock \in Nat \ {0} /\ reqs \in [Reqs -> Requests] /\ grantLog \in Seq(Reqs)
    BY <1>2 DEF FaucetTypes
  <1>4. PICK p \in Requests : p = reqs[r] /\ PassedCheck(p) /\ p.pc = "sending"
    BY <1>1, <1>3 DEF FaucetInv
  <1>5. PICK q \in Requests : /\ q = reqs'[r] /\ q.pc = "paid" /\ q.at = clock
                              /\ q.wallet = p.wallet /\ q.ip = p.ip /\ q.hits = p.hits
                              /\ q.saw = p.saw /\ q.checked = p.checked
    <2> DEFINE q == [p EXCEPT !.pc = "paid", !.at = clock]
    <2>1. clock \in Nat
      BY <1>3
    <2>2. /\ q \in Requests /\ q.pc = "paid" /\ q.at = clock
          /\ q.wallet = p.wallet /\ q.ip = p.ip /\ q.hits = p.hits
          /\ q.saw = p.saw /\ q.checked = p.checked
      BY <2>1 DEF Requests
    <2>3. reqs'[r] = q
      BY <1>1, <1>3, <1>4
    <2> QED
      BY <2>2, <2>3
  <1>6. \A g \in Reqs \ {r} : reqs'[g] = reqs[g]
    BY <1>1, <1>3
  <1>7. r \notin Recorded /\ Recorded \subseteq Reqs
    BY <1>2, <1>4, RecordedIsPaid DEF LogIsExact
  <1>8. /\ Recorded' = Recorded \cup {r}
        /\ \A g \in Recorded : PositionOf(g)' = PositionOf(g)
        /\ \A g \in Recorded : PositionOf(r)' > PositionOf(g)
        /\ \A i, j \in DOMAIN grantLog' : grantLog'[i] = grantLog'[j] => i = j
    BY <1>1, <1>2, <1>3, <1>7, PositionsStay
  <1>9. \A g \in Recorded : reqs'[g] = reqs[g] /\ g # r
    BY <1>6, <1>7
  <1>10. \A g \in Recorded : Overwritten(g) => Overwritten(g)'
    BY <1>8, <1>9 DEF Overwritten
  <1>11. \A g \in Recorded : (reqs[g].ip = p.ip /\ g \notin p.saw) => Overwritten(g)'
    BY <1>5, <1>8, <1>9 DEF Overwritten
  <1>12. Continues
    BY <1>1, <1>3, <1>8, <1>9, <1>10 DEF Continues
  <1>13. /\ p.wallet \in Wallets /\ p.ip \in Ips /\ p.checked \in Nat /\ p.checked <= clock
         /\ p.hits \in FiniteSubsets
    BY <1>4 DEF PassedCheck, Requests
  <1>14. PassedCheck(reqs[r])'
    <2>1. PassedCheck(p)'
      BY <1>4, <1>12, PassedCheckStays
    <2>2. clock' \in Nat /\ p.checked <= clock' /\ clock <= clock'
      BY <1>1, <1>3, <1>13
    <2>3. PassedCheck(q)'
      BY <1>4, <1>5, <2>1, <2>2 DEF PassedCheck
    <2> QED
      BY <1>5, <2>3 DEF PassedCheck
  <1>15. FaucetTypes'
    <2>1. (p.hits \cup {r}) \in FiniteSubsets
      BY <1>13, FS_AddElement DEF FiniteSubsets
    <2>2. cooldowns' \in [Wallets -> Nat] /\ ipLog' \in [Ips -> FiniteSubsets]
      BY <1>1, <1>2, <1>3, <1>4, <2>1 DEF FaucetTypes
    <2>3. reqs' \in [Reqs -> Requests] /\ grantLog' \in Seq(Reqs)
      BY <1>1, <1>3, <1>5, <1>6
    <2>4. forgotten' \subseteq Recorded'
      BY <1>1, <1>2, <1>8 DEF FaucetTypes
    <2>5. saveTimer' \in BOOLEAN
      BY <1>1, <1>2 DEF Paid, SaveFaucetState
    <2> QED
      BY <1>1, <1>2, <2>2, <2>3, <2>4, <2>5 DEF FaucetTypes
  <1>16. LogIsExact'
    BY <1>2, <1>5, <1>6, <1>8 DEF LogIsExact
  <1>17. Remembered' = Remembered \cup {r}
    BY <1>1, <1>2, <1>7, <1>8 DEF Remembered, FaucetTypes
  <1>18. Covers(Memory)'
    <2>1. Remembered' \subseteq Recorded'
      BY DEF Remembered
    <2>2. \A w \in Wallets : cooldowns[w] \in Nat /\ cooldowns[w] <= clock
      BY <1>2, MemoryHas DEF FaucetInv, Covers, FaucetTypes
    <2>3. \A w \in Wallets : cooldowns'[w] <= clock'
      BY <1>1, <1>2, <1>3, <1>4, <2>2 DEF FaucetTypes
    <2>4. ASSUME NEW g \in Remembered, Fresh(reqs[g].at)'
          PROVE  /\ reqs'[g].at <= cooldowns'[reqs'[g].wallet]
                 /\ g \in ipLog'[reqs'[g].ip] \/ Overwritten(g)'
      <3>1. g \in Recorded /\ g \in Reqs /\ g # r /\ reqs'[g] = reqs[g]
        BY <1>7, <1>9 DEF Remembered
      <3>2. Fresh(reqs[g].at)
        BY <1>1, <2>4, <3>1 DEF Fresh
      <3>3. /\ reqs[g].at <= cooldowns[reqs[g].wallet]
            /\ g \in ipLog[reqs[g].ip] \/ Overwritten(g)
        BY <3>2, MemoryHas DEF FaucetInv, Covers
      <3>4. PICK y \in Requests : y = reqs[g] /\ PassedCheck(y) /\ y.pc = "paid"
        BY <1>2, <1>3, <3>1 DEF FaucetInv, LogIsExact
      <3>5. y.wallet \in Wallets /\ y.ip \in Ips /\ y.at \in Nat /\ y.at <= clock
        BY <3>4 DEF PassedCheck, Requests
      <3>6. y.at <= cooldowns'[y.wallet]
        BY <1>1, <1>2, <1>3, <1>4, <3>3, <3>4, <3>5 DEF FaucetTypes
      <3>7. y.ip # p.ip => ipLog'[y.ip] = ipLog[y.ip]
        BY <1>1, <1>2, <1>4, <3>5 DEF FaucetTypes
      <3>8. y.ip = p.ip => ipLog'[y.ip] = p.hits \cup {r}
        BY <1>1, <1>2, <1>4, <3>5 DEF FaucetTypes
      <3>9. (y.ip = p.ip /\ g \in p.saw) => g \in p.hits \/ Overwritten(g)
        <4>1. clock - y.at < FAUCET_COOLDOWN
          BY <3>2, <3>4 DEF Fresh
        <4>2. p.checked - y.at < FAUCET_COOLDOWN
          BY <1>3, <1>13, <3>5, <4>1, FaucetConstants
        <4> QED
          BY <1>4, <3>4, <4>2 DEF PassedCheck
      <3>10. g \in ipLog'[y.ip] \/ Overwritten(g)'
        BY <1>10, <1>11, <3>1, <3>3, <3>4, <3>7, <3>8, <3>9
      <3> QED
        BY <3>1, <3>4, <3>6, <3>10
    <2>5. reqs'[r].at <= cooldowns'[reqs'[r].wallet] /\ r \in ipLog'[reqs'[r].ip]
      BY <1>1, <1>2, <1>3, <1>4, <1>5, <1>13 DEF FaucetTypes
    <2> QED
      BY <1>17, <2>1, <2>3, <2>4, <2>5 DEF Covers, Memory
  <1>19. faucetFile' \in Known /\ \A i \in DOMAIN writes' : writes'[i].state \in Known
    BY <1>1, AllKnown
  <1>20. SaveIsDue'
    BY <1>1 DEF SaveIsDue
  <1> QED
    BY <1>6, <1>12, <1>14, <1>15, <1>16, <1>18, <1>19, <1>20, StepKeeps

LEMMA SaveTimerFiresKeeps ==
    ASSUME FaucetInv, SaveTimerFires
    PROVE  FaucetInv'
  <1>1. /\ UNCHANGED <<clock, cooldowns, ipLog, faucetFile, stale, reqs, grantLog,
                       forgotten, restarts>>
        /\ saveTimer' = FALSE
        /\ writes' = Append(writes, [state |-> Memory, late |-> FALSE])
    BY DEF SaveTimerFires
  <1>2. FaucetTypes /\ clock \in Nat /\ writes \in Seq(Writes)
    BY DEF FaucetInv, FaucetTypes
  <1>3. Memory' = Memory /\ Recorded' = Recorded
    BY <1>1 DEF Memory, Remembered, Recorded
  <1>4. PICK w \in Writes : w.state = Memory /\ ~w.late /\ writes' = Append(writes, w)
    <2>1. [state |-> Memory, late |-> FALSE] \in Writes
      BY <1>2, MemoryHas DEF Writes
    <2> QED
      BY <1>1, <2>1
  <1>5. /\ writes' \in Seq(Writes)
        /\ DOMAIN writes' = 1..(Len(writes) + 1) /\ Len(writes') = Len(writes) + 1
        /\ DOMAIN writes = 1..Len(writes) /\ Len(writes) \in Nat
        /\ \A i \in 1..Len(writes) : writes'[i] = writes[i]
        /\ writes'[Len(writes) + 1] = w
    BY <1>2, <1>4
  <1>6. \A i \in DOMAIN writes' : writes'[i].state \in Known
    BY <1>4, <1>5, AllKnown
  <1>7. SaveIsDue'
    BY <1>3, <1>4, <1>5 DEF SaveIsDue
  <1>8. FaucetTypes'
    BY <1>1, <1>2, <1>3, <1>5 DEF FaucetTypes
  <1> QED
    BY <1>1, <1>2, <1>3, <1>6, <1>7, <1>8, AllKnown, ServerStepKeeps

\* A write that ended is gone; the older ones are marked.
LEMMA RemoveAtEffect ==
    ASSUME NEW T, NEW s \in Seq(T), NEW i \in 1..Len(s)
    PROVE  /\ RemoveAt(s, i) \in Seq(T)
           /\ Len(RemoveAt(s, i)) = Len(s) - 1
           /\ \A j \in 1..(Len(s) - 1) :
                RemoveAt(s, i)[j] = IF j < i THEN s[j] ELSE s[j + 1]
  <1>1. PICK n \in Nat : n = Len(s)
    OBVIOUS
  <1> DEFINE a == SubSeq(s, 1, i - 1)
             b == SubSeq(s, i + 1, n)
  <1>2. a \in Seq(T) /\ Len(a) = i - 1 /\ \A j \in 1..(i - 1) : a[j] = s[j]
    BY <1>1
  <1>3. b \in Seq(T) /\ Len(b) = n - i /\ \A j \in 1..(n - i) : b[j] = s[i + j]
    BY <1>1
  <1>4. RemoveAt(s, i) = a \o b
    BY <1>1 DEF RemoveAt
  <1> HIDE DEF a, b
  <1>5. /\ a \o b \in Seq(T) /\ Len(a \o b) = n - 1
        /\ \A j \in 1..(n - 1) : (a \o b)[j] = IF j < i THEN a[j] ELSE b[j - (i - 1)]
    BY <1>1, <1>2, <1>3
  <1>6. \A j \in 1..(n - 1) : (a \o b)[j] = IF j < i THEN s[j] ELSE s[j + 1]
    BY <1>1, <1>2, <1>3, <1>5
  <1> QED
    BY <1>1, <1>4, <1>5, <1>6

LEMMA WriteEndsKeeps ==
    ASSUME FaucetInv, NEW i \in DOMAIN writes, WriteEnds(i)
    PROVE  FaucetInv'
  <1> DEFINE marked == [j \in DOMAIN writes |->
                          IF j < i THEN [writes[j] EXCEPT !.late = TRUE] ELSE writes[j]]
  <1>1. /\ UNCHANGED <<clock, cooldowns, ipLog, saveTimer, reqs, grantLog, forgotten, restarts>>
        /\ \/ faucetFile' = writes[i].state /\ stale' = writes[i].late
           \/ faucetFile' \in {faucetFile, EmptyState} /\ stale' = TRUE
        /\ writes' = RemoveAt(marked, i)
    BY DEF WriteEnds
  <1>2. FaucetTypes /\ clock \in Nat /\ writes \in Seq(Writes)
    BY DEF FaucetInv, FaucetTypes
  <1>3. PICK n \in Nat : n = Len(writes) /\ DOMAIN writes = 1..n
    BY <1>2
  <1>4. i \in 1..n
    BY <1>3
  <1>5. \A j \in 1..n : writes[j] \in Writes
    BY <1>2, <1>3
  <1>6. \A j \in 1..n : /\ marked[j] \in Writes /\ marked[j].state = writes[j].state
                        /\ j < i => marked[j].late
                        /\ j >= i => marked[j] = writes[j]
    <2> SUFFICES ASSUME NEW j \in 1..n
                 PROVE  /\ marked[j] \in Writes /\ marked[j].state = writes[j].state
                        /\ j < i => marked[j].late
                        /\ j >= i => marked[j] = writes[j]
      OBVIOUS
    <2>1. PICK x \in Writes : x = writes[j]
      BY <1>5
    <2>2. marked[j] = IF j < i THEN [x EXCEPT !.late = TRUE] ELSE x
      BY <1>3, <2>1
    <2> DEFINE y == [x EXCEPT !.late = TRUE]
    <2>3. y \in Writes /\ y.state = x.state
      BY <2>1 DEF Writes
    <2>4. y.late
      BY <2>1 DEF Writes
    <2> HIDE DEF y
    <2>5. CASE j < i
      <3>1. marked[j] = y
        BY <2>2, <2>5 DEF y
      <3>2. ~(j >= i)
        BY <1>4, <2>5
      <3> QED
        BY <2>1, <2>3, <2>4, <3>1, <3>2
    <2>6. CASE ~(j < i)
      BY <2>1, <2>2, <2>6
    <2> QED
      BY <2>5, <2>6
  <1>7. marked \in Seq(Writes) /\ Len(marked) = n
    BY <1>3, <1>6
  <1> HIDE DEF marked
  <1>8. /\ writes' \in Seq(Writes) /\ Len(writes') = n - 1 /\ DOMAIN writes' = 1..(n - 1)
        /\ \A j \in 1..(n - 1) : writes'[j] = IF j < i THEN marked[j] ELSE marked[j + 1]
    <2>1. i \in 1..Len(marked)
      BY <1>4, <1>7
    <2>2. /\ RemoveAt(marked, i) \in Seq(Writes)
          /\ Len(RemoveAt(marked, i)) = n - 1
          /\ \A j \in 1..(n - 1) :
               RemoveAt(marked, i)[j] = IF j < i THEN marked[j] ELSE marked[j + 1]
      BY <1>7, <2>1, RemoveAtEffect
    <2>3. \A z \in Seq(Writes) : DOMAIN z = 1..Len(z)
      OBVIOUS
    <2> QED
      BY <1>1, <2>2, <2>3
  <1>9. Memory' = Memory /\ Recorded' = Recorded
    BY <1>1 DEF Memory, Remembered, Recorded
  <1>10. \A j \in DOMAIN writes' : writes'[j].state \in Known
    <2> SUFFICES ASSUME NEW j \in 1..(n - 1)
                 PROVE  writes'[j].state \in Known
      BY <1>8
    <2>1. j \in 1..n /\ j + 1 \in 1..n
      OBVIOUS
    <2>2. marked[j].state \in Known /\ marked[j + 1].state \in Known
      BY <1>3, <1>6, <2>1, AllKnown
    <2> QED
      BY <1>8, <2>2
  <1>11. writes[i].state \in Known /\ writes[i].state \in States /\ writes[i].late \in BOOLEAN
    BY <1>3, <1>4, <1>5, AllKnown DEF Writes
  <1>12. faucetFile' \in Known /\ faucetFile' \in States
    BY <1>1, <1>2, <1>11, AllKnown DEF FaucetTypes, Known
  <1>13. stale' \in BOOLEAN
    BY <1>1, <1>11
  <1>14. FaucetTypes'
    BY <1>1, <1>2, <1>8, <1>9, <1>12, <1>13 DEF FaucetTypes
  <1>15. SaveIsDue'
    <2>1. CASE saveTimer
      BY <1>1, <2>1 DEF SaveIsDue
    <2>2. CASE ~saveTimer
      <3>1. writes[n].late \/ writes[n].state = Memory
        BY <1>3, <1>4, <2>2 DEF FaucetInv, SaveIsDue
      <3>2. CASE n = 1
        <4>1. writes' = <<>> /\ i = n
          BY <1>4, <1>8, <3>2
        <4>2. stale' \/ faucetFile' = Memory
          BY <1>1, <3>1, <4>1
        <4> QED
          BY <1>9, <4>1, <4>2 DEF SaveIsDue
      <3>3. CASE n # 1
        <4>1. n - 1 \in 1..(n - 1) /\ writes' # <<>>
          BY <1>4, <1>8, <3>3
        <4>2. CASE i = n
          <5>1. writes'[n - 1] = marked[n - 1] /\ marked[n - 1].late
            BY <1>4, <1>6, <1>8, <4>1, <4>2
          <5> QED
            BY <1>8, <4>1, <5>1 DEF SaveIsDue
        <4>3. CASE i # n
          <5>1. writes'[n - 1] = marked[n] /\ marked[n] = writes[n]
            BY <1>4, <1>6, <1>8, <4>1, <4>3
          <5> QED
            BY <1>8, <1>9, <3>1, <4>1, <5>1 DEF SaveIsDue
        <4> QED
          BY <4>2, <4>3
      <3> QED
        BY <3>2, <3>3
    <2> QED
      BY <2>1, <2>2
  <1> QED
    BY <1>1, <1>2, <1>9, <1>10, <1>12, <1>14, <1>15, AllKnown, ServerStepKeeps

LEMMA CleanUpKeeps ==
    ASSUME FaucetInv, CleanUp
    PROVE  FaucetInv'
  <1>1. /\ UNCHANGED <<clock, writes, faucetFile, stale, reqs, grantLog, forgotten, restarts>>
        /\ saveTimer'
        /\ cooldowns' = [w \in Wallets |->
                           IF cooldowns[w] # 0 /\ Expired(cooldowns[w]) THEN 0 ELSE cooldowns[w]]
        /\ ipLog' = [ip \in Ips |-> RecentHits(ip)]
    BY DEF CleanUp, SaveFaucetState
  <1>2. FaucetTypes /\ LogIsExact /\ clock \in Nat
    BY DEF FaucetInv, FaucetTypes
  <1>3. Recorded' = Recorded /\ Remembered' = Remembered /\ Remembered \subseteq Recorded
    BY <1>1 DEF Remembered, Recorded
  <1>4. Recorded \subseteq Reqs /\ Continues
    BY <1>1, <1>2, RecordedIsPaid, LogUnchanged
  <1>5. cooldowns' \in [Wallets -> Nat] /\ ipLog' \in [Ips -> FiniteSubsets]
    BY <1>1, <1>2, HitsAreFinite DEF FaucetTypes
  <1>6. FaucetTypes'
    <2>1. saveTimer' \in BOOLEAN
      BY DEF CleanUp, SaveFaucetState
    <2> QED
      BY <1>1, <1>2, <1>3, <1>5, <2>1 DEF FaucetTypes
  <1>7. Covers(Memory)'
    <2>1. \A w \in Wallets : cooldowns'[w] <= clock'
      BY <1>1, <1>2, MemoryHas DEF FaucetInv, Covers
    <2>2. ASSUME NEW g \in Remembered, Fresh(reqs[g].at)
          PROVE  /\ reqs[g].at <= cooldowns'[reqs[g].wallet]
                 /\ g \in ipLog'[reqs[g].ip] \/ Overwritten(g)
      <3>1. PICK y \in Requests : y = reqs[g] /\ PassedCheck(y) /\ y.pc = "paid"
        BY <1>2, <1>3, <1>4 DEF FaucetInv, FaucetTypes, LogIsExact
      <3>2. y.wallet \in Wallets /\ y.ip \in Ips /\ y.at \in Nat
        BY <3>1 DEF PassedCheck, Requests
      <3>3. y.at <= cooldowns[y.wallet] /\ (g \in ipLog[y.ip] \/ Overwritten(g))
        BY <2>2, <3>1, MemoryHas DEF FaucetInv, Covers
      <3>4. g \in ipLog[y.ip] => g \in ipLog'[y.ip]
        BY <1>1, <2>2, <3>2 DEF RecentHits
      <3>5. cooldowns[y.wallet] \in Nat
        BY <1>2, <3>2 DEF FaucetTypes
      <3>6. ~Expired(cooldowns[y.wallet])
        BY <1>2, <2>2, <3>1, <3>2, <3>3, <3>5, FaucetConstants DEF Expired, Fresh
      <3> QED
        BY <1>1, <3>1, <3>2, <3>3, <3>4, <3>6
    <2>3. \A g \in Recorded : Overwritten(g) => Overwritten(g)'
      BY <1>4 DEF Continues
    <2> QED
      BY <1>1, <1>3, <2>1, <2>2, <2>3 DEF Covers, Memory, Fresh
  <1>8. SaveIsDue'
    BY <1>1 DEF SaveIsDue
  <1> QED
    BY <1>1, <1>2, <1>6, <1>7, <1>8, AllKnown, ServerStepKeeps

LEMMA RestartServerKeeps ==
    ASSUME FaucetInv, RestartServer
    PROVE  FaucetInv'
  <1>1. /\ restarts < MaxRestarts /\ restarts' = restarts + 1
        /\ UNCHANGED <<clock, grantLog>>
        /\ stale' = FALSE /\ saveTimer' = FALSE /\ writes' = <<>>
        /\ reqs' = [r \in Reqs |-> IF reqs[r].pc = "sending"
                                   THEN [NoRequest EXCEPT !.pc = "refused"] ELSE reqs[r]]
    BY DEF RestartServer
  <1>2. PICK f : /\ f \in {faucetFile, EmptyState} \cup {writes[i].state : i \in DOMAIN writes}
                 /\ faucetFile' = f /\ cooldowns' = f.wallets /\ ipLog' = f.ips
                 /\ forgotten' = Recorded \ f.of
    BY DEF RestartServer
  <1>3. f \in Known
    BY <1>2, AllKnown
  <1>4. FaucetTypes /\ LogIsExact /\ clock \in Nat /\ reqs \in [Reqs -> Requests]
    BY DEF FaucetInv, FaucetTypes
  <1>5. \A g \in Recorded : reqs'[g] = reqs[g]
    BY <1>1, <1>4, RecordedIsPaid DEF LogIsExact
  <1>6. Continues /\ Recorded' = Recorded
    BY <1>1, <1>4, <1>5, LogUnchanged
  <1>7. Remembered' = f.of
    BY <1>2, <1>3, <1>6 DEF Remembered, Known, Covers
  <1>8. Memory' = f
    BY <1>2, <1>3, <1>7 DEF Memory, Known, States
  <1>9. \A r \in Reqs : \/ reqs'[r] = reqs[r] /\ reqs[r].pc # "sending"
                        \/ /\ reqs'[r] = [NoRequest EXCEPT !.pc = "refused"]
                           /\ reqs[r].pc = "sending"
    BY <1>1
  <1>10. \A r \in Reqs : reqs'[r] = reqs[r] \/ PassedCheck(reqs[r])'
    BY <1>9, RefusedIsFair DEF PassedCheck
  <1>11. FaucetTypes'
    <2>1. reqs' \in [Reqs -> Requests]
      BY <1>1, <1>4, RefusedIsFair
    <2>2. faucetFile' \in States /\ cooldowns' \in [Wallets -> Nat] /\ ipLog' \in [Ips -> FiniteSubsets]
      BY <1>2, <1>3 DEF Known, States
    <2>3. restarts' \in Nat /\ restarts' <= MaxRestarts
      BY <1>1, <1>4, FaucetConstants DEF FaucetTypes
    <2>4. writes' \in Seq(Writes)
      BY <1>1
    <2>5. forgotten' \subseteq Recorded'
      BY <1>2, <1>6
    <2> QED
      BY <1>1, <1>4, <2>1, <2>2, <2>3, <2>4, <2>5 DEF FaucetTypes
  <1>12. LogIsExact'
    <2>1. \A r \in Reqs : reqs'[r].pc = "paid" <=> reqs[r].pc = "paid"
      BY <1>9, RefusedIsFair
    <2> QED
      BY <1>1, <1>4, <1>6, <2>1 DEF LogIsExact
  <1>13. SaveIsDue'
    BY <1>1, <1>2, <1>8 DEF SaveIsDue
  <1>14. \A i \in DOMAIN writes' : writes'[i].state \in Known
    BY <1>1
  <1> QED
    BY <1>2, <1>3, <1>6, <1>8, <1>10, <1>11, <1>12, <1>13, <1>14, StepKeeps

LEMMA FaucetTickKeeps ==
    ASSUME FaucetInv, FaucetTick
    PROVE  FaucetInv'
  <1>1. /\ UNCHANGED <<cooldowns, ipLog, saveTimer, writes, faucetFile, stale, reqs,
                       grantLog, forgotten, restarts>>
        /\ clock < MaxClock /\ clock' = clock + 1
    BY DEF FaucetTick
  <1>2. FaucetTypes /\ clock \in Nat \ {0}
    BY DEF FaucetInv, FaucetTypes
  <1>3. clock' \in Nat \ {0} /\ clock <= clock' /\ clock' <= MaxClock
    BY <1>1, <1>2, FaucetConstants
  <1>4. Memory' = Memory /\ Recorded' = Recorded
    BY <1>1 DEF Memory, Remembered, Recorded
  <1>5. FaucetTypes'
    BY <1>1, <1>2, <1>3, <1>4 DEF FaucetTypes
  <1>6. SaveIsDue'
    BY <1>1, <1>4 DEF FaucetInv, SaveIsDue
  <1> QED
    BY <1>1, <1>3, <1>4, <1>5, <1>6, AllKnown, ServerStepKeeps

LEMMA FaucetSteps == FaucetInv /\ [FaucetNext]_faucetVars => FaucetInv'
  <1> SUFFICES ASSUME FaucetInv, [FaucetNext]_faucetVars
               PROVE  FaucetInv'
    OBVIOUS
  <1>1. CASE UNCHANGED faucetVars
    <2>1. UNCHANGED <<clock, cooldowns, ipLog, saveTimer, writes, faucetFile, stale,
                      reqs, grantLog, forgotten, restarts>>
      BY <1>1 DEF faucetVars
    <2>2. Memory' = Memory /\ Recorded' = Recorded
      BY <2>1 DEF Memory, Remembered, Recorded
    <2>3. FaucetTypes' /\ SaveIsDue' /\ clock \in Nat
      BY <2>1, <2>2 DEF FaucetInv, FaucetTypes, SaveIsDue
    <2> QED
      BY <2>1, <2>2, <2>3, AllKnown, ServerStepKeeps
  <1> QED
    BY <1>1, CheckKeeps, PaidKeeps, FailsKeeps, SaveTimerFiresKeeps, WriteEndsKeeps,
       CleanUpKeeps, RestartServerKeeps, FaucetTickKeeps DEF FaucetNext

LEMMA FaucetInvIsEnough == FaucetInv => FaucetLimitsHold /\ FaucetInvariant
  <1> SUFFICES ASSUME FaucetInv
               PROVE  FaucetLimitsHold /\ FaucetInvariant
    OBVIOUS
  <1>1. FaucetTypes /\ LogIsExact
    BY DEF FaucetInv
  <1>2. Recorded \subseteq Reqs /\ \A h \in Recorded : reqs[h].pc = "paid"
    BY <1>1, RecordedIsPaid DEF LogIsExact
  <1>3. \A r \in Reqs : reqs[r] \in Requests /\ PassedCheck(reqs[r])
    BY DEF FaucetInv, FaucetTypes
  <1>4. CooldownHolds
    <2> SUFFICES ASSUME NEW g \in Recorded, NEW h \in Recorded,
                        g \in reqs[h].saw, reqs[g].wallet = reqs[h].wallet
                 PROVE  reqs[h].at >= reqs[g].at + FAUCET_COOLDOWN
      BY DEF CooldownHolds
    <2>1. PICK y \in Requests : y = reqs[h] /\ PassedCheck(y) /\ y.pc = "paid"
      BY <1>2, <1>3
    <2>2. reqs[g].at \in Nat /\ y.at \in Nat /\ y.checked \in Nat
      BY <1>2, <1>3 DEF Requests
    <2>3. reqs[g].at + FAUCET_COOLDOWN <= y.checked /\ y.checked <= y.at
      BY <2>1 DEF PassedCheck
    <2> QED
      BY <2>1, <2>2, <2>3, FaucetConstants
  <1>5. IpLimitHolds
    <2> SUFFICES ASSUME NEW h \in Recorded
                 PROVE  LET before == {g \in reqs[h].saw :
                                         /\ reqs[g].ip = reqs[h].ip
                                         /\ reqs[h].checked - reqs[g].at < FAUCET_COOLDOWN}
                        IN  Cardinality({g \in before : ~Overwritten(g)}) < FAUCET_IP_LIMIT
      BY DEF IpLimitHolds
    <2> DEFINE before == {g \in reqs[h].saw :
                            /\ reqs[g].ip = reqs[h].ip
                            /\ reqs[h].checked - reqs[g].at < FAUCET_COOLDOWN}
               kept == {g \in before : ~Overwritten(g)}
    <2>1. PICK y \in Requests : y = reqs[h] /\ PassedCheck(y) /\ y.pc = "paid"
      BY <1>2, <1>3
    <2>2. kept \in SUBSET y.hits
      BY <2>1 DEF PassedCheck
    <2>3. IsFiniteSet(y.hits) /\ Cardinality(y.hits) < FAUCET_IP_LIMIT
      BY <2>1 DEF PassedCheck, Requests, FiniteSubsets
    <2> HIDE DEF kept
    <2>4. /\ Cardinality(kept) <= Cardinality(y.hits) /\ Cardinality(y.hits) \in Nat
          /\ Cardinality(kept) \in Nat
      BY <2>2, <2>3, FS_Subset, FS_CardinalityType
    <2>5. Cardinality(kept) < FAUCET_IP_LIMIT
      BY <2>3, <2>4, FaucetConstants
    <2> QED
      BY <2>5 DEF kept
  <1>6. \A m \in States : Covers(m) => m \in StateType
    <2> SUFFICES ASSUME NEW m \in States, Covers(m)
                 PROVE  m \in StateType
      OBVIOUS
    <2>1. \A w \in Wallets : m.wallets[w] \in {0} \cup Times
      BY <1>1, FaucetConstants DEF States, Covers, Times, FaucetTypes
    <2>2. \A ip \in Ips : m.ips[ip] \in SUBSET Reqs
      BY DEF States, FiniteSubsets
    <2>3. m.wallets \in [Wallets -> {0} \cup Times] /\ m.ips \in [Ips -> SUBSET Reqs]
      BY <2>1, <2>2 DEF States
    <2> QED
      BY <2>3 DEF States, StateType
  <1>7. /\ Memory \in StateType /\ faucetFile \in StateType
        /\ \A i \in DOMAIN writes : writes[i].state \in StateType
    BY <1>6, AllKnown DEF Known
  <1>8. \A i \in DOMAIN writes : writes[i].late \in BOOLEAN
    <2>1. writes \in Seq(Writes)
      BY <1>1 DEF FaucetTypes
    <2>2. \A i \in DOMAIN writes : writes[i] \in Writes
      BY <2>1
    <2> QED
      BY <2>2 DEF Writes
  <1>9. ASSUME NEW r \in Reqs
        PROVE  /\ reqs[r].pc \in {"unsent", "sending", "paid", "refused"}
               /\ reqs[r].hits \subseteq Reqs
               /\ reqs[r].at # 0 <=> reqs[r].pc = "paid"
    <2>1. PICK y \in Requests : y = reqs[r] /\ PassedCheck(y)
      BY <1>3
    <2>2. y.at \in Nat /\ y.checked \in Nat
      BY DEF Requests
    <2>3. y.at # 0 <=> y.pc = "paid"
      BY <2>1, <2>2 DEF PassedCheck
    <2> QED
      BY <2>1, <2>3 DEF Requests, FiniteSubsets
  <1>10. clock \in Times /\ restarts \in 0..MaxRestarts /\ {saveTimer, stale} \subseteq BOOLEAN
    BY <1>1, FaucetConstants DEF FaucetTypes, Times
  <1>11. FaucetTypeOK
    BY <1>7, <1>8, <1>9, <1>10 DEF FaucetTypeOK
  <1>12. FileCatchesUp
    BY DEF FaucetInv, SaveIsDue, FileCatchesUp
  <1> QED
    BY <1>4, <1>5, <1>11, <1>12 DEF FaucetLimitsHold, FaucetInvariant

\* server.cjs, POST /api/faucet: a wallet is not paid twice within the cooldown
\* and an address not beyond its limit, but for requests that overlap and for
\* what a restart did not find; for any interleaving, clean-up and restart.
THEOREM FaucetKeepsItsLimits == FaucetSpec => []FaucetLimitsHold
  <1>1. FaucetInit => FaucetInv
    BY FaucetStarts
  <1>2. FaucetInv /\ [FaucetNext]_faucetVars => FaucetInv'
    BY FaucetSteps
  <1>3. FaucetInv => FaucetLimitsHold
    BY FaucetInvIsEnough
  <1> QED
    BY <1>1, <1>2, <1>3, PTL DEF FaucetSpec

-----------------------------------------------------------------------------
(* The price history.                                                      *)

\* Points in order, none of them still to come, no more than the cap.
Sound(points) ==
    /\ points \in Seq(Nat \ {0})
    /\ Increasing(points)
    /\ \A i \in DOMAIN points : points[i] <= recorded
    /\ Len(points) <= MAX_PRICE_POINTS

\* The length says how many points were recorded since the last write was
\* due; PricesKept needs it to bound what the next one finds.
PriceInv ==
    /\ recorded \in Nat /\ badWrites \in Nat /\ priceFaults \in Nat
    /\ recorded <= MaxRecords
    /\ badWrites <= priceFaults /\ priceFaults <= MaxPriceFaults
    /\ Sound(priceHistory)
    /\ Sound(priceFile)
    /\ badWrites = 0 \/ priceFile # <<>>
       => FileLacksAtMost(SAVE_EVERY * badWrites + (Len(priceHistory) % SAVE_EVERY))

-----------------------------------------------------------------------------
(* Arithmetic of the save.                                                 *)

LEMMA ModUnique ==
    ASSUME NEW n \in Nat, NEW S \in Nat \ {0}, NEW q \in Nat, NEW r \in 0..(S - 1),
           n = S * q + r
    PROVE  n % S = r
  OBVIOUS

LEMMA ModRange ==
    ASSUME NEW n \in Nat, NEW S \in Nat \ {0}
    PROVE  n % S \in 0..(S - 1)
  OBVIOUS

\* A length that is no multiple leaves one more than the length before it.
LEMMA ModStep ==
    ASSUME NEW n \in Nat, NEW S \in Nat \ {0}, (n + 1) % S # 0
    PROVE  (n + 1) % S = (n % S) + 1
  <1>1. PICK q \in Nat, r \in 0..(S - 1) : n = S * q + r /\ r = n % S
    <2>1. n \div S \in Nat /\ n % S \in 0..(S - 1) /\ n = S * (n \div S) + (n % S)
      OBVIOUS
    <2> QED
      BY <2>1
  <1>2. CASE r = S - 1
    <2>1. PICK k \in Nat : k = q + 1
      OBVIOUS
    <2>2. PICK m \in Nat : m = n + 1
      OBVIOUS
    <2>3. m = S * k + 0
      BY <1>1, <1>2, <2>1, <2>2
    <2>4. 0 \in 0..(S - 1)
      OBVIOUS
    <2>5. m % S = 0
      BY <2>3, <2>4, ModUnique
    <2> QED
      BY <2>2, <2>5
  <1>3. CASE r # S - 1
    <2>1. PICK t \in 0..(S - 1) : t = r + 1
      BY <1>3
    <2>2. PICK m \in Nat : m = n + 1
      OBVIOUS
    <2>3. PICK x \in Nat : x = S * q
      BY <1>1
    <2>4. n = x + r
      BY <1>1, <2>3
    <2>5. m = x + t
      BY <2>1, <2>2, <2>4
    <2>6. m % S = t
      BY <1>1, <2>3, <2>5, ModUnique
    <2> QED
      BY <1>1, <2>1, <2>2, <2>6
  <1> QED
    BY <1>2, <1>3

-----------------------------------------------------------------------------
(* The points.                                                             *)

LEMMA AppendSound ==
    ASSUME NEW points \in Seq(Nat \ {0}), Increasing(points), NEW p \in Nat \ {0},
           \A i \in DOMAIN points : points[i] < p
    PROVE  /\ Append(points, p) \in Seq(Nat \ {0})
           /\ Len(Append(points, p)) = Len(points) + 1
           /\ Increasing(Append(points, p))
           /\ \A i \in DOMAIN Append(points, p) : Append(points, p)[i] <= p
  <1> DEFINE q == Append(points, p)
  <1>1. q \in Seq(Nat \ {0}) /\ Len(q) = Len(points) + 1
    OBVIOUS
  <1>2. \A i \in 1..Len(points) : q[i] = points[i]
    OBVIOUS
  <1>3. q[Len(points) + 1] = p
    OBVIOUS
  <1>4. DOMAIN q = 1..(Len(points) + 1) /\ DOMAIN points = 1..Len(points)
    OBVIOUS
  <1>5. \A i \in 1..Len(points) : points[i] \in Nat
    OBVIOUS
  <1> HIDE DEF q
  <1>6. Increasing(q)
    BY <1>2, <1>3, <1>4 DEF Increasing
  <1>7. \A i \in DOMAIN q : q[i] <= p
    BY <1>2, <1>3, <1>4, <1>5
  <1> QED
    BY <1>1, <1>6, <1>7 DEF q

\* The cut keeps the newest MAX_PRICE_POINTS, in order.
LEMMA TrimSound ==
    ASSUME NEW points \in Seq(Nat \ {0}), Increasing(points), NEW p \in Nat \ {0},
           \A i \in DOMAIN points : points[i] <= p, NEW len \in Nat, len = Len(points)
    PROVE  /\ Trim(points) \in Seq(Nat \ {0})
           /\ Increasing(Trim(points))
           /\ \A i \in DOMAIN Trim(points) : Trim(points)[i] <= p
           /\ Len(Trim(points)) = IF len > MAX_PRICE_POINTS THEN MAX_PRICE_POINTS ELSE len
  <1>1. MAX_PRICE_POINTS \in Nat \ {0}
    BY PriceAssumption
  <1>2. CASE len <= MAX_PRICE_POINTS
    <2>1. Trim(points) = points
      BY <1>1, <1>2 DEF Trim
    <2> QED
      BY <1>1, <1>2, <2>1
  <1>3. CASE len > MAX_PRICE_POINTS
    <2> DEFINE first == len - MAX_PRICE_POINTS + 1
               q == SubSeq(points, first, len)
    <2>1. Trim(points) = q
      BY <1>1, <1>3 DEF Trim
    <2>2. first \in 1..len /\ len - first + 1 = MAX_PRICE_POINTS
      BY <1>1, <1>3
    <2>3. \A i \in first..len : points[i] \in Nat
      BY <2>2
    <2>4. /\ q \in Seq(Nat \ {0})
          /\ Len(q) = MAX_PRICE_POINTS
          /\ \A i \in 1..MAX_PRICE_POINTS : q[i] = points[first + i - 1]
      BY <1>1, <2>2, <2>3
    <2>5. DOMAIN q = 1..MAX_PRICE_POINTS /\ DOMAIN points = 1..len
      BY <2>4
    <2>6. \A i \in 1..MAX_PRICE_POINTS : first + i - 1 \in 1..len
      BY <1>1, <2>2
    <2> HIDE DEF first, q
    <2>7. first \in Int
      BY <2>2
    <2>8. Increasing(q)
      <3> SUFFICES ASSUME NEW i \in 1..MAX_PRICE_POINTS, NEW j \in 1..MAX_PRICE_POINTS, i < j
                   PROVE  q[i] < q[j]
        BY <2>5 DEF Increasing
      <3>1. PICK a \in 1..len : a = first + i - 1
        BY <2>6
      <3>2. PICK b \in 1..len : b = first + j - 1
        BY <2>6
      <3>3. a < b
        BY <1>1, <2>7, <3>1, <3>2
      <3>4. points[a] < points[b]
        BY <2>5, <3>3 DEF Increasing
      <3>5. q[i] = points[a] /\ q[j] = points[b]
        BY <2>4, <3>1, <3>2
      <3> QED
        BY <3>4, <3>5
    <2>9. \A i \in DOMAIN q : q[i] <= p
      BY <2>4, <2>5, <2>6
    <2> QED
      BY <1>3, <2>1, <2>4, <2>8, <2>9
  <1> QED
    BY <1>1, <1>2, <1>3

-----------------------------------------------------------------------------
(* The steps.                                                              *)

\* An empty history is sound.
LEMMA EmptySound == recorded \in Nat => Sound(<<>>)
  BY PriceAssumption DEF Sound, Increasing

\* What remains due after a point more: the length, cut or not, leaves the
\* same remainder as before the cut, because SAVE_EVERY divides the cap.
LEMMA LengthStep ==
    ASSUME NEW len \in Nat, len <= MAX_PRICE_POINTS,
           NEW new \in Nat,
           new = IF len + 1 > MAX_PRICE_POINTS THEN MAX_PRICE_POINTS ELSE len + 1,
           new % SAVE_EVERY # 0
    PROVE  new % SAVE_EVERY = (len % SAVE_EVERY) + 1
  <1>1. SAVE_EVERY \in Nat \ {0} /\ MAX_PRICE_POINTS \in Nat \ {0}
    BY PriceAssumption
  <1>2. MAX_PRICE_POINTS % SAVE_EVERY = 0
    BY PriceAssumption
  <1>3. new = len + 1
    BY <1>1, <1>2
  <1> QED
    BY <1>1, <1>3, ModStep

LEMMA PriceInitInv == PriceInit => PriceInv
  <1> SUFFICES ASSUME PriceInit
               PROVE  PriceInv
    OBVIOUS
  <1>1. Sound(<<>>)
    BY EmptySound DEF PriceInit
  <1>2. Len(priceHistory) = 0
    BY DEF PriceInit
  <1>3. SAVE_EVERY \in Nat \ {0}
    BY PriceAssumption
  <1>4. 0 % SAVE_EVERY = 0 /\ SAVE_EVERY * 0 = 0
    BY <1>3
  <1>5. MaxRecords \in Nat /\ MaxPriceFaults \in Nat
    BY PriceAssumption
  <1>6. FileLacksAtMost(0)
    BY <1>2 DEF FileLacksAtMost
  <1> QED
    BY <1>1, <1>2, <1>4, <1>5, <1>6 DEF PriceInit, PriceInv

\* A restart finds the file as it is, or nothing.
LEMMA RestartPricesKeeps == PriceInv /\ RestartPrices => PriceInv'
  <1> SUFFICES ASSUME PriceInv, RestartPrices
               PROVE  PriceInv'
    OBVIOUS
  <1>1. PICK f \in {priceFile, <<>>} : priceFile' = f /\ priceHistory' = f
    BY DEF RestartPrices
  <1>2. recorded' = recorded /\ badWrites' = 0
    BY DEF RestartPrices
  <1>3. Sound(f)
    BY EmptySound DEF PriceInv
  <1>4. Sound(priceHistory)' /\ Sound(priceFile)'
    BY <1>1, <1>2, <1>3 DEF Sound, Increasing
  <1>5. SAVE_EVERY \in Nat \ {0} /\ Len(f) \in Nat
    BY <1>3, PriceAssumption DEF Sound
  <1>6. Len(f) % SAVE_EVERY \in Nat /\ SAVE_EVERY * 0 = 0
    BY <1>5, ModRange
  <1>7. FileLacksAtMost(SAVE_EVERY * badWrites + (Len(priceHistory) % SAVE_EVERY))'
    <2>1. PICK n \in Nat : n = SAVE_EVERY * 0 + (Len(f) % SAVE_EVERY)
      BY <1>6
    <2>2. PICK len \in Nat : len = Len(f)
      BY <1>5
    <2>3. DOMAIN f = 1..len
      BY <1>3, <2>2 DEF Sound
    <2>4. \A i \in 1..(len - n) : i \in DOMAIN f
      BY <2>3
    <2>5. \A i \in 1..(len - n) : \E j \in DOMAIN f : f[j] = f[i]
      BY <2>4
    <2> QED
      BY <1>1, <1>2, <2>1, <2>2, <2>5 DEF FileLacksAtMost, InFile
  <1>8. priceFaults' \in Nat /\ 0 <= priceFaults' /\ priceFaults' <= MaxPriceFaults
    BY PriceAssumption DEF PriceInv, RestartPrices
  <1>9. 0 <= recorded /\ recorded \in Nat /\ recorded <= MaxRecords
    BY DEF PriceInv
  <1> QED
    BY <1>2, <1>4, <1>7, <1>8, <1>9 DEF PriceInv

LEMMA RecordPriceKeeps == PriceInv /\ RecordPrice => PriceInv'
  <1> SUFFICES ASSUME PriceInv, RecordPrice
               PROVE  PriceInv'
    OBVIOUS
  <1>1. SAVE_EVERY \in Nat \ {0} /\ MAX_PRICE_POINTS \in Nat \ {0}
    BY PriceAssumption
  <1>2. PICK p \in Nat \ {0} : p = recorded + 1
    BY DEF PriceInv
  <1>3. /\ priceHistory \in Seq(Nat \ {0}) /\ Increasing(priceHistory)
        /\ \A i \in DOMAIN priceHistory : priceHistory[i] < p
    BY <1>2 DEF PriceInv, Sound
  <1>4. PICK longer : longer = Append(priceHistory, p)
    OBVIOUS
  <1>5. /\ longer \in Seq(Nat \ {0}) /\ Increasing(longer)
        /\ \A i \in DOMAIN longer : longer[i] <= p
        /\ Len(longer) = Len(priceHistory) + 1
    BY <1>3, <1>4, AppendSound
  <1>6. PICK len \in Nat : len = Len(priceHistory)
    BY <1>3
  <1>7. PICK points : points = Trim(longer)
    OBVIOUS
  <1>8. /\ points \in Seq(Nat \ {0}) /\ Increasing(points)
        /\ \A i \in DOMAIN points : points[i] <= p
        /\ Len(points) = IF Len(longer) > MAX_PRICE_POINTS
                         THEN MAX_PRICE_POINTS ELSE Len(longer)
    <2>1. Len(longer) \in Nat
      BY <1>5
    <2> QED
      BY <1>2, <1>5, <1>7, <2>1, TrimSound
  <1>9. PICK new \in Nat : new = Len(points)
    BY <1>8
  <1>10. recorded' = p /\ priceHistory' = points
    BY <1>2, <1>4, <1>7 DEF RecordPrice
  <1>11. len <= MAX_PRICE_POINTS
    BY <1>6 DEF PriceInv, Sound
  <1>12. new = IF len + 1 > MAX_PRICE_POINTS THEN MAX_PRICE_POINTS ELSE len + 1
    BY <1>5, <1>6, <1>8, <1>9
  <1>13. Sound(priceHistory)'
    BY <1>1, <1>8, <1>9, <1>10, <1>11, <1>12 DEF Sound, Increasing
  <1>14. priceFile' \in {priceFile, points, <<>>}
    BY <1>2, <1>4, <1>7 DEF RecordPrice
  <1>15. Sound(priceFile)'
    <2>1. CASE priceFile' = points
      BY <1>10, <1>13, <2>1 DEF Sound, Increasing
    <2>2. CASE priceFile' = priceFile
      BY <1>2, <1>10, <2>2 DEF PriceInv, Sound, Increasing
    <2>3. CASE priceFile' = <<>>
      BY <1>1, <1>2, <1>10, <2>3 DEF Sound, Increasing
    <2> QED
      BY <1>14, <2>1, <2>2, <2>3
  <1>16. badWrites \in Nat /\ badWrites' \in Nat
    BY DEF PriceInv, RecordPrice
  <1>17. len % SAVE_EVERY \in 0..(SAVE_EVERY - 1) /\ new % SAVE_EVERY \in 0..(SAVE_EVERY - 1)
    BY <1>1, ModRange
  <1>18. PICK due \in Nat : due = SAVE_EVERY * badWrites
    BY <1>1, <1>16
  \* What the file lacked before the step, and what it lacks after it.
  <1>a. PICK old \in Nat : old = due + (len % SAVE_EVERY)
    BY <1>17
  <1>b. badWrites = 0 \/ priceFile # <<>> =>
          \A i \in 1..(len - old) : \E j \in DOMAIN priceFile : priceFile[j] = priceHistory[i]
    BY <1>6, <1>18, <1>a DEF PriceInv, FileLacksAtMost, InFile
  <1>c. ASSUME NEW lacks \in Nat, lacks >= old + 1, lacks >= 1, priceFile' = priceFile,
               badWrites = 0 \/ priceFile # <<>>
        PROVE  \A i \in 1..(new - lacks) :
                 \E j \in DOMAIN priceFile' : priceFile'[j] = points[i]
    <2> SUFFICES ASSUME NEW i \in 1..(new - lacks)
                 PROVE  \E j \in DOMAIN priceFile : priceFile[j] = points[i]
      BY <1>c
    <2>1. new <= len + 1
      BY <1>1, <1>11, <1>12
    <2>2. PICK k \in 1..(len - old) : points[i] = priceHistory[k]
      <3>1. CASE len + 1 <= MAX_PRICE_POINTS
        <4>1. points = longer
          BY <1>1, <1>5, <1>6, <1>7, <3>1 DEF Trim
        <4>2. i \in 1..(len - old) /\ i \in 1..len
          BY <1>c, <2>1
        <4>3. longer[i] = priceHistory[i]
          BY <1>3, <1>4, <1>6, <4>2
        <4> QED
          BY <4>1, <4>2, <4>3
      <3>2. CASE len + 1 > MAX_PRICE_POINTS
        <4>1. len = MAX_PRICE_POINTS /\ new = len
          BY <1>1, <1>11, <1>12, <3>2
        <4>2. points = SubSeq(longer, 2, len + 1)
          BY <1>1, <1>5, <1>6, <1>7, <3>2, <4>1 DEF Trim
        <4>3. PICK k \in 1..len : k = i + 1
          BY <1>c, <4>1
        <4>4. k \in 1..(len - old)
          BY <1>c, <4>1, <4>3
        <4>5. points[i] = longer[k]
          <5>1. Len(longer) = len + 1
            BY <1>5, <1>6
          <5>2. i \in 1..len /\ 2 + i - 1 = k
            BY <1>c, <4>1, <4>3
          <5>3. SubSeq(longer, 2, len + 1)[i] = longer[2 + i - 1]
            BY <1>5, <5>1, <5>2
          <5> QED
            BY <4>2, <5>2, <5>3
        <4>6. longer[k] = priceHistory[k]
          BY <1>3, <1>4, <1>6, <4>3
        <4> QED
          BY <4>4, <4>5, <4>6
      <3> QED
        BY <1>1, <3>1, <3>2
    <2> QED
      BY <1>b, <1>c, <2>2
  <1>19. badWrites' = 0 \/ priceFile' # <<>> =>
           \A i \in 1..(new - (SAVE_EVERY * badWrites' + (new % SAVE_EVERY))) :
             \E j \in DOMAIN priceFile' : priceFile'[j] = points[i]
    <2> SUFFICES ASSUME badWrites' = 0 \/ priceFile' # <<>>
                 PROVE  \A i \in 1..(new - (SAVE_EVERY * badWrites' + (new % SAVE_EVERY))) :
                          \E j \in DOMAIN priceFile' : priceFile'[j] = points[i]
      OBVIOUS
    <2>1. CASE new % SAVE_EVERY # 0 /\ priceFile' = priceFile /\ badWrites' = badWrites
      <3>1. new % SAVE_EVERY = (len % SAVE_EVERY) + 1
        BY <1>11, <1>12, <2>1, LengthStep
      <3>2. PICK lacks \in Nat : lacks = SAVE_EVERY * badWrites' + (new % SAVE_EVERY)
        BY <1>17, <1>18, <2>1
      <3>3. lacks = old + 1
        BY <1>17, <1>18, <1>a, <2>1, <3>1, <3>2
      <3>4. lacks >= old + 1 /\ lacks >= 1
        BY <3>3
      <3> QED
        BY <1>c, <2>1, <3>2, <3>4
    <2>2. CASE priceFile' = points
      <3>1. DOMAIN points = 1..new
        BY <1>8, <1>9
      <3>2. SAVE_EVERY * badWrites' + (new % SAVE_EVERY) \in Nat
        BY <1>1, <1>16, <1>17
      <3>3. \A i \in 1..(new - (SAVE_EVERY * badWrites' + (new % SAVE_EVERY))) : i \in DOMAIN points
        BY <3>1, <3>2
      <3> QED
        BY <2>2, <3>3
    <2>3. CASE /\ new % SAVE_EVERY = 0
               /\ priceFile' \in {priceFile, <<>>} /\ badWrites' = badWrites + 1
      <3>1. priceFile' = priceFile /\ priceFile # <<>>
        BY <1>16, <2>3
      <3>2. PICK lacks \in Nat : lacks = SAVE_EVERY * badWrites' + (new % SAVE_EVERY)
        BY <1>1, <1>16, <1>17
      <3>3. SAVE_EVERY * (badWrites + 1) = due + SAVE_EVERY
        BY <1>1, <1>16, <1>18
      <3>4. lacks >= old + 1 /\ lacks >= 1
        BY <1>1, <1>17, <1>18, <1>a, <2>3, <3>2, <3>3
      <3> QED
        BY <1>c, <3>1, <3>2, <3>4
    <2> QED
      BY <1>2, <1>4, <1>7, <1>9, <2>1, <2>2, <2>3 DEF RecordPrice
  <1>20. recorded \in Nat /\ recorded' = recorded + 1 /\ recorded' <= MaxRecords
    <2>1. recorded \in Nat
      BY DEF PriceInv
    <2>2. recorded < MaxRecords /\ MaxRecords \in Nat /\ recorded' = recorded + 1
      BY PriceAssumption DEF RecordPrice
    <2> QED
      BY <2>1, <2>2
  <1>21. /\ priceFaults' \in Nat /\ priceFaults' <= MaxPriceFaults /\ badWrites' <= priceFaults'
    <2>1. /\ badWrites \in Nat /\ priceFaults \in Nat /\ MaxPriceFaults \in Nat
          /\ badWrites <= priceFaults /\ priceFaults <= MaxPriceFaults
      BY PriceAssumption DEF PriceInv
    <2>2. \/ badWrites' \in {badWrites, 0} /\ priceFaults' = priceFaults
          \/ /\ badWrites' = badWrites + 1 /\ priceFaults' = priceFaults + 1
             /\ priceFaults < MaxPriceFaults
      BY DEF RecordPrice
    <2> QED
      BY <2>1, <2>2
  <1>22. (badWrites = 0 \/ priceFile # <<>>
          => FileLacksAtMost(SAVE_EVERY * badWrites + (Len(priceHistory) % SAVE_EVERY)))'
    BY <1>9, <1>10, <1>19 DEF FileLacksAtMost, InFile
  <1> QED
    BY <1>2, <1>13, <1>15, <1>16, <1>20, <1>21, <1>22 DEF PriceInv

LEMMA PriceStutterKeeps == PriceInv /\ UNCHANGED priceVars => PriceInv'
  BY DEF PriceInv, Sound, Increasing, FileLacksAtMost, InFile, priceVars

\* The remainder is less than SAVE_EVERY, the number of failed writes does
\* the rest.
LEMMA PriceInvIsEnough == PriceInv => PricesKept
  <1> SUFFICES ASSUME PriceInv
               PROVE  PricesKept
    OBVIOUS
  <1>1. SAVE_EVERY \in Nat \ {0} /\ Len(priceHistory) \in Nat
    BY PriceAssumption DEF PriceInv, Sound
  <1>2. Len(priceHistory) % SAVE_EVERY \in 0..(SAVE_EVERY - 1)
    BY <1>1, ModRange
  <1>3. SAVE_EVERY * (1 + badWrites) = SAVE_EVERY + SAVE_EVERY * badWrites
    BY <1>1 DEF PriceInv
  <1>4. SAVE_EVERY * badWrites \in Nat
    BY <1>1 DEF PriceInv
  <1>5. PICK less \in Nat : less = SAVE_EVERY * badWrites + (Len(priceHistory) % SAVE_EVERY)
    BY <1>2, <1>4
  <1>6. PICK more \in Nat : more = SAVE_EVERY * (1 + badWrites) - 1
    BY <1>1, <1>3, <1>4
  <1>7. less <= more
    BY <1>1, <1>2, <1>3, <1>4, <1>5, <1>6
  <1>8. PICK len \in Nat : len = Len(priceHistory)
    BY <1>1
  <1>9. \A i \in 1..(len - more) : i \in 1..(len - less)
    BY <1>7
  <1>10. FileLacksAtMost(less) => FileLacksAtMost(more)
    BY <1>8, <1>9 DEF FileLacksAtMost
  <1> QED
    BY <1>5, <1>6, <1>10 DEF PriceInv, Sound, PricesKept

-----------------------------------------------------------------------------
(* The theorem.                                                            *)

\* server.cjs:445: whatever the restarts and the failed writes, the file holds
\* all points in memory but fewer than SAVE_EVERY, and as many more for each
\* write that failed since the last good one, unless such a write emptied it;
\* the history stays ordered and within its cap.
THEOREM HistorySurvives == PriceSpec => []PricesKept
  <1>1. PriceInit => PriceInv
    BY PriceInitInv
  <1>2. PriceInv /\ [PriceNext]_priceVars => PriceInv'
    BY RecordPriceKeeps, RestartPricesKeeps, PriceStutterKeeps DEF PriceNext
  <1>3. PriceInv => PricesKept
    BY PriceInvIsEnough
  <1> QED
    BY <1>1, <1>2, <1>3, PTL DEF PriceSpec

LEMMA PriceInvIsTyped == PriceInv => PriceTypeOK
  <1> SUFFICES ASSUME PriceInv
               PROVE  PriceTypeOK
    OBVIOUS
  <1>1. recorded \in 0..MaxRecords /\ badWrites \in 0..MaxPriceFaults
    BY PriceAssumption DEF PriceInv
  <1>2. ASSUME NEW points, Sound(points)
        PROVE  points \in Seq(1..MaxRecords)
    <2>2. MaxRecords \in Nat /\ recorded \in Nat /\ recorded <= MaxRecords
      BY <1>1, PriceAssumption
    <2>a. points \in Seq(Nat \ {0}) /\ \A i \in DOMAIN points : points[i] <= recorded
      BY <1>2 DEF Sound
    <2>b. \A i \in DOMAIN points : points[i] \in Nat \ {0}
      BY <2>a
    <2>1. points \in Seq(Nat \ {0}) /\ \A i \in DOMAIN points : points[i] <= MaxRecords
      BY <2>2, <2>a, <2>b
    <2>3. PICK T : T = 1..MaxRecords
      OBVIOUS
    <2>4. \A i \in 1..Len(points) : points[i] \in T
      BY <2>1, <2>2, <2>3
    <2>5. points = [i \in 1..Len(points) |-> points[i]] /\ Len(points) \in Nat
      BY <2>1
    <2>6. [i \in 1..Len(points) |-> points[i]] \in Seq(T)
      BY <2>4, <2>5
    <2> QED
      BY <2>3, <2>5, <2>6
  <1>3. priceHistory \in Seq(1..MaxRecords) /\ priceFile \in Seq(1..MaxRecords)
    BY <1>2 DEF PriceInv
  <1> QED
    BY <1>1, <1>3 DEF PriceTypeOK

-----------------------------------------------------------------------------
(* All of them, one loaded at a time.                                      *)

ServicesInv == FaucetInv /\ MetadataInv /\ LeaderboardInv /\ PriceInv

LEMMA ServicesStart == MCInit => ServicesInv
  BY FaucetStarts, MetadataStarts, LeaderboardStarts, PriceInitInv DEF MCInit, ServicesInv

\* A service that is not loaded stutters, so each keeps its own invariant.
LEMMA ServicesSteps == ServicesInv /\ [MCNext]_MCVars => ServicesInv'
  <1> SUFFICES ASSUME ServicesInv, [MCNext]_MCVars
               PROVE  ServicesInv'
    OBVIOUS
  <1>1. [FaucetNext]_faucetVars
    BY DEF MCNext, MCFaucet, MCMetadata, MCLeaderboard, MCPrices, MCVars
  <1>2. [MetadataNext]_metadataVars
    BY DEF MCNext, MCFaucet, MCMetadata, MCLeaderboard, MCPrices, MCVars
  <1>3. [LeaderboardNext]_leaderboardVars
    BY DEF MCNext, MCFaucet, MCMetadata, MCLeaderboard, MCPrices, MCVars
  <1>4. [PriceNext]_priceVars
    BY DEF MCNext, MCFaucet, MCMetadata, MCLeaderboard, MCPrices, MCVars
  <1> QED
    BY <1>1, <1>2, <1>3, <1>4, FaucetSteps, MetadataSteps, LeaderboardSteps,
       RecordPriceKeeps, RestartPricesKeeps, PriceStutterKeeps DEF ServicesInv, PriceNext

\* Every service keeps its state well formed, and the debounced save of the
\* faucet (server.cjs: saveFaucetState) loses nothing: the file catches up
\* with the maps whenever no write failed or was overtaken.
THEOREM ServicesStayWellFormed == MCSpec => []ServicesInvariant
  <1>1. MCInit => ServicesInv
    BY ServicesStart
  <1>2. ServicesInv /\ [MCNext]_MCVars => ServicesInv'
    BY ServicesSteps
  <1>3. ServicesInv => ServicesInvariant
    BY FaucetInvIsEnough, MetadataInvIsEnough, LeaderboardInvIsEnough, PriceInvIsTyped
       DEF ServicesInv, ServicesInvariant
  <1> QED
    BY <1>1, <1>2, <1>3, PTL DEF MCSpec

=============================================================================
