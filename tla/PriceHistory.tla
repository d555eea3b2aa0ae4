---------------------------- MODULE PriceHistory -----------------------------
(***************************************************************************)
(* The price history of server.cjs: recordPrice, the trim to               *)
(* MAX_PRICE_POINTS, the synchronous save whenever the length is a         *)
(* multiple of SAVE_EVERY (10), and the load at the start.                 *)
(*                                                                         *)
(* A point is the number of the record that made it.  The two vaults of    *)
(* the pool are read before the point exists; the rest of recordPrice runs *)
(* without interruption, so that overlapping records do not interleave.    *)
(*                                                                         *)
(* writeFileSync empties the file before it writes.  A write that fails    *)
(* and a stop in the middle of one may therefore leave a file that the     *)
(* next start cannot parse: <<>> stands for it, as for a missing file.     *)
(***************************************************************************)
EXTENDS Integers, Sequences

CONSTANTS
    MAX_PRICE_POINTS, SAVE_EVERY,
    MaxRecords,          \* bound of the model
    MaxPriceFaults       \* bound on failed writes and restarts

ASSUME PriceAssumption ==
    /\ SAVE_EVERY \in Nat \ {0}
    /\ MAX_PRICE_POINTS \in Nat \ {0}
    /\ MAX_PRICE_POINTS % SAVE_EVERY = 0    \* 20,160 points, every 10th saved
    /\ {MaxRecords, MaxPriceFaults} \subseteq Nat

VARIABLES
    priceHistory,
    priceFile,           \* what price-history.json holds
    recorded,            \* points recorded so far (history)
    badWrites,           \* writes that failed since the file was last written or read (history)
    priceFaults

priceVars == <<priceHistory, priceFile, recorded, badWrites, priceFaults>>

PriceInit ==
    /\ priceHistory = <<>>
    /\ priceFile = <<>>
    /\ recorded = 0
    /\ badWrites = 0
    /\ priceFaults = 0

\* Faulty: one point too many is cut off.
TrimOneMore(points) ==
    IF Len(points) > MAX_PRICE_POINTS - 1
    THEN SubSeq(points, Len(points) - MAX_PRICE_POINTS + 2, Len(points)) ELSE points

Trim(points) ==
    IF Len(points) > MAX_PRICE_POINTS
    THEN SubSeq(points, Len(points) - MAX_PRICE_POINTS + 1, Len(points)) ELSE points

\* Both vaults are there and not empty.  The save may throw, which nobody is
\* told: the point stays, the file is as it was or can no longer be read.
RecordPrice ==
    LET points == Trim(Append(priceHistory, recorded + 1))
    IN  /\ recorded < MaxRecords
        /\ recorded' = recorded + 1
        /\ priceHistory' = points
        /\ \/ /\ Len(points) % SAVE_EVERY # 0
              /\ UNCHANGED <<priceFile, badWrites, priceFaults>>
           \/ /\ Len(points) % SAVE_EVERY = 0
              /\ priceFile' = points
              /\ badWrites' = 0
              /\ UNCHANGED priceFaults
           \/ /\ Len(points) % SAVE_EVERY = 0
              /\ priceFaults < MaxPriceFaults
              /\ priceFaults' = priceFaults + 1
              /\ badWrites' = badWrites + 1
              /\ priceFile' \in {priceFile, <<>>}

\* The server stops, perhaps in the middle of a write, and starts.
RestartPrices ==
    /\ priceFaults < MaxPriceFaults
    /\ priceFaults' = priceFaults + 1
    /\ \E f \in {priceFile, <<>>} :
         priceFile' = f /\ priceHistory' = f
    /\ badWrites' = 0
    /\ UNCHANGED recorded

PriceNext == RecordPrice \/ RestartPrices

PriceSpec == PriceInit /\ [][PriceNext]_priceVars

-----------------------------------------------------------------------------
(* Correctness.                                                            *)

\* The history and the counters are well formed.
PriceTypeOK ==
    /\ {priceHistory, priceFile} \subseteq Seq(1..MaxRecords)
    /\ recorded \in 0..MaxRecords
    /\ badWrites \in 0..MaxPriceFaults

Increasing(points) == \A i, j \in DOMAIN points : i < j => points[i] < points[j]

InFile(p) == \E j \in DOMAIN priceFile : priceFile[j] = p

\* The file holds all points in memory but the newest n.
FileLacksAtMost(n) ==
    \A i \in 1..(Len(priceHistory) - n) : InFile(priceHistory[i])

\* A stop between two writes loses fewer than SAVE_EVERY points, and as many
\* more for each write that failed since the last good one and left the file
\* readable.  It loses all of them only after a write that failed and emptied
\* the file.  This is so also when the history is full and its length no
\* longer grows; the points stay in order and no more than MAX_PRICE_POINTS.
PricesKept ==
    /\ badWrites = 0 \/ priceFile # <<>>
       => FileLacksAtMost(SAVE_EVERY * (1 + badWrites) - 1)
    /\ Increasing(priceHistory)
    /\ Len(priceHistory) <= MAX_PRICE_POINTS

=============================================================================
