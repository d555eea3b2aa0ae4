----------------------------- MODULE MetadataApi -----------------------------
(***************************************************************************)
(* GET /api/metadata/:mint of server.cjs and the memo of misses of         *)
(* server-security.cjs.                                                    *)
(*                                                                         *)
(* Of a gumball only its version counts: 0 before it is minted, 1 when it  *)
(* is minted, one more whenever reroll_cosmetics writes new traits and new *)
(* artwork.  A burned gumball keeps both accounts.  The handler asks for   *)
(* the two accounts at once and gets them at two moments.                  *)
(***************************************************************************)
EXTENDS Integers, FiniteSets

CONSTANTS
    Keys,            \* mints that are asked for
    BadKeys,         \* those that are no public keys
    Handlers,        \* requests being answered at once
    NEGATIVE_TTL, NEGATIVE_MAX,
    CACHE_MAX,       \* entries beyond which metadataCache is cleared
    RPC_MAX,         \* time within which a read is answered
    MaxVersion, MaxTime   \* bounds of the model

ASSUME MetadataAssumption ==
    /\ BadKeys \subseteq Keys
    /\ {NEGATIVE_TTL, CACHE_MAX, RPC_MAX, MaxVersion, MaxTime} \subseteq Nat
    /\ NEGATIVE_MAX \in Nat \ {0}

VARIABLES
    apiTime,
    version,         \* mint -> version of its accounts on chain
    metadataCache,   \* mint -> the versions of traits and artwork served for it
    negative,        \* mint -> time until which it is answered 404
    handlers,
    bornAt,          \* mint -> time it was minted (history)
    raced            \* mints written while a handler was reading them (history)

metadataVars == <<apiTime, version, metadataCache, negative, handlers, bornAt, raced>>

Never == -1          \* no expiry, no read yet
NoEntry == [traits |-> 0, art |-> 0]
IdleHandler == [reading |-> FALSE, key |-> "", gd |-> Never, svg |-> Never, since |-> 0]

MetadataInit ==
    /\ apiTime = 0
    /\ version = [k \in Keys |-> 0]
    /\ metadataCache = [k \in Keys |-> NoEntry]
    /\ negative = [k \in Keys |-> Never]
    /\ handlers = [h \in Handlers |-> IdleHandler]
    /\ bornAt = [k \in Keys |-> 0]
    /\ raced = {}

Cached(k) == metadataCache[k] # NoEntry

\* Faulty: an entry of the memo is never given up.
MemoKept(k) == negative[k] # Never

\* negativeGet
MemoSays404(k) == negative[k] # Never /\ apiTime <= negative[k]

\* negativeSet: a full memo is emptied first.
NegativeSet(k) ==
    LET full == Cardinality({x \in Keys : negative[x] # Never}) >= NEGATIVE_MAX
        kept == IF full THEN [x \in Keys |-> Never] ELSE negative
    IN  [kept EXCEPT ![k] = apiTime + NEGATIVE_TTL]

\* metadataCache.set: a cache beyond its cap is emptied first.
CacheSet(k, entry) ==
    LET full == Cardinality({x \in Keys : Cached(x)}) > CACHE_MAX
        kept == IF full THEN [x \in Keys |-> NoEntry] ELSE metadataCache
    IN  [kept EXCEPT ![k] = entry]

-----------------------------------------------------------------------------

\* A request that neither the cache nor the memo answers; a memo that has
\* expired is deleted.  A key that is no mint goes to the memo at once.
Ask(h, k) ==
    /\ ~handlers[h].reading
    /\ ~Cached(k)
    /\ ~MemoSays404(k)
    /\ IF k \in BadKeys
       THEN /\ negative' = NegativeSet(k)
            /\ UNCHANGED handlers
       ELSE /\ negative' = [negative EXCEPT ![k] = Never]
            /\ handlers' = [handlers EXCEPT ![h] =
                 [@ EXCEPT !.reading = TRUE, !.key = k, !.since = apiTime]]
    /\ UNCHANGED <<apiTime, version, metadataCache, bornAt, raced>>

ReadTraits(h) ==
    /\ handlers[h].reading
    /\ handlers[h].gd = Never
    /\ handlers' = [handlers EXCEPT ![h].gd = version[handlers[h].key]]
    /\ UNCHANGED <<apiTime, version, metadataCache, negative, bornAt, raced>>

ReadArtwork(h) ==
    /\ handlers[h].reading
    /\ handlers[h].svg = Never
    /\ handlers' = [handlers EXCEPT ![h].svg = version[handlers[h].key]]
    /\ UNCHANGED <<apiTime, version, metadataCache, negative, bornAt, raced>>

\* Both reads are there: a miss goes to the memo, anything else is served and
\* cached, without an image if the artwork was not there yet.
Answer(h) ==
    LET k == handlers[h].key
        entry == [traits |-> handlers[h].gd, art |-> handlers[h].svg]
    IN  /\ Never \notin {handlers[h].gd, handlers[h].svg}
        /\ \/ /\ entry.traits = 0
              /\ negative' = NegativeSet(k)
              /\ UNCHANGED metadataCache
           \/ /\ entry.traits # 0
              /\ metadataCache' = CacheSet(k, entry)
              /\ UNCHANGED negative
        /\ handlers' = [handlers EXCEPT ![h] = IdleHandler]
        /\ UNCHANGED <<apiTime, version, bornAt, raced>>

\* A read throws: 500.
ReadFails(h) ==
    /\ handlers[h].reading
    /\ handlers' = [handlers EXCEPT ![h] = IdleHandler]
    /\ UNCHANGED <<apiTime, version, metadataCache, negative, bornAt, raced>>

\* The gumball is minted, or rerolled: both accounts are written at once.
WriteGumball(k) ==
    /\ k \notin BadKeys
    /\ version[k] < MaxVersion
    /\ version' = [version EXCEPT ![k] = @ + 1]
    /\ bornAt' = IF version[k] = 0 THEN [bornAt EXCEPT ![k] = apiTime] ELSE bornAt
    /\ raced' = IF \E h \in Handlers : handlers[h].reading /\ handlers[h].key = k
                THEN raced \cup {k} ELSE raced
    /\ UNCHANGED <<apiTime, metadataCache, negative, handlers>>

\* No read takes longer than RPC_MAX.
ApiTick ==
    /\ apiTime < MaxTime
    /\ \A h \in Handlers : handlers[h].reading => apiTime - handlers[h].since < RPC_MAX
    /\ apiTime' = apiTime + 1
    /\ UNCHANGED <<version, metadataCache, negative, handlers, bornAt, raced>>

MetadataNext ==
    \/ \E h \in Handlers :
         \/ \E k \in Keys : Ask(h, k)
         \/ ReadTraits(h)
         \/ ReadArtwork(h)
         \/ Answer(h)
         \/ ReadFails(h)
    \/ \E k \in Keys : WriteGumball(k)
    \/ ApiTick

MetadataSpec == MetadataInit /\ [][MetadataNext]_metadataVars

-----------------------------------------------------------------------------
(* Correctness.                                                            *)

Versions == 0..MaxVersion

\* Cache, memo and handlers are well formed.
MetadataTypeOK ==
    /\ apiTime \in 0..MaxTime
    /\ version \in [Keys -> Versions]
    /\ metadataCache \in [Keys -> [traits : Versions, art : Versions]]
    /\ negative \in [Keys -> {Never} \cup 0..(MaxTime + NEGATIVE_TTL)]
    /\ \A h \in Handlers : {handlers[h].gd, handlers[h].svg} \subseteq Versions \cup {Never}
    /\ bornAt \in [Keys -> 0..MaxTime]
    /\ raced \subseteq Keys

\* server-security.cjs: "a freshly minted one is at most a minute late to
\* appear".  The answer 404 outlives the mint by the memo's time and by the
\* time of a request that had read the account before.
MissIsBrief ==
    \A k \in Keys : version[k] > 0 /\ MemoSays404(k)
                    => apiTime <= bornAt[k] + NEGATIVE_TTL + RPC_MAX

\* What is served was on the chain; traits and artwork of different versions,
\* or a missing image, are served only if the gumball was written while the
\* two accounts were being read.
EntryIsWhole ==
    \A k \in Keys : Cached(k) =>
      /\ metadataCache[k].traits \in 1..version[k]
      /\ metadataCache[k].art <= version[k]
      /\ metadataCache[k].traits = metadataCache[k].art \/ k \in raced

\* The two promises of the metadata API, over overlapping requests and writes.
MetadataHonest == MissIsBrief /\ EntryIsWhole

=============================================================================
