------------------------------- MODULE Faucet --------------------------------
(***************************************************************************)
(* The faucet of server.cjs: POST /api/faucet, its two maps, the debounced *)
(* writes of faucet-state.json and the hourly clean-up.                    *)
(*                                                                         *)
(* A handler runs without interruption between two awaits, so a request is *)
(* a process of two steps: the checks, made when Turnstile has answered    *)
(* (at once when the captcha is off), and the record, made after the       *)
(* balance and the transfer.  Nothing is read or written between these     *)
(* two awaits, so they are one; what the faucet holds is left out.         *)
(*                                                                         *)
(* The list of an address holds the times of its payments.  It is filtered *)
(* by age, counted and appended to, its order is never looked at: here it  *)
(* is the set of the payments, each of which knows its time.               *)
(***************************************************************************)
EXTENDS Integers, Sequences, SequencesExt, FiniteSets

CONSTANTS
    Reqs,              \* requests, each sent once
    Wallets, Ips,
    FAUCET_COOLDOWN,
    FAUCET_IP_LIMIT,
    MaxClock,          \* bound of the model
    MaxRestarts,       \* bound of the model
    MaxWrites          \* bound on the writes under way at once

ASSUME FaucetAssumption ==
    /\ {FAUCET_COOLDOWN, FAUCET_IP_LIMIT, MaxClock} \subseteq Nat \ {0}
    /\ {MaxRestarts, MaxWrites} \subseteq Nat

VARIABLES
    clock,             \* Date.now(); 0 stands for "never"
    cooldowns,         \* faucetCooldowns: wallet -> time of its last payment
    ipLog,             \* faucetIpLog: address -> its payments
    saveTimer,         \* faucetSaveTimer is set
    writes,            \* writeFile calls under way, oldest first
    faucetFile,        \* what faucet-state.json holds
    stale,             \* the last write to touch the file was not the newest
    reqs,              \* the requests and their local variables
    grantLog,          \* requests that were recorded, in order (history)
    forgotten,         \* those that a restart did not find in the file (history)
    restarts           \* (history)

faucetVars == <<clock, cooldowns, ipLog, saveTimer, writes, faucetFile, stale,
                reqs, grantLog, forgotten, restarts>>

Recorded == Range(grantLog)
Remembered == Recorded \ forgotten

\* What the maps hold, and whose payments they stand for.
Memory == [wallets |-> cooldowns, ips |-> ipLog, of |-> Remembered]
EmptyState == [wallets |-> [w \in Wallets |-> 0], ips |-> [i \in Ips |-> {}], of |-> {}]

NoRequest == [pc |-> "unsent", wallet |-> "", ip |-> "", hits |-> {},
              saw |-> {}, checked |-> 0, at |-> 0]

FaucetInit ==
    /\ clock = 1
    /\ cooldowns = EmptyState.wallets
    /\ ipLog = EmptyState.ips
    /\ saveTimer = FALSE
    /\ writes = <<>>
    /\ faucetFile = EmptyState
    /\ stale = FALSE
    /\ reqs = [r \in Reqs |-> NoRequest]
    /\ grantLog = <<>>
    /\ forgotten = {}
    /\ restarts = 0

Fresh(ts) == clock - ts < FAUCET_COOLDOWN

-----------------------------------------------------------------------------
(* One request.                                                            *)

Goto(r, pc) == reqs' = [reqs EXCEPT ![r].pc = pc]
Refuse(r) == reqs' = [reqs EXCEPT ![r] = [NoRequest EXCEPT !.pc = "refused"]]

\* Faulty: the last unit of the cooldown is not waited for.
CoolingDownShort(w) == cooldowns[w] # 0 /\ clock - cooldowns[w] < FAUCET_COOLDOWN - 1

CoolingDown(w) == cooldowns[w] # 0 /\ Fresh(cooldowns[w])

RecentHits(ip) == {g \in ipLog[ip] : Fresh(reqs[g].at)}

\* Turnstile has answered for a request that is not malformed, and the
\* handler goes on to its next await, or answers 403 or 429.
Check(r, w, ip) ==
    LET hits == RecentHits(ip)
    IN  /\ reqs[r].pc = "unsent"
        /\ \/ Refuse(r)   \* not verified, cooling down or over the limit
           \/ /\ ~CoolingDown(w)
              /\ Cardinality(hits) < FAUCET_IP_LIMIT
              /\ reqs' = [reqs EXCEPT ![r] =
                            [@ EXCEPT !.pc = "sending", !.wallet = w, !.ip = ip,
                                      !.hits = hits, !.saw = Remembered,
                                      !.checked = clock]]
        /\ UNCHANGED <<clock, cooldowns, ipLog, saveTimer, writes, faucetFile,
                       stale, grantLog, forgotten, restarts>>

HitsAfter(r) == reqs[r].hits \cup {r}

\* Faulty: the save is forgotten.
SaveForgotten == saveTimer

\* saveFaucetState: sets the timer unless it is set.
SaveFaucetState == TRUE

\* sendTransaction returns a signature; the wallet and the address are
\* recorded from what the request read before the awaits.
Paid(r) ==
    /\ reqs[r].pc = "sending"
    /\ reqs' = [reqs EXCEPT ![r] = [@ EXCEPT !.pc = "paid", !.at = clock]]
    /\ cooldowns' = [cooldowns EXCEPT ![reqs[r].wallet] = clock]
    /\ ipLog' = [ipLog EXCEPT ![reqs[r].ip] = HitsAfter(r)]
    /\ saveTimer' = SaveFaucetState
    /\ grantLog' = Append(grantLog, r)
    /\ UNCHANGED <<clock, writes, faucetFile, stale, forgotten, restarts>>

\* The faucet is empty (503), or a call throws (500): nothing is recorded,
\* although a transfer that was sent may land.
Fails(r) ==
    /\ reqs[r].pc = "sending"
    /\ Refuse(r)
    /\ UNCHANGED <<clock, cooldowns, ipLog, saveTimer, writes, faucetFile, stale,
                   grantLog, forgotten, restarts>>

-----------------------------------------------------------------------------
(* The file and the clean-up.                                              *)

SaveTimerFires ==
    /\ saveTimer
    /\ Len(writes) < MaxWrites
    /\ saveTimer' = FALSE
    /\ writes' = Append(writes, [state |-> Memory, late |-> FALSE])
    /\ UNCHANGED <<clock, cooldowns, ipLog, faucetFile, stale, reqs,
                   grantLog, forgotten, restarts>>

\* A write ends; the older ones still under way will overwrite it.  One that
\* fails leaves the file as it was, or emptied, which a start reads as no state.
WriteEnds(i) ==
    /\ \/ /\ faucetFile' = writes[i].state
          /\ stale' = writes[i].late
       \/ /\ faucetFile' \in {faucetFile, EmptyState}   \* the error is only logged
          /\ stale' = TRUE
    /\ writes' = RemoveAt([j \in DOMAIN writes |->
                             IF j < i THEN [writes[j] EXCEPT !.late = TRUE] ELSE writes[j]], i)
    /\ UNCHANGED <<clock, cooldowns, ipLog, saveTimer, reqs, grantLog,
                   forgotten, restarts>>

Expired(ts) == clock - ts > FAUCET_COOLDOWN

\* The hourly interval.  A clean-up that drops nothing only saves again, which
\* is left out while the last write was the newest.
CleanUp ==
    /\ \/ stale
       \/ \E w \in Wallets : cooldowns[w] # 0 /\ Expired(cooldowns[w])
       \/ \E ip \in Ips : RecentHits(ip) # ipLog[ip]
    /\ cooldowns' = [w \in Wallets |->
                       IF cooldowns[w] # 0 /\ Expired(cooldowns[w]) THEN 0 ELSE cooldowns[w]]
    /\ ipLog' = [ip \in Ips |-> RecentHits(ip)]
    /\ saveTimer' = SaveFaucetState
    /\ UNCHANGED <<clock, writes, faucetFile, stale, reqs, grantLog,
                   forgotten, restarts>>

\* What a stop leaves in the file: what it held, what was being written, or a
\* torn text, which the next start reads as no state at all.
FileAfterStop(f) ==
    \/ f = faucetFile
    \/ \E i \in DOMAIN writes : f \in {writes[i].state, EmptyState}

\* The server stops, with it its requests, its timer and its maps, and is
\* started again.
RestartServer ==
    /\ restarts < MaxRestarts
    /\ restarts' = restarts + 1
    /\ \E f \in {faucetFile, EmptyState} \cup {writes[i].state : i \in DOMAIN writes} :
         /\ FileAfterStop(f)
         /\ faucetFile' = f
         /\ cooldowns' = f.wallets
         /\ ipLog' = f.ips
         /\ forgotten' = Recorded \ f.of
    /\ stale' = FALSE
    /\ saveTimer' = FALSE
    /\ writes' = <<>>
    /\ reqs' = [r \in Reqs |-> IF reqs[r].pc = "sending"
                               THEN [NoRequest EXCEPT !.pc = "refused"] ELSE reqs[r]]
    /\ UNCHANGED <<clock, grantLog>>

FaucetTick ==
    /\ clock < MaxClock
    /\ clock' = clock + 1
    /\ UNCHANGED <<cooldowns, ipLog, saveTimer, writes, faucetFile, stale, reqs,
                   grantLog, forgotten, restarts>>

FaucetNext ==
    \/ \E r \in Reqs :
         \/ \E w \in Wallets, ip \in Ips : Check(r, w, ip)
         \/ Paid(r)
         \/ Fails(r)
    \/ SaveTimerFires
    \/ \E i \in DOMAIN writes : WriteEnds(i)
    \/ CleanUp
    \/ RestartServer
    \/ FaucetTick

FaucetSpec == FaucetInit /\ [][FaucetNext]_faucetVars

-----------------------------------------------------------------------------
(* Correctness.                                                            *)

Times == 1..MaxClock
StateType == [wallets : [Wallets -> {0} \cup Times], ips : [Ips -> SUBSET Reqs],
              of : SUBSET Reqs]

\* The maps, the file and the requests are well formed.
FaucetTypeOK ==
    /\ clock \in Times
    /\ Memory \in StateType
    /\ faucetFile \in StateType
    /\ \A i \in DOMAIN writes : writes[i].state \in StateType /\ writes[i].late \in BOOLEAN
    /\ {saveTimer, stale} \subseteq BOOLEAN
    /\ \A r \in Reqs :
         /\ reqs[r].pc \in {"unsent", "sending", "paid", "refused"}
         /\ reqs[r].hits \subseteq Reqs
         /\ reqs[r].at # 0 <=> reqs[r].pc = "paid"
    /\ restarts \in 0..MaxRestarts

\* The debounce loses nothing: when no save is due or under way, the file
\* holds the maps, unless its last write failed or overtook a newer one.
FileCatchesUp == ~saveTimer /\ writes = <<>> /\ ~stale => faucetFile = Memory

FaucetInvariant == FaucetTypeOK /\ FileCatchesUp

\* A wallet is paid again only after FAUCET_COOLDOWN, or by requests that
\* passed the check before the first one was recorded, or after a restart
\* that did not find the record, over any interleaving of the awaits.
CooldownHolds ==
    \A g, h \in Recorded :
      (g \in reqs[h].saw /\ reqs[g].wallet = reqs[h].wallet)
      => reqs[h].at >= reqs[g].at + FAUCET_COOLDOWN

PositionOf(r) == CHOOSE n \in DOMAIN grantLog : grantLog[n] = r

\* Another request of the address read the list before g was recorded, and
\* wrote it back afterwards.
Overwritten(g) ==
    \E k \in Recorded :
      /\ reqs[k].ip = reqs[g].ip
      /\ PositionOf(k) > PositionOf(g)
      /\ g \notin reqs[k].saw

\* An address gets FAUCET_IP_LIMIT payments per period, and beyond it only as
\* many as hits of it were overwritten by overlapping requests or forgotten.
IpLimitHolds ==
    \A h \in Recorded :
      LET before == {g \in reqs[h].saw : /\ reqs[g].ip = reqs[h].ip
                                         /\ reqs[h].checked - reqs[g].at < FAUCET_COOLDOWN}
      IN  Cardinality({g \in before : ~Overwritten(g)}) < FAUCET_IP_LIMIT

\* What the faucet gives away stays within its limits.
FaucetLimitsHold == CooldownHolds /\ IpLimitHolds

=============================================================================
