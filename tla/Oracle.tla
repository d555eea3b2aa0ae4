------------------------------- MODULE Oracle --------------------------------
(***************************************************************************)
(* The oracle process of scripts/oracle.cjs against the mint: it commits   *)
(* to a secret, keeps the secret in a file, polls for mint requests and    *)
(* reveals the secret once per gumball, over an RPC node that fails,       *)
(* transactions that land after the sender gave up on them, and crashes.   *)
(*                                                                         *)
(* A commitment names its OracleCommit account, its secret and the one     *)
(* MintRequest that may use it.  Of the mint (see GumballMint) only what   *)
(* the oracle and the users see is kept; money and traits are left out.    *)
(* The file is written in place: one that a crash or a failed write tore   *)
(* reads as an empty one, as in loadSecrets and saveSecret.  RPC failover, *)
(* the heartbeat and encryption are left out.                              *)
(***************************************************************************)
EXTENDS Naturals, FiniteSets

CONSTANTS
    Commits,
    None,
    MAX_AGE,      \* the oracle leaves a request of this age alone
    MINT_TIMEOUT, \* an older request is refunded
    MaxQuantity,  \* bound on a request's gumballs
    MaxRequests,  \* bound on the requests
    MaxFaults     \* bound on crashes and errors

ASSUME NoneAssumption == None \notin Commits
ASSUME AgeAssumption ==
    MAX_AGE \in Nat \ {0} /\ MINT_TIMEOUT \in Nat /\ MAX_AGE <= MINT_TIMEOUT
ASSUME BoundAssumption ==
    MaxQuantity \in Nat \ {0} /\ MaxRequests \in Nat /\ MaxFaults \in Nat

VARIABLES
    commits,   \* the OracleCommit accounts
    requests,  \* the MintRequest account of each commitment
    late,      \* reveals under way that the oracle no longer waits for
    lateNew,   \* commitments under way that the oracle no longer waits for
    revealed,  \* the secrets anybody may have seen in a transaction
    disk,      \* the secrets readable in SECRETS_FILE
    pc, phase, \* where the process is: at startup or in its main loop
    known,     \* knownSecrets
    fulfilled,
    active,    \* activeCommit
    todo,      \* the rest of the polled list
    cur,       \* the commitment being submitted or revealed
    sent,      \* what has become of the transaction the process waits for
    faults     \* crashes and errors so far

chain == <<commits, requests>>
memory == <<phase, known, fulfilled, active>>
vars == <<chain, late, lateNew, revealed, disk, pc, memory, todo, cur, sent, faults>>

NoRequest == [open |-> FALSE, remaining |-> 0, age |-> 0]

Init ==
    /\ commits = [c \in Commits |-> "absent"]
    /\ requests = [c \in Commits |-> NoRequest]
    /\ late = [c \in Commits |-> 0]
    /\ lateNew = {}
    /\ revealed = {}
    /\ disk = {}
    /\ pc = "down"
    /\ phase = "startup"
    /\ known = {}
    /\ fulfilled = {}
    /\ active = None
    /\ todo = {}
    /\ cur = None
    /\ sent = "no"
    /\ faults = 0

-----------------------------------------------------------------------------
(* The chain and its users.                                                *)

\* The request wants more gumballs.
Pending(c) == requests[c].open /\ requests[c].remaining > 0

\* Faulty: the commitment stays available.
UseForgotten(c) == commits

Use(c) == [commits EXCEPT ![c] = "used"]

request_mint(c, quantity) ==
    /\ commits[c] = "unused"
    /\ Cardinality({d \in Commits : commits[d] = "used"}) < MaxRequests
    /\ commits' = Use(c)
    /\ requests' = [requests EXCEPT ![c] = [open |-> TRUE, remaining |-> quantity, age |-> 0]]
    /\ UNCHANGED <<late, lateNew, revealed, disk, pc, memory, todo, cur, sent, faults>>

refund_mint(c) ==
    /\ Pending(c)
    /\ requests[c].age > MINT_TIMEOUT
    /\ requests' = [requests EXCEPT ![c] = NoRequest]
    /\ UNCHANGED <<commits, late, lateNew, revealed, disk, pc, memory, todo, cur, sent, faults>>

\* A reveal that lands mints one gumball, or refunds an old request.
AfterReveal(c) ==
    IF requests[c].age > MINT_TIMEOUT THEN [requests EXCEPT ![c] = NoRequest]
    ELSE [requests EXCEPT ![c].remaining = @ - 1]

Tick ==
    /\ \E c \in Commits : Pending(c) /\ requests[c].age <= MINT_TIMEOUT
    /\ requests' = [c \in Commits |->
                      IF Pending(c) /\ requests[c].age <= MINT_TIMEOUT
                      THEN [requests[c] EXCEPT !.age = @ + 1] ELSE requests[c]]
    /\ UNCHANGED <<commits, late, lateNew, revealed, disk, pc, memory, todo, cur, sent, faults>>

\* The transaction the process waits for is executed.
LandSent ==
    /\ sent = "flight"
    /\ \/ /\ pc = "revealing" /\ Pending(cur)
          /\ requests' = AfterReveal(cur)
          /\ sent' = "landed"
          /\ UNCHANGED commits
       \/ /\ pc = "revealing" /\ ~Pending(cur)
          /\ sent' = "failed"
          /\ UNCHANGED chain
       \/ /\ pc = "committing"
          /\ commits' = [commits EXCEPT ![cur] = "unused"]
          /\ sent' = "landed"
          /\ UNCHANGED requests
    /\ UNCHANGED <<late, lateNew, revealed, disk, pc, memory, todo, cur, faults>>

\* A transaction nobody waits for any more is executed, or never is.
SettleLate(c) ==
    /\ \/ /\ late[c] > 0
          /\ late' = [late EXCEPT ![c] = @ - 1]
          /\ requests' \in {requests} \cup (IF Pending(c) THEN {AfterReveal(c)} ELSE {})
          /\ UNCHANGED <<commits, lateNew>>
       \/ /\ c \in lateNew
          /\ lateNew' = lateNew \ {c}
          /\ commits' \in {commits, [commits EXCEPT ![c] = "unused"]}
          /\ UNCHANGED <<late, requests>>
    /\ UNCHANGED <<revealed, disk, pc, memory, todo, cur, sent, faults>>

-----------------------------------------------------------------------------
(* The process.                                                            *)

Fault == faults < MaxFaults /\ faults' = faults + 1

\* A transaction whose sender goes on without it stays under way.
GiveUp ==
    /\ late' = IF sent = "flight" /\ pc = "revealing"
               THEN [late EXCEPT ![cur] = @ + 1] ELSE late
    /\ lateNew' = IF sent = "flight" /\ pc = "committing"
                  THEN lateNew \cup {cur} ELSE lateNew
    /\ sent' = "no"

\* server.cjs or pm2 starts the process, which loads the secrets; a file that
\* cannot be read is only logged.
Start ==
    /\ pc = "down"
    /\ \/ known' = disk /\ UNCHANGED faults
       \/ known' = {} /\ Fault
    /\ pc' = "scan"
    /\ UNCHANGED <<chain, late, lateNew, revealed, disk, phase, fulfilled, active,
                   todo, cur, sent>>

\* What a poll finds: requests that are young enough and have a known secret.
Found(c) == Pending(c) /\ requests[c].age < MAX_AGE /\ c \in known /\ c \notin fulfilled

Scan ==
    /\ pc = "scan"
    /\ todo' = {c \in Commits : Found(c)}
    /\ pc' = "next"
    /\ UNCHANGED <<chain, late, lateNew, revealed, disk, memory, cur, sent, faults>>

SendReveal(c) ==
    /\ cur' = c
    /\ sent' = "flight"
    /\ revealed' = revealed \cup {c}
    /\ pc' = "revealing"

ServeNext(c) ==
    /\ pc = "next"
    /\ c \in todo
    /\ SendReveal(c)
    /\ UNCHANGED <<chain, late, lateNew, disk, memory, todo, faults>>

ListDone ==
    /\ pc = "next"
    /\ todo = {}
    /\ phase' = "main"
    /\ pc' = IF active = None THEN "submit" ELSE "scan"
    /\ UNCHANGED <<chain, late, lateNew, revealed, disk, known, fulfilled, active,
                   todo, cur, sent, faults>>

Confirmed ==
    /\ sent = "landed"
    /\ sent' = "no"
    /\ pc' = IF pc = "revealing" THEN "look" ELSE "save"
    /\ UNCHANGED <<chain, late, lateNew, revealed, disk, memory, todo, cur, faults>>

\* The request is read again: there is more to mint, ...
LookAgain ==
    /\ pc = "look"
    /\ Pending(cur)
    /\ SendReveal(cur)
    /\ UNCHANGED <<chain, late, lateNew, disk, memory, todo, faults>>

\* ... or it is done (or gone), and the next commitment is due.
LookDone ==
    /\ pc = "look"
    /\ ~Pending(cur)
    /\ fulfilled' = fulfilled \cup {cur}
    /\ todo' = todo \ {cur}
    /\ pc' = IF phase = "main" THEN "submit" ELSE "next"
    /\ UNCHANGED <<chain, late, lateNew, revealed, disk, phase, known, active, cur, sent, faults>>

\* Faulty: a request that failed is not tried again.
FulfilledIfFailed == fulfilled \cup {cur}

FulfilledAfterFailure == fulfilled

\* The reveal is refused, or an RPC call throws; the request waits for the
\* next poll.
RevealFails ==
    /\ \/ pc = "revealing" /\ sent = "failed" /\ UNCHANGED faults
       \/ pc = "revealing" /\ sent # "failed" /\ Fault
       \/ pc = "look" /\ Fault
    /\ GiveUp
    /\ fulfilled' = FulfilledAfterFailure
    /\ todo' = todo \ {cur}
    /\ pc' = "next"
    /\ UNCHANGED <<chain, revealed, disk, phase, known, active, cur>>

\* Polling, or reading a commitment, throws: the rest of the list is dropped.
PollFails ==
    /\ pc \in {"scan", "next"}
    /\ Fault
    /\ todo' = {}
    /\ pc' = "next"
    /\ UNCHANGED <<chain, late, lateNew, revealed, disk, memory, cur, sent>>

Submit(c) ==
    /\ pc = "submit"
    /\ commits[c] = "absent" /\ c \notin lateNew
    /\ cur' = c
    /\ sent' = "flight"
    /\ pc' = "committing"
    /\ UNCHANGED <<chain, late, lateNew, revealed, disk, memory, todo, faults>>

\* Faulty: the file is written anew with the one secret.
SavedAlone == {cur}

Saved == disk \cup {cur}

\* The write fails before or after the file was truncated, or the file could
\* not be read before, and is written with the one secret.
SavedBadly == {disk, {}, {cur}}

KnownAfterSave == known \cup {cur}

\* saveSecret; its errors are only logged, and the process goes on.
Save ==
    /\ pc = "save"
    /\ \/ disk' = Saved /\ UNCHANGED faults
       \/ disk' \in SavedBadly /\ Fault
    /\ active' = cur
    /\ known' = KnownAfterSave
    /\ pc' = "next"
    /\ UNCHANGED <<chain, late, lateNew, revealed, phase, fulfilled, todo, cur, sent>>

SubmitFails ==
    /\ pc = "committing"
    /\ Fault
    /\ GiveUp
    /\ active' = None
    /\ pc' = "next"
    /\ UNCHANGED <<chain, revealed, disk, phase, known, fulfilled, todo, cur>>

\* The process dies; a write of the file may be cut short.
Crash ==
    /\ pc # "down"
    /\ Fault
    /\ GiveUp
    /\ disk' \in {disk} \cup (IF pc = "save" THEN {{}} ELSE {})
    /\ pc' = "down"
    /\ phase' = "startup"
    /\ known' = {}
    /\ fulfilled' = {}
    /\ active' = None
    /\ todo' = {}
    /\ cur' = None
    /\ UNCHANGED <<chain, revealed>>

\* What the process does when nothing fails.
Step ==
    \/ Start
    \/ Scan
    \/ \E c \in Commits : ServeNext(c) \/ Submit(c)
    \/ ListDone
    \/ Confirmed
    \/ LookAgain
    \/ LookDone
    \/ Save

Next ==
    \/ \E c \in Commits :
         \/ \E q \in 1..MaxQuantity : request_mint(c, q)
         \/ refund_mint(c)
         \/ SettleLate(c)
    \/ Tick
    \/ LandSent
    \/ Step
    \/ RevealFails
    \/ PollFails
    \/ SubmitFails
    \/ Crash

Spec == Init /\ [][Next]_vars

\* The process is restarted and scheduled, and a transaction it waits for is
\* executed or refused; nobody has to mint or to refund, time need not pass.
FairSpec ==
    /\ Spec
    /\ WF_vars(Step)
    /\ WF_vars(LandSent)
    /\ WF_vars(RevealFails /\ sent = "failed")

-----------------------------------------------------------------------------
(* Correctness.                                                            *)

TypeOK ==
    /\ commits \in [Commits -> {"absent", "unused", "used"}]
    /\ requests \in [Commits -> [open : BOOLEAN, remaining : Nat, age : Nat]]
    /\ late \in [Commits -> Nat]
    /\ {lateNew, revealed, disk, known, fulfilled, todo} \subseteq SUBSET Commits
    /\ pc \in {"down", "scan", "next", "revealing", "look", "submit", "committing", "save"}
    /\ phase \in {"startup", "main"}
    /\ {active, cur} \subseteq Commits \cup {None}
    /\ sent \in {"no", "flight", "landed", "failed"}
    /\ faults \in Nat

\* Commit and reveal: a secret that anybody may have seen belongs to a
\* commitment that is used up, whatever was sent twice, late or by a process
\* that crashed since.  So no minter chooses a seed knowing the secret.
SecretsStaySecret == \A c \in revealed : commits[c] = "used"

\* Why it holds: whatever the process works on belongs to a used commitment,
\* and a commitment lands once, so a used one never becomes available again.
SecretInvariant ==
    /\ TypeOK
    /\ pc \in {"revealing", "look", "committing", "save"} => cur \in Commits
    /\ sent # "no" => pc \in {"revealing", "committing"}
    /\ \A c \in Commits : Pending(c) => commits[c] = "used"
    /\ \A c \in todo \cup revealed : commits[c] = "used"
    /\ pc \in {"revealing", "look"} => commits[cur] = "used"
    /\ \A c \in lateNew : commits[c] = "absent"
    /\ pc = "committing" /\ sent = "flight" =>
           commits[cur] = "absent" /\ cur \notin lateNew

\* What the process takes for done is done: no request is forgotten while it
\* wants gumballs, through errors, partial batches and late reveals.
DoneMeansDone == \A c \in fulfilled : ~Pending(c)

\* The secrets are kept from those who mint.
OracleInvariant ==
    /\ SecretInvariant
    /\ SecretsStaySecret

\* The file loses no secret but to a save that fails or is cut short, and what
\* the file loses the running process still knows.
FileKeepsSecrets ==
    [][/\ disk \subseteq disk' \/ (pc = "save" /\ faults' > faults)
       /\ pc' # "down" => known \subseteq known']_vars

\* The process knows the secret, or will find it in the file when it starts.
HasSecret(c) == IF pc = "down" THEN c \in disk ELSE c \in known

\* A request whose secret the process has, young enough to be seen, is served
\* in the end, or gets too old first (or the secret is lost: a crash or a failed
\* write emptied the file, or the next process cannot read it).
RequestsAreServed ==
    \A c \in Commits :
        Pending(c) /\ requests[c].age < MAX_AGE /\ HasSecret(c)
          ~> ~Pending(c) \/ requests[c].age >= MAX_AGE \/ ~HasSecret(c)

\* "recovers pending requests on restart": a started process has the secret
\* of every request that is pending and young enough.
RecoversPending ==
    pc = "scan" /\ phase = "startup" =>
        \A c \in Commits : Pending(c) /\ requests[c].age < MAX_AGE => c \in known

\* While the oracle runs there is always a commitment for the next user
\* again: the page asks "is oracle.cjs running?" when there is none.
MintingStaysOpen == []<>(\E c \in known : commits[c] = "unused")

=============================================================================
