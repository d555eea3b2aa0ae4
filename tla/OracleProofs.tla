---------------------------- MODULE OracleProofs -----------------------------
(* Proofs about Oracle: no secret is seen while it can still be used.      *)
EXTENDS Oracle, TLAPS

(***************************************************************************)
(* SecretInvariant is inductive.  Its part about secrets is SecretCore: the *)
(* steps of the process that send or wait only need where cur comes from;  *)
(* the steps that change the chain only need that a commitment lands once  *)
(* and is used once.  The rest of it is the types.                         *)
(***************************************************************************)

SecretCore ==
    /\ commits \in [Commits -> {"absent", "unused", "used"}]
    /\ requests \in [Commits -> [open : BOOLEAN, remaining : Nat, age : Nat]]
    /\ pc \in {"revealing", "look", "committing", "save"} => cur \in Commits
    /\ sent # "no" => pc \in {"revealing", "committing"}
    /\ \A c \in Commits : Pending(c) => commits[c] = "used"
    /\ \A c \in todo \cup revealed : c \in Commits /\ commits[c] = "used"
    /\ pc \in {"revealing", "look"} => commits[cur] = "used"
    /\ \A c \in lateNew : c \in Commits /\ commits[c] = "absent"
    /\ pc = "committing" /\ sent = "flight" =>
           commits[cur] = "absent" /\ cur \notin lateNew

\* The accounts start absent and the process has nothing (Init).
LEMMA InitSecret == Init => SecretInvariant
<1>1. Init => SecretCore
  BY DEF Init, SecretCore, NoRequest, Pending
<1>2. Init => TypeOK
  BY DEF Init, TypeOK, NoRequest
<1> QED BY <1>1, <1>2 DEF SecretInvariant, SecretCore, TypeOK

\* A reveal that lands keeps the requests well formed and opens none
\* (reveal_and_mint).
LEMMA RevealOpensNone ==
    ASSUME SecretCore, NEW c \in Commits, Pending(c), requests' = AfterReveal(c)
    PROVE  /\ requests' \in [Commits -> [open : BOOLEAN, remaining : Nat, age : Nat]]
           /\ \A d \in Commits : Pending(d)' => Pending(d)
<1> DEFINE R == [open : BOOLEAN, remaining : Nat, age : Nat]
<1>1. requests \in [Commits -> R] /\ requests[c] \in R
  BY DEF SecretCore
<1>2. requests[c].remaining \in Nat /\ requests[c].remaining > 0
  BY <1>1 DEF Pending
<1>3. requests[c].remaining - 1 \in Nat
  BY <1>2
<1>4. NoRequest \in R
  BY DEF NoRequest
<1>5. CASE requests[c].age > MINT_TIMEOUT
  <2>1. requests' = [requests EXCEPT ![c] = NoRequest]
    BY <1>5 DEF AfterReveal
  <2>2. \A d \in Commits : Pending(d)' => Pending(d)
    BY <2>1, <1>1 DEF Pending, NoRequest
  <2>3. requests' \in [Commits -> R]
    BY <2>1, <1>1, <1>4
  <2> QED BY <2>2, <2>3
<1>6. CASE ~(requests[c].age > MINT_TIMEOUT)
  <2>1. requests' = [requests EXCEPT ![c].remaining = @ - 1]
    BY <1>6 DEF AfterReveal
  <2>2. [requests[c] EXCEPT !.remaining = @ - 1] \in R
    BY <1>1, <1>3
  <2>3. \A d \in Commits : Pending(d)' => Pending(d)
    BY <2>1, <1>1 DEF Pending
  <2>4. requests' \in [Commits -> R]
    BY <2>1, <2>2, <1>1
  <2> QED BY <2>3, <2>4
<1> QED BY <1>5, <1>6

\* Time and refunds open no request either (Tick, refund_mint).
LEMMA TickOpensNone ==
    ASSUME SecretCore, Tick
    PROVE  /\ requests' \in [Commits -> [open : BOOLEAN, remaining : Nat, age : Nat]]
           /\ \A d \in Commits : Pending(d)' => Pending(d)
<1> DEFINE R == [open : BOOLEAN, remaining : Nat, age : Nat]
<1> DEFINE older(d) == [requests[d] EXCEPT !.age = @ + 1]
<1>1. requests \in [Commits -> R]
  BY DEF SecretCore
<1>2. ASSUME NEW d \in Commits
      PROVE  older(d) \in R /\ older(d).open = requests[d].open
               /\ older(d).remaining = requests[d].remaining
  <2>1. requests[d] \in R /\ requests[d].age \in Nat
    BY <1>1
  <2>2. requests[d].age + 1 \in Nat
    BY <2>1
  <2> QED BY <2>1, <2>2
<1>3. requests' = [d \in Commits |->
                     IF Pending(d) /\ requests[d].age <= MINT_TIMEOUT
                     THEN older(d) ELSE requests[d]]
  BY DEF Tick
<1> HIDE DEF older
<1>4. requests' \in [Commits -> R]
  BY <1>1, <1>2, <1>3
<1>5. \A d \in Commits : Pending(d)' => Pending(d)
  BY <1>1, <1>2, <1>3 DEF Pending
<1> QED BY <1>4, <1>5

\* Every step keeps what is said of the secrets (all actions).
LEMMA NextSecret == SecretCore /\ [Next]_vars => SecretCore'
<1> DEFINE R == [open : BOOLEAN, remaining : Nat, age : Nat]
<1> SUFFICES ASSUME SecretCore, [Next]_vars PROVE SecretCore'
  OBVIOUS
<1> USE DEF SecretCore, chain, memory
<1>1. ASSUME NEW c \in Commits, NEW q \in 1..MaxQuantity, request_mint(c, q)
      PROVE  SecretCore'
  <2> DEFINE new == [open |-> TRUE, remaining |-> q, age |-> 0]
  <2>1. new \in R
    OBVIOUS
  <2>2. requests' = [requests EXCEPT ![c] = new] /\ commits' = [commits EXCEPT ![c] = "used"]
    BY <1>1 DEF request_mint, Use
  <2>3. requests' \in [Commits -> R]
    BY <2>1, <2>2
  <2>4. \A d \in Commits : Pending(d)' => d = c \/ Pending(d)
    BY <2>2 DEF Pending
  <2>5. \A d \in Commits : commits[d] # "unused" => commits'[d] = commits[d]
    BY <2>2, <1>1 DEF request_mint
  <2>6. commits'[c] = "used" /\ commits' \in [Commits -> {"absent", "unused", "used"}]
    BY <2>2
  <2> QED BY <1>1, <2>3, <2>4, <2>5, <2>6 DEF request_mint
<1>2. ASSUME NEW c \in Commits, refund_mint(c) PROVE SecretCore'
  <2>1. NoRequest \in R
    BY DEF NoRequest
  <2>2. requests' = [requests EXCEPT ![c] = NoRequest]
    BY <1>2 DEF refund_mint
  <2>3. requests' \in [Commits -> R]
    BY <2>1, <2>2
  <2>4. \A d \in Commits : Pending(d)' => Pending(d)
    BY <2>2 DEF Pending, NoRequest
  <2> QED BY <1>2, <2>3, <2>4 DEF refund_mint
<1>3. ASSUME Tick PROVE SecretCore'
  BY <1>3, TickOpensNone DEF Tick
<1>4. ASSUME LandSent PROVE SecretCore'
  <2>1. CASE pc = "revealing" /\ Pending(cur) /\ requests' = AfterReveal(cur) /\ UNCHANGED commits
    <3>1. cur \in Commits
      BY <2>1
    <3>2. requests' \in [Commits -> R] /\ \A d \in Commits : Pending(d)' => Pending(d)
      BY <2>1, <3>1, RevealOpensNone
    <3> QED BY <1>4, <2>1, <3>1, <3>2 DEF LandSent
  <2>2. CASE pc = "revealing" /\ UNCHANGED <<commits, requests>>
    BY <1>4, <2>2 DEF LandSent, Pending
  <2>3. CASE /\ pc = "committing" /\ sent' = "landed" /\ UNCHANGED requests
             /\ commits' = [commits EXCEPT ![cur] = "unused"]
    <3>1. cur \in Commits /\ commits[cur] = "absent" /\ cur \notin lateNew
      BY <1>4, <2>3 DEF LandSent
    <3>2. \A d \in Commits : d # cur => commits'[d] = commits[d]
      BY <2>3
    <3>3. commits' \in [Commits -> {"absent", "unused", "used"}]
      BY <2>3
    <3>4. \A d \in Commits : Pending(d)' => Pending(d)
      BY <2>3 DEF Pending
    <3> QED BY <1>4, <2>3, <3>1, <3>2, <3>3, <3>4 DEF LandSent
  <2> QED BY <1>4, <2>1, <2>2, <2>3 DEF LandSent
<1>5. ASSUME NEW c \in Commits, SettleLate(c) PROVE SecretCore'
  <2>1. CASE Pending(c) /\ requests' = AfterReveal(c) /\ UNCHANGED <<commits, lateNew>>
    <3>1. requests' \in [Commits -> R] /\ \A d \in Commits : Pending(d)' => Pending(d)
      BY <2>1, RevealOpensNone
    <3> QED BY <1>5, <2>1, <3>1 DEF SettleLate
  <2>2. CASE UNCHANGED <<commits, lateNew, requests>>
    BY <1>5, <2>2 DEF SettleLate, Pending
  <2>3. CASE /\ c \in lateNew /\ lateNew' = lateNew \ {c} /\ UNCHANGED requests
             /\ commits' \in {commits, [commits EXCEPT ![c] = "unused"]}
    <3>1. \A d \in Commits : d # c => commits'[d] = commits[d]
      BY <2>3
    <3>2. commits' \in [Commits -> {"absent", "unused", "used"}]
      BY <2>3
    <3>3. commits[c] = "absent"
      BY <2>3
    <3>4. \A d \in Commits : Pending(d)' => Pending(d)
      BY <2>3 DEF Pending
    <3> QED BY <1>5, <2>3, <3>1, <3>2, <3>3, <3>4 DEF SettleLate
  <2> QED BY <1>5, <2>1, <2>2, <2>3 DEF SettleLate
<1>6. ASSUME Step PROVE SecretCore'
  <2>1. CASE Start
    BY <2>1 DEF Start, Pending
  <2>2. CASE Scan
    BY <2>2 DEF Scan, Found, Pending
  <2>3. ASSUME NEW c \in Commits, ServeNext(c) PROVE SecretCore'
    BY <2>3 DEF ServeNext, SendReveal, Pending
  <2>4. ASSUME NEW c \in Commits, Submit(c) PROVE SecretCore'
    BY <2>4 DEF Submit, Pending
  <2>5. CASE ListDone
    BY <2>5 DEF ListDone, Pending
  <2>6. CASE Confirmed
    BY <2>6 DEF Confirmed, Pending
  <2>7. CASE LookAgain
    BY <2>7 DEF LookAgain, SendReveal, Pending
  <2>8. CASE LookDone
    BY <2>8 DEF LookDone, Pending
  <2>9. CASE Save
    BY <2>9 DEF Save, Pending
  <2> QED BY <1>6, <2>1, <2>2, <2>3, <2>4, <2>5, <2>6, <2>7, <2>8, <2>9 DEF Step
<1>7. CASE RevealFails
  BY <1>7 DEF RevealFails, GiveUp, Pending
<1>8. CASE PollFails
  BY <1>8 DEF PollFails, Pending
<1>9. CASE SubmitFails
  BY <1>9 DEF SubmitFails, GiveUp, Pending
<1>10. CASE Crash
  BY <1>10 DEF Crash, GiveUp, Pending
<1>11. CASE UNCHANGED vars
  BY <1>11 DEF vars, Pending
<1> QED
  BY <1>1, <1>2, <1>3, <1>4, <1>5, <1>6, <1>7, <1>8, <1>9, <1>10, <1>11 DEF Next

\* Nothing the process or the chain does leaves the types (all actions).
LEMMA NextTypes == TypeOK /\ SecretCore /\ [Next]_vars => TypeOK'
<1> SUFFICES ASSUME TypeOK, SecretCore, [Next]_vars PROVE TypeOK'
  OBVIOUS
<1> USE DEF TypeOK, chain, memory
<1>a. commits' \in [Commits -> {"absent", "unused", "used"}]
      /\ requests' \in [Commits -> [open : BOOLEAN, remaining : Nat, age : Nat]]
  BY NextSecret DEF SecretCore
<1>b. ASSUME GiveUp
      PROVE  /\ late' \in [Commits -> Nat]
             /\ lateNew' \in SUBSET Commits
             /\ sent' = "no"
  <2>1. CASE sent = "flight" /\ pc = "revealing"
    <3>1. cur \in Commits /\ late[cur] + 1 \in Nat
      BY <2>1 DEF SecretCore
    <3> QED BY <1>b, <2>1, <3>1 DEF GiveUp
  <2>2. CASE sent = "flight" /\ pc = "committing"
    BY <1>b, <2>2 DEF GiveUp, SecretCore
  <2> QED BY <1>b, <2>1, <2>2 DEF GiveUp
<1>c. Fault => faults' \in Nat
  BY BoundAssumption DEF Fault
<1>1. ASSUME NEW c \in Commits, NEW q \in 1..MaxQuantity, request_mint(c, q) PROVE TypeOK'
  BY <1>a, <1>1 DEF request_mint
<1>2. ASSUME NEW c \in Commits, refund_mint(c) PROVE TypeOK'
  BY <1>a, <1>2 DEF refund_mint
<1>3. CASE Tick
  BY <1>a, <1>3 DEF Tick
<1>4. CASE LandSent
  BY <1>a, <1>4 DEF LandSent
<1>5. ASSUME NEW c \in Commits, SettleLate(c) PROVE TypeOK'
  <2>1. CASE late[c] > 0 /\ late' = [late EXCEPT ![c] = @ - 1] /\ lateNew' = lateNew
    <3>1. late[c] - 1 \in Nat
      BY <2>1
    <3>2. late' \in [Commits -> Nat]
      BY <2>1, <3>1
    <3> QED BY <1>a, <1>5, <2>1, <3>2 DEF SettleLate
  <2>2. CASE lateNew' = lateNew \ {c} /\ late' = late
    BY <1>a, <1>5, <2>2 DEF SettleLate
  <2> QED BY <1>5, <2>1, <2>2 DEF SettleLate
<1>6. CASE Step
  <2>1. CASE Start
    BY <1>a, <1>c, <2>1 DEF Start
  <2>2. CASE Scan
    BY <1>a, <2>2 DEF Scan
  <2>3. ASSUME NEW c \in Commits, ServeNext(c) PROVE TypeOK'
    BY <1>a, <2>3 DEF ServeNext, SendReveal
  <2>4. ASSUME NEW c \in Commits, Submit(c) PROVE TypeOK'
    BY <1>a, <2>4 DEF Submit
  <2>5. CASE ListDone
    BY <1>a, <2>5 DEF ListDone
  <2>6. CASE Confirmed
    BY <1>a, <2>6 DEF Confirmed
  <2>7. CASE LookAgain
    BY <1>a, <2>7 DEF LookAgain, SendReveal, SecretCore
  <2>8. CASE LookDone
    BY <1>a, <2>8 DEF LookDone, SecretCore
  <2>9. CASE Save
    BY <1>a, <1>c, <2>9 DEF Save, Saved, SavedBadly, KnownAfterSave, SecretCore
  <2> QED BY <1>6, <2>1, <2>2, <2>3, <2>4, <2>5, <2>6, <2>7, <2>8, <2>9 DEF Step
<1>7. CASE RevealFails
  BY <1>a, <1>b, <1>c, <1>7 DEF RevealFails, FulfilledAfterFailure
<1>8. CASE PollFails
  BY <1>a, <1>c, <1>8 DEF PollFails
<1>9. CASE SubmitFails
  BY <1>a, <1>b, <1>c, <1>9 DEF SubmitFails
<1>10. CASE Crash
  BY <1>a, <1>b, <1>c, <1>10 DEF Crash
<1>11. CASE UNCHANGED vars
  BY <1>a, <1>11 DEF vars
<1> QED
  BY <1>1, <1>2, <1>3, <1>4, <1>5, <1>6, <1>7, <1>8, <1>9, <1>10, <1>11 DEF Next

\* SecretInvariant holds in every reachable state, for any number of
\* commitments, requests and faults (the whole process).
THEOREM SecretSafety == Spec => []SecretInvariant
<1>1. SecretInvariant <=> TypeOK /\ SecretCore
  BY DEF SecretInvariant, SecretCore, TypeOK
<1>2. SecretInvariant /\ [Next]_vars => SecretInvariant'
  <2>1. (SecretInvariant <=> TypeOK /\ SecretCore)'
    BY DEF SecretInvariant, SecretCore, TypeOK, Pending
  <2> QED BY <1>1, <2>1, NextSecret, NextTypes
<1> QED BY <1>2, InitSecret, PTL DEF Spec

\* A secret that anybody may have seen belongs to a used commitment
\* (submit_commitment, request_mint and the loop of oracle.cjs).
THEOREM SecretsHidden == Spec => []SecretsStaySecret
<1>1. SecretInvariant => SecretsStaySecret
  BY DEF SecretInvariant, SecretsStaySecret
<1> QED BY <1>1, SecretSafety, PTL

-----------------------------------------------------------------------------
(* What the process remembers.                                             *)

\* Strengthens DoneMeansDone: a request that is done used its commitment up,
\* so that no other can come in its place.
DoneCore == \A c \in fulfilled : commits[c] = "used" /\ ~Pending(c)

\* A used commitment stays used, and only request_mint on an unused one makes
\* a request pending (every step).
LEMMA UsedForGood ==
    ASSUME SecretInvariant, [Next]_vars, NEW c \in Commits, commits[c] = "used"
    PROVE  commits'[c] = "used" /\ (Pending(c)' => Pending(c))
<1> USE DEF chain, memory
<1>0. SecretCore /\ TypeOK /\ requests \in [Commits -> [open : BOOLEAN, remaining : Nat, age : Nat]]
  BY DEF SecretInvariant, SecretCore, TypeOK
<1>1. CASE UNCHANGED chain
  BY <1>1 DEF Pending
<1>2. ASSUME NEW d \in Commits, NEW q \in 1..MaxQuantity, request_mint(d, q)
      PROVE  commits'[c] = "used" /\ (Pending(c)' => Pending(c))
  BY <1>0, <1>2 DEF request_mint, Use, Pending, SecretCore
<1>3. ASSUME NEW d \in Commits, refund_mint(d)
      PROVE  commits'[c] = "used" /\ (Pending(c)' => Pending(c))
  BY <1>0, <1>3 DEF refund_mint, Pending, NoRequest
<1>4. CASE Tick
  BY <1>0, <1>4, TickOpensNone DEF Tick
<1>5. CASE LandSent
  <2>1. CASE UNCHANGED requests
    BY <1>0, <1>5, <2>1 DEF LandSent, SecretCore, Pending
  <2>2. CASE pc = "revealing" /\ Pending(cur) /\ requests' = AfterReveal(cur) /\ UNCHANGED commits
    BY <1>0, <2>2, RevealOpensNone DEF SecretCore
  <2> QED BY <1>5, <2>1, <2>2 DEF LandSent
<1>6. ASSUME NEW d \in Commits, SettleLate(d)
      PROVE  commits'[c] = "used" /\ (Pending(c)' => Pending(c))
  <2>1. CASE UNCHANGED requests
    BY <1>0, <1>6, <2>1 DEF SettleLate, SecretCore, Pending
  <2>2. CASE Pending(d) /\ requests' = AfterReveal(d) /\ UNCHANGED commits
    BY <1>0, <2>2, RevealOpensNone
  <2> QED BY <1>6, <2>1, <2>2 DEF SettleLate
<1>7. CASE Step
  BY <1>1, <1>7 DEF Step, Start, Scan, ServeNext, Submit, ListDone, Confirmed, LookAgain,
                    LookDone, Save
<1>8. CASE RevealFails \/ PollFails \/ SubmitFails \/ Crash \/ UNCHANGED vars
  BY <1>1, <1>8 DEF RevealFails, PollFails, SubmitFails, Crash, vars
<1> QED BY <1>2, <1>3, <1>4, <1>5, <1>6, <1>7, <1>8 DEF Next

\* The requests the process crossed off never want a gumball again, for any
\* number of requests and faults (the loop of oracle.cjs, request_mint).
THEOREM DoneIsDone == Spec => []DoneMeansDone
<1>1. Init => DoneCore
  BY DEF Init, DoneCore
<1>2. SecretInvariant /\ DoneCore /\ [Next]_vars => DoneCore'
  <2> SUFFICES ASSUME SecretInvariant, DoneCore, [Next]_vars, NEW c \in fulfilled'
               PROVE  commits'[c] = "used" /\ ~Pending(c)'
    BY DEF DoneCore
  <2>1. CASE c \in fulfilled
    <3>1. c \in Commits
      BY <2>1 DEF SecretInvariant, TypeOK
    <3> QED BY <2>1, <3>1, UsedForGood DEF DoneCore
  <2>2. CASE c \notin fulfilled
    <3>1. LookDone /\ c = cur
      <4>1. CASE \/ UNCHANGED vars \/ Tick \/ LandSent
                 \/ \E d \in Commits : \/ refund_mint(d) \/ SettleLate(d)
                                      \/ \E q \in 1..MaxQuantity : request_mint(d, q)
        BY <2>2, <4>1 DEF request_mint, refund_mint, Tick, LandSent, SettleLate, vars, memory
      <4>2. CASE RevealFails \/ PollFails \/ SubmitFails \/ Crash
        BY <2>2, <4>2 DEF RevealFails, FulfilledAfterFailure, PollFails, SubmitFails, Crash,
                          memory
      <4>3. CASE Step
        <5>1. CASE LookDone
          BY <2>2, <5>1 DEF LookDone
        <5>2. CASE ~LookDone
          BY <2>2, <4>3, <5>2 DEF Step, Start, Scan, ServeNext, Submit, ListDone, Confirmed,
                                  LookAgain, Save, memory
        <5> QED BY <5>1, <5>2
      <4> QED BY <4>1, <4>2, <4>3 DEF Next
    <3>2. commits[c] = "used" /\ ~Pending(c) /\ UNCHANGED chain
      BY <3>1 DEF LookDone, SecretInvariant
    <3> QED BY <3>2 DEF chain, Pending
  <2> QED BY <2>1, <2>2
<1>3. DoneCore => DoneMeansDone
  BY DEF DoneCore, DoneMeansDone
<1> QED BY <1>1, <1>2, <1>3, SecretSafety, PTL DEF Spec

\* Where the secrets of the oracle are used and who may have seen them, in
\* every reachable state (submitCommitment, revealAndMint).
THEOREM OracleSafe == Spec => []OracleInvariant
<1>1. SecretInvariant /\ SecretsStaySecret => OracleInvariant
  BY DEF OracleInvariant
<1> QED BY <1>1, SecretSafety, SecretsHidden, PTL

\* A process that is down knows nothing.
DownKnowsNothing == pc = "down" => known = {}

\* The file loses secrets only to a save that fails or is cut short, for any
\* number of commitments and faults, and a process that lives on forgets none:
\* it can serve the requests it knew, whatever became of the file (saveSecret,
\* loadSecrets, and the writes in place between them).
THEOREM FileGrows == Spec => FileKeepsSecrets
<1> DEFINE Keeps == /\ disk \subseteq disk' \/ (pc = "save" /\ faults' > faults)
                    /\ pc' # "down" => known \subseteq known'
<1>1. Init => TypeOK /\ DownKnowsNothing
  BY InitSecret DEF Init, DownKnowsNothing, SecretInvariant
<1>2. TypeOK /\ DownKnowsNothing /\ [Next]_vars => Keeps /\ DownKnowsNothing'
  <2> SUFFICES ASSUME TypeOK, DownKnowsNothing, [Next]_vars PROVE Keeps /\ DownKnowsNothing'
    OBVIOUS
  <2> USE DEF DownKnowsNothing, chain, memory
  <2>0. Fault => faults' > faults
    BY DEF Fault, TypeOK
  <2>1. CASE Start
    BY <2>1 DEF Start
  <2>2. CASE Save
    BY <2>0, <2>2 DEF Save, Saved, KnownAfterSave
  <2>3. CASE Crash
    BY <2>0, <2>3 DEF Crash
  <2>4. ASSUME UNCHANGED <<disk, known>>, pc' = "down" => pc = "down"
        PROVE  Keeps /\ DownKnowsNothing'
    BY <2>4
  <2>5. CASE \/ UNCHANGED vars \/ Tick \/ LandSent
             \/ \E c \in Commits : \/ refund_mint(c) \/ SettleLate(c)
                                  \/ \E q \in 1..MaxQuantity : request_mint(c, q)
    BY <2>4, <2>5 DEF request_mint, refund_mint, Tick, LandSent, SettleLate, vars
  <2>6. CASE RevealFails \/ PollFails \/ SubmitFails
    BY <2>4, <2>6 DEF RevealFails, PollFails, SubmitFails
  <2>7. CASE Scan \/ ListDone \/ Confirmed \/ LookDone
             \/ \E c \in Commits : ServeNext(c) \/ Submit(c)
    BY <2>4, <2>7 DEF Scan, ServeNext, SendReveal, Submit, ListDone, Confirmed, LookDone
  <2>8. CASE LookAgain
    BY <2>4, <2>8 DEF LookAgain, SendReveal
  <2> QED BY <2>1, <2>2, <2>3, <2>5, <2>6, <2>7, <2>8 DEF Next, Step
<1>3. SecretInvariant => TypeOK
  BY DEF SecretInvariant
<1>4. Keeps => [Keeps]_vars
  OBVIOUS
<1> QED
  <2> HIDE DEF Keeps
  <2>1. Spec => [][Keeps]_vars
    BY <1>1, <1>2, <1>3, <1>4, SecretSafety, PTL DEF Spec
  <2> QED BY <2>1 DEF Keeps, FileKeepsSecrets

=============================================================================
