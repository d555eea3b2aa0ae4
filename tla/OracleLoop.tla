----------------------------- MODULE OracleLoop ------------------------------
(***************************************************************************)
(* What the main loop of oracle.cjs keeps beside its requests: the RPC     *)
(* endpoint it talks to, the streak of errors after which it takes the     *)
(* next one, and the heartbeat file that the monitor reads.                *)
(*                                                                         *)
(* One step is one iteration.  Requests and secrets are module Oracle;     *)
(* here they appear as an iteration that ends with or without a            *)
(* commitment.                                                             *)
(***************************************************************************)
EXTENDS Integers

CONSTANTS
    Rpcs,            \* length of RPC_URLS
    FAILOVER_STREAK, \* errors in a row after which the endpoint changes (3)
    MaxSilence,      \* iterations without a heartbeat that are counted
    MaxLoopFaults    \* bound of the model

ASSUME OracleLoopAssumption ==
    /\ {Rpcs, FAILOVER_STREAK, MaxSilence} \subseteq Nat \ {0}
    /\ MaxLoopFaults \in Nat

RpcIndex == 0..(Rpcs - 1)

VARIABLES
    answering,       \* endpoints that answer
    rpcIdx,
    errStreak,
    activeCommit,    \* a commitment waits for its request
    wedged,          \* an await of this iteration will never be answered
    silence,         \* iterations since the heartbeat was written (history)
    loopFaults       \* outages, hangs and restarts (history)

loopVars == <<answering, rpcIdx, errStreak, activeCommit, wedged, silence, loopFaults>>

OracleLoopInit ==
    /\ answering \in SUBSET RpcIndex
    /\ rpcIdx = 0
    /\ errStreak = 0
    /\ activeCommit = FALSE
    /\ wedged = FALSE
    /\ silence = 0
    /\ loopFaults = 0

Answers == rpcIdx \in answering

LoopFault == loopFaults < MaxLoopFaults /\ loopFaults' = loopFaults + 1

-----------------------------------------------------------------------------

\* An iteration that gets to its end writes the file, whatever it met.
Beat == 0

\* submitCommitment fails: five seconds, and "continue", past the count of
\* errors and past the heartbeat.
SubmitFails ==
    /\ ~wedged
    /\ ~activeCommit
    /\ \/ ~Answers /\ UNCHANGED loopFaults
       \/ LoopFault                   \* no money, a bad key, a late answer
    /\ silence' = IF silence < MaxSilence THEN silence + 1 ELSE silence
    /\ UNCHANGED <<answering, rpcIdx, errStreak, activeCommit, wedged>>

\* The iteration polls without an error.  It ends with a commitment, unless it
\* served a request and could not submit the next one.
Iterate ==
    /\ ~wedged
    /\ Answers
    /\ \/ activeCommit' = TRUE /\ UNCHANGED loopFaults
       \/ activeCommit' = FALSE /\ LoopFault
    /\ errStreak' = 0
    /\ silence' = Beat
    /\ UNCHANGED <<answering, rpcIdx, wedged>>

\* Faulty: the streak starts again with every error.
StreakForgotten == 1

Streak == errStreak + 1

\* Polling throws: the endpoint is down and the commitment is an earlier one,
\* or a single call failed.
PollThrows ==
    /\ ~wedged
    /\ \/ ~Answers /\ activeCommit /\ UNCHANGED <<activeCommit, loopFaults>>
       \/ Answers /\ activeCommit' \in BOOLEAN /\ LoopFault
    /\ IF Streak >= FAILOVER_STREAK /\ Rpcs > 1
       THEN rpcIdx' = (rpcIdx + 1) % Rpcs /\ errStreak' = 0
       ELSE errStreak' = Streak /\ UNCHANGED rpcIdx
    /\ silence' = Beat
    /\ UNCHANGED <<answering, wedged>>

Wedges ==
    /\ ~wedged
    /\ wedged' = TRUE
    /\ LoopFault
    /\ UNCHANGED <<answering, rpcIdx, errStreak, activeCommit, silence>>

\* The process ends and is started again, with the first endpoint.
RestartOracle ==
    /\ LoopFault
    /\ rpcIdx' = 0
    /\ errStreak' = 0
    /\ activeCommit' = FALSE
    /\ wedged' = FALSE
    /\ UNCHANGED <<answering, silence>>

EndpointChanges ==
    /\ LoopFault
    /\ answering' \in SUBSET RpcIndex
    /\ UNCHANGED <<rpcIdx, errStreak, activeCommit, wedged, silence>>

LoopSteps == SubmitFails \/ Iterate \/ PollThrows

OracleLoopNext ==
    \/ SubmitFails
    \/ Iterate
    \/ PollThrows
    \/ Wedges
    \/ RestartOracle
    \/ EndpointChanges

\* A loop that is not wedged goes on.
OracleLoopFairness == WF_loopVars(LoopSteps)

OracleLoopSpec == OracleLoopInit /\ [][OracleLoopNext]_loopVars /\ OracleLoopFairness

-----------------------------------------------------------------------------
(* Correctness.                                                            *)

\* The variables of the loop are well formed.
OracleLoopTypeOK ==
    /\ answering \subseteq RpcIndex
    /\ rpcIdx \in RpcIndex
    /\ errStreak \in Nat
    /\ {activeCommit, wedged} \subseteq BOOLEAN
    /\ silence \in 0..MaxSilence
    /\ loopFaults \in 0..MaxLoopFaults

\* A loop that goes on is silent only while it has no commitment, so that a
\* heartbeat that stops means a wedged process or one that cannot submit.
SilenceHasAReason == silence > 0 => ~activeCommit

\* With several endpoints the streak stays below the number at which the
\* endpoint changes.
StreakIsShort == Rpcs > 1 => errStreak < FAILOVER_STREAK

\* oracle.cjs: "After 3 consecutive polling errors the oracle rotates to the
\* next endpoint".  A loop that has a commitment finds an endpoint that
\* answers, unless none does, the process is wedged, or it loses the
\* commitment first.
FindsEndpoint ==
    activeCommit ~> (Answers \/ answering = {} \/ wedged \/ ~activeCommit)

=============================================================================
