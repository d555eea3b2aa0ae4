------------------------------- MODULE Monitor -------------------------------
(***************************************************************************)
(* The checks of monitor.cjs: monitorOracleProcess, monitorHeartbeat and   *)
(* monitorPendingRequests, as runChecks makes them one after the other.    *)
(* setInterval starts a run whether or not the previous one has ended.     *)
(* The commands that end a run are module Commands; the alert of a low     *)
(* balance, once an hour, is left out.                                     *)
(*                                                                         *)
(* The heartbeat file is written by the oracle's loop (module OracleLoop   *)
(* says when) with a call whose error is ignored; here the loop writes it  *)
(* at times, time makes it stale, and it may be missing or torn.           *)
(*                                                                         *)
(* The status may be old when it is compared; the list of requests is used *)
(* when it is read, which is when its run goes on.                         *)
(***************************************************************************)
EXTENDS Integers, FiniteSets

CONSTANTS
    Runs,                 \* runs of runChecks under way at once
    MintRequests,
    MONITOR_TIMEOUT,      \* MINT_TIMEOUT of monitor.cjs
    ALERT_WINDOW,         \* time before it in which a request is announced
    LOOK_GAP,             \* longest time from one look at the requests to the next
    MaxMonTime, MaxMonFaults   \* bounds of the model

\* A look every 30 seconds, a window of 60.
ASSUME MonitorAssumption ==
    /\ {MONITOR_TIMEOUT, ALERT_WINDOW, LOOK_GAP} \subseteq Nat \ {0}
    /\ LOOK_GAP < ALERT_WINDOW
    /\ ALERT_WINDOW < MONITOR_TIMEOUT
    /\ {MaxMonTime, MaxMonFaults} \subseteq Nat

VARIABLES
    monTime,
    oracleState,          \* "online", "stopped", or "wedged": up but not looping
    heartbeatFile,        \* "fresh", "stale", or "unreadable": missing or torn
    mintRequests,         \* request -> "none", "open" or "closed", and when it was made
    lastOracleStatus,
    heartbeatAlerted,
    alertedRequests,
    checkRuns,
    told,                 \* the last news of the process: "nothing", "down" or "up" (history)
    announced,            \* request -> alerts sent for it (history)
    lastLook,             \* time of the last look at the requests (history)
    monFaults             \* failed reads and restarts of the monitor (history)

monitorVars == <<monTime, oracleState, heartbeatFile, mintRequests, lastOracleStatus,
                 heartbeatAlerted, alertedRequests, checkRuns, told, announced,
                 lastLook, monFaults>>

IdleRun == [pc |-> "idle", status |-> "unknown"]
NoMintRequest == [status |-> "none", at |-> 0]

MonitorInit ==
    /\ monTime = 0
    /\ oracleState \in {"online", "stopped"}
    /\ heartbeatFile \in {"fresh", "stale", "unreadable"}
    /\ mintRequests = [q \in MintRequests |-> NoMintRequest]
    /\ lastOracleStatus = "unknown"
    /\ heartbeatAlerted = FALSE
    /\ alertedRequests = {}
    /\ checkRuns = [r \in Runs |-> IdleRun]
    /\ told = "nothing"
    /\ announced = [q \in MintRequests |-> 0]
    /\ lastLook = 0
    /\ monFaults = 0

Elapsed(q) == monTime - mintRequests[q].at

\* pm2 does not see that a process is wedged.
Pm2Status == IF oracleState = "stopped" THEN "stopped" ELSE "online"

-----------------------------------------------------------------------------
(* One run of runChecks.                                                   *)

\* setInterval: pm2 is asked.
StartRun(r) ==
    /\ checkRuns[r].pc = "idle"
    /\ checkRuns' = [checkRuns EXCEPT ![r].pc = "asking"]
    /\ UNCHANGED <<monTime, oracleState, heartbeatFile, mintRequests, lastOracleStatus,
                   heartbeatAlerted, alertedRequests, told, announced, lastLook, monFaults>>

\* checkPm2Status: pm2 reads the status, or fails.
ReadStatus(r) ==
    /\ checkRuns[r].pc = "asking"
    /\ \E status \in {Pm2Status, "unknown"} :
         checkRuns' = [checkRuns EXCEPT ![r].pc = "compare", ![r].status = status]
    /\ UNCHANGED <<monTime, oracleState, heartbeatFile, mintRequests, lastOracleStatus,
                   heartbeatAlerted, alertedRequests, told, announced, lastLook, monFaults>>

StatusAfter(status) == status

\* Faulty: the status is stored before it is compared.
GoesDownFromStored(status) == status # "online" /\ StatusAfter(status) = "online"

GoesDown(status) == status # "online" /\ lastOracleStatus = "online"
ComesUp(status) == status = "online" /\ lastOracleStatus \notin {"online", "unknown"}

\* monitorHeartbeat: a file that cannot be read is passed over in silence.
AlertedAfter ==
    CASE heartbeatFile = "stale"      -> TRUE
      [] heartbeatFile = "fresh"      -> FALSE
      [] heartbeatFile = "unreadable" -> heartbeatAlerted

\* The status is compared with the last one, then the heartbeat file is read.
CompareStatus(r) ==
    LET status == checkRuns[r].status
    IN  /\ checkRuns[r].pc = "compare"
        /\ told' = CASE GoesDown(status) -> "down"
                     [] ComesUp(status) -> "up"
                     [] status = "online" /\ ~ComesUp(status) -> "nothing"
                     [] OTHER -> told
        /\ lastOracleStatus' = StatusAfter(status)
        /\ heartbeatAlerted' = AlertedAfter
        /\ checkRuns' = [checkRuns EXCEPT ![r].pc = "listing"]
        /\ UNCHANGED <<monTime, oracleState, heartbeatFile, mintRequests, alertedRequests,
                       announced, lastLook, monFaults>>

\* Faulty: the last moment of the window is missed.
ExpiringEarly(q) ==
    LET remaining == MONITOR_TIMEOUT - Elapsed(q)
    IN  remaining > LOOK_GAP /\ remaining < ALERT_WINDOW

Expiring(q) ==
    LET remaining == MONITOR_TIMEOUT - Elapsed(q)
    IN  remaining > 0 /\ remaining < ALERT_WINDOW

\* Old requests are dropped from alertedRequests while their account exists.
Forgettable(q) == Elapsed(q) > MONITOR_TIMEOUT + ALERT_WINDOW

\* getProgramAccounts lists the requests, and those that are unfulfilled and
\* about to expire are announced once each.
LookAtRequests(r) ==
    LET seen == {q \in MintRequests : mintRequests[q].status = "open"}
        news == {q \in seen : Expiring(q) /\ q \notin alertedRequests}
    IN  /\ checkRuns[r].pc = "listing"
        /\ announced' = [q \in MintRequests |->
                           IF q \in news THEN announced[q] + 1 ELSE announced[q]]
        /\ alertedRequests' = {q \in alertedRequests \cup news :
                                 ~(q \in seen /\ Forgettable(q))}
        /\ lastLook' = monTime
        /\ checkRuns' = [checkRuns EXCEPT ![r] = IdleRun]
        /\ UNCHANGED <<monTime, oracleState, heartbeatFile, mintRequests, lastOracleStatus,
                       heartbeatAlerted, told, monFaults>>

\* The read fails, which is logged: nobody has looked.
ListFails(r) ==
    /\ checkRuns[r].pc = "listing"
    /\ monFaults < MaxMonFaults
    /\ monFaults' = monFaults + 1
    /\ lastLook' = monTime
    /\ checkRuns' = [checkRuns EXCEPT ![r] = IdleRun]
    /\ UNCHANGED <<monTime, oracleState, heartbeatFile, mintRequests, lastOracleStatus,
                   heartbeatAlerted, alertedRequests, told, announced>>

\* The monitor stops and pm2 or server.cjs starts it again.
RestartMonitorProcess ==
    /\ monFaults < MaxMonFaults
    /\ monFaults' = monFaults + 1
    /\ lastOracleStatus' = "unknown"
    /\ heartbeatAlerted' = FALSE
    /\ alertedRequests' = {}
    /\ checkRuns' = [r \in Runs |-> IdleRun]
    /\ told' = "nothing"
    /\ UNCHANGED <<monTime, oracleState, heartbeatFile, mintRequests, announced, lastLook>>

-----------------------------------------------------------------------------
(* What is watched.                                                        *)

WatchedOnly ==
    UNCHANGED <<monTime, mintRequests, lastOracleStatus, heartbeatAlerted,
                alertedRequests, checkRuns, told, announced, lastLook, monFaults>>

\* A process that stops or wedges may leave a write of its heartbeat half done.
OracleChanges ==
    /\ oracleState' \in {"online", "stopped", "wedged"} \ {oracleState}
    /\ heartbeatFile' \in {heartbeatFile} \cup
                         (IF oracleState = "online" THEN {"unreadable"} ELSE {})
    /\ WatchedOnly

\* The loop writes its heartbeat; a write that fails may empty the file.
Heartbeat ==
    /\ oracleState = "online"
    /\ heartbeatFile' \in {"fresh", "unreadable"}
    /\ UNCHANGED oracleState
    /\ WatchedOnly

\* Three minutes have passed since the heartbeat in the file.
HeartbeatAges ==
    /\ heartbeatFile = "fresh"
    /\ heartbeatFile' = "stale"
    /\ UNCHANGED oracleState
    /\ WatchedOnly

OpenRequest(q) ==
    /\ mintRequests[q].status = "none"
    /\ mintRequests' = [mintRequests EXCEPT ![q] = [status |-> "open", at |-> monTime]]
    /\ UNCHANGED <<monTime, oracleState, heartbeatFile, lastOracleStatus, heartbeatAlerted,
                   alertedRequests, checkRuns, told, announced, lastLook, monFaults>>

\* Fulfilled or refunded: the account is closed and never opened again.
CloseRequest(q) ==
    /\ mintRequests[q].status = "open"
    /\ mintRequests' = [mintRequests EXCEPT ![q].status = "closed"]
    /\ UNCHANGED <<monTime, oracleState, heartbeatFile, lastOracleStatus, heartbeatAlerted,
                   alertedRequests, checkRuns, told, announced, lastLook, monFaults>>

\* A look every LOOK_GAP: the interval and the time a read takes.
MonitorTick ==
    /\ monTime < MaxMonTime
    /\ monTime - lastLook < LOOK_GAP
    /\ monTime' = monTime + 1
    /\ UNCHANGED <<oracleState, heartbeatFile, mintRequests, lastOracleStatus,
                   heartbeatAlerted, alertedRequests, checkRuns, told, announced,
                   lastLook, monFaults>>

RunSteps(r) == ReadStatus(r) \/ CompareStatus(r) \/ LookAtRequests(r)

MonitorNext ==
    \/ \E r \in Runs :
         \/ StartRun(r)
         \/ ReadStatus(r)
         \/ CompareStatus(r)
         \/ LookAtRequests(r)
         \/ ListFails(r)
    \/ RestartMonitorProcess
    \/ OracleChanges
    \/ Heartbeat
    \/ HeartbeatAges
    \/ \E q \in MintRequests : OpenRequest(q) \/ CloseRequest(q)
    \/ MonitorTick

MonitorSpec == MonitorInit /\ [][MonitorNext]_monitorVars

\* The interval goes on, what a run awaits comes back, and time passes while
\* nobody writes the heartbeat.
MonitorFairness ==
    /\ \A r \in Runs : WF_monitorVars(StartRun(r)) /\ WF_monitorVars(RunSteps(r))
    /\ WF_monitorVars(HeartbeatAges /\ oracleState # "online")

-----------------------------------------------------------------------------
(* Correctness.                                                            *)

\* What the monitor remembers is well formed.
MonitorTypeOK ==
    /\ monTime \in 0..MaxMonTime
    /\ oracleState \in {"online", "stopped", "wedged"}
    /\ heartbeatFile \in {"fresh", "stale", "unreadable"}
    /\ lastOracleStatus \in {"online", "stopped", "unknown"}
    /\ heartbeatAlerted \in BOOLEAN
    /\ alertedRequests \subseteq MintRequests
    /\ \A r \in Runs : checkRuns[r].pc \in {"idle", "asking", "compare", "listing"}
    /\ told \in {"nothing", "down", "up"}
    /\ announced \in [MintRequests -> Nat]
    /\ lastLook \in 0..monTime
    /\ monFaults \in 0..MaxMonFaults

\* A request that is open when it times out was announced before, and no
\* request is announced twice, however the runs overlap, unless the monitor
\* was restarted or could not read the chain.
ExpiryIsAnnounced ==
    \A q \in MintRequests :
      /\ announced[q] <= 1 + monFaults
      /\ mintRequests[q].status = "open" /\ Elapsed(q) >= MONITOR_TIMEOUT /\ monFaults = 0
         => announced[q] = 1

\* Once the monitor has seen the oracle online, a stop is reported, unless the
\* oracle is back first or the monitor is restarted.  A process that no longer
\* loops is reported too, unless it is back first, and provided that it left a
\* heartbeat that can be read: without one the monitor says nothing.
OperatorIsTold ==
    /\ lastOracleStatus = "online" /\ oracleState = "stopped"
         ~> told = "down" \/ oracleState # "stopped" \/ lastOracleStatus = "unknown"
    /\ oracleState # "online" /\ heartbeatFile # "unreadable"
         ~> heartbeatAlerted \/ oracleState = "online"

=============================================================================
