-------------------------------- MODULE MCOps --------------------------------
(***************************************************************************)
(* What keeps the system running, for TLC: the supervision of server.cjs,  *)
(* the loop and the secret store of the oracle, the monitor's checks, its  *)
(* Telegram commands and the scripts that set the system up.  They share   *)
(* no state, so each behaviour loads one of them and leaves the others at  *)
(* rest; of the monitor it loads either the requests or the process, of    *)
(* the upkeep either what is about gumballs or what the authority does.    *)
(***************************************************************************)
EXTENDS Monitor, Commands, Deploy, Supervision, OracleLoop, SecretStore, Upkeep

VARIABLE busy    \* what this behaviour loads

MCLoops == <<supervisionVars, loopVars, storeVars, upkeepVars>>
MCVars == <<busy, monitorVars, commandsVars, deployVars, MCLoops>>

MCInit ==
    /\ busy \in {"requests", "process", "commands", "deploy", "servers", "loop", "store",
             "gumball scripts", "admin scripts"}
    /\ MonitorInit
    /\ CommandsInit
    /\ DeployInit
    /\ SupervisionInit
    /\ OracleLoopInit
    /\ SecretStoreInit
    /\ UpkeepInit
    /\ busy # "process" => oracleState = "online" /\ heartbeatFile = "unreadable"
    /\ busy # "deploy" => machine = "absent" /\ wsol.kind = "absent"
    /\ busy # "loop" => answering = {}
    /\ busy # "store" => ENCRYPTION_KEY = PLAIN
    /\ busy # "gumball scripts" => minted = {}

MCRequests ==
    /\ busy = "requests"
    /\ MonitorNext
    /\ UNCHANGED <<busy, oracleState, heartbeatFile, commandsVars, deployVars, MCLoops>>

MCProcess ==
    /\ busy = "process"
    /\ MonitorNext
    /\ UNCHANGED <<busy, mintRequests, monTime, commandsVars, deployVars, MCLoops>>

MCCommands ==
    /\ busy = "commands"
    /\ CommandsNext
    /\ UNCHANGED <<busy, monitorVars, deployVars, MCLoops>>

MCDeploy ==
    /\ busy = "deploy"
    /\ DeployNext
    /\ UNCHANGED <<busy, monitorVars, commandsVars, MCLoops>>

MCServers ==
    /\ busy = "servers"
    /\ SupervisionNext
    /\ UNCHANGED <<busy, monitorVars, commandsVars, deployVars, loopVars, storeVars, upkeepVars>>

MCLoop ==
    /\ busy = "loop"
    /\ OracleLoopNext
    /\ UNCHANGED <<busy, monitorVars, commandsVars, deployVars, supervisionVars, storeVars, upkeepVars>>

MCStore ==
    /\ busy = "store"
    /\ SecretStoreNext
    /\ UNCHANGED <<busy, monitorVars, commandsVars, deployVars, supervisionVars, loopVars,
                   upkeepVars>>

MCGumballScripts ==
    /\ busy = "gumball scripts"
    /\ UpkeepNext
    /\ upkeep'.script \in {"none", "attach-metadata", "recover-legacy-stake"}
    /\ UNCHANGED <<busy, xntPools, machineKeys, monitorVars, commandsVars, deployVars,
                   supervisionVars, loopVars, storeVars>>

MCAdminScripts ==
    /\ busy = "admin scripts"
    /\ UpkeepNext
    /\ upkeep'.script \in {"none", "sweep-xnt-pool", "set-season"}
    /\ UNCHANGED <<busy, minted, monitorVars, commandsVars, deployVars, supervisionVars,
                   loopVars, storeVars>>

MCNext ==
    MCRequests \/ MCProcess \/ MCCommands \/ MCDeploy \/ MCServers \/ MCLoop \/ MCStore
      \/ MCGumballScripts \/ MCAdminScripts

\* MonitorFairness and OracleLoopFairness, where these are what runs.
MCMonitorRuns ==
    /\ busy \in {"requests", "process"}
    /\ UNCHANGED <<busy, commandsVars, deployVars, MCLoops>>
MCLoopRuns ==
    /\ busy = "loop"
    /\ UNCHANGED <<busy, monitorVars, commandsVars, deployVars, supervisionVars, storeVars, upkeepVars>>
MCFairness ==
    /\ \A r \in Runs :
         /\ WF_MCVars(MCMonitorRuns /\ StartRun(r))
         /\ WF_MCVars(MCMonitorRuns /\ RunSteps(r))
    /\ WF_MCVars(MCMonitorRuns /\ HeartbeatAges /\ oracleState # "online")
    /\ WF_MCVars(MCLoopRuns /\ LoopSteps)

MCSpec == MCInit /\ [][MCNext]_MCVars /\ MCFairness

\* The state of every part is well formed; the oracle's heartbeat is silent
\* for a reason only, and no secret is lost to a change of the key.
OpsInvariant ==
    /\ MonitorTypeOK
    /\ CommandsTypeOK
    /\ DeployTypeOK
    /\ SupervisionTypeOK
    /\ OracleLoopTypeOK
    /\ SecretStoreTypeOK
    /\ UpkeepTypeOK
    /\ SilenceHasAReason
    /\ StreakIsShort
    /\ SecretsSurviveKeys
    /\ UpkeepSafe

MCKind == <<"restart", "plain", "query", "stop">>

=============================================================================
