------------------------------ MODULE Commands -------------------------------
(***************************************************************************)
(* The Telegram commands of monitor.cjs: pollTelegramCommands and          *)
(* handleCommand.                                                          *)
(*                                                                         *)
(* Telegram numbers the messages and keeps one until a call of getUpdates  *)
(* asks for a later one.  setInterval starts a poll whether or not the     *)
(* previous one has ended; the handler of a command is awaited within the  *)
(* batch.  A message is "restart" or "stop" (a pm2 command whose failure   *)
(* is caught), "query" (reads that may throw) or "plain" (anything else,   *)
(* passed over without an await).                                          *)
(***************************************************************************)
EXTENDS Integers, Sequences, FiniteSets, FiniteSetsExt

CONSTANTS
    CmdPolls,             \* polls under way at once
    Kind,                 \* the message with each update_id
    MaxCmdRestarts,       \* bounds of the model
    MaxCmdOverlaps

Updates == DOMAIN Kind

ASSUME CommandsAssumption ==
    /\ Kind \in Seq({"restart", "stop", "query", "plain"})
    /\ IsFiniteSet(CmdPolls)
    /\ {MaxCmdRestarts, MaxCmdOverlaps} \subseteq Nat

VARIABLES
    sentUpdates,          \* messages 1..sentUpdates were written
    confirmed,            \* Telegram has dropped 1..confirmed
    lastUpdateId,
    cmdPolls,
    oracleProcess,        \* what pm2 says of gumball-oracle
    taken,                \* update_id -> times it was taken up (history)
    cmdRestarts,          \* restarts of the monitor (history)
    cmdOverlaps           \* polls started while another one ran (history)

commandsVars == <<sentUpdates, confirmed, lastUpdateId, cmdPolls, oracleProcess,
                  taken, cmdRestarts, cmdOverlaps>>

IdlePoll == [pc |-> "idle", offset |-> 0, next |-> 0, last |-> 0]

CommandsInit ==
    /\ sentUpdates = 0
    /\ confirmed = 0
    /\ lastUpdateId = 0
    /\ cmdPolls = [p \in CmdPolls |-> IdlePoll]
    /\ oracleProcess = "online"
    /\ taken = [u \in Updates |-> 0]
    /\ cmdRestarts = 0
    /\ cmdOverlaps = 0

OthersRun(p) == \E q \in CmdPolls \ {p} : cmdPolls[q].pc # "idle"

-----------------------------------------------------------------------------

Offset == lastUpdateId + 1

StartPoll(p) ==
    /\ cmdPolls[p].pc = "idle"
    /\ \/ ~OthersRun(p) /\ UNCHANGED cmdOverlaps
       \/ OthersRun(p) /\ cmdOverlaps < MaxCmdOverlaps /\ cmdOverlaps' = cmdOverlaps + 1
    /\ cmdPolls' = [cmdPolls EXCEPT ![p] =
                      [pc |-> "asked", offset |-> Offset, next |-> 0, last |-> 0]]
    /\ UNCHANGED <<sentUpdates, confirmed, lastUpdateId, oracleProcess, taken, cmdRestarts>>

\* Telegram drops what lies before the offset and answers with the rest.
Updated(p) ==
    LET dropped == Max({confirmed, cmdPolls[p].offset - 1})
    IN  /\ cmdPolls[p].pc = "asked"
        /\ confirmed' = dropped
        /\ cmdPolls' = [cmdPolls EXCEPT ![p] =
                          IF dropped < sentUpdates
                          THEN [pc |-> "batch", offset |-> 0, next |-> dropped + 1, last |-> sentUpdates]
                          ELSE IdlePoll]
        /\ UNCHANGED <<sentUpdates, lastUpdateId, oracleProcess, taken, cmdRestarts, cmdOverlaps>>

\* The request fails.
PollError(p) ==
    /\ cmdPolls[p].pc = "asked"
    /\ cmdPolls' = [cmdPolls EXCEPT ![p] = IdlePoll]
    /\ UNCHANGED <<sentUpdates, confirmed, lastUpdateId, oracleProcess, taken,
                   cmdRestarts, cmdOverlaps>>

\* The rest of the batch up to and with its first command; without a command
\* the batch ends.
Ahead(p) == cmdPolls[p].next..cmdPolls[p].last
CommandsAhead(p) == {u \in Ahead(p) : Kind[u] # "plain"}
TakenUp(p) == IF CommandsAhead(p) = {} THEN Ahead(p)
              ELSE cmdPolls[p].next..Min(CommandsAhead(p))

TakeUp(p) ==
    LET upto == Max(TakenUp(p))
    IN  /\ cmdPolls[p].pc = "batch"
        /\ lastUpdateId' = upto
        /\ taken' = [u \in Updates |-> IF u \in TakenUp(p) THEN taken[u] + 1 ELSE taken[u]]
        /\ cmdPolls' = [cmdPolls EXCEPT ![p] =
                          IF CommandsAhead(p) = {} THEN IdlePoll
                          ELSE [pc |-> "handling", offset |-> 0, next |-> upto, last |-> cmdPolls[p].last]]
        /\ UNCHANGED <<sentUpdates, confirmed, oracleProcess, cmdRestarts, cmdOverlaps>>

\* pm2Command: the process follows, or pm2 fails and that is reported.
Executed(command) ==
    \/ command = "restart" /\ oracleProcess' = "online"
    \/ command = "stop" /\ oracleProcess' = "stopped"
    \/ UNCHANGED oracleProcess

\* The handler returns and the batch goes on.
Handled(p) ==
    /\ cmdPolls[p].pc = "handling"
    /\ Executed(Kind[cmdPolls[p].next])
    /\ cmdPolls' = [cmdPolls EXCEPT ![p] =
                      IF cmdPolls[p].next = cmdPolls[p].last THEN IdlePoll
                      ELSE [pc |-> "batch", offset |-> 0, next |-> cmdPolls[p].next + 1,
                            last |-> cmdPolls[p].last]]
    /\ UNCHANGED <<sentUpdates, confirmed, lastUpdateId, taken, cmdRestarts, cmdOverlaps>>

\* Faulty: after an error the whole batch counts as done.
MarkAfterThrowAll(p) == cmdPolls[p].last

MarkAfterThrow(p) == lastUpdateId

\* getBalance throws in a query: the rest of the batch waits for another poll.
HandlerThrows(p) ==
    /\ cmdPolls[p].pc = "handling"
    /\ Kind[cmdPolls[p].next] = "query"
    /\ lastUpdateId' = MarkAfterThrow(p)
    /\ cmdPolls' = [cmdPolls EXCEPT ![p] = IdlePoll]
    /\ UNCHANGED <<sentUpdates, confirmed, oracleProcess, taken, cmdRestarts, cmdOverlaps>>

SendUpdate ==
    /\ sentUpdates + 1 \in Updates
    /\ sentUpdates' = sentUpdates + 1
    /\ UNCHANGED <<confirmed, lastUpdateId, cmdPolls, oracleProcess, taken,
                   cmdRestarts, cmdOverlaps>>

\* The monitor stops and is started again: lastUpdateId is 0 again.
RestartMonitor ==
    /\ cmdRestarts < MaxCmdRestarts
    /\ cmdRestarts' = cmdRestarts + 1
    /\ lastUpdateId' = 0
    /\ cmdPolls' = [p \in CmdPolls |-> IdlePoll]
    /\ UNCHANGED <<sentUpdates, confirmed, oracleProcess, taken, cmdOverlaps>>

PollSteps(p) == Updated(p) \/ TakeUp(p) \/ Handled(p)

CommandsNext ==
    \/ \E p \in CmdPolls :
         \/ StartPoll(p)
         \/ Updated(p)
         \/ PollError(p)
         \/ TakeUp(p)
         \/ Handled(p)
         \/ HandlerThrows(p)
    \/ SendUpdate
    \/ RestartMonitor

CommandsSpec == CommandsInit /\ [][CommandsNext]_commandsVars

-----------------------------------------------------------------------------
(* Correctness.                                                            *)

\* Marks, batches and counters are well formed.
CommandsTypeOK ==
    /\ {sentUpdates, confirmed, lastUpdateId} \subseteq {0} \cup Updates
    /\ \A p \in CmdPolls :
         /\ cmdPolls[p].pc \in {"idle", "asked", "batch", "handling"}
         /\ {cmdPolls[p].next, cmdPolls[p].last} \subseteq {0} \cup Updates
         /\ cmdPolls[p].pc \in {"batch", "handling"} => cmdPolls[p].next <= cmdPolls[p].last
    /\ oracleProcess \in {"online", "stopped"}
    /\ taken \in [Updates -> Nat]
    /\ cmdRestarts \in 0..MaxCmdRestarts
    /\ cmdOverlaps \in 0..MaxCmdOverlaps

\* Telegram drops a command only when a poll has taken it up, through errors
\* in the middle of a batch, overlapping polls and restarts.
NoCommandSkipped == \A u \in Updates : u <= confirmed => taken[u] >= 1

\* A restart or stop is carried out again only because polls overlapped or the
\* monitor was restarted before the next poll confirmed it.
CommandsRunOnce == \A u \in Updates : taken[u] <= 1 + cmdOverlaps + cmdRestarts

\* What an operator may rely on.
CommandsServed == NoCommandSkipped /\ CommandsRunOnce

=============================================================================
