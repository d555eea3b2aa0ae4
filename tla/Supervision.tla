----------------------------- MODULE Supervision -----------------------------
(***************************************************************************)
(* How server.cjs keeps the oracle and the monitor running: startOracle,   *)
(* startMonitor, the listen callback that calls them, the handlers of      *)
(* their events, SIGTERM and /health.                                      *)
(*                                                                         *)
(* Servers are started one after another and may overlap: the second one   *)
(* finds the port taken, or free while the first one still waits for its   *)
(* connections to close.  A child outlives a server that ends without it.  *)
(***************************************************************************)
EXTENDS Integers

CONSTANTS
    Children,        \* "oracle", "monitor"
    MaxServers       \* bound of the model

ASSUME SupervisionAssumption == MaxServers \in Nat

Servers == 1..MaxServers

VARIABLES
    servers,         \* server -> "off", "listening", "deaf", "closing" or "gone"
    children         \* server -> child -> what the server keeps of it

supervisionVars == <<servers, children>>

\* ref: oracleProcess or monitorProcess is not null; live: processes that run;
\* timers: restarts that are due; broken: forks that emitted "error" only.
NoChild == [ref |-> FALSE, live |-> 0, timers |-> 0, broken |-> 0]

SupervisionInit ==
    /\ servers = [s \in Servers |-> "off"]
    /\ children = [s \in Servers |-> [c \in Children |-> NoChild]]

\* Up: the process of the server runs and serves its timers and events.
Up(s) == servers[s] \in {"listening", "deaf", "closing"}

-----------------------------------------------------------------------------

\* startOracle, startMonitor: the child runs, or it could not be spawned and
\* only "error" is emitted, or fork throws and a timer is set.
Started(k) ==
    { [ref |-> TRUE, live |-> k.live + 1, timers |-> k.timers, broken |-> k.broken],
      [ref |-> TRUE, live |-> k.live, timers |-> k.timers, broken |-> k.broken + 1],
      [ref |-> k.ref, live |-> k.live, timers |-> k.timers + 1, broken |-> k.broken] }

\* The children are started in the callback of listen.
StartsChildren(s) == \A t \in Servers : servers[t] # "listening"

\* A server starts.  If the port is taken, "error" is logged and nothing else
\* ever happens in it.
StartServer(s) ==
    /\ servers[s] = "off"
    /\ \A t \in Servers : t < s => servers[t] # "off"
    /\ servers' = [servers EXCEPT ![s] =
                     IF \E t \in Servers : servers[t] = "listening" THEN "deaf" ELSE "listening"]
    /\ IF StartsChildren(s)
       THEN \E kids \in [Children -> Started(NoChild)] :
              children' = [children EXCEPT ![s] = kids]
       ELSE UNCHANGED children

\* Faulty: the child is started at once and by the timer as well.
RestartedTwice(k) ==
    [ref |-> FALSE, live |-> k.live - 1, timers |-> k.timers + 2, broken |-> k.broken]

\* The "exit" handler: the reference is dropped and a timer set.
AfterExit(k) ==
    [ref |-> FALSE, live |-> k.live - 1, timers |-> k.timers + 1, broken |-> k.broken]

\* A child ends, of itself, killed by SIGTERM or by its owner's handler; one
\* whose server is gone ends unnoticed.
ChildExits(s, c) ==
    LET k == children[s][c]
    IN  /\ k.live > 0
        /\ children' = [children EXCEPT ![s][c] =
                          IF Up(s) THEN AfterExit(k) ELSE [k EXCEPT !.live = k.live - 1]]
        /\ UNCHANGED servers

\* setTimeout calls startOracle or startMonitor, also while the server closes.
RestartTimer(s, c) ==
    /\ Up(s)
    /\ children[s][c].timers > 0
    /\ \E k \in Started([children[s][c] EXCEPT !.timers = @ - 1]) :
         children' = [children EXCEPT ![s][c] = k]
    /\ UNCHANGED servers

\* SIGTERM: the children are asked to end and the port is given up; the
\* process stays until its last connection is closed.
Sigterm(s) ==
    /\ servers[s] = "listening"
    /\ servers' = [servers EXCEPT ![s] = "closing"]
    /\ UNCHANGED children

\* The last connection is closed, a second SIGTERM finds no port to close, or
\* the process dies: nothing of the server remains but its live children.
ServerEnds(s) ==
    /\ Up(s)
    /\ servers' = [servers EXCEPT ![s] = "gone"]
    /\ children' = [children EXCEPT ![s] =
                      [c \in Children |-> [NoChild EXCEPT !.live = children[s][c].live]]]

SupervisionNext ==
    \E s \in Servers :
      \/ StartServer(s)
      \/ Sigterm(s)
      \/ ServerEnds(s)
      \/ \E c \in Children : ChildExits(s, c) \/ RestartTimer(s, c)

SupervisionSpec == SupervisionInit /\ [][SupervisionNext]_supervisionVars

-----------------------------------------------------------------------------
(* Correctness.                                                            *)

\* States and counters are well formed.
SupervisionTypeOK ==
    /\ servers \in [Servers -> {"off", "listening", "deaf", "closing", "gone"}]
    /\ children \in [Servers -> [Children ->
                       [ref : BOOLEAN, live : Nat, timers : Nat, broken : Nat]]]

\* A server that listens, or still closes, has each child exactly once: it
\* runs, or will be started, or was given up because it could not be spawned.
OneOfEach ==
    \A s \in Servers, c \in Children :
      servers[s] \in {"listening", "closing"} =>
        children[s][c].live + children[s][c].timers + children[s][c].broken = 1

\* /health says "stopped" of no child that runs, and "running" of one that
\* does not only if it could not be spawned.
HealthHonest ==
    \A s \in Servers, c \in Children :
      Up(s) => (children[s][c].ref <=> children[s][c].live + children[s][c].broken > 0)

\* Two oracles, which would share one secrets file, run only if a server was
\* stopped, and each of them belongs to another server.
SecondChildIsLeftOver ==
    \A s, t \in Servers, c \in Children :
      s # t /\ children[s][c].live > 0 /\ children[t][c].live > 0
        => {servers[s], servers[t]} \cap {"closing", "gone"} # {}

\* What the machine's operator relies on, over exits, failed forks, stops and
\* starts in any order.
ChildrenKept == OneOfEach /\ HealthHonest /\ SecondChildIsLeftOver

=============================================================================
