------------------------------ MODULE EventFeed ------------------------------
(***************************************************************************)
(* The two programs that follow the transactions of the mint and publish   *)
(* their events: the announcer (scripts/announcer.cjs), which posts to a   *)
(* Telegram channel, and the activity indexer of server.cjs, which keeps a *)
(* rolling log for the web pages.  Both poll on an interval for what came  *)
(* after a mark, the last signature they processed, and move the mark when *)
(* the whole batch is out; both keep the mark in a file.                   *)
(*                                                                         *)
(* A transaction is its position on the chain, and carries one event.  The *)
(* interval starts a poll whether or not the one before is over, so polls  *)
(* overlap; every await is a point where another poll runs.  A file torn   *)
(* by a crash reads as no state at all.                                    *)
(***************************************************************************)
EXTENDS Naturals, Sequences, FiniteSets

CONSTANTS
    Kinds,        \* the programs: "announcer", "indexer"
    Polls,        \* polls that may be under way at once
    LIMIT,        \* signatures one call returns (50)
    MAX_EVENTS,   \* length of the indexer's log
    MaxTx, MaxFaults, MaxOverlaps   \* bounds of the model

ASSUME KindAssumption == Kinds \subseteq {"announcer", "indexer"}
ASSUME LimitAssumption == LIMIT \in Nat \ {0} /\ MAX_EVENTS \in Nat \ {0}
ASSUME BoundAssumption == {MaxTx, MaxFaults, MaxOverlaps} \subseteq Nat /\ IsFiniteSet(Polls)

VARIABLES
    kind,     \* which program this is
    height,   \* number of transactions so far
    mark,     \* lastSig; 0 is null
    out,      \* what the channel shows, or the log, oldest first
    timer,    \* indexerSaveTimer is set
    writes,   \* states being written to the file
    file,     \* the state readable in the file
    polls,    \* the polls under way
    excused,  \* transactions the program does not publish by design, or
              \* because their answer or their post was lost (history)
    overlaps, \* polls started while another was under way (history)
    faults    \* crashes and errors so far (history)

vars == <<kind, height, mark, out, timer, writes, file, polls, excused, overlaps, faults>>

\* A saved state; only the indexer's file holds its log.
NoState == [mark |-> 0, out |-> <<>>]
State == [mark |-> mark, out |-> IF kind = "indexer" THEN out ELSE <<>>]

Idle == [at |-> "idle", since |-> 0, next |-> 0, newest |-> 0]

Init ==
    /\ kind \in Kinds
    /\ height = 0
    /\ mark = 0
    /\ out = <<>>
    /\ timer = FALSE
    /\ writes = {}
    /\ file = NoState
    /\ polls = [p \in Polls |-> Idle]
    /\ excused = {}
    /\ overlaps = 0
    /\ faults = 0

Fault == faults < MaxFaults /\ faults' = faults + 1

-----------------------------------------------------------------------------
(* The file.                                                               *)

\* The announcer writes at once; the indexer sets a timer, unless it runs.
Save(state) ==
    IF kind = "announcer"
    THEN writes' = writes \cup {state} /\ UNCHANGED timer
    ELSE timer' = TRUE /\ UNCHANGED writes

\* The timer writes what the indexer knows by then.
TimerFires ==
    /\ timer
    /\ timer' = FALSE
    /\ writes' = writes \cup {State}
    /\ UNCHANGED <<kind, height, mark, out, file, polls, excused, overlaps, faults>>

WriteDone ==
    /\ \E w \in writes : file' = w /\ writes' = writes \ {w}
    /\ UNCHANGED <<kind, height, mark, out, timer, polls, excused, overlaps, faults>>

\* An error is at most logged; the file may have been emptied already.
WriteFails ==
    /\ \E w \in writes : writes' = writes \ {w}
    /\ file' \in {file, NoState}
    /\ Fault
    /\ UNCHANGED <<kind, height, mark, out, timer, polls, excused, overlaps>>

\* The program dies and is started again, with what the file holds.
Restart ==
    /\ Fault
    /\ file' \in {file} \cup writes \cup (IF writes = {} THEN {} ELSE {NoState})
    /\ mark' = file'.mark
    /\ out' = IF kind = "indexer" THEN file'.out ELSE out
    /\ timer' = FALSE
    /\ writes' = {}
    /\ polls' = [p \in Polls |-> Idle]
    /\ UNCHANGED <<kind, height, excused, overlaps>>

-----------------------------------------------------------------------------
(* A poll.                                                                 *)

\* The interval fires: the signatures after the mark are asked for.
Ask(p) ==
    /\ polls[p].at = "idle"
    /\ polls' = [polls EXCEPT ![p] = [Idle EXCEPT !.at = "asked", !.since = mark]]
    /\ IF \E q \in Polls : polls[q].at # "idle"
       THEN overlaps < MaxOverlaps /\ overlaps' = overlaps + 1
       ELSE UNCHANGED overlaps
    /\ UNCHANGED <<kind, height, mark, out, timer, writes, file, excused, faults>>

\* The oldest signature an answer holds: of more than LIMIT only the newest.
Oldest(since) == IF height - since > LIMIT THEN height - LIMIT + 1 ELSE since + 1

\* An answer with nothing in it ends the poll; the first one ever only sets
\* the mark, so that history is not published.
Answer(p) ==
    LET since == polls[p].since
    IN  /\ polls[p].at = "asked"
        /\ \/ /\ height = since
              /\ polls' = [polls EXCEPT ![p] = Idle]
              /\ UNCHANGED <<mark, timer, writes, excused>>
           \/ /\ height > since
              /\ mark = 0
              /\ mark' = height
              /\ excused' = excused \cup 1..height
              /\ polls' = [polls EXCEPT ![p] = Idle]
              /\ Save([mark |-> height, out |-> <<>>])
           \/ /\ height > since
              /\ mark # 0
              /\ excused' = excused \cup (since + 1)..(Oldest(since) - 1)
              /\ polls' = [polls EXCEPT ![p] = [at |-> "publishing", since |-> 0,
                             next |-> Oldest(since), newest |-> height]]
              /\ UNCHANGED <<mark, timer, writes>>
        /\ UNCHANGED <<kind, height, out, file, overlaps, faults>>

\* The next transaction is fetched and its event published.  It is lost when
\* the node does not know the transaction yet, or the channel refuses.
Publish(p) ==
    LET poll == polls[p]
    IN  /\ poll.at = "publishing"
        /\ poll.next <= poll.newest
        /\ polls' = [polls EXCEPT ![p].next = @ + 1]
        /\ \/ out' = Append(out, poll.next) /\ UNCHANGED <<excused, faults>>
           \/ excused' = excused \cup {poll.next} /\ Fault /\ UNCHANGED out
        /\ UNCHANGED <<kind, height, mark, timer, writes, file, overlaps>>

\* Faulty: the mark is the last signature but one.
MarkAfterBatchOneShort(p) == polls[p].newest - 1

MarkAfterBatch(p) == polls[p].newest

\* The indexer's log is cut to its length.
Trimmed ==
    IF kind = "indexer" /\ Len(out) > MAX_EVENTS
    THEN SubSeq(out, Len(out) - MAX_EVENTS + 1, Len(out)) ELSE out

Finish(p) ==
    /\ polls[p].at = "publishing"
    /\ polls[p].next > polls[p].newest
    /\ mark' = MarkAfterBatch(p)
    /\ out' = Trimmed
    /\ polls' = [polls EXCEPT ![p] = Idle]
    /\ Save([mark |-> mark', out |-> <<>>])
    /\ UNCHANGED <<kind, height, file, excused, overlaps, faults>>

\* Faulty: the mark moves although the batch is not out.
MarkMovesOnError(p) == IF polls[p].newest > 0 THEN polls[p].newest ELSE mark

MarkAfterError(p) == mark

\* A call throws: the rest of the batch waits for the next poll.
PollFails(p) ==
    /\ polls[p].at # "idle"
    /\ Fault
    /\ mark' = MarkAfterError(p)
    /\ polls' = [polls EXCEPT ![p] = Idle]
    /\ UNCHANGED <<kind, height, out, timer, writes, file, excused, overlaps>>

-----------------------------------------------------------------------------

NewTx ==
    /\ height < MaxTx
    /\ height' = height + 1
    /\ UNCHANGED <<kind, mark, out, timer, writes, file, polls, excused, overlaps, faults>>

Next ==
    \/ NewTx
    \/ \E p \in Polls : Ask(p) \/ Answer(p) \/ Publish(p) \/ Finish(p) \/ PollFails(p)
    \/ TimerFires
    \/ WriteDone
    \/ WriteFails
    \/ Restart

Spec == Init /\ [][Next]_vars

\* The interval keeps firing and every call is answered in the end.
FairSpec ==
    /\ Spec
    /\ \A p \in Polls : WF_vars(Ask(p)) /\ WF_vars(Answer(p) \/ Publish(p) \/ Finish(p))

-----------------------------------------------------------------------------
(* Correctness.                                                            *)

StateType == [mark : Nat, out : Seq(Nat)]
PollType ==
    [at : {"idle", "asked", "publishing"}, since : Nat, next : Nat, newest : Nat]

\* The program's variables and file are well formed.
TypeOK ==
    /\ kind \in {"announcer", "indexer"}
    /\ {height, mark, overlaps, faults} \subseteq Nat
    /\ out \in Seq(Nat)
    /\ timer \in BOOLEAN
    /\ writes \in SUBSET StateType
    /\ file \in StateType
    /\ polls \in [Polls -> PollType]
    /\ excused \in SUBSET Nat

\* A transaction that is out, need not be, or may have been cut off the log.
SettledIn(t, log) ==
    \/ \E i \in DOMAIN log : log[i] = t
    \/ t \in excused
    \/ kind = "indexer" /\ Len(log) >= MAX_EVENTS

Settled(t) == SettledIn(t, out)

TimesOut(t) == Cardinality({i \in DOMAIN out : out[i] = t})

\* The mark never passes an event that is not out: neither errors, nor polls
\* that overlap and finish in any order, nor restarts from an older file skip
\* one.  What more than LIMIT transactions between two polls push out of the
\* answer, what came before the first poll (or before the first one after the
\* file was torn) and what an RPC node or the channel loses is excused.
MarkSkipsNothing == \A t \in 1..mark : Settled(t)

\* The same of every state a restart may find in the file, with the log it
\* brings back, and of every poll: what it was asked for, or has gone through.
SavedSkipsNothing ==
    \A s \in writes \cup {file} : \A t \in 1..s.mark :
        SettledIn(t, IF kind = "indexer" THEN s.out ELSE out)

PollSkipsNothing(poll) ==
    /\ poll.at = "asked" => \A t \in 1..poll.since : Settled(t)
    /\ poll.at = "publishing" => \A t \in 1..(poll.next - 1) : Settled(t)

\* Why the mark skips nothing: a mark comes from a poll or from the file.
FeedInvariant ==
    /\ TypeOK
    /\ MarkSkipsNothing
    /\ SavedSkipsNothing
    /\ \A p \in Polls : PollSkipsNothing(polls[p])

\* An event is published again only for a reason: each crash, error or
\* overlap of polls repeats it at most once.
RepeatsHaveAReason == \A t \in 1..height : TimesOut(t) <= 1 + faults + overlaps

\* Every event gets out in the end, after any number of errors and restarts.
EverythingGetsOut == \A t \in 1..MaxTx : height >= t ~> Settled(t)

=============================================================================
