------------------------------ MODULE OpsProofs ------------------------------
(***************************************************************************)
(* Theorems about what runs beside the program: the feeds of events, the   *)
(* monitor and its commands, the supervision of server.cjs, the loop and   *)
(* the secrets of the oracle, and the scripts of the operator; for every   *)
(* number of polls, processes, requests, tokens and faults.  Each part has *)
(* its inductive invariant; MCOps puts all but the feeds together.         *)
(***************************************************************************)
EXTENDS MCOps, EventFeed, SequenceTheorems, FiniteSetTheorems, TLAPS

-----------------------------------------------------------------------------
(* Sets that differ in one element, least and greatest numbers.            *)

\* How a count moves when one element comes or goes.
LEMMA CountByOne ==
    ASSUME NEW S, NEW T, NEW p, IsFiniteSet(S), \A q : q # p => (q \in S <=> q \in T)
    PROVE  /\ IsFiniteSet(T)
           /\ Cardinality(S) \in Nat /\ Cardinality(T) \in Nat
           /\ Cardinality(S) = 0 <=> S = {}
           /\ Cardinality(T) = 0 <=> T = {}
           /\ p \in S => Cardinality(S) >= 1
           /\ (p \in S <=> p \in T) => Cardinality(T) = Cardinality(S)
           /\ p \in S /\ p \notin T => Cardinality(T) = Cardinality(S) - 1
           /\ p \notin S /\ p \in T => Cardinality(T) = Cardinality(S) + 1
  <1>1. Cardinality(S) \in Nat /\ (Cardinality(S) = 0 <=> S = {})
    BY FS_CardinalityType, FS_EmptySet
  <1>2. CASE p \in S <=> p \in T
    <2>1. S = T
      BY <1>2
    <2> QED
      BY <1>1, <1>2, <2>1
  <1>3. CASE p \in S /\ p \notin T
    <2>1. T = S \ {p}
      BY <1>3
    <2>2. IsFiniteSet(T) /\ Cardinality(T) = Cardinality(S) - 1
      BY <1>3, <2>1, FS_RemoveElement
    <2>3. Cardinality(T) \in Nat /\ (Cardinality(T) = 0 <=> T = {})
      BY <2>2, FS_CardinalityType, FS_EmptySet
    <2> QED
      BY <1>1, <1>3, <2>2, <2>3
  <1>4. CASE p \notin S /\ p \in T
    <2>1. T = S \cup {p}
      BY <1>4
    <2>2. IsFiniteSet(T) /\ Cardinality(T) = Cardinality(S) + 1
      BY <1>4, <2>1, FS_AddElement
    <2>3. Cardinality(T) \in Nat /\ (Cardinality(T) = 0 <=> T = {})
      BY <2>2, FS_CardinalityType, FS_EmptySet
    <2> QED
      BY <1>1, <1>4, <2>2, <2>3
  <1> QED
    BY <1>2, <1>3, <1>4

LEMMA MaxOfTwo ==
    ASSUME NEW a \in Int, NEW b \in Int
    PROVE  Max({a, b}) = IF a >= b THEN a ELSE b
  <1> DEFINE m == IF a >= b THEN a ELSE b
  <1>1. m \in {a, b} /\ \A y \in {a, b} : m >= y
    OBVIOUS
  <1>2. \A x \in {a, b} : (\A y \in {a, b} : x >= y) => x = m
    OBVIOUS
  <1> HIDE DEF m
  <1>3. Max({a, b}) = m
    BY <1>1, <1>2 DEF Max
  <1> QED
    BY <1>3 DEF m

LEMMA MaxOfInterval ==
    ASSUME NEW a \in Int, NEW b \in Int, a <= b
    PROVE  Max(a..b) = b
  <1>1. b \in a..b /\ \A y \in a..b : b >= y
    OBVIOUS
  <1>2. \A x \in a..b : (\A y \in a..b : x >= y) => x = b
    <2> SUFFICES ASSUME NEW x \in a..b, \A y \in a..b : x >= y
                 PROVE  x = b
      OBVIOUS
    <2>1. x >= b /\ x <= b
      BY <1>1
    <2> QED
      BY <2>1
  <1> QED
    BY <1>1, <1>2 DEF Max

\* The least element of a set of naturals, found by the set of what is below.
LEMMA MinOfNaturals ==
    ASSUME NEW S \in SUBSET Nat, S # {}
    PROVE  Min(S) \in S /\ \A y \in S : Min(S) <= y
  <1>1. PICK s \in S : TRUE
    OBVIOUS
  <1> DEFINE U == 0..s
             T == {0..x : x \in {y \in S : y <= s}}
  <1>2. IsFiniteSet(U)
    BY <1>1, FS_Interval
  <1>3. T \subseteq SUBSET U /\ T # {}
    BY <1>1
  <1>4. PICK m \in T : \A n \in T : ~(<<n, m>> \in StrictSubsetOrdering(U))
    <2> HIDE DEF T, U
    <2>1. IsWellFoundedOn(StrictSubsetOrdering(U), SUBSET U)
      BY <1>2, FS_StrictSubsetOrderingWellFounded, FS_FiniteSubsetsOfFinite, Zenon
    <2> QED
      BY <1>3, <2>1, WFMin, Zenon
  <1>5. PICK x \in S : x <= s /\ m = 0..x
    BY <1>4
  <1>6. \A y \in S : x <= y
    <2> SUFFICES ASSUME NEW y \in S, y < x
                 PROVE  FALSE
      OBVIOUS
    <2>1. 0..y \in T /\ 0..y \subseteq 0..x /\ x \in 0..x /\ x \notin 0..y
      BY <1>1, <1>5
    <2>2. <<0..y, m>> \in StrictSubsetOrdering(U)
      <3>1. 0..y \in SUBSET U /\ m \in SUBSET U
        BY <1>1, <1>5
      <3>2. 0..y \subseteq m /\ 0..y # m
        BY <1>5, <2>1
      <3> HIDE DEF U
      <3> QED
        BY <3>1, <3>2 DEF StrictSubsetOrdering
    <2> QED
      BY <1>4, <2>1, <2>2
  <1>7. x \in S /\ \A y \in S : x =< y
    BY <1>5, <1>6
  <1> QED
    BY <1>7 DEF Min

-----------------------------------------------------------------------------
(* The event feeds: nothing is skipped.                                    *)

\* Nothing is processed yet (the first start).
LEMMA InitFeed == Init => FeedInvariant
<1> SUFFICES ASSUME Init PROVE FeedInvariant
  OBVIOUS
<1>1. NoState \in StateType /\ Idle \in PollType /\ <<>> \in Seq(Nat)
  BY DEF NoState, StateType, Idle, PollType
<1>2. TypeOK
  <2>1. kind \in {"announcer", "indexer"} /\ {height, mark, overlaps, faults} \subseteq Nat
    BY KindAssumption DEF Init
  <2>2. out \in Seq(Nat) /\ timer \in BOOLEAN /\ writes \in SUBSET StateType
        /\ file \in StateType /\ excused \in SUBSET Nat
    BY <1>1 DEF Init
  <2>3. polls \in [Polls -> PollType]
    BY <1>1 DEF Init
  <2> QED BY <2>1, <2>2, <2>3 DEF TypeOK
<1>3. MarkSkipsNothing /\ SavedSkipsNothing
  BY DEF Init, MarkSkipsNothing, SavedSkipsNothing, NoState
<1>4. \A p \in Polls : PollSkipsNothing(polls[p])
  BY DEF Init, Idle, PollSkipsNothing
<1> QED BY <1>2, <1>3, <1>4 DEF FeedInvariant

\* The oldest signature of an answer comes after the mark it was asked with,
\* and is a transaction (the limit of getSignaturesForAddress).
LEMMA OldestAfterSince ==
    ASSUME NEW since \in Nat, height \in Nat, height > since
    PROVE  Oldest(since) \in Nat /\ Oldest(since) > since
BY LimitAssumption DEF Oldest

\* A step that appends to the log, or leaves it, and excuses no less keeps
\* what was settled, in the log and in a saved one (every step but Restart
\* and the cut of the log).
LEMMA GrowingKeepsSettled ==
    ASSUME TypeOK, kind' = kind, excused \subseteq excused',
           out' = out \/ \E e \in Nat : out' = Append(out, e)
    PROVE  /\ \A t : Settled(t) => Settled(t)'
           /\ \A t, log : SettledIn(t, log) => SettledIn(t, log)'
<1>1. ASSUME NEW t, Settled(t) PROVE Settled(t)'
  <2>1. CASE out' = out
    BY <1>1, <2>1 DEF Settled, SettledIn
  <2>2. ASSUME NEW e \in Nat, out' = Append(out, e) PROVE Settled(t)'
    <3>1. /\ Len(out') = Len(out) + 1 /\ Len(out) \in Nat
          /\ DOMAIN out \subseteq DOMAIN out'
          /\ \A i \in DOMAIN out : out'[i] = out[i]
      BY <2>2 DEF TypeOK
    <3>2. Len(out) >= MAX_EVENTS => Len(out') >= MAX_EVENTS
      BY <3>1, LimitAssumption
    <3> QED BY <1>1, <3>1, <3>2 DEF Settled, SettledIn
  <2> QED BY <2>1, <2>2
<1>2. \A t, log : SettledIn(t, log) => SettledIn(t, log)'
  BY DEF SettledIn
<1> QED BY <1>1, <1>2

\* What is saved stays settled while the log grows (the file and the writes
\* under way).
LEMMA GrowingKeepsSaved ==
    ASSUME FeedInvariant, kind' = kind, excused \subseteq excused',
           out' = out \/ \E e \in Nat : out' = Append(out, e),
           NEW s \in writes \cup {file}, NEW t \in 1..s.mark
    PROVE  SettledIn(t, IF kind = "indexer" THEN s.out ELSE out)'
<1>1. SettledIn(t, IF kind = "indexer" THEN s.out ELSE out)
  BY DEF FeedInvariant, SavedSkipsNothing
<1>2. TypeOK
  BY DEF FeedInvariant
<1>3. CASE kind = "indexer"
  BY <1>1, <1>2, <1>3, GrowingKeepsSettled
<1>4. CASE kind # "indexer"
  <2>1. Settled(t)
    BY <1>1, <1>4 DEF Settled
  <2>2. Settled(t)'
    BY <1>2, <2>1, GrowingKeepsSettled
  <2> QED BY <1>4, <2>2 DEF Settled
<1> QED BY <1>3, <1>4

\* Polls that are left alone, or gone, stay settled while the log grows.
LEMMA GrowingKeepsPolls ==
    ASSUME FeedInvariant, kind' = kind, excused \subseteq excused',
           out' = out \/ \E e \in Nat : out' = Append(out, e),
           NEW p \in Polls, polls'[p] = polls[p] \/ polls'[p] = Idle
    PROVE  PollSkipsNothing(polls[p])'
<1>1. TypeOK
  BY DEF FeedInvariant
<1>2. CASE polls'[p] = polls[p]
  <2>1. PollSkipsNothing(polls[p])
    BY DEF FeedInvariant
  <2> QED BY <1>1, <1>2, <2>1, GrowingKeepsSettled DEF PollSkipsNothing
<1>3. CASE polls'[p] = Idle
  BY <1>3 DEF PollSkipsNothing, Idle
<1> QED BY <1>2, <1>3

\* Steps that touch no poll's progress and no mark (NewTx, the timer, the
\* writes, and a poll that is started or fails).
LEMMA QuietSteps ==
    ASSUME FeedInvariant,
           \/ NewTx \/ TimerFires \/ WriteDone \/ WriteFails \/ UNCHANGED vars
           \/ \E p \in Polls : Ask(p) \/ PollFails(p)
    PROVE  FeedInvariant'
<1>1. TypeOK /\ MarkSkipsNothing
  BY DEF FeedInvariant
<1>2. /\ UNCHANGED <<kind, mark, out, excused>>
      /\ State \in StateType /\ NoState \in StateType /\ Idle \in PollType
  <2>1. UNCHANGED <<kind, mark, out, excused>>
    BY DEF NewTx, TimerFires, WriteDone, WriteFails, vars, Ask, PollFails, MarkAfterError
  <2>2. State \in StateType
    BY <1>1 DEF State, StateType, TypeOK
  <2>3. NoState \in StateType /\ Idle \in PollType
    BY DEF NoState, StateType, Idle, PollType
  <2> QED BY <2>1, <2>2, <2>3
<1>3. MarkSkipsNothing'
  BY <1>1, <1>2, GrowingKeepsSettled DEF MarkSkipsNothing
<1>4. \A s \in writes' \cup {file'} : s \in writes \cup {file} \/ s = State \/ s = NoState
  BY DEF NewTx, TimerFires, WriteDone, WriteFails, vars, Ask, PollFails
<1>5. SavedSkipsNothing'
  <2> SUFFICES ASSUME NEW s \in writes' \cup {file'}, NEW t \in 1..s.mark
               PROVE  SettledIn(t, IF kind = "indexer" THEN s.out ELSE out)'
    BY DEF SavedSkipsNothing
  <2>1. CASE s \in writes \cup {file}
    BY <1>2, <2>1, GrowingKeepsSaved
  <2>2. CASE s = State
    <3>1. s.mark = mark /\ (kind = "indexer" => s.out = out)
      BY <2>2 DEF State
    <3>2. Settled(t)
      BY <1>1, <3>1 DEF MarkSkipsNothing
    <3> QED BY <1>2, <3>1, <3>2 DEF Settled, SettledIn
  <2>3. CASE s = NoState
    BY <2>3 DEF NoState
  <2> QED BY <1>4, <2>1, <2>2, <2>3
<1>6. ASSUME NEW p \in Polls PROVE PollSkipsNothing(polls[p])'
  <2>1. CASE polls'[p] = polls[p] \/ polls'[p] = Idle
    BY <1>2, <2>1, GrowingKeepsPolls
  <2>2. CASE polls'[p] = [Idle EXCEPT !.at = "asked", !.since = mark]
    <3>1. polls'[p].at = "asked" /\ polls'[p].since = mark
      BY <2>2 DEF Idle
    <3> QED BY <1>2, <1>3, <3>1 DEF PollSkipsNothing, MarkSkipsNothing
  <2>3. \/ polls'[p] = polls[p] \/ polls'[p] = Idle
        \/ polls'[p] = [Idle EXCEPT !.at = "asked", !.since = mark]
    BY <1>1 DEF TypeOK, NewTx, TimerFires, WriteDone, WriteFails, vars, Ask, PollFails
  <2> QED BY <2>1, <2>2, <2>3
<1>7. TypeOK'
  <2> USE <1>1, <1>2 DEF TypeOK
  <2>1. CASE NewTx \/ UNCHANGED vars
    BY <2>1 DEF NewTx, vars
  <2>2. CASE TimerFires
    BY <2>2 DEF TimerFires
  <2>3. CASE WriteDone \/ WriteFails
    BY <2>3 DEF WriteDone, WriteFails, Fault
  <2>4. ASSUME NEW p \in Polls, Ask(p) PROVE TypeOK'
    <3>1. [Idle EXCEPT !.at = "asked", !.since = mark] \in PollType
      BY DEF Idle, PollType
    <3>2. polls' \in [Polls -> PollType]
      BY <2>4, <3>1 DEF Ask
    <3>3. overlaps' \in Nat
      BY <2>4 DEF Ask
    <3> QED BY <2>4, <3>2, <3>3 DEF Ask
  <2>5. ASSUME NEW p \in Polls, PollFails(p) PROVE TypeOK'
    BY <2>5 DEF PollFails, Fault
  <2> QED BY <2>1, <2>2, <2>3, <2>4, <2>5
<1> QED BY <1>3, <1>5, <1>6, <1>7 DEF FeedInvariant

\* A restart takes its mark and its log from one saved state.
LEMMA RestartStep == FeedInvariant /\ Restart => FeedInvariant'
<1> SUFFICES ASSUME FeedInvariant, Restart PROVE FeedInvariant'
  OBVIOUS
<1>1. TypeOK /\ SavedSkipsNothing
  BY DEF FeedInvariant
<1>2. /\ file' \in {file} \cup writes \cup {NoState}
      /\ mark' = file'.mark
      /\ out' = IF kind = "indexer" THEN file'.out ELSE out
      /\ writes' = {} /\ timer' = FALSE
      /\ polls' = [p \in Polls |-> Idle]
      /\ UNCHANGED <<kind, height, excused, overlaps>>
  BY DEF Restart
<1>3. NoState \in StateType /\ Idle \in PollType
  BY DEF NoState, StateType, Idle, PollType
<1>4. file' \in StateType
  BY <1>1, <1>2, <1>3 DEF TypeOK
<1>5. SavedSkipsNothing'
  <2> SUFFICES ASSUME NEW t \in 1..file'.mark
               PROVE  SettledIn(t, IF kind = "indexer" THEN file.out ELSE out)'
    BY <1>2 DEF SavedSkipsNothing
  <2>1. CASE file' = NoState
    BY <2>1 DEF NoState
  <2>2. CASE file' \in writes \cup {file}
    <3>1. SettledIn(t, IF kind = "indexer" THEN file'.out ELSE out)
      BY <1>1, <2>2 DEF SavedSkipsNothing
    <3>2. CASE kind = "indexer"
      BY <1>2, <3>1, <3>2 DEF SettledIn
    <3>3. CASE kind # "indexer"
      BY <1>2, <3>1, <3>3 DEF SettledIn
    <3> QED BY <3>2, <3>3
  <2> QED BY <1>2, <2>1, <2>2
<1>6. MarkSkipsNothing'
  <2> SUFFICES ASSUME NEW t \in 1..mark' PROVE SettledIn(t, out)'
    BY DEF MarkSkipsNothing, Settled
  <2>1. SettledIn(t, IF kind = "indexer" THEN file.out ELSE out)'
    BY <1>2, <1>5 DEF SavedSkipsNothing
  <2>2. (IF kind = "indexer" THEN file.out ELSE out)' = out'
    BY <1>2
  <2> QED BY <2>1, <2>2
<1>7. \A p \in Polls : PollSkipsNothing(polls[p])'
  BY <1>2 DEF PollSkipsNothing, Idle
<1>8. TypeOK'
  <2>1. mark' \in Nat /\ out' \in Seq(Nat)
    BY <1>1, <1>2, <1>4 DEF StateType, TypeOK
  <2>2. faults' \in Nat
    BY <1>1 DEF Restart, Fault, TypeOK
  <2> QED BY <1>1, <1>2, <1>3, <1>4, <2>1, <2>2 DEF TypeOK
<1> QED BY <1>5, <1>6, <1>7, <1>8 DEF FeedInvariant

\* What Save adds to the writes is the mark it was given (saveState).
LEMMA SaveAdds ==
    ASSUME kind \in {"announcer", "indexer"}, NEW m, Save([mark |-> m, out |-> <<>>])
    PROVE  /\ kind # "indexer" => writes' = writes \cup {[mark |-> m, out |-> <<>>]}
           /\ kind = "indexer" => writes' = writes
           /\ timer' \in {timer, TRUE}
BY DEF Save

\* An answer starts a batch after the mark the poll was asked with, or sets
\* the first mark, or ends the poll.
LEMMA AnswerStep ==
    ASSUME FeedInvariant, NEW p \in Polls, Answer(p)
    PROVE  FeedInvariant'
<1> DEFINE since == polls[p].since
<1>1. TypeOK /\ MarkSkipsNothing /\ PollSkipsNothing(polls[p])
  BY DEF FeedInvariant
<1>2. /\ polls[p].at = "asked"
      /\ UNCHANGED <<kind, height, out, file, overlaps, faults>>
      /\ height \in Nat /\ since \in Nat /\ polls[p] \in PollType /\ Idle \in PollType
  BY <1>1 DEF Answer, TypeOK, PollType, Idle
<1>3. CASE /\ polls' = [polls EXCEPT ![p] = Idle]
           /\ UNCHANGED <<mark, timer, writes, excused>>
  <2>1. TypeOK'
    BY <1>1, <1>2, <1>3 DEF TypeOK
  <2>2. MarkSkipsNothing'
    BY <1>1, <1>2, <1>3, GrowingKeepsSettled DEF MarkSkipsNothing
  <2>3. SavedSkipsNothing'
    BY <1>2, <1>3, GrowingKeepsSaved DEF SavedSkipsNothing
  <2>4. \A q \in Polls : polls'[q] \in {polls[q], Idle}
    BY <1>1, <1>3 DEF TypeOK
  <2>5. \A q \in Polls : PollSkipsNothing(polls[q])'
    BY <1>2, <1>3, <2>4, GrowingKeepsPolls
  <2> QED BY <2>1, <2>2, <2>3, <2>5 DEF FeedInvariant
<1>4. CASE /\ mark' = height
           /\ excused' = excused \cup 1..height
           /\ polls' = [polls EXCEPT ![p] = Idle]
           /\ Save([mark |-> height, out |-> <<>>])
  <2> DEFINE new == [mark |-> height, out |-> <<>>]
  <2>1. /\ kind # "indexer" => writes' = writes \cup {new}
        /\ kind = "indexer" => writes' = writes
        /\ timer' \in {timer, TRUE}
    BY <1>1, <1>4, SaveAdds DEF TypeOK
  <2>2. new \in StateType
    BY <1>2 DEF StateType
  <2>3. TypeOK'
    <3>1. polls' \in [Polls -> PollType]
      BY <1>1, <1>2, <1>4 DEF TypeOK
    <3>2. writes' \in SUBSET StateType /\ timer' \in BOOLEAN
      BY <1>1, <2>1, <2>2 DEF TypeOK
    <3>3. 1..height \subseteq Nat
      BY <1>2
    <3>4. excused' \in SUBSET Nat
      BY <1>1, <1>4, <3>3 DEF TypeOK
    <3>5. {height', mark', overlaps', faults'} \subseteq Nat
      BY <1>1, <1>2, <1>4 DEF TypeOK
    <3>6. kind' \in {"announcer", "indexer"} /\ out' \in Seq(Nat) /\ file' \in StateType
      BY <1>1, <1>2 DEF TypeOK
    <3> QED BY <3>1, <3>2, <3>4, <3>5, <3>6 DEF TypeOK
  <2>4. MarkSkipsNothing'
    BY <1>2, <1>4 DEF MarkSkipsNothing, Settled, SettledIn
  <2>5. SavedSkipsNothing'
    <3> SUFFICES ASSUME NEW s \in writes' \cup {file'}, NEW t \in 1..s.mark
                 PROVE  SettledIn(t, IF kind = "indexer" THEN s.out ELSE out)'
      BY DEF SavedSkipsNothing
    <3>1. CASE s \in writes \cup {file}
      BY <1>2, <1>4, <3>1, GrowingKeepsSaved
    <3>2. CASE s = new
      BY <1>4, <3>2 DEF SettledIn
    <3> QED BY <1>2, <2>1, <3>1, <3>2
  <2>6. \A q \in Polls : polls'[q] \in {polls[q], Idle}
    BY <1>1, <1>4 DEF TypeOK
  <2>7. \A q \in Polls : PollSkipsNothing(polls[q])'
    BY <1>2, <1>4, <2>6, GrowingKeepsPolls
  <2> QED BY <2>3, <2>4, <2>5, <2>7 DEF FeedInvariant
<1>5. CASE /\ height > since
           /\ excused' = excused \cup (since + 1)..(Oldest(since) - 1)
           /\ polls' = [polls EXCEPT ![p] = [at |-> "publishing", since |-> 0,
                           next |-> Oldest(since), newest |-> height]]
           /\ UNCHANGED <<mark, timer, writes>>
  <2> DEFINE new == [at |-> "publishing", since |-> 0, next |-> Oldest(since), newest |-> height]
  <2>1. Oldest(since) \in Nat /\ Oldest(since) > since
    BY <1>2, <1>5, OldestAfterSince
  <2>2. new \in PollType
    BY <1>2, <2>1 DEF PollType
  <2>3. excused' \in SUBSET Nat /\ excused \subseteq excused'
    <3>1. (since + 1)..(Oldest(since) - 1) \subseteq Nat
      BY <1>2, <2>1
    <3> QED BY <1>1, <1>5, <3>1 DEF TypeOK
  <2>4. TypeOK'
    BY <1>1, <1>2, <1>5, <2>2, <2>3 DEF TypeOK
  <2>5. MarkSkipsNothing'
    BY <1>1, <1>2, <1>5, <2>3, GrowingKeepsSettled DEF MarkSkipsNothing
  <2>6. SavedSkipsNothing'
    BY <1>2, <1>5, <2>3, GrowingKeepsSaved DEF SavedSkipsNothing
  <2>7. ASSUME NEW t \in 1..(Oldest(since) - 1) PROVE Settled(t)'
    <3>1. CASE t \in 1..since
      <4>1. Settled(t)
        BY <1>1, <1>2, <3>1 DEF PollSkipsNothing
      <4> QED BY <1>1, <1>2, <2>3, <4>1, GrowingKeepsSettled
    <3>2. CASE t \in (since + 1)..(Oldest(since) - 1)
      BY <1>5, <3>2 DEF Settled, SettledIn
    <3> QED BY <1>2, <2>1, <3>1, <3>2
  <2>8. ASSUME NEW q \in Polls PROVE PollSkipsNothing(polls[q])'
    <3>1. CASE q = p
      <4>1. polls'[p].at = "publishing" /\ polls'[p].next = Oldest(since)
        BY <1>1, <1>5 DEF TypeOK
      <4> QED BY <2>7, <3>1, <4>1 DEF PollSkipsNothing
    <3>2. CASE q # p
      <4>1. polls'[q] = polls[q]
        BY <1>1, <1>5, <3>2 DEF TypeOK
      <4> QED BY <1>2, <2>3, <4>1, GrowingKeepsPolls
    <3> QED BY <3>1, <3>2
  <2> QED BY <2>4, <2>5, <2>6, <2>8 DEF FeedInvariant
<1> QED BY <1>3, <1>4, <1>5 DEF Answer

\* An event is appended or lost, and the batch goes on after it.
LEMMA PublishStep ==
    ASSUME FeedInvariant, NEW p \in Polls, Publish(p)
    PROVE  FeedInvariant'
<1> DEFINE next == polls[p].next
<1>1. TypeOK /\ MarkSkipsNothing /\ PollSkipsNothing(polls[p])
  BY DEF FeedInvariant
<1>2. /\ polls[p].at = "publishing" /\ polls' = [polls EXCEPT ![p].next = @ + 1]
      /\ UNCHANGED <<kind, height, mark, timer, writes, file, overlaps>>
      /\ polls[p] \in PollType /\ next \in Nat
  BY <1>1 DEF Publish, TypeOK, PollType
<1>3. \/ out' = Append(out, next) /\ UNCHANGED <<excused, faults>>
      \/ excused' = excused \cup {next} /\ Fault /\ UNCHANGED out
  BY DEF Publish
<1>4. excused \subseteq excused' /\ (out' = out \/ \E e \in Nat : out' = Append(out, e))
  BY <1>2, <1>3
<1>5. ASSUME NEW t, t = next PROVE Settled(t)'
  <2>1. CASE out' = Append(out, next)
    <3>1. Len(out) + 1 \in DOMAIN out' /\ out'[Len(out) + 1] = t
      BY <1>1, <1>2, <1>5, <2>1 DEF TypeOK
    <3> QED BY <3>1 DEF Settled, SettledIn
  <2>2. CASE excused' = excused \cup {next}
    BY <1>5, <2>2 DEF Settled, SettledIn
  <2> QED BY <1>3, <2>1, <2>2
<1>6. TypeOK'
  <2>1. next + 1 \in Nat
    BY <1>2
  <2>2. [polls[p] EXCEPT !.next = next + 1] \in PollType
    BY <1>2, <2>1 DEF PollType
  <2>3. polls' \in [Polls -> PollType]
    BY <1>1, <1>2, <2>2 DEF TypeOK
  <2>4. out' \in Seq(Nat) /\ excused' \in SUBSET Nat
    <3>1. CASE out' = Append(out, next) /\ excused' = excused
      BY <1>1, <1>2, <3>1 DEF TypeOK
    <3>2. CASE out' = out /\ excused' = excused \cup {next}
      BY <1>1, <1>2, <3>2 DEF TypeOK
    <3> QED BY <1>3, <3>1, <3>2
  <2>5. faults' \in Nat
    BY <1>1, <1>3 DEF TypeOK, Fault
  <2> QED BY <1>1, <1>2, <2>3, <2>4, <2>5 DEF TypeOK
<1>7. MarkSkipsNothing'
  BY <1>1, <1>2, <1>4, GrowingKeepsSettled DEF MarkSkipsNothing
<1>8. SavedSkipsNothing'
  BY <1>2, <1>4, GrowingKeepsSaved DEF SavedSkipsNothing
<1>9. ASSUME NEW q \in Polls PROVE PollSkipsNothing(polls[q])'
  <2>1. CASE q = p
    <3>1. polls'[p].at = "publishing" /\ polls'[p].next = next + 1
      BY <1>1, <1>2 DEF TypeOK, PollType
    <3>2. ASSUME NEW t \in 1..next PROVE Settled(t)'
      <4>1. CASE t = next
        BY <1>5, <4>1
      <4>2. CASE t # next
        <5>1. t \in 1..(next - 1)
          BY <1>2, <4>2
        <5>2. Settled(t)
          BY <1>1, <1>2, <5>1 DEF PollSkipsNothing
        <5> QED BY <1>1, <1>2, <1>4, <5>2, GrowingKeepsSettled
      <4> QED BY <4>1, <4>2
    <3>3. (next + 1) - 1 = next
      BY <1>2
    <3> QED BY <2>1, <3>1, <3>2, <3>3 DEF PollSkipsNothing
  <2>2. CASE q # p
    <3>1. polls'[q] = polls[q]
      BY <1>1, <1>2, <2>2 DEF TypeOK
    <3> QED BY <1>2, <1>4, <3>1, GrowingKeepsPolls
  <2> QED BY <2>1, <2>2
<1> QED BY <1>6, <1>7, <1>8, <1>9 DEF FeedInvariant

\* Cutting the log leaves it full, so that everything counts as settled.
LEMMA CutLeavesFull ==
    ASSUME TypeOK
    PROVE  /\ Trimmed \in Seq(Nat)
           /\ Trimmed = out \/ (kind = "indexer" /\ Len(Trimmed) = MAX_EVENTS)
<1>1. CASE kind = "indexer" /\ Len(out) > MAX_EVENTS
  <2> DEFINE first == Len(out) - MAX_EVENTS + 1
  <2>1. /\ Len(out) \in Nat /\ MAX_EVENTS \in Nat
        /\ first \in 1..Len(out) + 1 /\ Len(out) - first + 1 = MAX_EVENTS
    BY <1>1, LimitAssumption DEF TypeOK
  <2>2. /\ SubSeq(out, first, Len(out)) \in Seq(Nat)
        /\ Len(SubSeq(out, first, Len(out))) = MAX_EVENTS
    <3>1. /\ out \in Seq(Nat) /\ first \in 1..Len(out) + 1 /\ Len(out) \in first - 1..Len(out)
      BY <1>1, <2>1 DEF TypeOK
    <3> HIDE DEF first
    <3> QED BY <2>1, <3>1, SubSeqProperties
  <2> QED BY <1>1, <2>2 DEF Trimmed
<1>2. CASE ~(kind = "indexer" /\ Len(out) > MAX_EVENTS)
  BY <1>2 DEF Trimmed, TypeOK
<1> QED BY <1>1, <1>2

\* The batch is out: the mark moves to its newest signature, or, in the
\* indexer, the log is cut and full.
LEMMA FinishStep ==
    ASSUME FeedInvariant, NEW p \in Polls, Finish(p)
    PROVE  FeedInvariant'
<1> DEFINE new == [mark |-> mark', out |-> <<>>]
<1>1. TypeOK /\ MarkSkipsNothing /\ PollSkipsNothing(polls[p])
  BY DEF FeedInvariant
<1>2. /\ polls[p].at = "publishing" /\ polls[p].next > polls[p].newest
      /\ polls[p] \in PollType /\ mark' = polls[p].newest /\ out' = Trimmed
      /\ polls' = [polls EXCEPT ![p] = Idle] /\ Save(new)
      /\ UNCHANGED <<kind, height, file, excused, overlaps, faults>>
      /\ Idle \in PollType
  BY <1>1 DEF Finish, MarkAfterBatch, TypeOK, PollType, Idle
<1>3. /\ Trimmed \in Seq(Nat)
      /\ out' = out \/ (kind' = "indexer" /\ Len(out') = MAX_EVENTS)
  BY <1>1, <1>2, CutLeavesFull
<1>4. /\ kind # "indexer" => writes' = writes \cup {new}
      /\ kind = "indexer" => writes' = writes
      /\ timer' \in {timer, TRUE}
  BY <1>1, <1>2, SaveAdds DEF TypeOK
<1>5. \A t \in 1..mark' : Settled(t)
  <2>1. mark' \in Nat /\ polls[p].next \in Nat /\ mark' < polls[p].next
    BY <1>2 DEF PollType
  <2>2. \A t \in 1..mark' : t \in 1..(polls[p].next - 1)
    BY <2>1
  <2> QED BY <1>1, <1>2, <2>2 DEF PollSkipsNothing
<1>6. ASSUME NEW t, Settled(t) PROVE Settled(t)'
  <2>1. CASE out' = out
    BY <1>2, <1>6, <2>1 DEF Settled, SettledIn
  <2>2. CASE kind' = "indexer" /\ Len(out') = MAX_EVENTS
    BY <2>2, LimitAssumption DEF Settled, SettledIn
  <2> QED BY <1>3, <2>1, <2>2
<1>7. MarkSkipsNothing'
  BY <1>5, <1>6 DEF MarkSkipsNothing
<1>8. SavedSkipsNothing'
  <2> SUFFICES ASSUME NEW s \in writes' \cup {file'}, NEW t \in 1..s.mark
               PROVE  SettledIn(t, IF kind = "indexer" THEN s.out ELSE out)'
    BY DEF SavedSkipsNothing
  <2>1. s \in writes \cup {file} \/ (kind # "indexer" /\ s = new)
    BY <1>2, <1>4
  <2>2. CASE s \in writes \cup {file}
    <3>1. SettledIn(t, IF kind = "indexer" THEN s.out ELSE out)
      BY <2>2 DEF FeedInvariant, SavedSkipsNothing
    <3>2. CASE kind = "indexer"
      BY <1>2, <3>1, <3>2 DEF SettledIn
    <3>3. CASE kind # "indexer"
      <4>1. Settled(t)'
        BY <1>6, <3>1, <3>3 DEF Settled
      <4> QED BY <1>2, <3>3, <4>1 DEF Settled
    <3> QED BY <3>2, <3>3
  <2>3. CASE kind # "indexer" /\ s = new
    <3>1. t \in 1..mark'
      BY <2>3
    <3>2. Settled(t)'
      BY <1>5, <1>6, <3>1
    <3> QED BY <1>2, <2>3, <3>2 DEF Settled
  <2> QED BY <2>1, <2>2, <2>3
<1>9. ASSUME NEW q \in Polls PROVE PollSkipsNothing(polls[q])'
  <2>1. polls'[q] \in {polls[q], Idle}
    BY <1>1, <1>2 DEF TypeOK
  <2>2. CASE polls'[q] = Idle
    BY <2>2 DEF PollSkipsNothing, Idle
  <2>3. CASE polls'[q] = polls[q]
    <3>1. PollSkipsNothing(polls[q])
      BY DEF FeedInvariant
    <3> QED BY <1>6, <2>3, <3>1 DEF PollSkipsNothing
  <2> QED BY <2>1, <2>2, <2>3
<1>10. TypeOK'
  <2>1. mark' \in Nat
    BY <1>2 DEF PollType
  <2>2. new \in StateType
    BY <2>1 DEF StateType
  <2>3. writes' \in SUBSET StateType /\ timer' \in BOOLEAN
    BY <1>1, <1>4, <2>2 DEF TypeOK
  <2>4. polls' \in [Polls -> PollType]
    BY <1>1, <1>2 DEF TypeOK
  <2>5. out' \in Seq(Nat)
    BY <1>2, <1>3
  <2> HIDE DEF new
  <2> QED BY <1>1, <1>2, <2>1, <2>3, <2>4, <2>5 DEF TypeOK
<1> QED BY <1>7, <1>8, <1>9, <1>10 DEF FeedInvariant

\* Every step keeps the invariant.
LEMMA NextFeed == FeedInvariant /\ [Next]_vars => FeedInvariant'
<1> SUFFICES ASSUME FeedInvariant, [Next]_vars PROVE FeedInvariant'
  OBVIOUS
<1>1. CASE \/ NewTx \/ TimerFires \/ WriteDone \/ WriteFails \/ UNCHANGED vars
           \/ \E p \in Polls : Ask(p) \/ PollFails(p)
  BY <1>1, QuietSteps
<1>2. CASE \E p \in Polls : Answer(p)
  BY <1>2, AnswerStep
<1>3. CASE \E p \in Polls : Publish(p)
  BY <1>3, PublishStep
<1>4. CASE \E p \in Polls : Finish(p)
  BY <1>4, FinishStep
<1>5. CASE Restart
  BY <1>5, RestartStep
<1> QED BY <1>1, <1>2, <1>3, <1>4, <1>5 DEF Next

\* What is saved and what every poll covers is settled, with the mark, in
\* every reachable state of the announcer and of the indexer.
THEOREM FeedSafety == Spec => []FeedInvariant
BY InitFeed, NextFeed, PTL DEF Spec

\* Neither errors, nor polls that overlap, nor restarts from an older or torn
\* file let the mark (lastSig) pass an event that is not out.
THEOREM NothingSkipped == Spec => []MarkSkipsNothing
<1>1. FeedInvariant => MarkSkipsNothing
  BY DEF FeedInvariant
<1> QED BY <1>1, FeedSafety, PTL

-----------------------------------------------------------------------------
(* Repetitions.                                                            *)

Times(t, log) == Cardinality({i \in DOMAIN log : log[i] = t})

\* A poll that may publish t, or move the mark back before it.
MayRepeat(poll, t) ==
    \/ poll.at = "asked" /\ poll.since < t
    \/ poll.at = "publishing" /\ (poll.next <= t \/ poll.newest < t)

\* A poll that is past t and, if nothing fails, moves the mark past it.
Carries(poll, t) == poll.at = "publishing" /\ poll.next > t /\ poll.newest >= t

Repeaters(t) == {p \in Polls : MayRepeat(polls[p], t)}

\* How often t may still come out without another error or overlap: each poll
\* that may repeat it does so once, and when there is none, the next poll
\* does if the mark is, and stays, before t.
ToCome(t) ==
    IF Repeaters(t) = {} /\ mark < t /\ ~(\E p \in Polls : Carries(polls[p], t))
    THEN 1 ELSE Cardinality(Repeaters(t))

\* The log of each saved state counts too, since a restart goes back to it.
RepeatsCounted ==
    /\ \A t \in Nat \ {0} : TimesOut(t) + ToCome(t) <= 1 + faults + overlaps
    /\ \A t \in Nat \ {0}, s \in writes \cup {file} : Times(t, s.out) <= 1 + faults + overlaps

LEMMA TimesIsNat ==
    ASSUME NEW log \in Seq(Nat), NEW t
    PROVE  /\ IsFiniteSet({i \in DOMAIN log : log[i] = t})
           /\ Times(t, log) \in Nat
  <1>1. DOMAIN log = 1..Len(log) /\ Len(log) \in Nat
    OBVIOUS
  <1>2. IsFiniteSet(1..Len(log))
    BY <1>1, FS_Interval
  <1>3. {i \in DOMAIN log : log[i] = t} \in SUBSET (1..Len(log))
    BY <1>1
  <1> QED
    BY <1>2, <1>3, FS_Subset, FS_CardinalityType DEF Times

LEMMA TimesOfEmpty == \A t : Times(t, <<>>) = 0
  <1> SUFFICES ASSUME NEW t
               PROVE  Times(t, <<>>) = 0
    OBVIOUS
  <1>1. {i \in DOMAIN <<>> : <<>>[i] = t} = {}
    OBVIOUS
  <1> QED
    BY <1>1, FS_EmptySet DEF Times

LEMMA TimesOfAppend ==
    ASSUME NEW log \in Seq(Nat), NEW e \in Nat, NEW t
    PROVE  Times(t, Append(log, e)) = Times(t, log) + (IF e = t THEN 1 ELSE 0)
  <1> DEFINE S == {i \in DOMAIN log : log[i] = t}
             n == Len(log) + 1
  <1>1. n \in Nat /\ n \notin DOMAIN log /\ DOMAIN Append(log, e) = DOMAIN log \cup {n}
    OBVIOUS
  <1>2. Append(log, e)[n] = e /\ \A i \in DOMAIN log : Append(log, e)[i] = log[i]
    OBVIOUS
  <1>3. {i \in DOMAIN Append(log, e) : Append(log, e)[i] = t}
          = IF e = t THEN S \cup {n} ELSE S
    BY <1>1, <1>2
  <1>4. IsFiniteSet(S) /\ Cardinality(S) \in Nat /\ n \notin S
    BY <1>1, TimesIsNat DEF Times
  <1>5. Cardinality(S \cup {n}) = Cardinality(S) + 1
    BY <1>4, FS_AddElement
  <1>6. Times(t, log) = Cardinality(S)
    BY DEF Times
  <1>7. Times(t, Append(log, e)) = Cardinality(IF e = t THEN S \cup {n} ELSE S)
    BY <1>3 DEF Times
  <1> HIDE DEF S
  <1> QED
    BY <1>4, <1>5, <1>6, <1>7

\* The cut of the log takes occurrences away, if it changes anything.
LEMMA TimesAfterCut ==
    ASSUME TypeOK, NEW t
    PROVE  Times(t, Trimmed) \in Nat /\ Times(t, Trimmed) <= Times(t, out)
  <1>1. out \in Seq(Nat)
    BY DEF TypeOK
  <1>2. CASE kind = "indexer" /\ Len(out) > MAX_EVENTS
    <2> DEFINE first == Len(out) - MAX_EVENTS + 1
               S == {i \in DOMAIN Trimmed : Trimmed[i] = t}
               T == {i \in DOMAIN out : out[i] = t}
               f == [i \in S |-> i + first - 1]
    <2>1. Len(out) \in Nat /\ first \in 1..Len(out)
      BY <1>1, <1>2, LimitAssumption
    <2>2. first \in 1..Len(out) + 1 /\ Len(out) \in first - 1..Len(out)
      BY <2>1
    <2>3. Trimmed = SubSeq(out, first, Len(out))
      BY <1>2 DEF Trimmed
    <2>4. /\ Trimmed \in Seq(Nat)
          /\ Len(Trimmed) = Len(out) - first + 1
          /\ \A i \in 1..Len(out) - first + 1 : Trimmed[i] = out[first + i - 1]
      <3> HIDE DEF first
      <3> QED
        BY <1>1, <2>2, <2>3, SubSeqProperties
    <2>5. \A i \in S : i \in Nat /\ i + first - 1 \in T
      <3> HIDE DEF first
      <3> SUFFICES ASSUME NEW i \in S
                   PROVE  i \in Nat /\ i + first - 1 \in T
        OBVIOUS
      <3>1. i \in 1..Len(out) - first + 1
        BY <2>4
      <3>2. i + first - 1 = first + i - 1 /\ i + first - 1 \in 1..Len(out)
        BY <2>1, <3>1
      <3> QED
        BY <1>1, <2>4, <3>1, <3>2
    <2>6. f \in Injection(S, T)
      <3>1. f \in [S -> T]
        BY <2>5
      <3>2. ASSUME NEW i \in S, NEW j \in S, f[i] = f[j]
            PROVE  i = j
        <4> HIDE DEF first, S, T
        <4>1. f[i] = i + first - 1 /\ f[j] = j + first - 1
          OBVIOUS
        <4> QED
          BY <2>1, <2>5, <3>2, <4>1
      <3> HIDE DEF f, S, T
      <3> QED
        BY <3>1, <3>2 DEF Injection, IsInjective
    <2>7. IsFiniteSet(T)
      BY <1>1, TimesIsNat
    <2> HIDE DEF f, S, T
    <2>8. Cardinality(S) <= Cardinality(T)
      BY <2>6, <2>7, FS_Injection
    <2> QED
      BY <2>4, <2>8, TimesIsNat DEF Times, S, T
  <1>3. CASE ~(kind = "indexer" /\ Len(out) > MAX_EVENTS)
    <2>1. Trimmed = out
      BY <1>3 DEF Trimmed
    <2>2. Times(t, out) \in Nat
      BY <1>1, TimesIsNat
    <2> QED
      BY <2>1, <2>2
  <1> QED
    BY <1>2, <1>3

LEMMA RepeatersFinite ==
    ASSUME NEW t
    PROVE  IsFiniteSet(Repeaters(t)) /\ Cardinality(Repeaters(t)) \in Nat
  <1>1. Repeaters(t) \in SUBSET Polls
    BY DEF Repeaters
  <1> QED
    BY <1>1, BoundAssumption, FS_Subset, FS_CardinalityType

\* How the count of repeaters moves when one poll does.
LEMMA OnePollMoves ==
    ASSUME NEW p \in Polls, NEW t, \A q \in Polls \ {p} : polls'[q] = polls[q]
    PROVE  LET n == Cardinality(Repeaters(t))
           IN  /\ n \in Nat /\ (n = 0 <=> Repeaters(t) = {})
               /\ Cardinality(Repeaters(t)') \in Nat
               /\ Cardinality(Repeaters(t)') = 0 <=> Repeaters(t)' = {}
               /\ MayRepeat(polls[p], t) => n >= 1
               /\ (MayRepeat(polls[p], t) <=> MayRepeat(polls'[p], t))
                     => Cardinality(Repeaters(t)') = n
               /\ MayRepeat(polls[p], t) /\ ~MayRepeat(polls'[p], t)
                     => Cardinality(Repeaters(t)') = n - 1
               /\ ~MayRepeat(polls[p], t) /\ MayRepeat(polls'[p], t)
                     => Cardinality(Repeaters(t)') = n + 1
  <1> DEFINE S == Repeaters(t)
             T == {q \in Polls : MayRepeat(polls'[q], t)}
  <1>1. Repeaters(t)' = T
    BY DEF Repeaters, MayRepeat
  <1>2. IsFiniteSet(S) /\ Cardinality(S) \in Nat
    BY RepeatersFinite
  <1>3. /\ \A q \in Polls \ {p} : q \in S <=> q \in T
        /\ p \in S <=> MayRepeat(polls[p], t)
        /\ p \in T <=> MayRepeat(polls'[p], t)
        /\ S \subseteq Polls /\ T \subseteq Polls
    BY DEF Repeaters
  <1> HIDE DEF S, T
  <1>4. CASE p \in S <=> p \in T
    <2>1. S = T
      BY <1>3, <1>4
    <2>2. (Cardinality(S) = 0 <=> S = {}) /\ (p \in S => Cardinality(S) >= 1)
      BY <1>2, FS_EmptySet
    <2> QED
      BY <1>1, <1>2, <1>3, <1>4, <2>1, <2>2 DEF S
  <1>5. CASE p \in S /\ p \notin T
    <2>1. T = S \ {p}
      BY <1>3, <1>5
    <2>2. IsFiniteSet(T) /\ Cardinality(T) = Cardinality(S) - 1
      BY <1>2, <1>5, <2>1, FS_RemoveElement
    <2>3. Cardinality(T) \in Nat
      BY <2>2, FS_CardinalityType
    <2>4. (Cardinality(S) = 0 <=> S = {}) /\ (Cardinality(T) = 0 <=> T = {})
      BY <1>2, <2>2, FS_EmptySet
    <2> QED
      BY <1>1, <1>2, <1>3, <1>5, <2>2, <2>3, <2>4 DEF S
  <1>6. CASE p \notin S /\ p \in T
    <2>1. T = S \cup {p}
      BY <1>3, <1>6
    <2>2. IsFiniteSet(T) /\ Cardinality(T) = Cardinality(S) + 1
      BY <1>2, <1>6, <2>1, FS_AddElement
    <2>3. (Cardinality(S) = 0 <=> S = {}) /\ T # {}
      BY <1>2, <1>6, FS_EmptySet
    <2> QED
      BY <1>1, <1>2, <1>3, <1>6, <2>2, <2>3 DEF S
  <1> QED
    BY <1>4, <1>5, <1>6

Carried(t) == \E p \in Polls : Carries(polls[p], t)

LEMMA OneCarrierMoves ==
    ASSUME NEW p \in Polls, NEW t, \A q \in Polls \ {p} : polls'[q] = polls[q]
    PROVE  /\ Carries(polls'[p], t) => Carried(t)'
           /\ Carried(t) /\ ~Carries(polls[p], t) => Carried(t)'
  BY DEF Carried, Carries

\* What a step of one poll does to what is still to come: nothing, if the mark
\* stays and the poll carries t on; else the poll's own share.
LEMMA ShareOfOnePoll ==
    ASSUME NEW p \in Polls, NEW t, \A q \in Polls \ {p} : polls'[q] = polls[q]
    PROVE  /\ ToCome(t) \in Nat /\ ToCome(t)' \in Nat
           /\ /\ MayRepeat(polls'[p], t) => MayRepeat(polls[p], t)
              /\ mark' = mark
              /\ Carries(polls[p], t) => Carries(polls'[p], t)
              => ToCome(t)' <= ToCome(t)
           /\ /\ MayRepeat(polls'[p], t) => MayRepeat(polls[p], t)
              /\ MayRepeat(polls[p], t) \/ ~(mark' < t) 
              => ToCome(t)' <= ToCome(t)
           /\ /\ MayRepeat(polls[p], t) /\ ~MayRepeat(polls'[p], t)
              /\ Carries(polls'[p], t)
              => ToCome(t)' = ToCome(t) - 1
           /\ ~MayRepeat(polls'[p], t) => ToCome(t)' <= ToCome(t) + 1
           /\ /\ MayRepeat(polls'[p], t) /\ ~MayRepeat(polls[p], t)
              => ToCome(t)' <= ToCome(t) + 1
  <1> DEFINE n == Cardinality(Repeaters(t))
             m == Cardinality(Repeaters(t)')
  <1>1. /\ n \in Nat /\ m \in Nat
        /\ n = 0 <=> Repeaters(t) = {}
        /\ m = 0 <=> Repeaters(t)' = {}
        /\ MayRepeat(polls[p], t) => n >= 1
        /\ (MayRepeat(polls[p], t) <=> MayRepeat(polls'[p], t)) => m = n
        /\ MayRepeat(polls[p], t) /\ ~MayRepeat(polls'[p], t) => m = n - 1
        /\ ~MayRepeat(polls[p], t) /\ MayRepeat(polls'[p], t) => m = n + 1
    BY OnePollMoves
  <1>2. ToCome(t) = IF n = 0 /\ mark < t /\ ~Carried(t) THEN 1 ELSE n
    BY <1>1 DEF ToCome, Carried
  <1>3. ToCome(t)' = IF m = 0 /\ mark' < t /\ ~Carried(t)' THEN 1 ELSE m
    BY <1>1 DEF ToCome, Carried
  <1>4. /\ Carries(polls'[p], t) => Carried(t)'
        /\ Carried(t) /\ ~Carries(polls[p], t) => Carried(t)'
    BY OneCarrierMoves
  <1> HIDE DEF n, m
  <1> QED
    BY <1>1, <1>2, <1>3, <1>4

\* Steps of no poll that leave mark and log.
LEMMA SameToCome ==
    ASSUME UNCHANGED <<mark, polls>>, NEW t
    PROVE  ToCome(t)' = ToCome(t)
  BY DEF ToCome, Repeaters, Carries, MayRepeat

LEMMA CountsAreNat ==
    ASSUME TypeOK
    PROVE  /\ \A t : TimesOut(t) \in Nat
           /\ \A s \in writes \cup {file} : \A t : Times(t, s.out) \in Nat
           /\ \A t : TimesOut(t) = Times(t, out)
           /\ faults \in Nat /\ overlaps \in Nat
  <1>1. out \in Seq(Nat) /\ \A s \in writes \cup {file} : s.out \in Seq(Nat)
    BY DEF TypeOK, StateType
  <1>2. \A t : TimesOut(t) = Times(t, out)
    BY DEF TimesOut, Times
  <1>3. \A t : Times(t, out) \in Nat
    BY <1>1, TimesIsNat
  <1>4. \A s \in writes \cup {file} : \A t : Times(t, s.out) \in Nat
    BY <1>1, TimesIsNat
  <1> QED
    BY <1>2, <1>3, <1>4 DEF TypeOK

\* A saved state is an old one, has an empty log, or holds the log of now.
LEMMA SavedKeepCounts ==
    ASSUME TypeOK, TypeOK', RepeatsCounted, faults' >= faults, overlaps' >= overlaps,
           \A s \in writes' \cup {file'} :
             s \in writes \cup {file} \/ s.out = <<>> \/ s.out = out
    PROVE  \A t \in Nat \ {0}, s \in writes' \cup {file'} :
             Times(t, s.out) <= 1 + faults' + overlaps'
  <1> SUFFICES ASSUME NEW t \in Nat \ {0}, NEW s \in writes' \cup {file'}
               PROVE  Times(t, s.out) <= 1 + faults' + overlaps'
    OBVIOUS
  <1>1. faults \in Nat /\ overlaps \in Nat /\ faults' \in Nat /\ overlaps' \in Nat
    BY DEF TypeOK
  <1>2. CASE s \in writes \cup {file}
    <2>1. Times(t, s.out) <= 1 + faults + overlaps /\ Times(t, s.out) \in Nat
      BY <1>2, CountsAreNat DEF RepeatsCounted
    <2> QED
      BY <1>1, <2>1
  <1>3. CASE s.out = <<>>
    BY <1>1, <1>3, TimesOfEmpty
  <1>4. CASE s.out = out
    <2>1. /\ TimesOut(t) + ToCome(t) <= 1 + faults + overlaps
          /\ TimesOut(t) \in Nat /\ TimesOut(t) = Times(t, out)
      BY CountsAreNat DEF RepeatsCounted
    <2>2. ToCome(t) \in Nat
      BY RepeatersFinite DEF ToCome
    <2> QED
      BY <1>1, <1>4, <2>1, <2>2
  <1> QED
    BY <1>2, <1>3, <1>4

LEMMA QuietCounts ==
    ASSUME TypeOK, TypeOK', RepeatsCounted,
           NewTx \/ TimerFires \/ WriteDone \/ WriteFails \/ UNCHANGED vars
    PROVE  RepeatsCounted'
  <1>1. UNCHANGED <<mark, polls, out, overlaps>>
    BY DEF NewTx, TimerFires, WriteDone, WriteFails, vars
  <1>2. faults \in Nat /\ overlaps \in Nat /\ faults' \in Nat /\ faults' >= faults
    BY DEF TypeOK, NewTx, TimerFires, WriteDone, WriteFails, vars, Fault
  <1>3. \A s \in writes' \cup {file'} :
          s \in writes \cup {file} \/ s.out = <<>> \/ s.out = out
    BY DEF NewTx, TimerFires, WriteDone, WriteFails, vars, State, NoState
  <1>4. ASSUME NEW t \in Nat \ {0}
        PROVE  TimesOut(t)' + ToCome(t)' <= 1 + faults' + overlaps'
    <2>1. /\ TimesOut(t) + ToCome(t) <= 1 + faults + overlaps
          /\ TimesOut(t) \in Nat
      BY CountsAreNat DEF RepeatsCounted
    <2>2. TimesOut(t)' = TimesOut(t)
      BY <1>1 DEF TimesOut
    <2>3. ToCome(t)' = ToCome(t) /\ ToCome(t) \in Nat
      BY <1>1, SameToCome, RepeatersFinite DEF ToCome
    <2> QED
      BY <1>1, <1>2, <2>1, <2>2, <2>3
  <1>5. \A t \in Nat \ {0}, s \in writes' \cup {file'} :
          Times(t, s.out) <= 1 + faults' + overlaps'
    BY <1>1, <1>2, <1>3, SavedKeepCounts
  <1> QED
    BY <1>4, <1>5 DEF RepeatsCounted, Times

\* A poll that starts beside another one is an overlap; one that starts alone
\* is the next poll.
LEMMA AskCounts ==
    ASSUME TypeOK, TypeOK', RepeatsCounted, NEW p \in Polls, Ask(p)
    PROVE  RepeatsCounted'
  <1>1. /\ polls[p].at = "idle" /\ polls'[p].at = "asked" /\ polls'[p].since = mark
        /\ \A q \in Polls \ {p} : polls'[q] = polls[q]
        /\ UNCHANGED <<mark, out, writes, file, faults>>
    BY DEF Ask, TypeOK, Idle
  <1>2. faults \in Nat /\ overlaps \in Nat /\ overlaps' \in Nat /\ overlaps' >= overlaps
    BY DEF TypeOK, Ask
  <1>3. ASSUME NEW t \in Nat \ {0}
        PROVE  TimesOut(t)' + ToCome(t)' <= 1 + faults' + overlaps'
    <2>1. /\ TimesOut(t) + ToCome(t) <= 1 + faults + overlaps
          /\ TimesOut(t) \in Nat
      BY CountsAreNat DEF RepeatsCounted
    <2>2. TimesOut(t)' = TimesOut(t)
      BY <1>1 DEF TimesOut
    <2>3. /\ ~MayRepeat(polls[p], t) /\ ~Carries(polls[p], t)
          /\ MayRepeat(polls'[p], t) <=> mark < t
      BY <1>1 DEF MayRepeat, Carries
    <2>4. ToCome(t) \in Nat /\ ToCome(t)' \in Nat /\ ToCome(t)' <= ToCome(t) + 1
      BY <1>1, <2>3, ShareOfOnePoll
    <2>5. CASE overlaps' = overlaps + 1
      BY <1>1, <1>2, <2>1, <2>2, <2>4, <2>5
    <2>6. CASE ~(\E q \in Polls : polls[q].at # "idle") /\ overlaps' = overlaps
      <3>1. Repeaters(t) = {} /\ ~(\E q \in Polls : Carries(polls[q], t))
        BY <2>6 DEF Repeaters, MayRepeat, Carries
      <3>2. ToCome(t) = IF mark < t THEN 1 ELSE 0
        BY <3>1, FS_EmptySet DEF ToCome
      <3>3. /\ mark < t => Cardinality(Repeaters(t)') = Cardinality(Repeaters(t)) + 1
            /\ ~(mark < t) => Cardinality(Repeaters(t)') = Cardinality(Repeaters(t))
            /\ Cardinality(Repeaters(t)') = 0 <=> Repeaters(t)' = {}
        BY <1>1, <2>3, OnePollMoves
      <3>4. Cardinality(Repeaters(t)) = 0
        BY <3>1, FS_EmptySet
      <3>5. ToCome(t)' = IF mark < t THEN 1 ELSE 0
        BY <1>1, <3>3, <3>4 DEF ToCome
      <3> QED
        BY <1>1, <1>2, <2>1, <2>2, <2>6, <3>2, <3>5
    <2> QED
      BY <2>5, <2>6 DEF Ask
  <1>4. \A t \in Nat \ {0}, s \in writes' \cup {file'} :
          Times(t, s.out) <= 1 + faults' + overlaps'
    BY <1>1, <1>2, SavedKeepCounts
  <1> QED
    BY <1>3, <1>4 DEF RepeatsCounted, Times

\* What an answer settles, or leaves for the batch, the poll had to its share.
LEMMA AnswerCounts ==
    ASSUME TypeOK, TypeOK', RepeatsCounted, NEW p \in Polls, Answer(p)
    PROVE  RepeatsCounted'
  <1> DEFINE since == polls[p].since
  <1>1. /\ polls[p].at = "asked" /\ since \in Nat /\ height \in Nat /\ mark \in Nat
        /\ UNCHANGED <<out, file, faults, overlaps, height>>
        /\ faults \in Nat /\ overlaps \in Nat
    BY DEF Answer, TypeOK, PollType
  <1>2. \A q \in Polls \ {p} : polls'[q] = polls[q]
    BY DEF Answer, TypeOK
  <1>3. \/ polls'[p].at = "idle" /\ mark' = mark
        \/ polls'[p].at = "idle" /\ mark' = height /\ height > since
        \/ /\ polls'[p].at = "publishing" /\ polls'[p].newest = height
           /\ polls'[p].next = Oldest(since) /\ height > since /\ mark' = mark
    BY DEF Answer, TypeOK, Idle
  <1>4. \A s \in writes' \cup {file'} :
          s \in writes \cup {file} \/ s.out = <<>> \/ s.out = out
    BY DEF Answer, Save
  <1>5. height > since => Oldest(since) \in Nat /\ Oldest(since) > since
    BY <1>1, OldestAfterSince
  <1>6. ASSUME NEW t \in Nat \ {0}
        PROVE  TimesOut(t)' + ToCome(t)' <= 1 + faults' + overlaps'
    <2>1. /\ TimesOut(t) + ToCome(t) <= 1 + faults + overlaps
          /\ TimesOut(t) \in Nat
      BY CountsAreNat DEF RepeatsCounted
    <2>2. TimesOut(t)' = TimesOut(t)
      BY <1>1 DEF TimesOut
    <2>3. /\ MayRepeat(polls[p], t) <=> since < t
          /\ ~Carries(polls[p], t)
      BY <1>1 DEF MayRepeat, Carries
    <2>4. ToCome(t) \in Nat /\ ToCome(t)' \in Nat
      BY <1>2, ShareOfOnePoll
    <2>5. ToCome(t)' <= ToCome(t)
      <3>1. CASE polls'[p].at = "idle" /\ mark' = mark
        <4>1. ~MayRepeat(polls'[p], t)
          BY <3>1 DEF MayRepeat
        <4> QED
          BY <1>2, <2>3, <3>1, <4>1, ShareOfOnePoll
      <3>2. CASE polls'[p].at = "idle" /\ mark' = height /\ height > since
        <4>1. ~MayRepeat(polls'[p], t)
          BY <3>2 DEF MayRepeat
        <4>2. MayRepeat(polls[p], t) \/ ~(mark' < t)
          BY <1>1, <2>3, <3>2
        <4> QED
          BY <1>2, <4>1, <4>2, ShareOfOnePoll
      <3>3. CASE /\ polls'[p].at = "publishing" /\ polls'[p].newest = height
                 /\ polls'[p].next = Oldest(since) /\ height > since /\ mark' = mark
        <4>1. MayRepeat(polls'[p], t) => MayRepeat(polls[p], t)
          BY <1>1, <1>5, <2>3, <3>3 DEF MayRepeat
        <4> QED
          BY <1>2, <2>3, <3>3, <4>1, ShareOfOnePoll
      <3> QED
        BY <1>3, <3>1, <3>2, <3>3
    <2> QED
      BY <1>1, <2>1, <2>2, <2>4, <2>5
  <1>7. \A t \in Nat \ {0}, s \in writes' \cup {file'} :
          Times(t, s.out) <= 1 + faults' + overlaps'
    BY <1>1, <1>4, SavedKeepCounts
  <1> QED
    BY <1>6, <1>7 DEF RepeatsCounted, Times

\* A poll that publishes t carries it from then on.
LEMMA PublishCounts ==
    ASSUME TypeOK, TypeOK', RepeatsCounted, NEW p \in Polls, Publish(p)
    PROVE  RepeatsCounted'
  <1> DEFINE next == polls[p].next
             newest == polls[p].newest
  <1>1. /\ polls[p] \in PollType /\ polls[p].at = "publishing" /\ next <= newest
        /\ next \in Nat /\ newest \in Nat /\ mark \in Nat
        /\ UNCHANGED <<mark, writes, file, overlaps>>
        /\ faults \in Nat /\ overlaps \in Nat /\ faults' \in Nat /\ faults' >= faults
    BY DEF Publish, TypeOK, PollType, Fault
  <1>2. /\ \A q \in Polls \ {p} : polls'[q] = polls[q]
        /\ polls'[p].at = "publishing" /\ polls'[p].next = next + 1 /\ polls'[p].newest = newest
    BY <1>1 DEF Publish, TypeOK, PollType
  <1>3. out' = Append(out, next) \/ out' = out
    BY DEF Publish
  <1>4. ASSUME NEW t \in Nat \ {0}
        PROVE  TimesOut(t)' + ToCome(t)' <= 1 + faults' + overlaps'
    <2>1. /\ TimesOut(t) + ToCome(t) <= 1 + faults + overlaps
          /\ TimesOut(t) \in Nat
      BY CountsAreNat DEF RepeatsCounted
    <2>2. TimesOut(t)' <= TimesOut(t) + (IF next = t THEN 1 ELSE 0) /\ TimesOut(t)' \in Nat
      <3>1. out \in Seq(Nat) /\ TimesOut(t) = Times(t, out) /\ TimesOut(t)' = Times(t, out')
        BY DEF TypeOK, TimesOut, Times
      <3>2. CASE out' = Append(out, next)
        BY <1>1, <2>1, <3>1, <3>2, TimesOfAppend
      <3>3. CASE out' = out
        BY <2>1, <3>1, <3>3
      <3> QED
        BY <1>3, <3>2, <3>3
    <2>3. ToCome(t) \in Nat /\ ToCome(t)' \in Nat
      BY <1>2, ShareOfOnePoll
    <2>4. CASE next = t
      <3>1. /\ MayRepeat(polls[p], t) /\ ~MayRepeat(polls'[p], t)
            /\ Carries(polls'[p], t)
        BY <1>1, <1>2, <2>4 DEF MayRepeat, Carries
      <3>2. ToCome(t)' = ToCome(t) - 1
        BY <1>2, <3>1, ShareOfOnePoll
      <3> QED
        BY <1>1, <2>1, <2>2, <2>3, <2>4, <3>2
    <2>5. CASE next # t
      <3>1. /\ MayRepeat(polls'[p], t) => MayRepeat(polls[p], t)
            /\ Carries(polls[p], t) => Carries(polls'[p], t)
        BY <1>1, <1>2, <2>5 DEF MayRepeat, Carries
      <3>2. ToCome(t)' <= ToCome(t)
        BY <1>1, <1>2, <3>1, ShareOfOnePoll
      <3> QED
        BY <1>1, <2>1, <2>2, <2>3, <2>5, <3>2
    <2> QED
      BY <2>4, <2>5
  <1>5. \A t \in Nat \ {0}, s \in writes' \cup {file'} :
          Times(t, s.out) <= 1 + faults' + overlaps'
    BY <1>1, SavedKeepCounts
  <1> QED
    BY <1>4, <1>5 DEF RepeatsCounted, Times

\* The mark moves past what the poll carries, and back before what it would
\* have repeated.
LEMMA FinishCounts ==
    ASSUME TypeOK, TypeOK', RepeatsCounted, NEW p \in Polls, Finish(p)
    PROVE  RepeatsCounted'
  <1> DEFINE next == polls[p].next
             newest == polls[p].newest
  <1>1. /\ polls[p] \in PollType /\ polls[p].at = "publishing" /\ next > newest
        /\ next \in Nat /\ newest \in Nat /\ mark' = newest /\ out' = Trimmed
        /\ UNCHANGED <<file, overlaps, faults>>
        /\ faults \in Nat /\ overlaps \in Nat
    BY DEF Finish, MarkAfterBatch, TypeOK, PollType
  <1>2. /\ \A q \in Polls \ {p} : polls'[q] = polls[q]
        /\ polls'[p].at = "idle"
    BY DEF Finish, TypeOK, Idle
  <1>3. \A s \in writes' \cup {file'} :
          s \in writes \cup {file} \/ s.out = <<>> \/ s.out = out
    BY DEF Finish, Save
  <1>4. ASSUME NEW t \in Nat \ {0}
        PROVE  TimesOut(t)' + ToCome(t)' <= 1 + faults' + overlaps'
    <2>1. /\ TimesOut(t) + ToCome(t) <= 1 + faults + overlaps
          /\ TimesOut(t) \in Nat /\ TimesOut(t) = Times(t, out)
      BY CountsAreNat DEF RepeatsCounted
    <2>2. TimesOut(t)' <= TimesOut(t) /\ TimesOut(t)' \in Nat
      <3>1. TimesOut(t)' = Times(t, Trimmed)
        BY <1>1 DEF TimesOut, Times
      <3> QED
        BY <2>1, <3>1, TimesAfterCut
    <2>3. ToCome(t) \in Nat /\ ToCome(t)' \in Nat
      BY <1>2, ShareOfOnePoll
    <2>4. ~MayRepeat(polls'[p], t) /\ (MayRepeat(polls[p], t) \/ ~(mark' < t))
      BY <1>1, <1>2 DEF MayRepeat
    <2>5. ToCome(t)' <= ToCome(t)
      BY <1>2, <2>4, ShareOfOnePoll
    <2> QED
      BY <1>1, <2>1, <2>2, <2>3, <2>5
  <1>5. \A t \in Nat \ {0}, s \in writes' \cup {file'} :
          Times(t, s.out) <= 1 + faults' + overlaps'
    BY <1>1, <1>3, SavedKeepCounts
  <1> QED
    BY <1>4, <1>5 DEF RepeatsCounted, Times

\* An error leaves to the next poll what the poll carried.
LEMMA PollFailsCounts ==
    ASSUME TypeOK, TypeOK', RepeatsCounted, NEW p \in Polls, PollFails(p)
    PROVE  RepeatsCounted'
  <1>1. /\ UNCHANGED <<mark, out, writes, file, overlaps>>
        /\ faults \in Nat /\ overlaps \in Nat /\ faults' = faults + 1
    BY DEF PollFails, MarkAfterError, TypeOK, Fault
  <1>2. /\ \A q \in Polls \ {p} : polls'[q] = polls[q]
        /\ polls'[p].at = "idle"
    BY DEF PollFails, TypeOK, Idle
  <1>3. ASSUME NEW t \in Nat \ {0}
        PROVE  TimesOut(t)' + ToCome(t)' <= 1 + faults' + overlaps'
    <2>1. /\ TimesOut(t) + ToCome(t) <= 1 + faults + overlaps
          /\ TimesOut(t) \in Nat
      BY CountsAreNat DEF RepeatsCounted
    <2>2. TimesOut(t)' = TimesOut(t)
      BY <1>1 DEF TimesOut
    <2>3. ~MayRepeat(polls'[p], t)
      BY <1>2 DEF MayRepeat
    <2>4. ToCome(t) \in Nat /\ ToCome(t)' \in Nat /\ ToCome(t)' <= ToCome(t) + 1
      BY <1>2, <2>3, ShareOfOnePoll
    <2> QED
      BY <1>1, <2>1, <2>2, <2>4
  <1>4. \A t \in Nat \ {0}, s \in writes' \cup {file'} :
          Times(t, s.out) <= 1 + faults' + overlaps'
    BY <1>1, SavedKeepCounts
  <1> QED
    BY <1>3, <1>4 DEF RepeatsCounted, Times

\* A restart forgets every poll: from here t comes out at most once more than
\* in the log the program starts with.
LEMMA RestartCounts ==
    ASSUME TypeOK, TypeOK', RepeatsCounted, Restart
    PROVE  RepeatsCounted'
  <1>1. /\ file' \in {file} \cup writes \cup {NoState} /\ writes' = {}
        /\ out' = IF kind = "indexer" THEN file'.out ELSE out
        /\ polls' = [p \in Polls |-> Idle]
        /\ UNCHANGED overlaps
        /\ faults \in Nat /\ overlaps \in Nat /\ faults' = faults + 1
    BY DEF Restart, TypeOK, Fault
  <1>2. \A t \in Nat \ {0}, s \in writes' \cup {file'} :
          Times(t, s.out) <= 1 + faults' + overlaps'
    <2>1. \A s \in writes' \cup {file'} :
            s \in writes \cup {file} \/ s.out = <<>> \/ s.out = out
      BY <1>1 DEF NoState
    <2> QED
      BY <1>1, <2>1, SavedKeepCounts
  <1>3. ASSUME NEW t \in Nat \ {0}
        PROVE  TimesOut(t)' + ToCome(t)' <= 1 + faults' + overlaps'
    <2>1. /\ TimesOut(t) + ToCome(t) <= 1 + faults + overlaps
          /\ TimesOut(t) \in Nat /\ TimesOut(t) = Times(t, out)
      BY CountsAreNat DEF RepeatsCounted
    <2>2. ToCome(t) \in Nat
      BY RepeatersFinite DEF ToCome
    <2>3. Repeaters(t)' = {}
      BY <1>1 DEF Repeaters, MayRepeat, Idle
    <2>4. ToCome(t)' \in {0, 1}
      BY <2>3, FS_EmptySet DEF ToCome
    <2>5. TimesOut(t)' = Times(t, out')
      BY DEF TimesOut, Times
    <2>6. CASE out' = out
      BY <1>1, <2>1, <2>2, <2>4, <2>5, <2>6
    <2>7. CASE out' = file'.out
      <3>1. Times(t, file'.out) <= 1 + faults + overlaps /\ Times(t, file'.out) \in Nat
        <4>1. CASE file' \in writes \cup {file}
          BY <4>1, CountsAreNat DEF RepeatsCounted
        <4>2. CASE file' = NoState
          BY <1>1, <4>2, TimesOfEmpty DEF NoState
        <4> QED
          BY <1>1, <4>1, <4>2
      <3> QED
        BY <1>1, <2>4, <2>5, <2>7, <3>1
    <2> QED
      BY <1>1, <2>6, <2>7
  <1> QED
    BY <1>2, <1>3 DEF RepeatsCounted, Times

LEMMA NothingOutYet == Init => RepeatsCounted
  <1> SUFFICES ASSUME Init
               PROVE  RepeatsCounted
    OBVIOUS
  <1>1. \A t : Repeaters(t) = {}
    BY DEF Init, Repeaters, MayRepeat, Idle
  <1>2. \A t : ToCome(t) \in {0, 1}
    BY <1>1, FS_EmptySet DEF ToCome
  <1>3. \A t : TimesOut(t) = 0
    <2>1. out = <<>> /\ \A t : TimesOut(t) = Times(t, out)
      BY DEF Init, TimesOut, Times
    <2> QED
      BY <2>1, TimesOfEmpty
  <1>4. \A s \in writes \cup {file} : \A t : Times(t, s.out) = 0
    BY TimesOfEmpty DEF Init, NoState
  <1>5. faults = 0 /\ overlaps = 0
    BY DEF Init
  <1>6. \A t \in Nat \ {0} : TimesOut(t) + ToCome(t) <= 1 + faults + overlaps
    BY <1>2, <1>3, <1>5
  <1>7. \A t \in Nat \ {0}, s \in writes \cup {file} : Times(t, s.out) <= 1 + faults + overlaps
    BY <1>4, <1>5
  <1> QED
    BY <1>6, <1>7 DEF RepeatsCounted

LEMMA NextCounts == FeedInvariant /\ RepeatsCounted /\ [Next]_vars => RepeatsCounted'
  <1> SUFFICES ASSUME FeedInvariant, RepeatsCounted, [Next]_vars
               PROVE  RepeatsCounted'
    OBVIOUS
  <1>1. TypeOK /\ TypeOK'
    BY NextFeed DEF FeedInvariant
  <1>2. CASE NewTx \/ TimerFires \/ WriteDone \/ WriteFails \/ UNCHANGED vars
    BY <1>1, <1>2, QuietCounts
  <1>3. ASSUME NEW p \in Polls, Ask(p) \/ Answer(p) \/ Publish(p) \/ Finish(p) \/ PollFails(p)
        PROVE  RepeatsCounted'
    BY <1>1, <1>3, AskCounts, AnswerCounts, PublishCounts, FinishCounts, PollFailsCounts
  <1>4. CASE Restart
    BY <1>1, <1>4, RestartCounts
  <1> QED
    BY <1>2, <1>3, <1>4 DEF Next

\* Each event comes out once, and once more for each crash, error or overlap
\* of polls, for any number of them.
THEOREM FeedRepeatsForAReason == Spec => []RepeatsHaveAReason
  <1>1. FeedInvariant /\ RepeatsCounted => RepeatsHaveAReason
    <2> SUFFICES ASSUME FeedInvariant, RepeatsCounted, NEW t \in 1..height
                 PROVE  TimesOut(t) <= 1 + faults + overlaps
      BY DEF RepeatsHaveAReason
    <2>1. t \in Nat \ {0} /\ TypeOK
      BY DEF FeedInvariant, TypeOK
    <2>2. /\ TimesOut(t) + ToCome(t) <= 1 + faults + overlaps
          /\ TimesOut(t) \in Nat /\ faults \in Nat /\ overlaps \in Nat
      BY <2>1, CountsAreNat DEF RepeatsCounted
    <2>3. ToCome(t) \in Nat
      BY RepeatersFinite DEF ToCome
    <2> QED
      BY <2>2, <2>3
  <1>2. Init => FeedInvariant /\ RepeatsCounted
    BY InitFeed, NothingOutYet
  <1>3. FeedInvariant /\ RepeatsCounted /\ [Next]_vars
          => FeedInvariant' /\ RepeatsCounted'
    BY NextFeed, NextCounts
  <1> QED
    BY <1>1, <1>2, <1>3, PTL DEF Spec

-----------------------------------------------------------------------------
(* The monitor's checks.                                                   *)

RunType == [pc : {"idle", "asking", "compare", "listing"},
            status : {"online", "stopped", "unknown"}]
MintRequestType == [status : {"none", "open", "closed"}, at : Nat]

MonitorTyped ==
    /\ MonitorTypeOK
    /\ checkRuns \in [Runs -> RunType]
    /\ mintRequests \in [MintRequests -> MintRequestType]

\* q cannot be announced again: it is remembered, or its time is over.
Spent(q) ==
    \/ q \in alertedRequests
    \/ mintRequests[q].status # "none" /\ Elapsed(q) >= MONITOR_TIMEOUT

\* The second last part says that the looks come often enough; the last one
\* that the first look within the window has announced the request.
MonitorInv ==
    /\ MonitorTyped
    /\ \A q \in MintRequests :
         /\ mintRequests[q].at <= monTime
         /\ announced[q] <= monFaults + (IF Spent(q) THEN 1 ELSE 0)
         /\ q \in alertedRequests => announced[q] >= 1
    /\ monTime - lastLook <= LOOK_GAP
    /\ \A q \in MintRequests :
         /\ monFaults = 0 /\ mintRequests[q].status = "open"
         /\ lastLook - mintRequests[q].at > MONITOR_TIMEOUT - ALERT_WINDOW
         => announced[q] >= 1

LEMMA MonitorStarts == MonitorInit => MonitorInv
  <1> SUFFICES ASSUME MonitorInit
               PROVE  MonitorInv
    OBVIOUS
  <1>1. /\ MONITOR_TIMEOUT \in Nat /\ ALERT_WINDOW \in Nat /\ LOOK_GAP \in Nat
        /\ ALERT_WINDOW < MONITOR_TIMEOUT /\ MaxMonTime \in Nat /\ MaxMonFaults \in Nat
    BY MonitorAssumption
  <1>2. IdleRun \in RunType /\ NoMintRequest \in MintRequestType
    BY DEF IdleRun, RunType, NoMintRequest, MintRequestType
  <1>3. MonitorTyped
    <2>1. checkRuns \in [Runs -> RunType] /\ mintRequests \in [MintRequests -> MintRequestType]
      BY <1>2 DEF MonitorInit
    <2>2. \A r \in Runs : checkRuns[r].pc = "idle"
      BY DEF MonitorInit, IdleRun
    <2>3. /\ monTime \in 0..MaxMonTime /\ monFaults \in 0..MaxMonFaults /\ lastLook \in 0..monTime
          /\ announced \in [MintRequests -> Nat]
      BY <1>1 DEF MonitorInit
    <2> QED
      BY <2>1, <2>2, <2>3 DEF MonitorTyped, MonitorTypeOK, MonitorInit
  <1> QED
    BY <1>1, <1>3 DEF MonitorInv, MonitorInit, NoMintRequest

\* What of the state the invariant's parts about requests are about.
LEMMA MonitorFrame ==
    ASSUME MonitorInv, MonitorTyped',
           UNCHANGED <<monTime, mintRequests, alertedRequests, announced, lastLook, monFaults>>
    PROVE  MonitorInv'
  BY DEF MonitorInv, Spent, Elapsed

LEMMA RunMoves ==
    ASSUME MonitorInv, NEW r \in Runs,
           StartRun(r) \/ ReadStatus(r) \/ CompareStatus(r)
    PROVE  MonitorInv'
  <1>1. checkRuns \in [Runs -> RunType] /\ MonitorTypeOK
    BY DEF MonitorInv, MonitorTyped
  <1>2. /\ checkRuns' \in [Runs -> RunType]
        /\ lastOracleStatus' \in {"online", "stopped", "unknown"}
        /\ heartbeatAlerted' \in BOOLEAN /\ told' \in {"nothing", "down", "up"}
        /\ UNCHANGED <<monTime, oracleState, heartbeatFile, mintRequests, alertedRequests, announced,
                       lastLook, monFaults>>
    <2>1. CASE StartRun(r)
      <3>1. checkRuns' \in [Runs -> RunType]
        BY <1>1, <2>1 DEF StartRun, RunType
      <3> QED
        BY <1>1, <2>1, <3>1 DEF StartRun, MonitorTypeOK
    <2>2. CASE ReadStatus(r)
      <3>1. Pm2Status \in {"online", "stopped"}
        BY DEF Pm2Status
      <3>2. checkRuns' \in [Runs -> RunType]
        BY <1>1, <2>2, <3>1 DEF ReadStatus, RunType
      <3> QED
        BY <1>1, <2>2, <3>2 DEF ReadStatus, MonitorTypeOK
    <2>3. CASE CompareStatus(r)
      <3>1. checkRuns' \in [Runs -> RunType] /\ checkRuns[r].status \in {"online", "stopped", "unknown"}
        BY <1>1, <2>3 DEF CompareStatus, RunType
      <3>2. told' \in {"nothing", "down", "up"}
        BY <1>1, <2>3 DEF CompareStatus, MonitorTypeOK
      <3>3. AlertedAfter \in BOOLEAN
        BY <1>1 DEF AlertedAfter, MonitorTypeOK
      <3> QED
        BY <2>3, <3>1, <3>2, <3>3 DEF CompareStatus, StatusAfter
    <2> QED
      BY <2>1, <2>2, <2>3
  <1>3. \A s \in Runs : checkRuns'[s].pc \in {"idle", "asking", "compare", "listing"}
    BY <1>2 DEF RunType
  <1>4. MonitorTyped'
    BY <1>1, <1>2, <1>3 DEF MonitorTyped, MonitorTypeOK, MonitorInv
  <1> QED
    BY <1>2, <1>4, MonitorFrame

\* A look within the window announces what was not announced; one after it
\* finds that the look before it, at most LOOK_GAP earlier, was within it.
LEMMA LookAnnounces ==
    ASSUME MonitorInv, NEW r \in Runs, LookAtRequests(r)
    PROVE  MonitorInv'
  <1> DEFINE seen == {q \in MintRequests : mintRequests[q].status = "open"}
             news == {q \in seen : Expiring(q) /\ q \notin alertedRequests}
  <1>1. /\ MONITOR_TIMEOUT \in Nat /\ ALERT_WINDOW \in Nat /\ LOOK_GAP \in Nat
        /\ LOOK_GAP < ALERT_WINDOW /\ ALERT_WINDOW < MONITOR_TIMEOUT
        /\ MaxMonTime \in Nat /\ MaxMonFaults \in Nat
    BY MonitorAssumption
  <1>2. /\ MonitorTypeOK /\ checkRuns \in [Runs -> RunType]
        /\ mintRequests \in [MintRequests -> MintRequestType]
        /\ announced \in [MintRequests -> Nat]
        /\ monTime \in Nat /\ lastLook \in Nat /\ monFaults \in Nat /\ lastLook <= monTime
    BY <1>1 DEF MonitorInv, MonitorTyped, MonitorTypeOK
  <1>3. /\ announced' = [q \in MintRequests |->
                           IF q \in news THEN announced[q] + 1 ELSE announced[q]]
        /\ alertedRequests' = {q \in alertedRequests \cup news : ~(q \in seen /\ Forgettable(q))}
        /\ lastLook' = monTime
        /\ checkRuns' = [checkRuns EXCEPT ![r] = IdleRun]
        /\ UNCHANGED <<monTime, oracleState, heartbeatFile, mintRequests, lastOracleStatus,
                       heartbeatAlerted, told, monFaults>>
    BY DEF LookAtRequests
  <1> HIDE DEF seen, news
  <1>4. MonitorTyped'
    <2>1. checkRuns' \in [Runs -> RunType]
      BY <1>2, <1>3 DEF IdleRun, RunType
    <2>2. \A s \in Runs : checkRuns'[s].pc \in {"idle", "asking", "compare", "listing"}
      BY <2>1 DEF RunType
    <2>3. alertedRequests' \subseteq MintRequests
      BY <1>2, <1>3 DEF MonitorTypeOK, seen, news
    <2>4. announced' \in [MintRequests -> Nat]
      BY <1>2, <1>3
    <2> QED
      BY <1>2, <1>3, <2>1, <2>2, <2>3, <2>4 DEF MonitorTyped, MonitorTypeOK
  <1>5. ASSUME NEW q \in MintRequests
        PROVE  /\ mintRequests'[q].at <= monTime'
               /\ announced'[q] <= monFaults' + (IF Spent(q)' THEN 1 ELSE 0)
               /\ q \in alertedRequests' => announced'[q] >= 1
               /\ /\ monFaults' = 0 /\ mintRequests'[q].status = "open"
                  /\ lastLook' - mintRequests'[q].at > MONITOR_TIMEOUT - ALERT_WINDOW
                  => announced'[q] >= 1
    <2>1. /\ mintRequests[q].at \in Nat /\ announced[q] \in Nat
          /\ mintRequests[q].at <= monTime
          /\ announced[q] <= monFaults + (IF Spent(q) THEN 1 ELSE 0)
          /\ q \in alertedRequests => announced[q] >= 1
          /\ monTime - lastLook <= LOOK_GAP
          /\ /\ monFaults = 0 /\ mintRequests[q].status = "open"
             /\ lastLook - mintRequests[q].at > MONITOR_TIMEOUT - ALERT_WINDOW
             => announced[q] >= 1
      BY <1>2 DEF MonitorInv, MintRequestType
    <2>2. Elapsed(q) = monTime - mintRequests[q].at /\ Elapsed(q)' = Elapsed(q) /\ Elapsed(q) \in Nat
      BY <1>2, <1>3, <2>1 DEF Elapsed
    <2>3. q \in seen <=> mintRequests[q].status = "open"
      BY DEF seen
    <2>4. q \in news <=> q \in seen /\ Expiring(q) /\ q \notin alertedRequests
      BY DEF news, seen
    <2>5. Expiring(q) <=> Elapsed(q) < MONITOR_TIMEOUT /\ Elapsed(q) > MONITOR_TIMEOUT - ALERT_WINDOW
      BY <1>1, <2>2 DEF Expiring
    <2>6. Forgettable(q) => Elapsed(q) >= MONITOR_TIMEOUT
      BY <1>1, <2>2 DEF Forgettable
    <2>7. CASE q \in news
      <3>1. ~Spent(q) /\ announced'[q] = announced[q] + 1 /\ q \in alertedRequests'
        BY <1>1, <1>3, <2>2, <2>4, <2>5, <2>6, <2>7 DEF Spent
      <3>2. Spent(q)'
        BY <3>1 DEF Spent
      <3> QED
        BY <1>2, <1>3, <2>1, <3>1, <3>2
    <2>8. CASE q \notin news
      <3>1. announced'[q] = announced[q] /\ (q \in alertedRequests' => q \in alertedRequests)
        BY <1>3, <2>8
      <3>2. Spent(q) => Spent(q)'
        <4>1. CASE q \in alertedRequests
          BY <1>3, <2>2, <2>3, <2>6, <4>1 DEF Spent
        <4>2. CASE mintRequests[q].status # "none" /\ Elapsed(q) >= MONITOR_TIMEOUT
          BY <1>3, <2>2, <4>2 DEF Spent
        <4> QED
          BY <4>1, <4>2 DEF Spent
      <3>3. ASSUME monFaults = 0, mintRequests[q].status = "open",
                   monTime - mintRequests[q].at > MONITOR_TIMEOUT - ALERT_WINDOW
            PROVE  announced[q] >= 1
        <4>1. CASE q \in alertedRequests
          BY <2>1, <4>1
        <4>2. CASE q \notin alertedRequests
          <5>1. Elapsed(q) >= MONITOR_TIMEOUT
            BY <1>1, <2>2, <2>3, <2>4, <2>5, <2>8, <3>3, <4>2
          <5>2. lastLook - mintRequests[q].at > MONITOR_TIMEOUT - ALERT_WINDOW
            BY <1>1, <1>2, <2>1, <2>2, <5>1
          <5> QED
            BY <2>1, <3>3, <5>2
        <4> QED
          BY <4>1, <4>2
      <3>4. announced'[q] <= monFaults' + (IF Spent(q)' THEN 1 ELSE 0)
        BY <1>2, <1>3, <2>1, <3>1, <3>2
      <3> QED
        BY <1>2, <1>3, <2>1, <3>1, <3>3, <3>4
    <2> QED
      BY <2>7, <2>8
  <1>6. monTime' - lastLook' <= LOOK_GAP
    BY <1>1, <1>2, <1>3
  <1> QED
    BY <1>4, <1>5, <1>6 DEF MonitorInv

\* After a failed read or a restart one more alert may be sent.
LEMMA MonitorFaultsCount ==
    ASSUME MonitorInv, RestartMonitorProcess \/ \E r \in Runs : ListFails(r)
    PROVE  MonitorInv'
  <1>1. LOOK_GAP \in Nat /\ MaxMonTime \in Nat /\ MaxMonFaults \in Nat
    BY MonitorAssumption
  <1>2. /\ MonitorTypeOK /\ checkRuns \in [Runs -> RunType]
        /\ mintRequests \in [MintRequests -> MintRequestType]
        /\ announced \in [MintRequests -> Nat] /\ monTime \in Nat /\ lastLook \in 0..monTime
        /\ monFaults \in Nat
    BY <1>1 DEF MonitorInv, MonitorTyped, MonitorTypeOK
  <1>3. /\ monFaults' = monFaults + 1 /\ monFaults' \in 0..MaxMonFaults
        /\ lastLook' \in {lastLook, monTime}
        /\ alertedRequests' \in {alertedRequests, {}}
        /\ UNCHANGED <<monTime, oracleState, heartbeatFile, mintRequests, announced>>
    BY <1>1, <1>2 DEF RestartMonitorProcess, ListFails
  <1>4. MonitorTyped'
    <2>1. checkRuns' \in [Runs -> RunType]
      <3>1. IdleRun \in RunType
        BY DEF IdleRun, RunType
      <3> QED
        BY <1>2, <3>1 DEF RestartMonitorProcess, ListFails
    <2>2. \A s \in Runs : checkRuns'[s].pc \in {"idle", "asking", "compare", "listing"}
      BY <2>1 DEF RunType
    <2>3. /\ lastOracleStatus' \in {"online", "stopped", "unknown"}
          /\ heartbeatAlerted' \in BOOLEAN /\ told' \in {"nothing", "down", "up"}
      BY <1>2 DEF RestartMonitorProcess, ListFails, MonitorTypeOK
    <2>4. alertedRequests' \subseteq MintRequests /\ lastLook' \in 0..monTime'
      BY <1>2, <1>3 DEF MonitorTypeOK
    <2> QED
      BY <1>2, <1>3, <2>1, <2>2, <2>3, <2>4 DEF MonitorTyped, MonitorTypeOK
  <1>5. ASSUME NEW q \in MintRequests
        PROVE  /\ mintRequests'[q].at <= monTime'
               /\ announced'[q] <= monFaults' + (IF Spent(q)' THEN 1 ELSE 0)
               /\ q \in alertedRequests' => announced'[q] >= 1
    <2>1. /\ announced[q] \in Nat /\ mintRequests[q].at <= monTime
          /\ announced[q] <= monFaults + (IF Spent(q) THEN 1 ELSE 0)
          /\ q \in alertedRequests => announced[q] >= 1
      BY <1>2 DEF MonitorInv
    <2> QED
      BY <1>2, <1>3, <2>1
  <1>6. monTime' - lastLook' <= LOOK_GAP
    <2>1. monTime - lastLook <= LOOK_GAP /\ lastLook \in Nat
      BY <1>2 DEF MonitorInv
    <2>2. monTime' = monTime /\ monTime \in Nat /\ (lastLook' = lastLook \/ lastLook' = monTime)
      BY <1>2, <1>3
    <2> QED
      BY <1>1, <2>1, <2>2
  <1>7. monFaults' # 0
    BY <1>2, <1>3
  <1> QED
    BY <1>4, <1>5, <1>6, <1>7 DEF MonitorInv

LEMMA RequestsMove ==
    ASSUME MonitorInv, NEW q \in MintRequests, OpenRequest(q) \/ CloseRequest(q)
    PROVE  MonitorInv'
  <1>1. MONITOR_TIMEOUT \in Nat /\ ALERT_WINDOW \in Nat /\ ALERT_WINDOW < MONITOR_TIMEOUT
    BY MonitorAssumption
  <1>2. /\ MonitorTypeOK /\ checkRuns \in [Runs -> RunType]
        /\ mintRequests \in [MintRequests -> MintRequestType]
        /\ announced \in [MintRequests -> Nat] /\ monTime \in Nat /\ lastLook \in Nat
        /\ lastLook <= monTime /\ monFaults \in Nat
    BY DEF MonitorInv, MonitorTyped, MonitorTypeOK
  <1>3. UNCHANGED <<monTime, oracleState, heartbeatFile, lastOracleStatus, heartbeatAlerted, alertedRequests,
                    checkRuns, told, announced, lastLook, monFaults>>
    BY DEF OpenRequest, CloseRequest
  <1>4. mintRequests' \in [MintRequests -> MintRequestType]
    BY <1>2 DEF OpenRequest, CloseRequest, MintRequestType
  <1>5. MonitorTyped'
    BY <1>2, <1>3, <1>4 DEF MonitorTyped, MonitorTypeOK
  <1>6. ASSUME NEW z \in MintRequests
        PROVE  /\ mintRequests'[z].at <= monTime'
               /\ announced'[z] <= monFaults' + (IF Spent(z)' THEN 1 ELSE 0)
               /\ z \in alertedRequests' => announced'[z] >= 1
               /\ /\ monFaults' = 0 /\ mintRequests'[z].status = "open"
                  /\ lastLook' - mintRequests'[z].at > MONITOR_TIMEOUT - ALERT_WINDOW
                  => announced'[z] >= 1
    <2>1. /\ announced[z] \in Nat /\ mintRequests[z].at \in Nat /\ mintRequests[z].at <= monTime
          /\ announced[z] <= monFaults + (IF Spent(z) THEN 1 ELSE 0)
          /\ z \in alertedRequests => announced[z] >= 1
          /\ /\ monFaults = 0 /\ mintRequests[z].status = "open"
             /\ lastLook - mintRequests[z].at > MONITOR_TIMEOUT - ALERT_WINDOW
             => announced[z] >= 1
      BY <1>2 DEF MonitorInv, MintRequestType
    <2>2. \/ mintRequests'[z] = mintRequests[z]
          \/ /\ mintRequests[z].status = "none"
             /\ mintRequests'[z].status = "open" /\ mintRequests'[z].at = monTime
          \/ /\ mintRequests[z].status = "open"
             /\ mintRequests'[z].status = "closed" /\ mintRequests'[z].at = mintRequests[z].at
      BY <1>2 DEF OpenRequest, CloseRequest, MintRequestType
    <2>3. Spent(z) => Spent(z)'
      BY <1>3, <2>2 DEF Spent, Elapsed
    <2>4. announced'[z] <= monFaults' + (IF Spent(z)' THEN 1 ELSE 0)
      BY <1>2, <1>3, <2>1, <2>3
    <2>5. mintRequests'[z].at <= monTime'
      BY <1>2, <1>3, <2>1, <2>2
    <2>6. ASSUME monFaults = 0, mintRequests'[z].status = "open",
                 lastLook - mintRequests'[z].at > MONITOR_TIMEOUT - ALERT_WINDOW
          PROVE  announced[z] >= 1
      <3>1. CASE mintRequests'[z] = mintRequests[z]
        BY <2>1, <2>6, <3>1
      <3>2. CASE mintRequests'[z].at = monTime
        BY <1>1, <1>2, <2>6, <3>2
      <3> QED
        BY <2>2, <2>6, <3>1, <3>2
    <2> QED
      BY <1>3, <2>1, <2>4, <2>5, <2>6
  <1>7. monTime' - lastLook' <= LOOK_GAP
    BY <1>3 DEF MonitorInv
  <1> QED
    BY <1>5, <1>6, <1>7 DEF MonitorInv

LEMMA TimeGoesOn ==
    ASSUME MonitorInv, MonitorTick
    PROVE  MonitorInv'
  <1>1. /\ MONITOR_TIMEOUT \in Nat /\ LOOK_GAP \in Nat /\ MaxMonTime \in Nat
    BY MonitorAssumption
  <1>2. /\ MonitorTypeOK /\ checkRuns \in [Runs -> RunType]
        /\ mintRequests \in [MintRequests -> MintRequestType]
        /\ announced \in [MintRequests -> Nat] /\ monTime \in Nat /\ lastLook \in Nat
        /\ lastLook <= monTime /\ monFaults \in Nat
    BY DEF MonitorInv, MonitorTyped, MonitorTypeOK
  <1>3. /\ monTime' = monTime + 1 /\ monTime < MaxMonTime /\ monTime - lastLook < LOOK_GAP
        /\ UNCHANGED <<oracleState, heartbeatFile, mintRequests, lastOracleStatus, heartbeatAlerted,
                       alertedRequests, checkRuns, told, announced, lastLook, monFaults>>
    BY DEF MonitorTick
  <1>4. MonitorTyped'
    <2>1. monTime' \in 0..MaxMonTime /\ lastLook' \in 0..monTime'
      BY <1>1, <1>2, <1>3
    <2> QED
      BY <1>2, <1>3, <2>1 DEF MonitorTyped, MonitorTypeOK
  <1>5. ASSUME NEW q \in MintRequests
        PROVE  /\ mintRequests'[q].at <= monTime'
               /\ announced'[q] <= monFaults' + (IF Spent(q)' THEN 1 ELSE 0)
    <2>1. /\ announced[q] \in Nat /\ mintRequests[q].at \in Nat /\ mintRequests[q].at <= monTime
          /\ announced[q] <= monFaults + (IF Spent(q) THEN 1 ELSE 0)
      BY <1>2 DEF MonitorInv, MintRequestType
    <2>2. Spent(q) => Spent(q)'
      BY <1>1, <1>2, <1>3, <2>1 DEF Spent, Elapsed
    <2> QED
      BY <1>2, <1>3, <2>1, <2>2
  <1>6. monTime' - lastLook' <= LOOK_GAP
    BY <1>1, <1>2, <1>3
  <1> QED
    BY <1>3, <1>4, <1>5, <1>6 DEF MonitorInv

LEMMA MonitorSteps == MonitorInv /\ [MonitorNext]_monitorVars => MonitorInv'
  <1> SUFFICES ASSUME MonitorInv, [MonitorNext]_monitorVars
               PROVE  MonitorInv'
    OBVIOUS
  <1>1. ASSUME NEW r \in Runs, StartRun(r) \/ ReadStatus(r) \/ CompareStatus(r)
        PROVE  MonitorInv'
    BY <1>1, RunMoves
  <1>2. ASSUME NEW r \in Runs, LookAtRequests(r)
        PROVE  MonitorInv'
    BY <1>2, LookAnnounces
  <1>3. CASE RestartMonitorProcess \/ \E r \in Runs : ListFails(r)
    BY <1>3, MonitorFaultsCount
  <1>4. ASSUME NEW q \in MintRequests, OpenRequest(q) \/ CloseRequest(q)
        PROVE  MonitorInv'
    BY <1>4, RequestsMove
  <1>5. CASE MonitorTick
    BY <1>5, TimeGoesOn
  <1>6. CASE OracleChanges \/ Heartbeat \/ HeartbeatAges \/ UNCHANGED monitorVars
    <2>1. /\ oracleState' \in {"online", "stopped", "wedged"}
          /\ heartbeatFile' \in {"fresh", "stale", "unreadable"}
          /\ UNCHANGED <<monTime, mintRequests, lastOracleStatus, heartbeatAlerted,
                         alertedRequests, checkRuns, told, announced, lastLook, monFaults>>
      BY <1>6 DEF OracleChanges, Heartbeat, HeartbeatAges, WatchedOnly, monitorVars, MonitorInv,
                  MonitorTyped, MonitorTypeOK
    <2>2. MonitorTyped'
      BY <2>1 DEF MonitorInv, MonitorTyped, MonitorTypeOK
    <2> QED
      BY <2>1, <2>2, MonitorFrame
  <1> QED
    BY <1>1, <1>2, <1>3, <1>4, <1>5, <1>6 DEF MonitorNext

LEMMA MonitorInvIsEnough == MonitorInv => MonitorTypeOK /\ ExpiryIsAnnounced
  <1> SUFFICES ASSUME MonitorInv
               PROVE  MonitorTypeOK /\ ExpiryIsAnnounced
    OBVIOUS
  <1>1. /\ MONITOR_TIMEOUT \in Nat /\ ALERT_WINDOW \in Nat /\ LOOK_GAP \in Nat
        /\ LOOK_GAP < ALERT_WINDOW
    BY MonitorAssumption
  <1>2. /\ MonitorTypeOK /\ mintRequests \in [MintRequests -> MintRequestType]
        /\ announced \in [MintRequests -> Nat] /\ monTime \in Nat /\ lastLook \in Nat
        /\ monFaults \in Nat /\ monTime - lastLook <= LOOK_GAP
    BY DEF MonitorInv, MonitorTyped, MonitorTypeOK
  <1>3. ASSUME NEW q \in MintRequests
        PROVE  /\ announced[q] <= 1 + monFaults
               /\ /\ mintRequests[q].status = "open" /\ Elapsed(q) >= MONITOR_TIMEOUT
                  /\ monFaults = 0
                  => announced[q] = 1
    <2>1. /\ announced[q] \in Nat /\ mintRequests[q].at \in Nat
          /\ announced[q] <= monFaults + (IF Spent(q) THEN 1 ELSE 0)
          /\ /\ monFaults = 0 /\ mintRequests[q].status = "open"
             /\ lastLook - mintRequests[q].at > MONITOR_TIMEOUT - ALERT_WINDOW
             => announced[q] >= 1
      BY <1>2 DEF MonitorInv, MintRequestType
    <2>2. announced[q] <= 1 + monFaults
      BY <1>2, <2>1
    <2>3. Elapsed(q) >= MONITOR_TIMEOUT
            => lastLook - mintRequests[q].at > MONITOR_TIMEOUT - ALERT_WINDOW
      BY <1>1, <1>2, <2>1 DEF Elapsed
    <2> QED
      BY <2>1, <2>2, <2>3
  <1> QED
    BY <1>2, <1>3 DEF ExpiryIsAnnounced

\* A request is announced before it expires and is announced once, however
\* the runs of runChecks overlap (monitorPendingRequests), for any number of
\* runs and requests and any times with a look every LOOK_GAP.
THEOREM MonitorAnnounces == MonitorSpec => []ExpiryIsAnnounced
  <1>1. MonitorInv => ExpiryIsAnnounced
    BY MonitorInvIsEnough
  <1> QED
    BY <1>1, MonitorStarts, MonitorSteps, PTL DEF MonitorSpec

-----------------------------------------------------------------------------
(* The Telegram commands.                                                  *)

CmdPollType == [pc : {"idle", "asked", "batch", "handling"}, offset : Nat, next : Nat, last : Nat]

\* A poll asks for what comes after a mark, and a batch is part of the chat.
PollInChat(poll) ==
    /\ poll.pc = "asked" => poll.offset \in 1..(Len(Kind) + 1)
    /\ poll.pc \in {"batch", "handling"} => 1 <= poll.next /\ poll.next <= poll.last
    /\ poll.next <= Len(Kind) /\ poll.last <= Len(Kind)

CommandsTyped ==
    /\ sentUpdates \in 0..Len(Kind) /\ confirmed \in 0..Len(Kind) /\ lastUpdateId \in 0..Len(Kind)
    /\ cmdPolls \in [CmdPolls -> CmdPollType]
    /\ \A p \in CmdPolls : PollInChat(cmdPolls[p])
    /\ oracleProcess \in {"online", "stopped"}
    /\ taken \in [Updates -> Nat]
    /\ cmdRestarts \in 0..MaxCmdRestarts
    /\ cmdOverlaps \in 0..MaxCmdOverlaps

\* What a poll has behind it.
Passed(poll, u) ==
    \/ poll.pc = "asked" /\ u < poll.offset
    \/ poll.pc = "batch" /\ u < poll.next
    \/ poll.pc = "handling" /\ u <= poll.next

\* A mark, Telegram's or the monitor's, and a poll that gets there have every
\* message before them taken up.
TakenBeforeMarks ==
    /\ \A u \in Updates : u <= confirmed \/ u <= lastUpdateId => taken[u] >= 1
    /\ \A p \in CmdPolls, u \in Updates : Passed(cmdPolls[p], u) => taken[u] >= 1

\* A poll that may take u up, or move the mark back before it.
MayRetake(poll, u) ==
    \/ poll.pc = "asked" /\ poll.offset <= u
    \/ poll.pc = "batch" /\ poll.next <= u
    \/ poll.pc = "handling" /\ poll.next < u

Retakers(u) == {p \in CmdPolls : MayRetake(cmdPolls[p], u)}

\* How often u may still be taken up without another overlap or restart.
ToTake(u) ==
    IF Retakers(u) = {} /\ lastUpdateId < u THEN 1 ELSE Cardinality(Retakers(u))

RetakesCounted == \A u \in Updates : taken[u] + ToTake(u) <= 1 + cmdOverlaps + cmdRestarts

CommandsInv == CommandsTyped /\ TakenBeforeMarks /\ RetakesCounted

LEMMA ChatIsSequence ==
    /\ Updates = 1..Len(Kind) /\ Len(Kind) \in Nat
    /\ MaxCmdRestarts \in Nat /\ MaxCmdOverlaps \in Nat
  BY CommandsAssumption DEF Updates

LEMMA RetakersFinite ==
    ASSUME NEW u
    PROVE  IsFiniteSet(Retakers(u)) /\ Cardinality(Retakers(u)) \in Nat
  <1>1. Retakers(u) \in SUBSET CmdPolls /\ IsFiniteSet(CmdPolls)
    BY CommandsAssumption DEF Retakers
  <1> QED
    BY <1>1, FS_Subset, FS_CardinalityType

LEMMA NoRetakers ==
    ASSUME NEW u, Retakers(u) = {}
    PROVE  ToTake(u) = IF lastUpdateId < u THEN 1 ELSE 0
  BY FS_EmptySet DEF ToTake

\* What a step of one poll does to what is still to take.
LEMMA ShareOfOneCmdPoll ==
    ASSUME NEW p \in CmdPolls, NEW u, \A q \in CmdPolls \ {p} : cmdPolls'[q] = cmdPolls[q]
    PROVE  /\ ToTake(u) \in Nat /\ ToTake(u)' \in Nat
           /\ /\ MayRetake(cmdPolls'[p], u) => MayRetake(cmdPolls[p], u)
              /\ (lastUpdateId' < u => lastUpdateId < u) \/ MayRetake(cmdPolls[p], u)
              => ToTake(u)' <= ToTake(u)
           /\ /\ MayRetake(cmdPolls[p], u) /\ ~MayRetake(cmdPolls'[p], u)
              /\ ~(lastUpdateId' < u)
              => ToTake(u)' = ToTake(u) - 1
           /\ lastUpdateId' = lastUpdateId => ToTake(u)' <= ToTake(u) + 1
  <1> DEFINE S == Retakers(u)
             T == {q \in CmdPolls : MayRetake(cmdPolls'[q], u)}
             n == Cardinality(S)
             m == Cardinality(T)
  <1>1. Retakers(u)' = T
    BY DEF Retakers, MayRetake
  <1>2. IsFiniteSet(S)
    BY RetakersFinite
  <1>3. /\ \A q : q # p => (q \in S <=> q \in T)
        /\ p \in S <=> MayRetake(cmdPolls[p], u)
        /\ p \in T <=> MayRetake(cmdPolls'[p], u)
    BY DEF Retakers
  <1>4. ToTake(u) = IF S = {} /\ lastUpdateId < u THEN 1 ELSE n
    BY DEF ToTake
  <1>5. ToTake(u)' = IF T = {} /\ lastUpdateId' < u THEN 1 ELSE m
    BY <1>1 DEF ToTake
  <1> HIDE DEF S, T
  <1>6. /\ n \in Nat /\ m \in Nat
        /\ n = 0 <=> S = {}
        /\ m = 0 <=> T = {}
        /\ p \in S => n >= 1
        /\ (p \in S <=> p \in T) => m = n
        /\ p \in S /\ p \notin T => m = n - 1
        /\ p \notin S /\ p \in T => m = n + 1
    BY <1>2, <1>3, CountByOne
  <1> HIDE DEF n, m
  <1> QED
    BY <1>3, <1>4, <1>5, <1>6

\* Steps of no poll that leave the mark.
LEMMA SameToTake ==
    ASSUME UNCHANGED <<lastUpdateId, cmdPolls>>, NEW u
    PROVE  ToTake(u)' = ToTake(u)
  BY DEF ToTake, Retakers, MayRetake

LEMMA CommandsStart == CommandsInit => CommandsInv
  <1> SUFFICES ASSUME CommandsInit
               PROVE  CommandsInv
    OBVIOUS
  <1>1. IdlePoll \in CmdPollType /\ PollInChat(IdlePoll)
    BY ChatIsSequence DEF IdlePoll, CmdPollType, PollInChat
  <1>2. CommandsTyped
    <2>1. cmdPolls \in [CmdPolls -> CmdPollType] /\ \A p \in CmdPolls : PollInChat(cmdPolls[p])
      BY <1>1 DEF CommandsInit
    <2> QED
      BY <2>1, ChatIsSequence DEF CommandsInit, CommandsTyped
  <1>3. TakenBeforeMarks
    <2>1. \A u \in Updates : ~(u <= 0)
      BY ChatIsSequence
    <2>2. \A p \in CmdPolls : cmdPolls[p].pc = "idle"
      BY DEF CommandsInit, IdlePoll
    <2>3. confirmed = 0 /\ lastUpdateId = 0
      BY DEF CommandsInit
    <2> QED
      BY <2>1, <2>2, <2>3 DEF TakenBeforeMarks, Passed
  <1>4. RetakesCounted
    <2>1. \A u : Retakers(u) = {}
      BY DEF CommandsInit, IdlePoll, Retakers, MayRetake
    <2>2. \A u : ToTake(u) \in {0, 1}
      BY <2>1, NoRetakers
    <2>3. \A u \in Updates : taken[u] = 0
      BY DEF CommandsInit
    <2>4. cmdOverlaps = 0 /\ cmdRestarts = 0
      BY DEF CommandsInit
    <2> QED
      BY <2>2, <2>3, <2>4 DEF RetakesCounted
  <1> QED
    BY <1>2, <1>3, <1>4 DEF CommandsInv

\* A poll asks for what comes after the mark; beside another one it counts as
\* an overlap, alone it is the next poll.
LEMMA StartPollKeeps ==
    ASSUME CommandsInv, NEW p \in CmdPolls, StartPoll(p)
    PROVE  CommandsInv'
  <1> DEFINE new == [pc |-> "asked", offset |-> lastUpdateId + 1, next |-> 0, last |-> 0]
  <1>1. /\ CommandsTyped /\ TakenBeforeMarks /\ RetakesCounted
        /\ lastUpdateId \in Nat /\ lastUpdateId <= Len(Kind) /\ Len(Kind) \in Nat
        /\ cmdOverlaps \in Nat /\ cmdRestarts \in Nat /\ taken \in [Updates -> Nat]
    BY ChatIsSequence DEF CommandsInv, CommandsTyped
  <1>2. /\ cmdPolls[p].pc = "idle"
        /\ cmdPolls' = [cmdPolls EXCEPT ![p] = new]
        /\ UNCHANGED <<sentUpdates, confirmed, lastUpdateId, oracleProcess, taken, cmdRestarts>>
        /\ \/ ~OthersRun(p) /\ cmdOverlaps' = cmdOverlaps
           \/ cmdOverlaps < MaxCmdOverlaps /\ cmdOverlaps' = cmdOverlaps + 1
    BY DEF StartPoll, Offset
  <1>3. /\ new \in CmdPollType /\ PollInChat(new)
        /\ new.pc = "asked" /\ new.offset = lastUpdateId + 1
    BY <1>1 DEF CmdPollType, PollInChat
  <1> HIDE DEF new
  <1>4. cmdPolls'[p] = new /\ \A q \in CmdPolls \ {p} : cmdPolls'[q] = cmdPolls[q]
    BY <1>1, <1>2 DEF CommandsTyped
  <1>5. CommandsTyped'
    <2>1. cmdPolls' \in [CmdPolls -> CmdPollType]
      BY <1>1, <1>2, <1>3 DEF CommandsTyped
    <2>2. \A q \in CmdPolls : PollInChat(cmdPolls'[q])
      BY <1>1, <1>3, <1>4 DEF CommandsTyped
    <2>3. cmdOverlaps' \in 0..MaxCmdOverlaps
      BY <1>1, <1>2, ChatIsSequence DEF CommandsTyped
    <2> QED
      BY <1>1, <1>2, <2>1, <2>2, <2>3 DEF CommandsTyped, PollInChat
  <1>6. TakenBeforeMarks'
    <2>1. ASSUME NEW q \in CmdPolls, NEW u \in Updates, Passed(cmdPolls'[q], u)
          PROVE  taken[u] >= 1
      <3>1. CASE q = p
        <4>1. u < lastUpdateId + 1 /\ u \in Nat
          BY <1>3, <1>4, <2>1, <3>1, ChatIsSequence DEF Passed
        <4>2. u <= lastUpdateId
          BY <1>1, <4>1
        <4> QED
          BY <1>1, <4>2 DEF TakenBeforeMarks
      <3>2. CASE q # p
        BY <1>1, <1>4, <2>1, <3>2 DEF TakenBeforeMarks
      <3> QED
        BY <3>1, <3>2
    <2> QED
      BY <1>1, <1>2, <2>1 DEF TakenBeforeMarks, Passed
  <1>7. ASSUME NEW u \in Updates
        PROVE  taken'[u] + ToTake(u)' <= 1 + cmdOverlaps' + cmdRestarts'
    <2>1. u \in Nat /\ taken[u] \in Nat /\ taken[u] + ToTake(u) <= 1 + cmdOverlaps + cmdRestarts
      BY <1>1, ChatIsSequence DEF RetakesCounted
    <2>2. ToTake(u) \in Nat /\ ToTake(u)' \in Nat /\ ToTake(u)' <= ToTake(u) + 1
      BY <1>2, <1>4, ShareOfOneCmdPoll
    <2>3. CASE cmdOverlaps' = cmdOverlaps + 1
      BY <1>1, <1>2, <2>1, <2>2, <2>3
    <2>4. CASE ~OthersRun(p) /\ cmdOverlaps' = cmdOverlaps
      <3>1. Retakers(u) = {}
        BY <1>2, <2>4 DEF OthersRun, Retakers, MayRetake
      <3>2. ToTake(u) = IF lastUpdateId < u THEN 1 ELSE 0
        BY <3>1, NoRetakers
      <3>3. ~MayRetake(cmdPolls[p], u) /\ (MayRetake(cmdPolls'[p], u) <=> lastUpdateId < u)
        BY <1>1, <1>2, <1>3, <1>4, <2>1 DEF MayRetake
      <3>4. CASE lastUpdateId < u
        <4>1. Retakers(u)' = {p}
          BY <1>4, <3>1, <3>3, <3>4 DEF Retakers, MayRetake
        <4>2. ToTake(u)' = 1
          BY <4>1, FS_Singleton DEF ToTake
        <4> QED
          BY <1>1, <1>2, <2>1, <2>4, <3>2, <3>4, <4>2
      <3>5. CASE ~(lastUpdateId < u)
        <4>1. ToTake(u)' <= ToTake(u)
          BY <1>2, <1>4, <3>3, <3>5, ShareOfOneCmdPoll
        <4> QED
          BY <1>1, <1>2, <2>1, <2>2, <2>4, <4>1
      <3> QED
        BY <3>4, <3>5
    <2> QED
      BY <1>2, <2>3, <2>4
  <1> QED
    BY <1>5, <1>6, <1>7 DEF CommandsInv, RetakesCounted

\* A step of one poll that leaves the monitor's mark and what was taken up:
\* the poll's new state has to be in the chat, to have nothing behind it that
\* was not taken up, and to retake no more than before.
LEMMA QuietPollKeeps ==
    ASSUME CommandsInv, NEW p \in CmdPolls, NEW new \in CmdPollType, PollInChat(new),
           cmdPolls' = [cmdPolls EXCEPT ![p] = new],
           UNCHANGED <<sentUpdates, lastUpdateId, taken, cmdRestarts, cmdOverlaps>>,
           confirmed' \in 0..Len(Kind), oracleProcess' \in {"online", "stopped"},
           \A u \in Updates : u <= confirmed' => taken[u] >= 1,
           \A u \in Updates : Passed(new, u) => taken[u] >= 1,
           \A u \in Updates : MayRetake(new, u) => MayRetake(cmdPolls[p], u)
    PROVE  CommandsInv'
  <1>1. /\ CommandsTyped /\ TakenBeforeMarks /\ RetakesCounted
        /\ cmdOverlaps \in Nat /\ cmdRestarts \in Nat /\ taken \in [Updates -> Nat]
    BY ChatIsSequence DEF CommandsInv, CommandsTyped
  <1>2. cmdPolls'[p] = new /\ \A q \in CmdPolls \ {p} : cmdPolls'[q] = cmdPolls[q]
    BY <1>1 DEF CommandsTyped
  <1>3. CommandsTyped'
    <2>1. cmdPolls' \in [CmdPolls -> CmdPollType]
      BY <1>1 DEF CommandsTyped
    <2>2. \A q \in CmdPolls : PollInChat(cmdPolls'[q])
      BY <1>1, <1>2 DEF CommandsTyped
    <2> QED
      BY <1>1, <2>1, <2>2 DEF CommandsTyped, PollInChat
  <1>4. TakenBeforeMarks'
    <2>1. \A q \in CmdPolls, u \in Updates : Passed(cmdPolls'[q], u) => taken[u] >= 1
      BY <1>1, <1>2 DEF TakenBeforeMarks
    <2>2. \A u \in Updates : u <= confirmed' \/ u <= lastUpdateId => taken[u] >= 1
      BY <1>1 DEF TakenBeforeMarks
    <2> QED
      BY <2>1, <2>2 DEF TakenBeforeMarks, Passed
  <1>5. ASSUME NEW u \in Updates
        PROVE  taken'[u] + ToTake(u)' <= 1 + cmdOverlaps' + cmdRestarts'
    <2>1. taken[u] \in Nat /\ taken[u] + ToTake(u) <= 1 + cmdOverlaps + cmdRestarts
      BY <1>1 DEF RetakesCounted
    <2>2. /\ ToTake(u) \in Nat /\ ToTake(u)' \in Nat /\ ToTake(u)' <= ToTake(u)
      BY <1>2, ShareOfOneCmdPoll
    <2> QED
      BY <1>1, <2>1, <2>2
  <1> QED
    BY <1>3, <1>4, <1>5 DEF CommandsInv, RetakesCounted

LEMMA IdleIsQuiet ==
    /\ IdlePoll \in CmdPollType /\ PollInChat(IdlePoll)
    /\ \A u : ~Passed(IdlePoll, u) /\ ~MayRetake(IdlePoll, u)
  BY ChatIsSequence DEF IdlePoll, CmdPollType, PollInChat, Passed, MayRetake

\* Telegram drops what lies before the offset, which was taken up.
LEMMA UpdatedKeeps ==
    ASSUME CommandsInv, NEW p \in CmdPolls, Updated(p)
    PROVE  CommandsInv'
  <1> DEFINE offset == cmdPolls[p].offset
             dropped == Max({confirmed, offset - 1})
             batch == [pc |-> "batch", offset |-> 0, next |-> dropped + 1, last |-> sentUpdates]
             new == IF dropped < sentUpdates THEN batch ELSE IdlePoll
  <1>1. /\ CommandsTyped /\ TakenBeforeMarks
        /\ cmdPolls[p] \in CmdPollType /\ PollInChat(cmdPolls[p]) /\ cmdPolls[p].pc = "asked"
        /\ Len(Kind) \in Nat /\ Updates = 1..Len(Kind)
        /\ confirmed \in 0..Len(Kind) /\ sentUpdates \in 0..Len(Kind)
    BY ChatIsSequence DEF CommandsInv, CommandsTyped, Updated
  <1>2. offset \in 1..(Len(Kind) + 1)
    BY <1>1 DEF PollInChat
  <1>3. dropped = IF confirmed >= offset - 1 THEN confirmed ELSE offset - 1
    BY <1>1, <1>2, MaxOfTwo
  <1>5. /\ confirmed' = dropped
        /\ cmdPolls' = [cmdPolls EXCEPT ![p] = new]
        /\ UNCHANGED <<sentUpdates, lastUpdateId, oracleProcess, taken, cmdRestarts, cmdOverlaps>>
    BY DEF Updated
  <1>6. dropped \in 0..Len(Kind) /\ offset \in Nat
    BY <1>1, <1>2, <1>3
  <1>7. \A u \in Updates : u <= dropped => taken[u] >= 1
    <2> SUFFICES ASSUME NEW u \in Updates, u <= dropped
                 PROVE  taken[u] >= 1
      OBVIOUS
    <2>1. CASE u <= confirmed
      BY <1>1, <2>1 DEF TakenBeforeMarks
    <2>2. CASE u < offset
      <3>1. Passed(cmdPolls[p], u)
        BY <1>1, <2>2 DEF Passed
      <3> QED
        BY <1>1, <3>1 DEF TakenBeforeMarks
    <2> QED
      BY <1>1, <1>2, <1>3, <2>1, <2>2
  <1> HIDE DEF offset, dropped
  <1>8. dropped < sentUpdates => batch \in CmdPollType /\ PollInChat(batch)
    BY <1>1, <1>6 DEF CmdPollType, PollInChat
  <1>9. /\ batch.pc = "batch" /\ batch.next = dropped + 1
    OBVIOUS
  <1> HIDE DEF batch
  <1>10. new \in CmdPollType /\ PollInChat(new)
    BY <1>8, IdleIsQuiet
  <1>11. \A u \in Updates : Passed(new, u) => taken[u] >= 1
    <2> SUFFICES ASSUME NEW u \in Updates, Passed(new, u)
                 PROVE  taken[u] >= 1
      OBVIOUS
    <2>1. u < dropped + 1
      BY <1>9, IdleIsQuiet DEF Passed
    <2> QED
      BY <1>1, <1>6, <1>7, <2>1
  <1>12. \A u \in Updates : MayRetake(new, u) => MayRetake(cmdPolls[p], u)
    <2> SUFFICES ASSUME NEW u \in Updates, MayRetake(new, u)
                 PROVE  MayRetake(cmdPolls[p], u)
      OBVIOUS
    <2>1. dropped + 1 <= u
      BY <1>9, IdleIsQuiet DEF MayRetake
    <2>2. dropped >= offset - 1
      BY <1>1, <1>3, <1>6
    <2>3. offset <= u
      BY <1>1, <1>6, <2>1, <2>2
    <2> QED
      BY <1>1, <2>3 DEF MayRetake, offset
  <1> HIDE DEF new
  <1>13. oracleProcess' \in {"online", "stopped"}
    BY <1>1, <1>5 DEF CommandsTyped
  <1> QED
    BY <1>5, <1>6, <1>7, <1>10, <1>11, <1>12, <1>13, QuietPollKeeps

\* A poll that fails, or a handler that throws, gives the rest up.
LEMMA PollEndsKeeps ==
    ASSUME CommandsInv, NEW p \in CmdPolls, PollError(p) \/ HandlerThrows(p)
    PROVE  CommandsInv'
  <1>1. /\ confirmed \in 0..Len(Kind) /\ oracleProcess \in {"online", "stopped"}
        /\ \A u \in Updates : u <= confirmed => taken[u] >= 1
    BY DEF CommandsInv, CommandsTyped, TakenBeforeMarks
  <1>2. /\ cmdPolls' = [cmdPolls EXCEPT ![p] = IdlePoll]
        /\ UNCHANGED <<sentUpdates, confirmed, lastUpdateId, oracleProcess, taken,
                       cmdRestarts, cmdOverlaps>>
    BY DEF PollError, HandlerThrows, MarkAfterThrow
  <1> QED
    BY <1>1, <1>2, IdleIsQuiet, QuietPollKeeps

\* The batch goes on after the command that was handled.
LEMMA HandledKeeps ==
    ASSUME CommandsInv, NEW p \in CmdPolls, Handled(p)
    PROVE  CommandsInv'
  <1> DEFINE poll == cmdPolls[p]
             on == [pc |-> "batch", offset |-> 0, next |-> poll.next + 1, last |-> poll.last]
             new == IF poll.next = poll.last THEN IdlePoll ELSE on
  <1>1. /\ CommandsTyped /\ TakenBeforeMarks
        /\ poll \in CmdPollType /\ PollInChat(poll) /\ poll.pc = "handling"
        /\ Len(Kind) \in Nat /\ Updates = 1..Len(Kind)
        /\ confirmed \in 0..Len(Kind)
        /\ \A u \in Updates : u <= confirmed => taken[u] >= 1
    BY ChatIsSequence DEF CommandsInv, CommandsTyped, TakenBeforeMarks, Handled
  <1>2. /\ poll.next \in Nat /\ poll.last \in Nat /\ poll.offset \in Nat
        /\ poll.next <= poll.last /\ poll.last <= Len(Kind) /\ 1 <= poll.next
    BY <1>1 DEF CmdPollType, PollInChat
  <1>4. /\ cmdPolls' = [cmdPolls EXCEPT ![p] = new]
        /\ UNCHANGED <<sentUpdates, confirmed, lastUpdateId, taken, cmdRestarts, cmdOverlaps>>
    BY DEF Handled
  <1>5. oracleProcess' \in {"online", "stopped"}
    BY <1>1 DEF Handled, Executed, CommandsTyped
  <1>6. on.pc = "batch" /\ on.next = poll.next + 1
    OBVIOUS
  <1>7. poll.next # poll.last => on \in CmdPollType /\ PollInChat(on)
    BY <1>2, <1>1 DEF CmdPollType, PollInChat
  <1> HIDE DEF on
  <1>8. new \in CmdPollType /\ PollInChat(new)
    BY <1>7, IdleIsQuiet
  <1>9. \A u \in Updates : Passed(new, u) => taken[u] >= 1
    <2> SUFFICES ASSUME NEW u \in Updates, Passed(new, u)
                 PROVE  taken[u] >= 1
      OBVIOUS
    <2>1. u < poll.next + 1
      BY <1>6, IdleIsQuiet DEF Passed
    <2>2. Passed(poll, u)
      BY <1>1, <1>2, <2>1 DEF Passed
    <2> QED
      BY <1>1, <2>2 DEF TakenBeforeMarks
  <1>10. \A u \in Updates : MayRetake(new, u) => MayRetake(poll, u)
    <2> SUFFICES ASSUME NEW u \in Updates, MayRetake(new, u)
                 PROVE  MayRetake(poll, u)
      OBVIOUS
    <2>1. poll.next + 1 <= u
      BY <1>6, IdleIsQuiet DEF MayRetake
    <2> QED
      BY <1>1, <1>2, <2>1 DEF MayRetake
  <1> HIDE DEF new
  <1> QED
    BY <1>1, <1>4, <1>5, <1>8, <1>9, <1>10, QuietPollKeeps

\* How far a batch gets at once: to its first command, or to its end.
LEMMA BatchGoesTo ==
    ASSUME CommandsTyped, NEW p \in CmdPolls, cmdPolls[p].pc = "batch"
    PROVE  /\ Max(TakenUp(p)) \in cmdPolls[p].next..cmdPolls[p].last
           /\ TakenUp(p) = cmdPolls[p].next..Max(TakenUp(p))
  <1> DEFINE next == cmdPolls[p].next
             last == cmdPolls[p].last
             commands == CommandsAhead(p)
  <1>1. next \in Nat /\ last \in Nat /\ next <= last
    BY DEF CommandsTyped, CmdPollType, PollInChat
  <1>2. commands \in SUBSET Nat /\ \A u \in commands : next <= u /\ u <= last
    BY <1>1 DEF CommandsAhead, Ahead
  <1>3. TakenUp(p) = IF commands = {} THEN next..last ELSE next..Min(commands)
    BY DEF TakenUp, Ahead
  <1> HIDE DEF commands, next, last
  <1>4. CASE commands = {}
    <2>1. Max(next..last) = last
      BY <1>1, MaxOfInterval
    <2> QED
      BY <1>1, <1>3, <1>4, <2>1 DEF next, last
  <1>5. CASE commands # {}
    <2>1. Min(commands) \in commands
      BY <1>2, <1>5, MinOfNaturals
    <2>2. Min(commands) \in Nat /\ next <= Min(commands) /\ Min(commands) <= last
      BY <1>2, <2>1
    <2>3. Max(next..Min(commands)) = Min(commands)
      BY <1>1, <2>2, MaxOfInterval
    <2> QED
      BY <1>1, <1>3, <1>5, <2>2, <2>3 DEF next, last
  <1> QED
    BY <1>4, <1>5

\* The mark goes to the last message taken up.  A poll may move it back, but
\* then it was among those that may retake.
LEMMA TakeUpKeeps ==
    ASSUME CommandsInv, NEW p \in CmdPolls, TakeUp(p)
    PROVE  CommandsInv'
  <1> DEFINE poll == cmdPolls[p]
             upto == Max(TakenUp(p))
             handling == [pc |-> "handling", offset |-> 0, next |-> upto, last |-> poll.last]
             new == IF CommandsAhead(p) = {} THEN IdlePoll ELSE handling
  <1>1. /\ CommandsTyped /\ TakenBeforeMarks /\ RetakesCounted
        /\ poll \in CmdPollType /\ PollInChat(poll) /\ poll.pc = "batch"
        /\ Len(Kind) \in Nat /\ Updates = 1..Len(Kind)
        /\ cmdOverlaps \in Nat /\ cmdRestarts \in Nat /\ taken \in [Updates -> Nat]
    BY ChatIsSequence DEF CommandsInv, CommandsTyped, TakeUp
  <1>2. /\ poll.next \in Nat /\ poll.last \in Nat
        /\ poll.next <= poll.last /\ poll.last <= Len(Kind) /\ 1 <= poll.next
    BY <1>1 DEF CmdPollType, PollInChat
  <1>3. upto \in poll.next..poll.last /\ TakenUp(p) = poll.next..upto
    BY <1>1, BatchGoesTo
  <1>4. upto \in Nat /\ poll.next <= upto /\ upto <= poll.last /\ upto \in 0..Len(Kind)
    BY <1>2, <1>3
  <1>5. /\ lastUpdateId' = upto
        /\ taken' = [u \in Updates |-> IF u \in TakenUp(p) THEN taken[u] + 1 ELSE taken[u]]
        /\ cmdPolls' = [cmdPolls EXCEPT ![p] = new]
        /\ UNCHANGED <<sentUpdates, confirmed, oracleProcess, cmdRestarts, cmdOverlaps>>
    BY DEF TakeUp
  <1> HIDE DEF upto
  <1>6. handling.pc = "handling" /\ handling.next = upto
    OBVIOUS
  <1>7. handling \in CmdPollType /\ PollInChat(handling)
    BY <1>2, <1>4 DEF CmdPollType, PollInChat
  <1> HIDE DEF handling
  <1>8. new \in CmdPollType /\ PollInChat(new)
    BY <1>7, IdleIsQuiet
  <1>9. \A u \in Updates :
          /\ Passed(new, u) => u <= upto
          /\ MayRetake(new, u) => upto < u
    BY <1>1, <1>4, <1>6, IdleIsQuiet DEF Passed, MayRetake
  <1> HIDE DEF new
  <1>10. cmdPolls'[p] = new /\ \A q \in CmdPolls \ {p} : cmdPolls'[q] = cmdPolls[q]
    BY <1>1, <1>5 DEF CommandsTyped
  <1>11. ASSUME NEW u \in Updates
         PROVE  /\ u \in Nat /\ taken[u] \in Nat
                /\ poll.next <= u /\ u <= upto => taken'[u] = taken[u] + 1
                /\ ~(poll.next <= u /\ u <= upto) => taken'[u] = taken[u]
    <2>1. u \in Nat /\ taken[u] \in Nat
      BY <1>1
    <2>2. u \in TakenUp(p) <=> poll.next <= u /\ u <= upto
      BY <1>2, <1>3, <1>4, <2>1
    <2> QED
      BY <1>5, <2>1, <2>2
  <1>12. \A u \in Updates : u <= upto => taken'[u] >= 1
    <2> SUFFICES ASSUME NEW u \in Updates, u <= upto
                 PROVE  taken'[u] >= 1
      OBVIOUS
    <2>1. CASE poll.next <= u
      BY <1>11, <2>1
    <2>2. CASE ~(poll.next <= u)
      <3>1. u < poll.next
        BY <1>2, <1>11, <2>2
      <3>2. Passed(poll, u)
        BY <1>1, <3>1 DEF Passed
      <3>3. taken[u] >= 1
        BY <1>1, <3>2 DEF TakenBeforeMarks
      <3> QED
        BY <1>11, <2>2, <3>3
    <2> QED
      BY <2>1, <2>2
  <1>13. \A u \in Updates : taken'[u] >= taken[u] /\ taken'[u] \in Nat
    BY <1>11
  <1>14. CommandsTyped'
    <2>1. cmdPolls' \in [CmdPolls -> CmdPollType]
      BY <1>1, <1>5, <1>8 DEF CommandsTyped
    <2>2. \A q \in CmdPolls : PollInChat(cmdPolls'[q])
      BY <1>1, <1>8, <1>10 DEF CommandsTyped
    <2>3. taken' \in [Updates -> Nat]
      BY <1>1, <1>5
    <2> QED
      BY <1>1, <1>4, <1>5, <2>1, <2>2, <2>3 DEF CommandsTyped, PollInChat
  <1>15. TakenBeforeMarks'
    <2>1. ASSUME NEW u \in Updates, u <= confirmed \/ u <= upto
          PROVE  taken'[u] >= 1
      <3>1. CASE u <= confirmed
        <4>1. taken[u] >= 1
          BY <1>1, <3>1 DEF TakenBeforeMarks
        <4> QED
          BY <1>11, <1>13, <4>1
      <3> QED
        BY <1>12, <2>1, <3>1
    <2>2. ASSUME NEW q \in CmdPolls, NEW u \in Updates, Passed(cmdPolls'[q], u)
          PROVE  taken'[u] >= 1
      <3>1. CASE q = p
        BY <1>9, <1>10, <1>12, <2>2, <3>1
      <3>2. CASE q # p
        <4>1. taken[u] >= 1
          BY <1>1, <1>10, <2>2, <3>2 DEF TakenBeforeMarks
        <4> QED
          BY <1>11, <1>13, <4>1
      <3> QED
        BY <3>1, <3>2
    <2> QED
      BY <1>5, <2>1, <2>2 DEF TakenBeforeMarks, Passed, Updates
  <1>16. ASSUME NEW u \in Updates
         PROVE  taken'[u] + ToTake(u)' <= 1 + cmdOverlaps' + cmdRestarts'
    <2>1. taken[u] + ToTake(u) <= 1 + cmdOverlaps + cmdRestarts
      BY <1>1 DEF RetakesCounted
    <2>2. ToTake(u) \in Nat /\ ToTake(u)' \in Nat
      BY <1>10, ShareOfOneCmdPoll
    <2>3. MayRetake(poll, u) <=> poll.next <= u
      BY <1>1 DEF MayRetake
    <2>4. CASE poll.next <= u /\ u <= upto
      <3>1. ~MayRetake(cmdPolls'[p], u) /\ ~(lastUpdateId' < u)
        BY <1>4, <1>5, <1>9, <1>10, <1>11, <2>4
      <3>2. ToTake(u)' = ToTake(u) - 1
        BY <1>10, <2>3, <2>4, <3>1, ShareOfOneCmdPoll
      <3> QED
        BY <1>1, <1>5, <1>11, <2>1, <2>2, <2>4, <3>2
    <2>5. CASE ~(poll.next <= u /\ u <= upto)
      <3>1. MayRetake(cmdPolls'[p], u) => MayRetake(poll, u)
        BY <1>2, <1>4, <1>9, <1>10, <1>11, <2>3
      <3>2. MayRetake(poll, u) \/ ~(lastUpdateId' < u)
        BY <1>2, <1>4, <1>5, <1>11, <2>3
      <3>3. ToTake(u)' <= ToTake(u)
        BY <1>10, <3>1, <3>2, ShareOfOneCmdPoll
      <3> QED
        BY <1>1, <1>5, <1>11, <2>1, <2>2, <2>5, <3>3
    <2> QED
      BY <2>4, <2>5
  <1> QED
    BY <1>14, <1>15, <1>16 DEF CommandsInv, RetakesCounted

LEMMA SendUpdateKeeps == CommandsInv /\ SendUpdate => CommandsInv'
  <1> SUFFICES ASSUME CommandsInv, SendUpdate
               PROVE  CommandsInv'
    OBVIOUS
  <1>1. /\ sentUpdates' \in 0..Len(Kind)
        /\ UNCHANGED <<confirmed, lastUpdateId, cmdPolls, oracleProcess, taken,
                       cmdRestarts, cmdOverlaps>>
    BY ChatIsSequence DEF SendUpdate, CommandsInv, CommandsTyped
  <1>2. CommandsTyped'
    BY <1>1 DEF CommandsInv, CommandsTyped, PollInChat
  <1>3. TakenBeforeMarks'
    BY <1>1 DEF CommandsInv, TakenBeforeMarks, Passed
  <1>4. RetakesCounted'
    BY <1>1, SameToTake DEF CommandsInv, RetakesCounted
  <1> QED
    BY <1>2, <1>3, <1>4 DEF CommandsInv

\* A restart forgets the mark and every poll, and counts for one more time.
LEMMA RestartMonitorKeeps == CommandsInv /\ RestartMonitor => CommandsInv'
  <1> SUFFICES ASSUME CommandsInv, RestartMonitor
               PROVE  CommandsInv'
    OBVIOUS
  <1>1. /\ CommandsTyped /\ TakenBeforeMarks /\ RetakesCounted
        /\ lastUpdateId' = 0 /\ cmdPolls' = [p \in CmdPolls |-> IdlePoll]
        /\ cmdRestarts' = cmdRestarts + 1 /\ cmdRestarts' \in 0..MaxCmdRestarts
        /\ UNCHANGED <<sentUpdates, confirmed, oracleProcess, taken, cmdOverlaps>>
        /\ cmdOverlaps \in Nat /\ cmdRestarts \in Nat /\ taken \in [Updates -> Nat]
    BY ChatIsSequence DEF RestartMonitor, CommandsInv, CommandsTyped
  <1>2. CommandsTyped'
    <2>1. cmdPolls' \in [CmdPolls -> CmdPollType] /\ \A p \in CmdPolls : PollInChat(cmdPolls'[p])
      BY <1>1, IdleIsQuiet
    <2> QED
      BY <1>1, <2>1, ChatIsSequence DEF CommandsTyped, PollInChat
  <1>3. TakenBeforeMarks'
    <2>1. \A p \in CmdPolls, u \in Updates : ~Passed(cmdPolls'[p], u)
      BY <1>1, IdleIsQuiet
    <2>2. \A u \in Updates : ~(u <= 0)
      BY ChatIsSequence
    <2> QED
      BY <1>1, <2>1, <2>2 DEF TakenBeforeMarks, Passed
  <1>4. ASSUME NEW u \in Updates
        PROVE  taken'[u] + ToTake(u)' <= 1 + cmdOverlaps' + cmdRestarts'
    <2>1. taken[u] \in Nat /\ taken[u] + ToTake(u) <= 1 + cmdOverlaps + cmdRestarts
      BY <1>1 DEF RetakesCounted
    <2>2. ToTake(u) \in Nat
      BY RetakersFinite DEF ToTake
    <2>3. Retakers(u)' = {}
      BY <1>1 DEF Retakers, MayRetake, IdlePoll
    <2>4. ToTake(u)' \in {0, 1}
      BY <2>3, FS_EmptySet DEF ToTake
    <2> QED
      BY <1>1, <2>1, <2>2, <2>4
  <1> QED
    BY <1>2, <1>3, <1>4 DEF CommandsInv, RetakesCounted

LEMMA CommandsSteps == CommandsInv /\ [CommandsNext]_commandsVars => CommandsInv'
  <1> SUFFICES ASSUME CommandsInv, [CommandsNext]_commandsVars
               PROVE  CommandsInv'
    OBVIOUS
  <1>1. ASSUME NEW p \in CmdPolls,
               \/ StartPoll(p) \/ Updated(p) \/ PollError(p)
               \/ TakeUp(p) \/ Handled(p) \/ HandlerThrows(p)
        PROVE  CommandsInv'
    BY <1>1, StartPollKeeps, UpdatedKeeps, PollEndsKeeps, TakeUpKeeps, HandledKeeps
  <1>2. CASE UNCHANGED commandsVars
    <2>1. UNCHANGED <<sentUpdates, confirmed, lastUpdateId, cmdPolls, oracleProcess, taken,
                      cmdRestarts, cmdOverlaps>>
      BY <1>2 DEF commandsVars
    <2>2. CommandsTyped'
      BY <2>1 DEF CommandsInv, CommandsTyped, PollInChat
    <2>3. TakenBeforeMarks'
      BY <2>1 DEF CommandsInv, TakenBeforeMarks, Passed
    <2>4. RetakesCounted'
      BY <2>1, SameToTake DEF CommandsInv, RetakesCounted
    <2> QED
      BY <2>2, <2>3, <2>4 DEF CommandsInv
  <1> QED
    BY <1>1, <1>2, SendUpdateKeeps, RestartMonitorKeeps DEF CommandsNext

LEMMA CommandsInvIsEnough == CommandsInv => CommandsTypeOK /\ CommandsServed
  <1> SUFFICES ASSUME CommandsInv
               PROVE  CommandsTypeOK /\ CommandsServed
    OBVIOUS
  <1>1. CommandsTyped /\ TakenBeforeMarks /\ RetakesCounted
    BY DEF CommandsInv
  <1>2. 0..Len(Kind) = {0} \cup Updates
    BY ChatIsSequence
  <1>3. CommandsTypeOK
    <2>1. ASSUME NEW p \in CmdPolls
          PROVE  /\ cmdPolls[p].pc \in {"idle", "asked", "batch", "handling"}
                 /\ cmdPolls[p].next \in {0} \cup Updates
                 /\ cmdPolls[p].last \in {0} \cup Updates
                 /\ cmdPolls[p].pc \in {"batch", "handling"}
                      => cmdPolls[p].next <= cmdPolls[p].last
      BY <1>1, ChatIsSequence DEF CommandsTyped, CmdPollType, PollInChat
    <2> QED
      BY <1>1, <1>2, <2>1 DEF CommandsTyped, CommandsTypeOK
  <1>4. NoCommandSkipped
    BY <1>1 DEF TakenBeforeMarks, NoCommandSkipped
  <1>5. CommandsRunOnce
    <2> SUFFICES ASSUME NEW u \in Updates
                 PROVE  taken[u] <= 1 + cmdOverlaps + cmdRestarts
      BY DEF CommandsRunOnce
    <2>1. /\ taken[u] \in Nat /\ taken[u] + ToTake(u) <= 1 + cmdOverlaps + cmdRestarts
          /\ cmdOverlaps \in Nat /\ cmdRestarts \in Nat
      BY <1>1, ChatIsSequence DEF CommandsTyped, RetakesCounted
    <2>2. ToTake(u) \in Nat
      BY RetakersFinite DEF ToTake
    <2> QED
      BY <2>1, <2>2
  <1> QED
    BY <1>3, <1>4, <1>5 DEF CommandsServed

\* No command is dropped by Telegram before it was taken up, and each is taken
\* up once, and once more for every overlap of polls (pollTelegramCommands)
\* and every restart, for any chat and any number of polls.
THEOREM CommandsAreServed == CommandsSpec => []CommandsServed
  <1>1. CommandsInv => CommandsServed
    BY CommandsInvIsEnough
  <1> QED
    BY <1>1, CommandsStart, CommandsSteps, PTL DEF CommandsSpec

-----------------------------------------------------------------------------
(* The children of server.cjs.  A child that a server has is somewhere     *)
(* exactly once: live, about to be started by a timer, or given up because *)
(* its fork failed; every handler moves it from one of these to another.   *)

ChildType == [ref : BOOLEAN, live : Nat, timers : Nat, broken : Nat]
States == {"off", "listening", "deaf", "closing", "gone"}

\* k is nowhere; k is somewhere exactly once and ref says where.
Nowhere(k) == k.ref = FALSE /\ k.live = 0 /\ k.timers = 0 /\ k.broken = 0
Once(k) == k.live + k.timers + k.broken = 1
RefTells(k) == k.ref <=> k.live + k.broken > 0

SupervisionTyped ==
    /\ servers \in [Servers -> States]
    /\ children \in [Servers -> [Children -> ChildType]]

ChildInv(state, k) ==
    /\ state \in {"listening", "closing"} => Once(k) /\ RefTells(k)
    /\ state \in {"off", "deaf"} => Nowhere(k)

\* ChildrenKept is not inductive alone: a server that starts has no child yet,
\* and a deaf one never gets any.
OneListens ==
    \A s, t \in Servers : servers[s] = "listening" /\ servers[t] = "listening" => s = t
SupervisionInv ==
    /\ SupervisionTyped
    /\ \A s \in Servers, c \in Children : ChildInv(servers[s], children[s][c])
    /\ OneListens

\* startOracle makes one child of none.
LEMMA StartedOnce ==
    ASSUME NEW k \in ChildType, Nowhere(k), NEW j \in Started(k)
    PROVE  j \in ChildType /\ Once(j) /\ RefTells(j)
  <1>1. /\ k.live = 0 /\ k.timers = 0 /\ k.broken = 0 /\ k.ref = FALSE
    BY DEF Nowhere
  <1>2. \/ j = [ref |-> TRUE, live |-> 1, timers |-> 0, broken |-> 0]
        \/ j = [ref |-> TRUE, live |-> 0, timers |-> 0, broken |-> 1]
        \/ j = [ref |-> FALSE, live |-> 0, timers |-> 1, broken |-> 0]
    BY <1>1 DEF Started
  <1>3. \A l, t, b \in Nat, v \in BOOLEAN :
          [ref |-> v, live |-> l, timers |-> t, broken |-> b] \in ChildType
    BY DEF ChildType
  <1>4. j \in ChildType
    BY <1>2, <1>3
  <1>5. Once(j)
    BY <1>2 DEF Once
  <1>6. RefTells(j)
    BY <1>2 DEF RefTells
  <1> QED
    BY <1>4, <1>5, <1>6

\* A timer that fires starts the child that it stands for.
LEMMA TimerOnce ==
    ASSUME NEW k \in ChildType, Once(k), RefTells(k), k.timers > 0,
           NEW j \in Started([k EXCEPT !.timers = @ - 1])
    PROVE  j \in ChildType /\ Once(j) /\ RefTells(j)
  <1>1. Nowhere([k EXCEPT !.timers = @ - 1]) /\ [k EXCEPT !.timers = @ - 1] \in ChildType
    BY DEF ChildType, Nowhere, Once, RefTells
  <1> QED
    BY <1>1, StartedOnce

\* The "exit" handler replaces a live child by a timer.
LEMMA ExitOnce ==
    ASSUME NEW k \in ChildType, Once(k), RefTells(k), k.live > 0
    PROVE  AfterExit(k) \in ChildType /\ Once(AfterExit(k)) /\ RefTells(AfterExit(k))
  BY DEF AfterExit, ChildType, Once, RefTells

LEMMA NoChildNowhere == NoChild \in ChildType /\ Nowhere(NoChild)
  BY DEF NoChild, ChildType, Nowhere

LEMMA SupervisionStarts == SupervisionInit => SupervisionInv
  BY NoChildNowhere DEF SupervisionInit, SupervisionInv, SupervisionTyped, ChildInv, OneListens, States

LEMMA StartServerInv ==
    ASSUME SupervisionInv, NEW s \in Servers, StartServer(s)
    PROVE  SupervisionInv'
  <1>1. servers[s] = "off"
    BY DEF StartServer
  <1>2. \A c \in Children : Nowhere(children[s][c])
    BY <1>1 DEF SupervisionInv, ChildInv
  <1>3. CASE \E t \in Servers : servers[t] = "listening"
    <2>1. servers' = [servers EXCEPT ![s] = "deaf"]
      BY <1>3 DEF StartServer
    <2>2. children' = children
      BY <1>3 DEF StartServer, StartsChildren
    <2> QED
      BY <1>1, <1>2, <2>1, <2>2
      DEF SupervisionInv, SupervisionTyped, ChildInv, OneListens, States
  <1>4. CASE \A t \in Servers : servers[t] # "listening"
    <2>1. servers' = [servers EXCEPT ![s] = "listening"]
      BY <1>4 DEF StartServer
    <2>2. PICK kids \in [Children -> Started(NoChild)] :
            children' = [children EXCEPT ![s] = kids]
      BY <1>4 DEF StartServer, StartsChildren
    <2>3. \A c \in Children : kids[c] \in ChildType /\ Once(kids[c]) /\ RefTells(kids[c])
      BY StartedOnce, NoChildNowhere
    <2>4. kids \in [Children -> ChildType]
      BY <2>3
    <2>5. SupervisionTyped'
      BY <2>1, <2>2, <2>4 DEF SupervisionInv, SupervisionTyped, States
    <2>6. \A t \in Servers, c \in Children : ChildInv(servers[t], children[t][c])'
      BY <2>1, <2>2, <2>3 DEF SupervisionInv, SupervisionTyped, ChildInv
    <2>7. OneListens'
      BY <1>4, <2>1 DEF SupervisionInv, SupervisionTyped, OneListens
    <2> QED
      BY <2>5, <2>6, <2>7 DEF SupervisionInv
  <1> QED
    BY <1>3, <1>4

\* A step that changes one child of a server that is up.
LEMMA OneChildInv ==
    ASSUME SupervisionInv, NEW s \in Servers, NEW c \in Children, NEW k \in ChildType,
           ChildInv(servers[s], k), servers' = servers,
           children' = [children EXCEPT ![s][c] = k]
    PROVE  SupervisionInv'
  BY DEF SupervisionInv, SupervisionTyped, ChildInv, OneListens

LEMMA ChildExitsInv ==
    ASSUME SupervisionInv, NEW s \in Servers, NEW c \in Children, ChildExits(s, c)
    PROVE  SupervisionInv'
  <1> DEFINE k == children[s][c]
  <1>1. k \in ChildType /\ ChildInv(servers[s], k) /\ servers[s] \in States
    BY DEF SupervisionInv, SupervisionTyped
  <1>2. k.live > 0 /\ servers' = servers
    BY DEF ChildExits
  <1>3. CASE Up(s)
    <2>1. Once(k) /\ RefTells(k)
      BY <1>1, <1>2, <1>3 DEF ChildInv, Up, Nowhere
    <2>2. children' = [children EXCEPT ![s][c] = AfterExit(k)]
      BY <1>3 DEF ChildExits
    <2>3. AfterExit(k) \in ChildType /\ ChildInv(servers[s], AfterExit(k))
      BY <1>1, <1>2, <1>3, <2>1, ExitOnce DEF ChildInv, Up, Nowhere
    <2> QED
      BY <1>2, <2>2, <2>3, OneChildInv
  <1>4. CASE ~Up(s)
    <2>1. servers[s] = "gone"
      BY <1>1, <1>2, <1>4 DEF ChildInv, Up, Nowhere, States, ChildType
    <2> DEFINE orphan == [k EXCEPT !.live = k.live - 1]
    <2>2. children' = [children EXCEPT ![s][c] = orphan]
      BY <1>4 DEF ChildExits
    <2>3. orphan \in ChildType
      BY <1>1, <1>2 DEF ChildType
    <2>4. ChildInv(servers[s], orphan)
      BY <2>1 DEF ChildInv
    <2> QED
      BY <1>2, <2>2, <2>3, <2>4, OneChildInv
  <1> QED
    BY <1>3, <1>4

LEMMA RestartTimerInv ==
    ASSUME SupervisionInv, NEW s \in Servers, NEW c \in Children, RestartTimer(s, c)
    PROVE  SupervisionInv'
  <1> DEFINE k == children[s][c]
  <1>1. k \in ChildType /\ ChildInv(servers[s], k) /\ servers[s] \in States
    BY DEF SupervisionInv, SupervisionTyped
  <1>2. k.timers > 0 /\ servers' = servers /\ Up(s)
    BY DEF RestartTimer
  <1>3. servers[s] # "deaf" /\ Once(k) /\ RefTells(k)
    BY <1>1, <1>2 DEF ChildInv, Up, Nowhere
  <1>4. PICK j \in Started([k EXCEPT !.timers = @ - 1]) :
          children' = [children EXCEPT ![s][c] = j]
    BY DEF RestartTimer
  <1>5. j \in ChildType /\ Once(j) /\ RefTells(j)
    BY <1>1, <1>2, <1>3, TimerOnce
  <1>6. ChildInv(servers[s], j)
    BY <1>2, <1>3, <1>5 DEF ChildInv, Up
  <1> QED
    BY <1>2, <1>4, <1>5, <1>6, OneChildInv

LEMMA SigtermInv ==
    ASSUME SupervisionInv, NEW s \in Servers, Sigterm(s)
    PROVE  SupervisionInv'
  BY DEF SupervisionInv, SupervisionTyped, ChildInv, OneListens, Sigterm, States

LEMMA ServerEndsInv ==
    ASSUME SupervisionInv, NEW s \in Servers, ServerEnds(s)
    PROVE  SupervisionInv'
  <1> DEFINE left == [c \in Children |-> [NoChild EXCEPT !.live = children[s][c].live]]
  <1>1. servers' = [servers EXCEPT ![s] = "gone"] /\ children' = [children EXCEPT ![s] = left]
    BY DEF ServerEnds
  <1>2. left \in [Children -> ChildType]
    BY DEF SupervisionInv, SupervisionTyped, NoChild, ChildType
  <1> HIDE DEF left
  <1> QED
    BY <1>1, <1>2 DEF SupervisionInv, SupervisionTyped, ChildInv, OneListens, States

LEMMA SupervisionSteps == SupervisionInv /\ [SupervisionNext]_supervisionVars => SupervisionInv'
  <1> SUFFICES ASSUME SupervisionInv, [SupervisionNext]_supervisionVars
               PROVE  SupervisionInv'
    OBVIOUS
  <1>1. CASE UNCHANGED supervisionVars
    BY <1>1 DEF SupervisionInv, SupervisionTyped, ChildInv, OneListens, supervisionVars
  <1>2. CASE SupervisionNext
    BY <1>2, StartServerInv, SigtermInv, ServerEndsInv, ChildExitsInv, RestartTimerInv
    DEF SupervisionNext
  <1> QED
    BY <1>1, <1>2

LEMMA SupervisionInvIsTyped == SupervisionInv => SupervisionTypeOK
  BY DEF SupervisionInv, SupervisionTyped, SupervisionTypeOK, ChildType, States

LEMMA SupervisionInvIsEnough == SupervisionInv => ChildrenKept
  <1> SUFFICES ASSUME SupervisionInv PROVE ChildrenKept
    OBVIOUS
  <1>1. OneOfEach
    BY DEF SupervisionInv, ChildInv, OneOfEach, Once
  <1>2. HealthHonest
    BY DEF SupervisionInv, ChildInv, HealthHonest, Up, RefTells, Nowhere
  <1>3. SecondChildIsLeftOver
    <2> SUFFICES ASSUME NEW s \in Servers, NEW t \in Servers, NEW c \in Children, s # t,
                        children[s][c].live > 0, children[t][c].live > 0
                 PROVE  {servers[s], servers[t]} \cap {"closing", "gone"} # {}
      BY DEF SecondChildIsLeftOver
    <2>1. servers[s] \notin {"off", "deaf"} /\ servers[t] \notin {"off", "deaf"}
      BY DEF SupervisionInv, ChildInv, Nowhere
    <2>2. servers[s] # "listening" \/ servers[t] # "listening"
      BY DEF SupervisionInv, OneListens
    <2>3. servers[s] \in States /\ servers[t] \in States
      BY DEF SupervisionInv, SupervisionTyped
    <2> QED
      BY <2>1, <2>2, <2>3 DEF States
  <1> QED
    BY <1>1, <1>2, <1>3 DEF ChildrenKept

\* Over exits, failed forks, stops and starts of any number of servers: a
\* server that listens or closes has each child exactly once, /health tells
\* the truth of it, and two live oracles belong to two servers of which one
\* was stopped (server.cjs:488-533).
THEOREM ChildrenAreKept == SupervisionSpec => []ChildrenKept
  <1>1. SupervisionInit => SupervisionInv
    BY SupervisionStarts
  <1>2. SupervisionInv /\ [SupervisionNext]_supervisionVars => SupervisionInv'
    BY SupervisionSteps
  <1>3. SupervisionInv => ChildrenKept
    BY SupervisionInvIsEnough
  <1> QED
    BY <1>1, <1>2, <1>3, PTL DEF SupervisionSpec

-----------------------------------------------------------------------------
(* The loop of the oracle.                                                 *)

\* What a step of the loop may rely on.
LoopInv ==
    /\ OracleLoopTypeOK
    /\ SilenceHasAReason
    /\ StreakIsShort

\* The loop starts well formed: no streak, no silence.
LEMMA LoopStarts == OracleLoopInit => LoopInv
<1>1. SUFFICES ASSUME OracleLoopInit PROVE LoopInv
  OBVIOUS
<1>2. 0 \in RpcIndex /\ 0 < FAILOVER_STREAK /\ 0 \in 0..MaxSilence /\ 0 \in 0..MaxLoopFaults
  BY OracleLoopAssumption DEF RpcIndex
<1>3. OracleLoopTypeOK
  BY <1>1, <1>2 DEF OracleLoopInit, OracleLoopTypeOK
<1>4. SilenceHasAReason /\ StreakIsShort
  BY <1>1, <1>2 DEF OracleLoopInit, SilenceHasAReason, StreakIsShort
<1> QED
  BY <1>3, <1>4 DEF LoopInv

\* A fault is counted up to its bound.
LEMMA LoopFaultCounted ==
    ASSUME LoopInv, LoopFault
    PROVE  loopFaults' \in 0..MaxLoopFaults
BY OracleLoopAssumption DEF LoopInv, OracleLoopTypeOK, LoopFault

\* Every step of the loop keeps it well formed, its silence explained and its
\* streak short.
LEMMA LoopSafe == LoopInv /\ [OracleLoopNext]_loopVars => LoopInv'
<1> SUFFICES ASSUME LoopInv, [OracleLoopNext]_loopVars PROVE LoopInv'
  OBVIOUS
<1>t. /\ answering \subseteq RpcIndex /\ rpcIdx \in RpcIndex /\ errStreak \in Nat
      /\ activeCommit \in BOOLEAN /\ wedged \in BOOLEAN
      /\ silence \in 0..MaxSilence /\ loopFaults \in 0..MaxLoopFaults
      /\ Rpcs \in Nat \ {0} /\ FAILOVER_STREAK \in Nat \ {0} /\ MaxSilence \in Nat \ {0}
  BY OracleLoopAssumption DEF LoopInv, OracleLoopTypeOK
<1>s. (silence > 0 => ~activeCommit) /\ (Rpcs > 1 => errStreak < FAILOVER_STREAK)
  BY DEF LoopInv, SilenceHasAReason, StreakIsShort
<1>r. /\ 0 \in RpcIndex /\ (rpcIdx + 1) % Rpcs \in RpcIndex
      /\ 0 \in 0..MaxSilence /\ 0 < FAILOVER_STREAK /\ ~(0 > 0)
  BY <1>t DEF RpcIndex
<1>g. ASSUME answering' \subseteq RpcIndex, rpcIdx' \in RpcIndex, errStreak' \in Nat,
             activeCommit' \in BOOLEAN, wedged' \in BOOLEAN,
             silence' \in 0..MaxSilence, loopFaults' \in 0..MaxLoopFaults,
             silence' > 0 => ~activeCommit', Rpcs > 1 => errStreak' < FAILOVER_STREAK
      PROVE  LoopInv'
  BY <1>g DEF LoopInv, OracleLoopTypeOK, SilenceHasAReason, StreakIsShort, RpcIndex
<1>1. CASE SubmitFails
  <2>1. loopFaults' \in 0..MaxLoopFaults
    BY <1>1, <1>t, LoopFaultCounted DEF SubmitFails
  <2>2. silence' \in 0..MaxSilence
    BY <1>1, <1>t DEF SubmitFails
  <2> QED
    BY <1>1, <1>t, <1>s, <1>g, <2>1, <2>2 DEF SubmitFails
<1>2. CASE Iterate
  <2>1. loopFaults' \in 0..MaxLoopFaults
    BY <1>2, <1>t, LoopFaultCounted DEF Iterate
  <2> QED
    BY <1>2, <1>t, <1>r, <1>g, <2>1 DEF Iterate, Beat
<1>3. CASE PollThrows
  <2>1. loopFaults' \in 0..MaxLoopFaults /\ activeCommit' \in BOOLEAN
    BY <1>3, <1>t, LoopFaultCounted DEF PollThrows
  <2>2. rpcIdx' \in RpcIndex /\ errStreak' \in Nat
    BY <1>3, <1>t, <1>r DEF PollThrows, Streak
  <2>3. Rpcs > 1 => errStreak' < FAILOVER_STREAK
    BY <1>3, <1>t DEF PollThrows, Streak
  <2>4. silence' = 0 /\ answering' = answering /\ wedged' = wedged
    BY <1>3 DEF PollThrows, Beat
  <2> QED
    BY <1>t, <1>g, <2>1, <2>2, <2>3, <2>4
<1>4. CASE Wedges
  BY <1>4, <1>t, <1>s, <1>g, LoopFaultCounted DEF Wedges
<1>5. CASE RestartOracle
  BY <1>5, <1>t, <1>r, <1>g, LoopFaultCounted DEF RestartOracle
<1>6. CASE EndpointChanges
  BY <1>6, <1>t, <1>s, <1>g, LoopFaultCounted DEF EndpointChanges
<1>7. CASE UNCHANGED loopVars
  BY <1>7, <1>t, <1>s, <1>g DEF loopVars
<1> QED
  BY <1>1, <1>2, <1>3, <1>4, <1>5, <1>6, <1>7 DEF OracleLoopNext

-----------------------------------------------------------------------------
(* The secrets at rest.                                                    *)

\* What a step of the secret store may rely on: beside what the runs check, a
\* commitment without a secret has no entry, and the process knows whatever
\* the file holds that its key reads.
StoreInv ==
    /\ SecretStoreTypeOK
    /\ SecretsSurviveKeys
    /\ \A c \in Commits : onChain[c] \in {NONE, BADKEY} => secretsFile[c] = NONE
    /\ Loaded(ENCRYPTION_KEY) \subseteq knownSecrets

\* An entry that was never written is read under no key.
LEMMA NothingToDecrypt ==
    ASSUME NEW key \in Keys32 \cup {PLAIN, BADKEY}
    PROVE  ~Decrypts(NONE, key)
BY SecretStoreAssumption DEF Decrypts

\* The store starts with no entry and no commitment.
LEMMA StoreStarts == SecretStoreInit => StoreInv
<1> SUFFICES ASSUME SecretStoreInit PROVE StoreInv
  OBVIOUS
<1>1. SecretStoreTypeOK
  BY SecretStoreAssumption DEF SecretStoreInit, SecretStoreTypeOK
<1>2. SecretsSurviveKeys /\ \A c \in Commits : onChain[c] \in {NONE, BADKEY} => secretsFile[c] = NONE
  BY DEF SecretStoreInit, SecretsSurviveKeys
<1>3. Loaded(ENCRYPTION_KEY) = {}
  BY NothingToDecrypt DEF SecretStoreInit, Loaded
<1> QED
  BY <1>1, <1>2, <1>3 DEF StoreInv

\* Every step of the store keeps the secrets it holds, under any sequence of
\* keys.
LEMMA StoreSafe == StoreInv /\ [SecretStoreNext]_storeVars => StoreInv'
<1> SUFFICES ASSUME StoreInv, [SecretStoreNext]_storeVars PROVE StoreInv'
  OBVIOUS
<1>t. /\ ENCRYPTION_KEY \in Keys32 \cup {PLAIN, BADKEY}
      /\ secretsFile \in [Commits -> Keys32 \cup {PLAIN, NONE}]
      /\ knownSecrets \subseteq Commits
      /\ onChain \in [Commits -> Keys32 \cup {PLAIN, BADKEY, NONE}]
      /\ starts \in 0..MaxStarts
  BY DEF StoreInv, SecretStoreTypeOK
<1>s. /\ \A c \in Commits : onChain[c] \notin {NONE, BADKEY} =>
            /\ secretsFile[c] = onChain[c]
            /\ Decrypts(secretsFile[c], ENCRYPTION_KEY) => c \in knownSecrets
      /\ \A c \in Commits : onChain[c] \in {NONE, BADKEY} => secretsFile[c] = NONE
      /\ \A c \in Commits : Decrypts(secretsFile[c], ENCRYPTION_KEY) => c \in knownSecrets
  BY DEF StoreInv, SecretsSurviveKeys, Loaded
<1>1. ASSUME NEW c \in Commits, SubmitCommitment(c) PROVE StoreInv'
  <2>1. /\ secretsFile' = [secretsFile EXCEPT ![c] = ENCRYPTION_KEY]
        /\ onChain' = [onChain EXCEPT ![c] = ENCRYPTION_KEY]
        /\ knownSecrets' = knownSecrets \cup {c}
        /\ ENCRYPTION_KEY' = ENCRYPTION_KEY /\ starts' = starts
        /\ ENCRYPTION_KEY \in Keys32 \cup {PLAIN}
    BY <1>1, <1>t DEF SubmitCommitment, Saved
  <2>2. SecretStoreTypeOK'
    BY <2>1, <1>t DEF SecretStoreTypeOK
  <2>3. ENCRYPTION_KEY \notin {NONE, BADKEY}
    BY <2>1, SecretStoreAssumption
  <2>4. SecretsSurviveKeys'
    BY <2>1, <2>3, <1>t, <1>s DEF SecretsSurviveKeys
  <2>5. (\A d \in Commits : onChain[d] \in {NONE, BADKEY} => secretsFile[d] = NONE)'
    BY <2>1, <2>3, <1>t, <1>s
  <2>6. (Loaded(ENCRYPTION_KEY) \subseteq knownSecrets)'
    BY <2>1, <1>t, <1>s DEF Loaded
  <2> QED
    BY <2>2, <2>4, <2>5, <2>6 DEF StoreInv
<1>2. ASSUME NEW c \in Commits, SubmitUnderBadKey(c) PROVE StoreInv'
  <2>1. /\ onChain' = [onChain EXCEPT ![c] = BADKEY] /\ onChain[c] = NONE
        /\ secretsFile' = secretsFile /\ knownSecrets' = knownSecrets
        /\ ENCRYPTION_KEY' = ENCRYPTION_KEY /\ starts' = starts
    BY <1>2 DEF SubmitUnderBadKey
  <2>2. SecretStoreTypeOK'
    BY <2>1, <1>t DEF SecretStoreTypeOK
  <2>3. SecretsSurviveKeys'
    BY <2>1, <1>t, <1>s DEF SecretsSurviveKeys
  <2>4. (\A d \in Commits : onChain[d] \in {NONE, BADKEY} => secretsFile[d] = NONE)'
    BY <2>1, <1>t, <1>s
  <2>5. (Loaded(ENCRYPTION_KEY) \subseteq knownSecrets)'
    BY <2>1, <1>s DEF Loaded
  <2> QED
    BY <2>2, <2>3, <2>4, <2>5 DEF StoreInv
<1>3. ASSUME NEW key \in Keys32 \cup {PLAIN, BADKEY}, StartWithKey(key) PROVE StoreInv'
  <2>1. /\ ENCRYPTION_KEY' = key /\ knownSecrets' = Loaded(key)
        /\ secretsFile' = secretsFile /\ onChain' = onChain
        /\ starts' = starts + 1 /\ starts < MaxStarts
    BY <1>3 DEF StartWithKey
  <2>2. knownSecrets' = {d \in Commits : Decrypts(secretsFile[d], key)}
    BY <2>1 DEF Loaded
  <2>3. SecretStoreTypeOK'
    BY <2>1, <2>2, <1>t, SecretStoreAssumption DEF SecretStoreTypeOK
  <2>4. SecretsSurviveKeys'
    BY <2>1, <2>2, <1>s DEF SecretsSurviveKeys
  <2>5. (Loaded(ENCRYPTION_KEY) \subseteq knownSecrets)'
    BY <2>1, <2>2 DEF Loaded
  <2> QED
    BY <2>1, <2>3, <2>4, <2>5, <1>s DEF StoreInv
<1>4. CASE UNCHANGED storeVars
  <2>1. UNCHANGED <<ENCRYPTION_KEY, secretsFile, knownSecrets, onChain, starts>>
    BY <1>4 DEF storeVars
  <2>2. SecretStoreTypeOK'
    BY <2>1, <1>t DEF SecretStoreTypeOK
  <2> QED
    BY <2>1, <2>2, <1>s DEF StoreInv, SecretsSurviveKeys, Loaded
<1> QED
  BY <1>1, <1>2, <1>3, <1>4 DEF SecretStoreNext

\* Whatever endpoints answer, and however often the commitment comes and goes:
\* the loop of oracle.cjs misses heartbeats only while it has no commitment,
\* and with several endpoints it changes to the next one before its errors in
\* a row exceed the streak (oracle.cjs:433-537).
THEOREM LoopChangesInTime == OracleLoopSpec => [](SilenceHasAReason /\ StreakIsShort)
<1>1. OracleLoopInit => LoopInv
  BY LoopStarts
<1>2. LoopInv /\ [OracleLoopNext]_loopVars => LoopInv'
  BY LoopSafe
<1>3. LoopInv => SilenceHasAReason /\ StreakIsShort
  BY DEF LoopInv
<1> QED
  BY <1>1, <1>2, <1>3, PTL DEF OracleLoopSpec

\* Over any number of starts under any keys, a secret whose commitment is on
\* the chain stays in the file as it was written, and the process that has the
\* right key knows it, unless the cipher refused the key it was made under
\* (oracle.cjs: saveSecret, loadSecrets).
THEOREM SecretsAreKept == SecretStoreSpec => []SecretsSurviveKeys
<1>1. SecretStoreInit => StoreInv
  BY StoreStarts
<1>2. StoreInv /\ [SecretStoreNext]_storeVars => StoreInv'
  BY StoreSafe
<1>3. StoreInv => SecretsSurviveKeys
  BY DEF StoreInv
<1> QED
  BY <1>1, <1>2, <1>3, PTL DEF SecretStoreSpec

-----------------------------------------------------------------------------
(* The upkeep scripts.                                                     *)

\* What a transaction of a script names.
TxNames(tx) ==
    /\ tx.op = "sweep_xnt_pool" => tx.of \in Streams
    /\ tx.op = "set_season" => tx.of \in Seasons

\* What is on the chain: a pool without stakers owes nothing, and a
\* version-1 NFT left its vault once.
ChainInv ==
    /\ withMetadata \subseteq minted /\ minted \subseteq Gumballs
    /\ v1Stakes \subseteq Legacy /\ recovered \in [Legacy -> Nat]
    /\ xntPools \in [Streams -> [weight : 0..1, xnt : Nat, earned : Nat]]
    /\ \A s \in Streams :
         /\ xntPools[s].earned <= xntPools[s].xnt
         /\ xntPools[s].weight = 0 => xntPools[s].earned = 0
    /\ RecoveredOnce
    /\ season \in Seasons /\ treasuryPaid \in Nat

\* The season is the confirmed one while no transaction was given up.
GivenUpInv ==
    /\ runs \in 0..MaxRuns /\ upkeepFaults \in Nat
    /\ upkeepFaults = 0 => upkeepLate = {}
    /\ \A tx \in upkeepLate : TxNames(tx)
    /\ SeasonAsConfirmed

\* The run: what it lists, and the transaction it waits for.
RunInv ==
    /\ IsFiniteSet(upkeep.listed) /\ upkeep.todo \subseteq upkeep.listed
    /\ upkeep.done \in Nat /\ upkeep.skipped \in Nat /\ upkeep.failed \in Nat
    /\ upkeep.script = "attach-metadata" =>
         /\ upkeep.listed \subseteq minted \cup {Foreign}
         /\ upkeep.tx # NoSend => upkeep.tx.op = "attach_metadata"
    /\ upkeep.script = "sweep-xnt-pool" => upkeep.listed \subseteq Streams
    /\ TxNames(upkeep.tx)
    /\ CountsAreTrue

UpkeepInv == ChainInv /\ GivenUpInv /\ RunInv

\* What the inductive invariant is for.
LEMMA UpkeepInvIsEnough == UpkeepInv => UpkeepTypeOK /\ UpkeepSafe
BY DEF UpkeepInv, ChainInv, GivenUpInv, RunInv, UpkeepTypeOK, UpkeepSafe, SweepSparesStakers

LEMMA UpkeepStarts == UpkeepInit => UpkeepInv
<1> SUFFICES ASSUME UpkeepInit PROVE UpkeepInv
  OBVIOUS
<1>1. 0 \in Seasons /\ 0 \in 0..MaxRuns
  BY UpkeepAssumption DEF Seasons
<1>2. ChainInv
  BY <1>1 DEF UpkeepInit, ChainInv, RecoveredOnce, Pool
<1>3. TxNames(NoSend)
  BY DEF TxNames, NoSend
<1>4. GivenUpInv
  BY <1>1 DEF UpkeepInit, GivenUpInv, SeasonAsConfirmed
<1>5. /\ upkeep.listed = {} /\ upkeep.todo = {} /\ upkeep.tx = NoSend /\ upkeep.script = "none"
      /\ upkeep.done = 0 /\ upkeep.skipped = 0 /\ upkeep.failed = 0
  BY DEF UpkeepInit, NoRun
<1>6. IsFiniteSet({}) /\ Cardinality({}) = 0
  BY FS_EmptySet
<1>7. CountsAreTrue
  BY <1>5, <1>6 DEF CountsAreTrue
<1>8. RunInv
  BY <1>3, <1>5, <1>6, <1>7 DEF RunInv
<1> QED
  BY <1>2, <1>4, <1>8 DEF UpkeepInv

\* What the programs do to the chain, and that a run is none the worse for it.
LEMMA ExecutionKeepsChain ==
    ASSUME ChainInv, NEW tx, TxNames(tx), Executes(tx)
    PROVE  /\ ChainInv' /\ minted' = minted /\ withMetadata \subseteq withMetadata'
           /\ tx.op = "attach_metadata" => tx.of \in withMetadata'
           /\ season' = IF tx.op = "set_season" THEN tx.of ELSE season
<1>1. CASE tx.op = "attach_metadata" /\ attach_metadata(tx.of)
  <2>1. tx.of \in minted
    BY <1>1 DEF attach_metadata, MayAttach
  <2> QED
    BY <1>1, <2>1 DEF attach_metadata, ChainInv, RecoveredOnce
<1>2. CASE tx.op = "sweep_xnt_pool" /\ sweep_xnt_pool(tx.of)
  <2>0. /\ withMetadata' = withMetadata /\ minted' = minted /\ v1Stakes' = v1Stakes
        /\ recovered' = recovered /\ season' = season
    BY <1>2 DEF sweep_xnt_pool
  <2>1. tx.of \in Streams /\ xntPools[tx.of].weight = 0
    BY <1>2 DEF TxNames, Executes, Accepted, MaySweep
  <2>2. xntPools[tx.of].xnt \in Nat /\ xntPools[tx.of].earned = 0
    BY <2>1 DEF ChainInv
  <2>3. xntPools' = [xntPools EXCEPT ![tx.of] = [weight |-> 0, xnt |-> 0, earned |-> 0]]
    BY <1>2, <2>1, <2>2 DEF sweep_xnt_pool, Pool
  <2>4. xntPools' \in [Streams -> [weight : 0..1, xnt : Nat, earned : Nat]]
    BY <2>1, <2>3 DEF ChainInv
  <2>5. ASSUME NEW s \in Streams
        PROVE  /\ xntPools'[s].earned <= xntPools'[s].xnt
               /\ xntPools'[s].weight = 0 => xntPools'[s].earned = 0
    BY <2>1, <2>3 DEF ChainInv
  <2>6. treasuryPaid' \in Nat
    BY <1>2, <2>2 DEF sweep_xnt_pool, ChainInv
  <2> QED
    BY <1>2, <2>0, <2>4, <2>5, <2>6 DEF ChainInv, RecoveredOnce
<1>3. CASE tx.op = "recover_legacy_v1_stake" /\ recover_legacy_v1_stake(tx.of)
  <2>0. /\ withMetadata' = withMetadata /\ minted' = minted /\ xntPools' = xntPools
        /\ treasuryPaid' = treasuryPaid /\ season' = season
        /\ v1Stakes' = v1Stakes \ {tx.of}
        /\ recovered' = [recovered EXCEPT ![tx.of] = recovered[tx.of] + 1]
    BY <1>3 DEF recover_legacy_v1_stake
  <2>1. tx.of \in v1Stakes
    BY <1>3 DEF Executes, Accepted
  <2>2. recovered' \in [Legacy -> Nat] /\ RecoveredOnce'
    BY <2>0, <2>1 DEF ChainInv, RecoveredOnce
  <2> QED
    BY <1>3, <2>0, <2>2 DEF ChainInv
<1>4. CASE tx.op = "set_season" /\ set_season(tx.of)
  BY <1>4 DEF set_season, ChainInv, RecoveredOnce, TxNames
<1> QED
  BY <1>1, <1>2, <1>3, <1>4 DEF Executes

\* Minters, stakers and the holder of the authority keep the chain in order.
LEMMA OthersKeepChain ==
    ASSUME ChainInv, OthersMove
    PROVE  ChainInv' /\ minted \subseteq minted' /\ withMetadata \subseteq withMetadata'
           /\ season' = season
<1>1. ASSUME NEW k, NEW l, transfer_authority(k, l) PROVE ChainInv' /\ UNCHANGED <<minted, withMetadata, season>>
  BY <1>1 DEF transfer_authority, ChainInv, RecoveredOnce
<1>2. ASSUME NEW m \in Gumballs, MintOne(m)
      PROVE  ChainInv' /\ minted \subseteq minted' /\ UNCHANGED <<withMetadata, season>>
  BY <1>2 DEF MintOne, ChainInv, RecoveredOnce
<1>3. ASSUME NEW m \in Gumballs, attach_metadata(m)
      PROVE  ChainInv' /\ withMetadata \subseteq withMetadata' /\ UNCHANGED <<minted, season>>
  <2>1. m \in minted
    BY <1>3 DEF attach_metadata, MayAttach
  <2> QED
    BY <1>3, <2>1 DEF attach_metadata, ChainInv, RecoveredOnce
<1>4. ASSUME NEW s \in Streams, FeeArrives(s) \/ StakersChange(s)
      PROVE  ChainInv' /\ UNCHANGED <<minted, withMetadata, season>>
  <2>1. PICK w \in 0..1, x \in Nat, e \in Nat :
          /\ xntPools' = [xntPools EXCEPT ![s] = [weight |-> w, xnt |-> x, earned |-> e]]
          /\ e <= x /\ (w = 0 => e = 0)
    <3>1. /\ xntPools[s].weight \in 0..1 /\ xntPools[s].xnt \in Nat /\ xntPools[s].earned \in Nat
          /\ xntPools[s].earned <= xntPools[s].xnt
          /\ xntPools[s].weight = 0 => xntPools[s].earned = 0
      BY DEF ChainInv
    <3>2. CASE FeeArrives(s)
      <4>1. xntPools[s].weight = 1
            => xntPools' = [xntPools EXCEPT ![s] = [weight |-> 1, xnt |-> xntPools[s].xnt + 1,
                                                    earned |-> xntPools[s].earned + 1]]
        BY <3>1, <3>2 DEF FeeArrives, Pool
      <4>2. xntPools[s].weight = 0
            => xntPools' = [xntPools EXCEPT ![s] = [weight |-> 0, xnt |-> xntPools[s].xnt + 1,
                                                    earned |-> 0]]
        <5>1. SUFFICES ASSUME xntPools[s].weight = 0
                       PROVE  xntPools' = [xntPools EXCEPT ![s] =
                                [weight |-> 0, xnt |-> xntPools[s].xnt + 1, earned |-> 0]]
          OBVIOUS
        <5>2. ~(xntPools[s].weight > 0) /\ xntPools[s].earned = 0
          BY <3>1, <5>1
        <5> QED
          BY <3>2, <5>1, <5>2 DEF FeeArrives, Pool
      <4> QED
        BY <3>1, <4>1, <4>2
    <3>3. CASE StakersChange(s)
      <4>1. xntPools[s].weight = 0
            => xntPools' = [xntPools EXCEPT ![s] = [weight |-> 1, xnt |-> xntPools[s].xnt,
                                                    earned |-> 0]]
        BY <3>1, <3>3 DEF StakersChange, Pool
      <4>2. xntPools[s].weight = 1
            => xntPools' = [xntPools EXCEPT ![s] =
                              [weight |-> 0, xnt |-> xntPools[s].xnt - xntPools[s].earned,
                               earned |-> 0]]
        BY <3>1, <3>3 DEF StakersChange, Pool
      <4>3. xntPools[s].xnt - xntPools[s].earned \in Nat
        BY <3>1
      <4> QED
        BY <3>1, <4>1, <4>2, <4>3
    <3> QED
      BY <1>4, <3>2, <3>3
  <2>2. xntPools' \in [Streams -> [weight : 0..1, xnt : Nat, earned : Nat]]
    BY <2>1 DEF ChainInv
  <2>3. ASSUME NEW t \in Streams
        PROVE  /\ xntPools'[t].earned <= xntPools'[t].xnt
               /\ xntPools'[t].weight = 0 => xntPools'[t].earned = 0
    BY <2>1 DEF ChainInv
  <2>4. UNCHANGED <<minted, withMetadata, v1Stakes, recovered, treasuryPaid, season>>
    BY <1>4 DEF FeeArrives, StakersChange
  <2> QED
    BY <2>2, <2>3, <2>4 DEF ChainInv, RecoveredOnce
<1> QED
  BY <1>1, <1>2, <1>3, <1>4 DEF OthersMove

\* A chain on which more was minted and attached leaves the run as true as it was.
LEMMA RunOnAnotherChain ==
    ASSUME RunInv, minted \subseteq minted', withMetadata \subseteq withMetadata',
           upkeep' = upkeep
    PROVE  RunInv'
<1>1. CountsAreTrue'
  BY DEF RunInv, CountsAreTrue
<1>2. TxNames(upkeep.tx)'
  BY DEF RunInv, TxNames
<1> QED
  BY <1>1, <1>2 DEF RunInv

\* The steps of a run.
LEMMA StartIsTrue ==
    ASSUME UpkeepInv, AttachMetadata \/ SweepPools \/ RecoverLegacy \/ SetSeason
    PROVE  UpkeepInv'
<1>1. PICK run :
        /\ StartUpkeep(run)
        /\ \/ \E items, idle, treasury :
                /\ run = Listing("attach-metadata", items, idle, treasury)
                /\ items \subseteq minted \cup {Foreign}
           \/ \E items, idle, treasury :
                /\ run = Listing("sweep-xnt-pool", items, idle, treasury)
                /\ items \subseteq Streams
           \/ \E items, idle, treasury :
                /\ run = Listing("recover-legacy-stake", items, idle, treasury)
                /\ items \subseteq Legacy
           \/ \E s \in {0, runs + 1} :
                run = [script |-> "set-season", listed |-> {s}, todo |-> {}, idle |-> {},
                       treasury |-> WALLET,
                       tx |-> [op |-> "set_season", of |-> s, treasury |-> WALLET],
                       done |-> 0, skipped |-> 0, failed |-> 0]
  <2>1. CASE AttachMetadata
    <3>1. PICK items \in {minted} \cup {{m} : m \in minted \cup {Foreign}} :
            StartUpkeep(Listing("attach-metadata", items, {}, WALLET))
      BY <2>1 DEF AttachMetadata
    <3> QED
      BY <3>1
  <2>2. CASE SweepPools
    BY <2>2 DEF SweepPools
  <2>3. CASE RecoverLegacy
    BY <2>3 DEF RecoverLegacy, UpkeepInv, ChainInv
  <2>4. CASE SetSeason
    BY <2>4 DEF SetSeason
  <2> QED
    BY <2>1, <2>2, <2>3, <2>4
<1>2. /\ upkeep' = run /\ runs < MaxRuns /\ runs' = runs + 1
      /\ UNCHANGED <<minted, withMetadata, v1Stakes, recovered, xntPools, machineKeys,
                     treasuryPaid, season, seasonConfirmed, upkeepLate, upkeepFaults>>
  BY <1>1 DEF StartUpkeep, chainVars
<1>3. ChainInv'
  BY <1>2 DEF UpkeepInv, ChainInv, RecoveredOnce
<1>4. GivenUpInv'
  BY <1>2, UpkeepAssumption DEF UpkeepInv, GivenUpInv, SeasonAsConfirmed, TxNames
<1>5. ASSUME NEW items, NEW idle, NEW treasury, NEW script,
             run = Listing(script, items, idle, treasury), IsFiniteSet(items),
             script = "attach-metadata" => items \subseteq minted \cup {Foreign},
             script = "sweep-xnt-pool" => items \subseteq Streams
      PROVE  RunInv'
  <2>1. /\ upkeep'.script = script /\ upkeep'.listed = items /\ upkeep'.todo = items
        /\ upkeep'.tx = NoSend /\ upkeep'.done = 0 /\ upkeep'.skipped = 0 /\ upkeep'.failed = 0
    BY <1>2, <1>5 DEF Listing
  <2>2. Cardinality(items) \in Nat
    BY <1>5, FS_CardinalityType
  <2>3. CountsAreTrue'
    BY <2>1, <2>2 DEF CountsAreTrue
  <2>4. TxNames(upkeep'.tx)
    BY <2>1 DEF TxNames, NoSend
  <2> QED
    BY <1>2, <1>5, <2>1, <2>3, <2>4 DEF RunInv, TxNames
<1>6. ASSUME NEW s \in {0, runs + 1},
             run = [script |-> "set-season", listed |-> {s}, todo |-> {}, idle |-> {},
                    treasury |-> WALLET,
                    tx |-> [op |-> "set_season", of |-> s, treasury |-> WALLET],
                    done |-> 0, skipped |-> 0, failed |-> 0]
      PROVE  RunInv'
  <2>1. /\ upkeep'.script = "set-season" /\ upkeep'.listed = {s} /\ upkeep'.todo = {}
        /\ upkeep'.tx.op = "set_season" /\ upkeep'.tx.of = s
        /\ upkeep'.done = 0 /\ upkeep'.skipped = 0 /\ upkeep'.failed = 0
    BY <1>2, <1>6
  <2>2. Cardinality({s}) = 1 /\ IsFiniteSet({s}) /\ Cardinality({}) = 0
    BY FS_Singleton, FS_EmptySet
  <2>3. upkeep'.tx # NoSend
    BY <2>1 DEF NoSend
  <2>4. CountsAreTrue'
    BY <2>1, <2>2, <2>3 DEF CountsAreTrue
  <2>5. s \in Seasons
    BY <1>2, <1>6, UpkeepAssumption DEF UpkeepInv, GivenUpInv, Seasons
  <2>6. TxNames(upkeep'.tx)
    BY <2>1, <2>5 DEF TxNames
  <2> QED
    BY <2>1, <2>2, <2>4, <2>6 DEF RunInv, TxNames
<1>7. RunInv'
  <2>1. ASSUME NEW S, S \subseteq minted \cup {Foreign} \/ S \subseteq Streams \/ S \subseteq Legacy
        PROVE  IsFiniteSet(S)
    <3>1. minted \subseteq Gumballs
      BY DEF UpkeepInv, ChainInv
    <3>2. IsFiniteSet(Gumballs \cup {Foreign})
      BY FS_AddElement, UpkeepAssumption
    <3>3. S \subseteq Gumballs \cup {Foreign} \/ S \subseteq Streams \/ S \subseteq Legacy
      BY <2>1, <3>1
    <3> QED
      BY <3>2, <3>3, FS_Subset, UpkeepAssumption
  <2>2. CASE \E items, idle, treasury :
                /\ run = Listing("attach-metadata", items, idle, treasury)
                /\ items \subseteq minted \cup {Foreign}
    BY <1>5, <2>1, <2>2
  <2>3. CASE \E items, idle, treasury :
                /\ run = Listing("sweep-xnt-pool", items, idle, treasury)
                /\ items \subseteq Streams
    BY <1>5, <2>1, <2>3
  <2>4. CASE \E items, idle, treasury :
                /\ run = Listing("recover-legacy-stake", items, idle, treasury)
                /\ items \subseteq Legacy
    BY <1>5, <2>1, <2>4
  <2> QED
    BY <1>1, <1>6, <2>2, <2>3, <2>4
<1> QED
  BY <1>3, <1>4, <1>7 DEF UpkeepInv

\* How a run goes on leaves what it is about alone.
LEMMA RunGoesOn ==
    ASSUME NEW todo, NEW tx, NEW done, NEW skipped, NEW failed,
           upkeep' = GoesOn(todo, tx, done, skipped, failed)
    PROVE  /\ upkeep'.script = upkeep.script /\ upkeep'.listed = upkeep.listed
           /\ upkeep'.todo = todo /\ upkeep'.tx = tx
           /\ upkeep'.done = done /\ upkeep'.skipped = skipped /\ upkeep'.failed = failed
BY DEF GoesOn

\* The items of a run, and those it still has to deal with, are counted.
LEMMA ItemsAreCounted ==
    ASSUME RunInv
    PROVE  /\ IsFiniteSet(upkeep.todo)
           /\ Cardinality(upkeep.listed) \in Nat /\ Cardinality(upkeep.todo) \in Nat
           /\ \A item \in upkeep.todo :
                Cardinality(upkeep.todo \ {item}) = Cardinality(upkeep.todo) - 1
<1>1. IsFiniteSet(upkeep.listed) /\ upkeep.todo \subseteq upkeep.listed
  BY DEF RunInv
<1>2. IsFiniteSet(upkeep.todo)
  BY <1>1, FS_Subset
<1> QED
  BY <1>1, <1>2, FS_CardinalityType, FS_RemoveElement

LEMMA NextItemIsTrue ==
    ASSUME UpkeepInv, NEW item \in upkeep.todo, NextItem(item)
    PROVE  UpkeepInv'
<1>1. /\ UNCHANGED <<minted, withMetadata, v1Stakes, recovered, xntPools, machineKeys,
                     treasuryPaid, season, seasonConfirmed, upkeepLate, runs, upkeepFaults>>
      /\ upkeep.tx = NoSend /\ item \in upkeep.listed
  BY DEF NextItem, chainVars, UpkeepInv, RunInv
<1>2. ChainInv' /\ GivenUpInv'
  BY <1>1 DEF UpkeepInv, ChainInv, RecoveredOnce, GivenUpInv, SeasonAsConfirmed, TxNames
<1>c. /\ Cardinality(upkeep.listed) \in Nat /\ Cardinality(upkeep.todo) \in Nat
      /\ Cardinality(upkeep.todo \ {item}) = Cardinality(upkeep.todo) - 1
  BY ItemsAreCounted DEF UpkeepInv
<1>n. /\ upkeep.done \in Nat /\ upkeep.skipped \in Nat /\ upkeep.failed \in Nat
      /\ upkeep.done + upkeep.skipped + upkeep.failed
           = Cardinality(upkeep.listed) - Cardinality(upkeep.todo)
      /\ upkeep.script = "attach-metadata" /\ upkeep.failed = 0
           => (upkeep.listed \ upkeep.todo) \ {Foreign} \subseteq withMetadata
  <2>1. NoSend.of = Foreign
    BY DEF NoSend
  <2> QED
    BY <1>1, <1>c, <2>1 DEF UpkeepInv, RunInv, CountsAreTrue
<1>3. CASE NeedsNothing(item)
  <2>1. /\ upkeep'.script = upkeep.script /\ upkeep'.listed = upkeep.listed
        /\ upkeep'.todo = upkeep.todo \ {item} /\ upkeep'.tx = NoSend
        /\ upkeep'.done = upkeep.done /\ upkeep'.skipped = upkeep.skipped + 1
        /\ upkeep'.failed = upkeep.failed
    BY <1>3, RunGoesOn DEF NextItem
  <2>2. (upkeep.done + upkeep.skipped + upkeep.failed
           = Cardinality(upkeep.listed) - Cardinality(upkeep.todo)
               - (IF upkeep.tx = NoSend THEN 0 ELSE 1))'
    BY <2>1, <1>c, <1>n
  <2>3. (upkeep.script = "attach-metadata" /\ upkeep.failed = 0
         => (upkeep.listed \ (upkeep.todo \cup {upkeep.tx.of})) \ {Foreign} \subseteq withMetadata)'
    <3>1. upkeep.script = "attach-metadata" => item \notin minted \/ item \in withMetadata
      BY <1>3 DEF NeedsNothing
    <3>2. upkeep.script = "attach-metadata" => item = Foreign \/ item \in withMetadata
      BY <1>1, <3>1 DEF UpkeepInv, RunInv
    <3> QED
      BY <1>1, <1>n, <2>1, <3>2
  <2>4. CountsAreTrue'
    BY <2>2, <2>3 DEF CountsAreTrue
  <2>5. TxNames(NoSend)
    BY DEF TxNames, NoSend
  <2> QED
    BY <1>1, <1>2, <1>n, <2>1, <2>4, <2>5 DEF UpkeepInv, RunInv, TxNames
<1>4. CASE ~NeedsNothing(item)
  <2>1. /\ upkeep'.script = upkeep.script /\ upkeep'.listed = upkeep.listed
        /\ upkeep'.todo = upkeep.todo \ {item} /\ upkeep'.tx = Sending(item)
        /\ upkeep'.done = upkeep.done /\ upkeep'.skipped = upkeep.skipped
        /\ upkeep'.failed = upkeep.failed
    BY <1>4, RunGoesOn DEF NextItem
  <2>2. Sending(item).op = Instruction /\ Sending(item).of = item
    BY DEF Sending
  <2>3. /\ upkeep.script = "attach-metadata" => Instruction = "attach_metadata"
        /\ Instruction = "sweep_xnt_pool" => upkeep.script = "sweep-xnt-pool"
        /\ Instruction # "none" /\ Instruction # "set_season"
    BY DEF Instruction
  <2>4. Sending(item) # NoSend
    BY <2>2, <2>3 DEF NoSend
  <2>5. (upkeep.done + upkeep.skipped + upkeep.failed
           = Cardinality(upkeep.listed) - Cardinality(upkeep.todo)
               - (IF upkeep.tx = NoSend THEN 0 ELSE 1))'
    BY <2>1, <2>4, <1>c, <1>n
  <2>6. (upkeep.script = "attach-metadata" /\ upkeep.failed = 0
         => (upkeep.listed \ (upkeep.todo \cup {upkeep.tx.of})) \ {Foreign} \subseteq withMetadata)'
    BY <1>1, <1>n, <2>1, <2>2
  <2>7. CountsAreTrue'
    BY <2>5, <2>6 DEF CountsAreTrue
  <2>8. TxNames(Sending(item))
    BY <1>1, <2>2, <2>3 DEF TxNames, UpkeepInv, RunInv
  <2> QED
    BY <1>1, <1>2, <1>n, <2>1, <2>2, <2>3, <2>7, <2>8 DEF UpkeepInv, RunInv, TxNames
<1> QED
  BY <1>3, <1>4

\* A run whose transaction is over counts it, as done or as failed.
LEMMA ItemIsCounted ==
    ASSUME RunInv, upkeep.tx # NoSend, minted' = minted, withMetadata \subseteq withMetadata',
           NEW done \in Nat, NEW failed \in Nat,
           upkeep' = GoesOn(upkeep.todo, NoSend, done, upkeep.skipped, failed),
           \/ done = upkeep.done /\ failed = upkeep.failed + 1
           \/ /\ done = upkeep.done + 1 /\ failed = upkeep.failed
              /\ upkeep.tx.op = "attach_metadata" => upkeep.tx.of \in withMetadata'
    PROVE  RunInv'
<1>1. /\ upkeep'.script = upkeep.script /\ upkeep'.listed = upkeep.listed
      /\ upkeep'.todo = upkeep.todo /\ upkeep'.tx = NoSend
      /\ upkeep'.done = done /\ upkeep'.skipped = upkeep.skipped
      /\ upkeep'.failed = failed
  BY RunGoesOn
<1>2. /\ upkeep.done \in Nat /\ upkeep.skipped \in Nat /\ upkeep.failed \in Nat
      /\ Cardinality(upkeep.listed) \in Nat /\ Cardinality(upkeep.todo) \in Nat
  BY ItemsAreCounted DEF RunInv
<1>3. upkeep.done + upkeep.skipped + upkeep.failed
        = Cardinality(upkeep.listed) - Cardinality(upkeep.todo) - 1
  BY DEF RunInv, CountsAreTrue
<1>4. (upkeep.done + upkeep.skipped + upkeep.failed
           = Cardinality(upkeep.listed) - Cardinality(upkeep.todo)
               - (IF upkeep.tx = NoSend THEN 0 ELSE 1))'
  BY <1>1, <1>2, <1>3
<1>5. (upkeep.script = "attach-metadata" /\ upkeep.failed = 0
       => (upkeep.listed \ (upkeep.todo \cup {upkeep.tx.of})) \ {Foreign} \subseteq withMetadata)'
  <2>1. SUFFICES ASSUME upkeep.script = "attach-metadata", failed = 0
                 PROVE  (upkeep.listed \ upkeep.todo) \ {Foreign} \subseteq withMetadata'
    BY <1>1
  <2>2. failed = upkeep.failed /\ upkeep.failed = 0
    BY <2>1, <1>2
  <2>3. upkeep.tx.of \in withMetadata'
    BY <2>1, <2>2, <1>2 DEF RunInv
  <2>4. (upkeep.listed \ (upkeep.todo \cup {upkeep.tx.of})) \ {Foreign} \subseteq withMetadata
    BY <2>1, <2>2 DEF RunInv, CountsAreTrue
  <2> QED
    BY <2>3, <2>4
<1>6. CountsAreTrue'
  BY <1>4, <1>5 DEF CountsAreTrue
<1>7. TxNames(NoSend)
  BY DEF TxNames, NoSend
<1> QED
  BY <1>1, <1>2, <1>6, <1>7 DEF RunInv, TxNames

LEMMA ConfirmedIsTrue ==
    ASSUME UpkeepInv, ItemConfirmed
    PROVE  UpkeepInv'
<1>1. /\ Executes(upkeep.tx) /\ TxNames(upkeep.tx)
      /\ UNCHANGED <<upkeepLate, runs, upkeepFaults>>
      /\ upkeep' = GoesOn(upkeep.todo, NoSend, upkeep.done + 1, upkeep.skipped, upkeep.failed)
      /\ seasonConfirmed' = IF upkeep.tx.op = "set_season" THEN upkeep.tx.of ELSE seasonConfirmed
  BY DEF ItemConfirmed, UpkeepInv, RunInv
<1>2. upkeep.tx # NoSend
  BY <1>1 DEF Executes, Accepted, NoSend
<1>3. /\ ChainInv' /\ minted' = minted /\ withMetadata \subseteq withMetadata'
      /\ upkeep.tx.op = "attach_metadata" => upkeep.tx.of \in withMetadata'
      /\ season' = IF upkeep.tx.op = "set_season" THEN upkeep.tx.of ELSE season
  BY <1>1, ExecutionKeepsChain DEF UpkeepInv
<1>4. GivenUpInv'
  BY <1>1, <1>3 DEF UpkeepInv, GivenUpInv, SeasonAsConfirmed, TxNames
<1>5. RunInv'
  BY <1>1, <1>2, <1>3, ItemIsCounted DEF UpkeepInv, RunInv
<1> QED
  BY <1>3, <1>4, <1>5 DEF UpkeepInv

LEMMA FailedIsTrue ==
    ASSUME UpkeepInv, ItemFails
    PROVE  UpkeepInv'
<1>1. /\ UNCHANGED <<minted, withMetadata, v1Stakes, recovered, xntPools, machineKeys,
                     treasuryPaid, season, seasonConfirmed, runs>>
      /\ upkeep.tx # NoSend /\ TxNames(upkeep.tx)
      /\ upkeep' = GoesOn(upkeep.todo, NoSend, upkeep.done, upkeep.skipped, upkeep.failed + 1)
  BY DEF ItemFails, chainVars, UpkeepInv, RunInv
<1>2. ChainInv'
  BY <1>1 DEF UpkeepInv, ChainInv, RecoveredOnce
<1>3. /\ \/ upkeepLate' = upkeepLate /\ upkeepFaults' = upkeepFaults
         \/ upkeepFaults' = upkeepFaults + 1
      /\ upkeepLate' \in {upkeepLate, upkeepLate \cup {upkeep.tx}}
  BY DEF ItemFails
<1>4. GivenUpInv'
  BY <1>1, <1>3 DEF UpkeepInv, GivenUpInv, SeasonAsConfirmed, TxNames
<1>5. RunInv'
  BY <1>1, ItemIsCounted DEF UpkeepInv, RunInv
<1> QED
  BY <1>2, <1>4, <1>5 DEF UpkeepInv

LEMMA EndIsTrue ==
    ASSUME UpkeepInv, UpkeepEnds
    PROVE  UpkeepInv'
<1>1. /\ UNCHANGED <<minted, withMetadata, v1Stakes, recovered, xntPools, machineKeys,
                     treasuryPaid, season, seasonConfirmed, upkeepLate, runs, upkeepFaults>>
      /\ upkeep' = NoRun
  BY DEF UpkeepEnds, chainVars
<1>2. ChainInv' /\ GivenUpInv'
  BY <1>1 DEF UpkeepInv, ChainInv, RecoveredOnce, GivenUpInv, SeasonAsConfirmed, TxNames
<1>3. /\ upkeep'.listed = {} /\ upkeep'.todo = {} /\ upkeep'.tx = NoSend /\ upkeep'.script = "none"
      /\ upkeep'.done = 0 /\ upkeep'.skipped = 0 /\ upkeep'.failed = 0
  BY <1>1 DEF NoRun
<1>4. IsFiniteSet({}) /\ Cardinality({}) = 0
  BY FS_EmptySet
<1>5. CountsAreTrue'
  BY <1>3, <1>4 DEF CountsAreTrue
<1>6. TxNames(NoSend)
  BY DEF TxNames, NoSend
<1> QED
  BY <1>2, <1>3, <1>4, <1>5, <1>6 DEF UpkeepInv, RunInv, TxNames

LEMMA LateIsTrue ==
    ASSUME UpkeepInv, NEW tx \in upkeepLate, ItemLandsLate(tx)
    PROVE  UpkeepInv'
<1>1. /\ Executes(tx) /\ TxNames(tx) /\ upkeepFaults # 0
      /\ upkeepLate' = upkeepLate \ {tx}
      /\ UNCHANGED <<seasonConfirmed, upkeep, runs, upkeepFaults>>
  BY DEF ItemLandsLate, UpkeepInv, GivenUpInv
<1>2. ChainInv' /\ minted' = minted /\ withMetadata \subseteq withMetadata'
  BY <1>1, ExecutionKeepsChain DEF UpkeepInv
<1>3. RunInv'
  BY <1>1, <1>2, RunOnAnotherChain DEF UpkeepInv
<1>4. GivenUpInv'
  BY <1>1 DEF UpkeepInv, GivenUpInv, SeasonAsConfirmed, TxNames
<1> QED
  BY <1>2, <1>3, <1>4 DEF UpkeepInv

LEMMA UpkeepStays == UpkeepInv /\ [UpkeepNext]_upkeepVars => UpkeepInv'
<1> SUFFICES ASSUME UpkeepInv, [UpkeepNext]_upkeepVars PROVE UpkeepInv'
  OBVIOUS
<1>1. CASE OthersMove
  <2>1. ChainInv' /\ minted \subseteq minted' /\ withMetadata \subseteq withMetadata'
        /\ season' = season
    BY <1>1, OthersKeepChain DEF UpkeepInv
  <2>2. UNCHANGED <<seasonConfirmed, upkeep, upkeepLate, runs, upkeepFaults>>
    BY <1>1 DEF OthersMove
  <2>3. RunInv'
    BY <2>1, <2>2, RunOnAnotherChain DEF UpkeepInv
  <2>4. GivenUpInv'
    BY <2>1, <2>2 DEF UpkeepInv, GivenUpInv, SeasonAsConfirmed, TxNames
  <2> QED
    BY <2>1, <2>3, <2>4 DEF UpkeepInv
<1>2. CASE UNCHANGED upkeepVars
  <2>1. /\ UNCHANGED <<minted, withMetadata, v1Stakes, recovered, xntPools, machineKeys,
                       treasuryPaid, season>>
        /\ UNCHANGED <<seasonConfirmed, upkeep, upkeepLate, runs, upkeepFaults>>
    BY <1>2 DEF upkeepVars, chainVars
  <2>2. ChainInv' /\ GivenUpInv'
    BY <2>1 DEF UpkeepInv, ChainInv, RecoveredOnce, GivenUpInv, SeasonAsConfirmed, TxNames
  <2>3. RunInv'
    BY <2>1, RunOnAnotherChain DEF UpkeepInv
  <2> QED
    BY <2>2, <2>3 DEF UpkeepInv
<1> QED
  BY <1>1, <1>2, StartIsTrue, NextItemIsTrue, ConfirmedIsTrue, FailedIsTrue, EndIsTrue, LateIsTrue
  DEF UpkeepNext

\* Whatever fails or lands late between two steps, and whatever other keys
\* move meanwhile: attach-metadata.cjs counts every gumball once and truly,
\* sweep-xnt-pool.cjs takes nothing that a staker has earned, a version-1 NFT
\* leaves its vault once, and the season is the one last confirmed unless a
\* transaction of set-season.cjs was given up.
THEOREM UpkeepDoesWhatItReports == UpkeepSpec => []UpkeepSafe
<1>1. UpkeepInit => UpkeepInv
  BY UpkeepStarts
<1>2. UpkeepInv /\ [UpkeepNext]_upkeepVars => UpkeepInv'
  BY UpkeepStays
<1>3. UpkeepInv => UpkeepSafe
  BY UpkeepInvIsEnough
<1> QED
  BY <1>1, <1>2, <1>3, PTL DEF UpkeepSpec

-----------------------------------------------------------------------------
(* The scripts that set the system up.                                     *)

TxOps == {"none", "create_gum", "initialize_machine", "set_oracle", "set_active",
          "initialize_staking", "fund_nft", "fund_lp", "initialize_xnt_fees", "make_wsol",
          "add_wsol", "create_pool", "withdraw", "make_wsol_and_withdraw", "close_wsol"}

\* What is on the chain: a mint that exists was generated, a pool
\* takes its GUM from what the wallet got, and there is one for the mint of
\* the rewards at most.
AccountsInv ==
    /\ machine \in {"absent", "small", "ready"}
    /\ generated \in Nat /\ generated <= MaxMints /\ keyFile \in 0..generated
    /\ mints \subseteq 1..generated
    /\ stakeMint \in mints \cup {NoMint}
    /\ lp \subseteq pools /\ pools \subseteq mints /\ pools \subseteq {stakeMint}
    /\ wallet \in [GumMints -> Nat]
    /\ \A g \in GumMints : wallet[g] + (IF g \in lp THEN INIT_GUM ELSE 0) <= SUPPLY
    /\ nftVault \in Nat /\ lpVault \in Nat
    /\ wsol.kind \in {"absent", "system", "token"} /\ wsol.amount \in Nat

\* What a transaction that may still land was sent for, when gen mints have
\* keys, stake is the mint of the rewards and made the mints with a pool.
TxFits(tx, gen, stake, made) ==
    /\ tx.op \in TxOps /\ tx.amount \in Nat
    /\ tx.op = "create_gum" => tx.gum \in 1..gen
    /\ tx.op \in {"fund_nft", "fund_lp"} => tx.gum \in GumMints
    /\ tx.op = "create_pool" => tx.gum = stake /\ stake # NoMint
    /\ tx.op = "close_wsol" => tx.gum \in made

\* Where a thread waits for which transaction.
WaitFits(th) ==
    /\ th.tx.op = "none" => th.tx = NoTx
    /\ th.tx.op = "create_gum" => th.script = "create-gum-token" /\ th.pc = "end"
    /\ th.tx.op = "initialize_machine" => th.script = "initialize" /\ th.pc = "oracle"
    /\ th.tx.op = "set_oracle" => th.script = "initialize" /\ th.pc = "activate"
    /\ th.tx.op = "set_active" => th.script = "initialize" /\ th.pc = "end"
    /\ th.tx.op = "initialize_staking" => th.script = "init-staking" /\ th.pc = "nft"
    /\ th.tx.op = "fund_nft" => th.script = "init-staking" /\ th.pc = "lp"
    /\ th.tx.op = "fund_lp" => th.script = "init-staking" /\ th.pc = "end"
    /\ th.tx.op = "initialize_xnt_fees" => th.script = "init-xnt-fees" /\ th.pc = "end"
    /\ th.tx.op \in {"make_wsol", "add_wsol"} =>
         th.script = "create-pool" /\ th.pc \in {"create", "recheck"}
    /\ th.tx.op = "create_pool" => th.script = "create-pool" /\ th.pc = "end"
    /\ th.tx.op \in {"withdraw", "make_wsol_and_withdraw"} =>
         th.script = "withdraw-pool" /\ th.pc = "unwrap"
    /\ th.tx.op = "close_wsol" => th.script = "withdraw-pool" /\ th.pc = "end"

\* The WSOL account holds what the pool takes, or there is the pool.
Covered(gum, more, made, account) ==
    gum \in made \/ (account.kind = "token" /\ account.amount + more >= INIT_XNT)

\* What create-pool knows once it has checked the mint, and withdraw-pool once
\* it has read the LP tokens.
GumFits(th, stake, made) ==
    /\ th.script \in {"init-staking", "init-xnt-fees", "create-pool", "withdraw-pool"}
         => th.gum \in GumMints
    /\ th.script = "create-pool" /\ th.pc \in {"wsol", "sync", "recheck", "create"}
         => th.gum = stake /\ stake # NoMint
    /\ th.script = "withdraw-pool" /\ th.pc \in {"unwrap", "end"} => th.gum \in made

\* What each step of create-pool leaves in the WSOL account.
WsolFits(th, made, account) ==
    th.script = "create-pool" =>
      /\ th.pc = "create" /\ th.tx = NoTx => Covered(th.gum, 0, made, account)
      /\ th.pc = "create" /\ th.tx.op = "make_wsol" => th.tx.amount >= INIT_XNT
      /\ th.pc = "create" /\ th.tx.op = "add_wsol" => Covered(th.gum, th.tx.amount, made, account)
      /\ th.pc = "recheck" /\ th.tx = NoTx => account.kind = "token" \/ th.gum \in made

ThreadFits(th, gen, stake, made, account) ==
    /\ th.script \in Scripts \cup {"none"}
    /\ TxFits(th.tx, gen, stake, made)
    /\ WaitFits(th)
    /\ GumFits(th, stake, made)
    /\ WsolFits(th, made, account)

ThreadsInv ==
    /\ threads = [t \in Threads |-> threads[t]]
    /\ \A t \in Threads : ThreadFits(threads[t], generated, stakeMint, pools, wsol)
    /\ threads[2].script \in {"none", "initialize"}

\* Waits that were given up are counted.
LateInv ==
    /\ IsFiniteSet(late) /\ Cardinality(late) <= deployFaults
    /\ deployFaults \in Nat /\ deployFaults <= MaxDeployFaults
    /\ launches \in Nat /\ launches <= MaxLaunches
    /\ \A l \in late : TxFits(l.tx, generated, stakeMint, pools)

\* Transfers to a vault that may still land: tx is what is awaited, given_up
\* what is not waited for any more.
Funding(op, given_up, tx) ==
    Cardinality({l \in given_up : l.tx.op = op}) + (IF tx.op = op THEN 1 ELSE 0)

\* A vault was funded some number of times, and may be funded so many times
\* more, in all once and once for each wait that was given up.
FundedOnce(vault, fund, op, given_up, tx, given) ==
    \E k \in Nat : vault = fund * k /\ k + Funding(op, given_up, tx) <= 1 + given

FundInv ==
    /\ FundedOnce(nftVault, NFT_FUND, "fund_nft", late, threads[1].tx, deployFaults)
    /\ FundedOnce(lpVault, LP_FUND, "fund_lp", late, threads[1].tx, deployFaults)

\* A thread of initialize.cjs that will open the machine.
Opens(th) ==
    /\ th.script = "initialize"
    /\ \/ th.pc = "oracle" /\ th.tx = NoTx
       \/ th.pc = "activate"
       \/ th.pc = "end" /\ th.tx.op = "set_active"

OpenInv ==
    deployFaults = 0 /\ machine = "ready" /\ ~active => \E t \in Threads : Opens(threads[t])

DeployInv ==
    /\ AccountsInv
    /\ ThreadsInv
    /\ LateInv
    /\ FundInv
    /\ OpenInv

\* What the assumptions say of the amounts.
LEMMA DeployNumbers ==
    /\ MaxMints \in Nat /\ 0 < MaxMints /\ SUPPLY \in Nat
    /\ NFT_FUND \in Nat /\ 0 < NFT_FUND /\ LP_FUND \in Nat /\ 0 < LP_FUND
    /\ INIT_GUM \in Nat /\ 0 < INIT_GUM /\ INIT_XNT \in Nat /\ 0 < INIT_XNT
    /\ BUFFER \in Nat /\ RENT \in Nat /\ MaxLaunches \in Nat /\ MaxDeployFaults \in Nat
    /\ INIT_GUM <= SUPPLY
  BY DeployAssumption

LEMMA IdleFits ==
    ASSUME NEW gen, NEW stake, NEW made, NEW account
    PROVE  /\ ThreadFits(IdleThread, gen, stake, made, account)
           /\ IdleThread.script = "none" /\ IdleThread.tx = NoTx /\ NoTx.op = "none"
<1>1. /\ IdleThread.script = "none" /\ IdleThread.pc = "idle" /\ IdleThread.gum = NoMint
      /\ IdleThread.tx = NoTx /\ NoTx.op = "none" /\ NoTx.amount = 0
  BY DEF IdleThread, Thread, NoTx
<1> QED
  BY <1>1 DEF ThreadFits, TxFits, TxOps, WaitFits, GumFits, WsolFits

\* A vault funded k times holds k transfers; one that is empty got none.
LEMMA EmptyVault ==
    ASSUME NEW fund \in Nat, 0 < fund, NEW k \in Nat, fund * k = 0
    PROVE  k = 0
<1>1. CASE k > 0
  <2>1. PICK j \in Nat : k = j + 1
    <3>1. k - 1 \in Nat /\ k = (k - 1) + 1
      BY <1>1
    <3> QED
      BY <3>1
  <2>2. PICK p \in Nat : p = fund * j
    OBVIOUS
  <2>3. fund * k = p + fund
    BY <2>1, <2>2
  <2> QED
    BY <2>3
<1> QED
  BY <1>1

LEMMA DeployStarts == DeployInit => DeployInv
<1> SUFFICES ASSUME DeployInit PROVE DeployInv
  OBVIOUS
<1>1. wsol.kind \in {"absent", "system", "token"} /\ wsol.amount \in Nat
  <2>1. CASE wsol = [kind |-> "absent", amount |-> 0]
    BY <2>1
  <2>2. CASE wsol \in [kind : {"system"}, amount : RENT..(RENT + INIT_XNT)]
    BY <2>2, DeployNumbers
  <2> QED
    BY <2>1, <2>2 DEF DeployInit
<1>2. AccountsInv
  BY <1>1, DeployNumbers DEF DeployInit, AccountsInv, GumMints, NoMint
<1>3. threads = [t \in Threads |-> IdleThread] /\ late = {} /\ deployFaults = 0 /\ launches = 0
  BY DEF DeployInit
<1>4. \A t \in Threads : threads[t] = IdleThread
  BY <1>3
<1>5. ThreadsInv
  <2>1. 2 \in Threads
    BY DEF Threads
  <2> QED
    BY <1>3, <1>4, <2>1, IdleFits DEF ThreadsInv
<1>6. IsFiniteSet({}) /\ Cardinality({}) = 0
  BY FS_EmptySet
<1>7. LateInv
  BY <1>3, <1>6, DeployNumbers DEF LateInv
<1>8. ASSUME NEW op \in {"fund_nft", "fund_lp"}
      PROVE  Funding(op, late, threads[1].tx) = 0
  <2>1. {l \in late : l.tx.op = op} = {}
    BY <1>3
  <2>2. threads[1].tx.op = "none"
    BY <1>4, IdleFits DEF Threads
  <2>3. threads[1].tx.op # op
    BY <2>2
  <2>4. Cardinality({l \in late : l.tx.op = op}) = 0
    BY <1>6, <2>1
  <2> QED
    BY <2>3, <2>4 DEF Funding
<1>9. FundInv
  <2>1. nftVault = NFT_FUND * 0 /\ lpVault = LP_FUND * 0
    BY DeployNumbers DEF DeployInit
  <2>2. FundedOnce(nftVault, NFT_FUND, "fund_nft", late, threads[1].tx, deployFaults)
    BY <1>3, <1>8, <2>1 DEF FundedOnce
  <2>3. FundedOnce(lpVault, LP_FUND, "fund_lp", late, threads[1].tx, deployFaults)
    BY <1>3, <1>8, <2>1 DEF FundedOnce
  <2> QED
    BY <2>2, <2>3 DEF FundInv
<1>10. OpenInv
  BY DEF DeployInit, OpenInv
<1> QED
  BY <1>2, <1>5, <1>7, <1>9, <1>10 DEF DeployInv

\* A transaction stays what it was sent for while mints and pools only come.
LEMMA TxStaysFit ==
    ASSUME NEW tx, NEW gen \in Nat, NEW gen2 \in Nat, NEW stake, NEW stake2, NEW made, NEW made2,
           TxFits(tx, gen, stake, made), gen <= gen2, made \subseteq made2,
           stake2 = stake \/ stake = NoMint
    PROVE  TxFits(tx, gen2, stake2, made2)
BY DEF TxFits

\* What a transaction does to the accounts, for those who wait: the mint of
\* the rewards is set once, pools stay, and what covered a pool covers it.
LEMMA LandsKeepsAccounts ==
    ASSUME AccountsInv, NEW tx, TxFits(tx, generated, stakeMint, pools), Lands(tx),
           UNCHANGED <<keyFile, generated>>
    PROVE  /\ AccountsInv'
           /\ pools \subseteq pools'
           /\ stakeMint' = stakeMint \/ stakeMint = NoMint
<1>a. /\ machine \in {"absent", "small", "ready"}
      /\ generated \in Nat /\ generated <= MaxMints /\ keyFile \in 0..generated
      /\ mints \subseteq 1..generated
      /\ stakeMint \in mints \cup {NoMint}
      /\ lp \subseteq pools /\ pools \subseteq mints /\ pools \subseteq {stakeMint}
      /\ wallet \in [GumMints -> Nat]
      /\ \A g \in GumMints : wallet[g] + (IF g \in lp THEN INIT_GUM ELSE 0) <= SUPPLY
      /\ nftVault \in Nat /\ lpVault \in Nat
      /\ wsol.kind \in {"absent", "system", "token"} /\ wsol.amount \in Nat
  BY DEF AccountsInv
<1>m. mints \subseteq GumMints /\ NoMint \notin mints
  BY <1>a, DeployNumbers DEF GumMints, NoMint
<1>k. keyFile' = keyFile /\ generated' = generated
  OBVIOUS
<1>1. CASE Creates_gum(tx)
  <2>1. /\ tx.gum \in 1..generated /\ tx.gum \notin mints
        /\ mints' = mints \cup {tx.gum} /\ wallet' = [wallet EXCEPT ![tx.gum] = SUPPLY]
        /\ UNCHANGED <<machine, stakeMint, nftVault, lpVault, pools, lp, wsol>>
    BY <1>1 DEF Creates_gum, TxFits, machineVars, poolVars
  <2>2. tx.gum \in GumMints /\ tx.gum \notin lp
    BY <1>a, <2>1, DeployNumbers DEF GumMints
  <2>3. wallet' \in [GumMints -> Nat]
    BY <1>a, <2>1, <2>2, DeployNumbers
  <2>4. ASSUME NEW g \in GumMints PROVE wallet'[g] + (IF g \in lp THEN INIT_GUM ELSE 0) <= SUPPLY
    <3>1. CASE g = tx.gum
      BY <1>a, <2>1, <2>2, <3>1, DeployNumbers
    <3>2. CASE g # tx.gum
      BY <1>a, <2>1, <2>2, <3>2
    <3> QED
      BY <3>1, <3>2
  <2> QED
    BY <1>a, <1>k, <2>1, <2>3, <2>4 DEF AccountsInv
<1>2. CASE Initialize_machine(tx) \/ Set_oracle(tx) \/ Set_active(tx) \/ Initialize_xnt_fees(tx)
  <2>1. /\ UNCHANGED <<wallet, mints, stakeMint, nftVault, lpVault, pools, lp, wsol>>
        /\ machine' \in {"absent", "small", "ready"}
    BY <1>2, <1>a DEF Initialize_machine, Set_oracle, Set_active, Initialize_xnt_fees, accounts,
          machineVars, tokenVars, poolVars
  <2> QED
    BY <1>a, <1>k, <2>1 DEF AccountsInv
<1>3. CASE Initialize_staking(tx)
  <2>1. /\ UNCHANGED <<machine, wallet, mints, nftVault, lpVault, pools, lp, wsol>>
        /\ stakeMint = NoMint /\ stakeMint' \in mints
    BY <1>3 DEF Initialize_staking, machineVars, poolVars
  <2>2. pools = {}
    BY <1>a, <1>m, <2>1
  <2> QED
    BY <1>a, <1>k, <2>1, <2>2 DEF AccountsInv
<1>4. ASSUME NEW fund \in Nat, tx.op \in {"fund_nft", "fund_lp"}, wallet[tx.gum] >= fund,
             wallet' = [wallet EXCEPT ![tx.gum] = @ - fund],
             nftVault' \in Nat, lpVault' \in Nat,
             UNCHANGED <<machine, mints, stakeMint, pools, lp, wsol>>
      PROVE  AccountsInv'
  <2>1. tx.gum \in GumMints
    BY <1>4 DEF TxFits
  <2>2. wallet[tx.gum] \in Nat /\ wallet[tx.gum] - fund \in Nat
    BY <1>4, <1>a, <2>1
  <2>3. wallet' \in [GumMints -> Nat]
    BY <1>4, <1>a, <2>1, <2>2
  <2>4. ASSUME NEW g \in GumMints PROVE wallet'[g] + (IF g \in lp THEN INIT_GUM ELSE 0) <= SUPPLY
    <3>1. wallet'[g] <= wallet[g] /\ wallet'[g] \in Nat /\ wallet[g] \in Nat
      BY <1>4, <1>a, <2>1, <2>2, <2>3
    <3>2. wallet[g] + (IF g \in lp THEN INIT_GUM ELSE 0) <= SUPPLY
      BY <1>a
    <3> QED
      BY <3>1, <3>2, DeployNumbers
  <2> QED
    BY <1>a, <1>k, <1>4, <2>3, <2>4 DEF AccountsInv
<1>5. CASE FundNft(tx) \/ FundLp(tx)
  <2>1. UNCHANGED <<machine, mints, stakeMint, pools, lp, wsol>>
    BY <1>5 DEF FundNft, FundLp, machineVars, poolVars
  <2>2. nftVault' \in Nat /\ lpVault' \in Nat
    BY <1>5, <1>a, DeployNumbers DEF FundNft, FundLp
  <2>3. PICK fund \in Nat : wallet[tx.gum] >= fund /\ wallet' = [wallet EXCEPT ![tx.gum] = @ - fund]
    BY <1>5, DeployNumbers DEF FundNft, FundLp
  <2>4. tx.op \in {"fund_nft", "fund_lp"}
    BY <1>5 DEF FundNft, FundLp
  <2>5. AccountsInv'
    BY <1>4, <2>1, <2>2, <2>3, <2>4
  <2> QED
    BY <2>1, <2>5
<1>6. CASE MakeWsol(tx) \/ AddWsol(tx) \/ ClosesWsol(tx)
  <2>1. UNCHANGED <<machine, wallet, mints, stakeMint, nftVault, lpVault, pools, lp>>
    BY <1>6 DEF MakeWsol, AddWsol, ClosesWsol, machineVars, tokenVars
  <2>2. tx.amount \in Nat
    BY DEF TxFits
  <2>3. CASE MakeWsol(tx)
    <3>1. (IF wsol.amount > RENT THEN wsol.amount - RENT ELSE 0) + tx.amount \in Nat
      BY <1>a, <2>2, DeployNumbers
    <3>2. wsol'.kind \in {"absent", "token"} /\ wsol'.amount \in Nat
      BY <2>3, <3>1 DEF MakeWsol, Wsol
    <3> QED
      BY <1>a, <1>k, <2>1, <3>2 DEF AccountsInv
  <2>4. CASE AddWsol(tx) \/ ClosesWsol(tx)
    <3>1. wsol'.kind \in {"absent", "token"} /\ wsol'.amount \in Nat
      BY <1>a, <2>2, <2>4 DEF AddWsol, ClosesWsol, Wsol
    <3> QED
      BY <1>a, <1>k, <2>1, <3>1 DEF AccountsInv
  <2> QED
    BY <1>6, <2>1, <2>3, <2>4
<1>7. CASE CreatesPool(tx)
  <2>1. /\ UNCHANGED <<machine, mints, stakeMint, nftVault, lpVault>>
        /\ tx.gum \in mints /\ tx.gum \notin pools /\ tx.gum = stakeMint
        /\ wallet[tx.gum] >= INIT_GUM /\ wsol.amount >= INIT_XNT
        /\ wallet' = [wallet EXCEPT ![tx.gum] = @ - INIT_GUM]
        /\ pools' = pools \cup {tx.gum} /\ lp' = lp \cup {tx.gum}
        /\ wsol' = [kind |-> "token", amount |-> wsol.amount - INIT_XNT]
    BY <1>7 DEF CreatesPool, TxFits, machineVars, Wsol
  <2>2. tx.gum \in GumMints /\ tx.gum \notin lp
    BY <1>a, <1>m, <2>1
  <2>3. /\ wallet[tx.gum] \in Nat /\ wallet[tx.gum] - INIT_GUM \in Nat
        /\ wsol.amount - INIT_XNT \in Nat
    BY <1>a, <2>1, <2>2, DeployNumbers
  <2>4. wallet' \in [GumMints -> Nat]
    BY <1>a, <2>1, <2>2, <2>3
  <2>5. ASSUME NEW g \in GumMints PROVE wallet'[g] + (IF g \in lp' THEN INIT_GUM ELSE 0) <= SUPPLY
    <3>1. CASE g = tx.gum
      <4>1. wallet[g] <= SUPPLY
        BY <1>a, <2>2, <2>3, <3>1
      <4>2. wallet'[g] = wallet[g] - INIT_GUM /\ g \in lp'
        BY <1>a, <2>1, <2>2, <3>1
      <4> QED
        BY <2>3, <3>1, <4>1, <4>2, DeployNumbers
    <3>2. CASE g # tx.gum
      BY <1>a, <2>1, <2>2, <3>2
    <3> QED
      BY <3>1, <3>2
  <2>6. lp' \subseteq pools' /\ pools' \subseteq mints' /\ pools' \subseteq {stakeMint'}
    BY <1>a, <2>1
  <2>7. wsol'.kind \in {"absent", "token"} /\ wsol'.amount \in Nat
    BY <2>1, <2>3
  <2> QED
    BY <1>a, <1>k, <2>1, <2>4, <2>5, <2>6, <2>7 DEF AccountsInv
<1>8. CASE Withdraws(tx)
  <2>1. /\ UNCHANGED <<machine, mints, stakeMint, nftVault, lpVault, pools>>
        /\ tx.gum \in lp
        /\ wallet' = [wallet EXCEPT ![tx.gum] = @ + INIT_GUM]
        /\ lp' = lp \ {tx.gum}
        /\ wsol' = [kind |-> "token", amount |-> wsol.amount + INIT_XNT]
    BY <1>8 DEF Withdraws, machineVars, Wsol
  <2>2. tx.gum \in GumMints
    BY <1>a, <1>m, <2>1
  <2>3. /\ wallet[tx.gum] \in Nat /\ wallet[tx.gum] + INIT_GUM <= SUPPLY
        /\ wsol.amount + INIT_XNT \in Nat
    BY <1>a, <2>1, <2>2, DeployNumbers
  <2>4. wallet' \in [GumMints -> Nat]
    BY <1>a, <2>1, <2>2, <2>3, DeployNumbers
  <2>5. ASSUME NEW g \in GumMints PROVE wallet'[g] + (IF g \in lp' THEN INIT_GUM ELSE 0) <= SUPPLY
    <3>1. CASE g = tx.gum
      <4>1. wallet'[g] = wallet[g] + INIT_GUM /\ g \notin lp'
        BY <1>a, <2>1, <2>2, <3>1
      <4> QED
        BY <2>3, <3>1, <4>1, DeployNumbers
    <3>2. CASE g # tx.gum
      BY <1>a, <2>1, <2>2, <3>2
    <3> QED
      BY <3>1, <3>2
  <2>7. wsol'.kind \in {"absent", "token"} /\ wsol'.amount \in Nat
    BY <2>1, <2>3
  <2> QED
    BY <1>a, <1>k, <2>1, <2>4, <2>5, <2>7 DEF AccountsInv
<1> QED
  BY <1>1, <1>2, <1>3, <1>5, <1>6, <1>7, <1>8 DEF Lands

LEMMA LandsOnWsol ==
    ASSUME AccountsInv, NEW tx, TxFits(tx, generated, stakeMint, pools), Lands(tx)
    PROVE  /\ tx.op = "make_wsol" => wsol'.kind = "token" /\ wsol'.amount >= tx.amount
           /\ tx.op = "add_wsol" =>
                wsol.kind = "token" /\ wsol'.kind = "token" /\ wsol'.amount = wsol.amount + tx.amount
           /\ \/ stakeMint \in pools'
              \/ wsol.kind # "token"
              \/ wsol'.kind = "token" /\ wsol'.amount >= wsol.amount
<1>a. wsol.amount \in Nat /\ tx.amount \in Nat /\ pools \subseteq {stakeMint}
  BY DEF AccountsInv, TxFits
<1>1. CASE tx.op \notin {"make_wsol", "add_wsol", "create_pool", "withdraw",
                        "make_wsol_and_withdraw", "close_wsol"}
  <2>1. wsol' = wsol
    BY <1>1 DEF Lands, Creates_gum, Initialize_machine, Set_oracle, Set_active, Initialize_staking,
       FundNft, FundLp, Initialize_xnt_fees, MakeWsol, AddWsol, CreatesPool, Withdraws, ClosesWsol,
       accounts, machineVars, tokenVars, poolVars
  <2> QED
    BY <1>a, <1>1, <2>1
<1>2. CASE tx.op = "make_wsol"
  <2>1. /\ wsol' = [kind |-> "token", amount |->
                      (IF wsol.amount > RENT THEN wsol.amount - RENT ELSE 0) + tx.amount]
        /\ wsol.kind # "token"
    BY <1>2 DEF Lands, Creates_gum, Initialize_machine, Set_oracle, Set_active, Initialize_staking,
       FundNft, FundLp, Initialize_xnt_fees, MakeWsol, AddWsol, CreatesPool, Withdraws, ClosesWsol,
       Wsol
  <2> QED
    BY <1>a, <1>2, <2>1, DeployNumbers
<1>3. CASE tx.op = "add_wsol"
  <2>1. wsol' = [kind |-> "token", amount |-> wsol.amount + tx.amount] /\ wsol.kind = "token"
    BY <1>3 DEF Lands, Creates_gum, Initialize_machine, Set_oracle, Set_active, Initialize_staking,
       FundNft, FundLp, Initialize_xnt_fees, MakeWsol, AddWsol, CreatesPool, Withdraws, ClosesWsol,
       Wsol
  <2> QED
    BY <1>a, <1>3, <2>1
<1>4. CASE tx.op = "create_pool"
  <2>1. tx.gum = stakeMint /\ pools' = pools \cup {tx.gum}
    BY <1>4 DEF TxFits, Lands, Creates_gum, Initialize_machine, Set_oracle, Set_active,
       Initialize_staking, FundNft, FundLp, Initialize_xnt_fees, MakeWsol, AddWsol, CreatesPool,
       Withdraws, ClosesWsol
  <2> QED
    BY <1>4, <2>1
<1>5. CASE tx.op \in {"withdraw", "make_wsol_and_withdraw"}
  <2>1. wsol' = [kind |-> "token", amount |-> wsol.amount + INIT_XNT]
    BY <1>5 DEF Lands, Creates_gum, Initialize_machine, Set_oracle, Set_active, Initialize_staking,
       FundNft, FundLp, Initialize_xnt_fees, MakeWsol, AddWsol, CreatesPool, Withdraws, ClosesWsol,
       Wsol
  <2> QED
    BY <1>a, <1>5, <2>1, DeployNumbers
<1>6. CASE tx.op = "close_wsol"
  <2>1. tx.gum \in pools /\ pools' = pools
    BY <1>6 DEF TxFits, Lands, Creates_gum, Initialize_machine, Set_oracle, Set_active,
       Initialize_staking, FundNft, FundLp, Initialize_xnt_fees, MakeWsol, AddWsol, CreatesPool,
       Withdraws, ClosesWsol
  <2> QED
    BY <1>a, <1>6, <2>1
<1> QED
  BY <1>1, <1>2, <1>3, <1>4, <1>5, <1>6

\* A thread stays what it is while the chain moves on.
LEMMA ThreadStaysFit ==
    ASSUME NEW th, NEW gen \in Nat, NEW gen2 \in Nat, NEW stake, NEW stake2, NEW made, NEW made2,
           NEW account, NEW account2,
           ThreadFits(th, gen, stake, made, account),
           gen <= gen2, made \subseteq made2, stake2 = stake \/ stake = NoMint,
           account.amount \in Nat, account2.amount \in Nat,
           \/ stake \in made2
           \/ account.kind # "token"
           \/ account2.kind = "token" /\ account2.amount >= account.amount
    PROVE  ThreadFits(th, gen2, stake2, made2, account2)
<1>1. th.script \in Scripts \cup {"none"} /\ WaitFits(th) /\ th.tx.amount \in Nat
  BY DEF ThreadFits, TxFits
<1>2. TxFits(th.tx, gen2, stake2, made2)
  BY TxStaysFit DEF ThreadFits
<1>3. GumFits(th, stake2, made2)
  BY DEF ThreadFits, GumFits
<1>4. ASSUME NEW more \in Nat, Covered(th.gum, more, made, account), th.gum = stake
      PROVE  Covered(th.gum, more, made2, account2)
  BY <1>4, DeployNumbers DEF Covered
<1>5. WsolFits(th, made2, account2)
  <2>1. SUFFICES ASSUME th.script = "create-pool"
                 PROVE  WsolFits(th, made2, account2)
    BY DEF WsolFits
  <2>2. th.pc \in {"create", "recheck"} => th.gum = stake
    BY <2>1 DEF ThreadFits, GumFits
  <2>3. th.pc = "create" /\ th.tx = NoTx => Covered(th.gum, 0, made2, account2)
    BY <1>4, <2>1, <2>2 DEF ThreadFits, WsolFits
  <2>4. th.pc = "create" /\ th.tx.op = "make_wsol" => th.tx.amount >= INIT_XNT
    BY <2>1 DEF ThreadFits, WsolFits
  <2>5. th.pc = "create" /\ th.tx.op = "add_wsol"
          => Covered(th.gum, th.tx.amount, made2, account2)
    BY <1>1, <1>4, <2>1, <2>2 DEF ThreadFits, WsolFits
  <2>6. th.pc = "recheck" /\ th.tx = NoTx => account2.kind = "token" \/ th.gum \in made2
    BY <2>1, <2>2 DEF ThreadFits, WsolFits
  <2> QED
    BY <2>3, <2>4, <2>5, <2>6 DEF WsolFits
<1> QED
  BY <1>1, <1>2, <1>3, <1>5 DEF ThreadFits

\* A thread with another transaction and another pc.
LEMMA ThreadFields ==
    ASSUME NEW script, NEW pc, NEW gum, NEW force, NEW tx
    PROVE  /\ Thread(script, pc, gum, force, tx).script = script
           /\ Thread(script, pc, gum, force, tx).pc = pc
           /\ Thread(script, pc, gum, force, tx).gum = gum
           /\ Thread(script, pc, gum, force, tx).tx = tx
BY DEF Thread

LEMMA NothingAwaited ==
    ASSUME NEW gen, NEW stake, NEW made
    PROVE  TxFits(NoTx, gen, stake, made) /\ NoTx.op = "none"
BY DEF TxFits, NoTx, TxOps

\* A thread whose transaction is over, and which goes on where it waited.
LEMMA AnswerFits ==
    ASSUME NEW th, NEW gen \in Nat, NEW stake, NEW stake2, NEW made, NEW made2,
           NEW account, NEW account2,
           ThreadFits(th, gen, stake, made, account),
           made \subseteq made2, stake2 = stake \/ stake = NoMint,
           account.amount \in Nat, account2.amount \in Nat,
           \/ stake \in made2
           \/ account.kind # "token"
           \/ account2.kind = "token" /\ account2.amount >= account.amount,
           th.tx.op = "make_wsol" => account2.kind = "token" /\ account2.amount >= th.tx.amount,
           th.tx.op = "add_wsol" =>
             /\ account.kind = "token" /\ account2.kind = "token"
             /\ account2.amount = account.amount + th.tx.amount
    PROVE  ThreadFits(Thread(th.script, th.pc, th.gum, th.force, NoTx), gen, stake2, made2, account2)
<1> DEFINE th2 == Thread(th.script, th.pc, th.gum, th.force, NoTx)
<1>1. th2.script = th.script /\ th2.pc = th.pc /\ th2.gum = th.gum /\ th2.tx = NoTx
  BY ThreadFields
<1>2. ThreadFits(th, gen, stake2, made2, account2)
  BY ThreadStaysFit
<1> HIDE DEF th2
<1>3. th2.script \in Scripts \cup {"none"} /\ TxFits(th2.tx, gen, stake2, made2)
  BY <1>1, <1>2, NothingAwaited DEF ThreadFits
<1>4. WaitFits(th2)
  BY <1>1, NothingAwaited DEF WaitFits
<1>5. GumFits(th2, stake2, made2)
  BY <1>1, <1>2 DEF ThreadFits, GumFits
<1>6. WsolFits(th2, made2, account2)
  <2>1. SUFFICES ASSUME th.script = "create-pool" PROVE WsolFits(th2, made2, account2)
    BY <1>1 DEF WsolFits
  <2>2. th.pc \in {"create", "recheck"} => th.tx = NoTx \/ th.tx.op \in {"make_wsol", "add_wsol"}
    BY <2>1 DEF ThreadFits, WaitFits, TxFits, TxOps
  <2>3. th.tx.amount \in Nat
    BY DEF ThreadFits, TxFits
  <2>4. ASSUME th.pc = "create" PROVE Covered(th.gum, 0, made2, account2)
    <3>1. CASE th.tx = NoTx
      BY <1>2, <2>1, <2>4, <3>1 DEF ThreadFits, WsolFits
    <3>2. CASE th.tx.op = "make_wsol"
      BY <1>2, <2>1, <2>3, <2>4, <3>2, DeployNumbers DEF ThreadFits, WsolFits, Covered
    <3>3. CASE th.tx.op = "add_wsol"
      <4>1. Covered(th.gum, th.tx.amount, made, account)
        BY <2>1, <2>4, <3>3 DEF ThreadFits, WsolFits
      <4> QED
        BY <2>3, <3>3, <4>1, DeployNumbers DEF Covered
    <3> QED
      BY <2>2, <2>4, <3>1, <3>2, <3>3
  <2>5. ASSUME th.pc = "recheck" PROVE account2.kind = "token" \/ th.gum \in made2
    <3>1. CASE th.tx = NoTx
      BY <1>2, <2>1, <2>5, <3>1 DEF ThreadFits, WsolFits
    <3>2. CASE th.tx.op \in {"make_wsol", "add_wsol"}
      BY <3>2
    <3> QED
      BY <2>2, <2>5, <3>1, <3>2
  <2> QED
    BY <1>1, <2>4, <2>5, NothingAwaited DEF WsolFits
<1> QED
  BY <1>3, <1>4, <1>5, <1>6 DEF ThreadFits, th2

\* A thread whose transaction failed: it is over, goes on, or tries a sync.
LEMMA ThrowFits ==
    ASSUME NEW t \in Threads, threads[t].tx # NoTx, ThreadsInv, Throws(t),
           UNCHANGED <<generated, stakeMint, pools, wsol>>
    PROVE  \E th2 :
             /\ threads' = [threads EXCEPT ![t] = th2]
             /\ ThreadFits(th2, generated, stakeMint, pools, wsol)
             /\ th2.script \in {threads[t].script, "none"}
             /\ th2.tx = NoTx
             /\ threads[t].tx.op = "initialize_machine" => ~Opens(threads[t])
<1> DEFINE th == threads[t]
           stays == Thread(th.script, th.pc, th.gum, th.force, NoTx)
           syncs == Thread(th.script, "sync", th.gum, th.force, NoTx)
<1>1. ThreadFits(th, generated, stakeMint, pools, wsol)
  BY DEF ThreadsInv
<1>2. th.tx.op # "none" /\ (th.tx.op = "initialize_machine" => ~Opens(th))
  BY <1>1 DEF ThreadFits, WaitFits, Opens
<1>3. CASE th.tx.op = "set_oracle"
  <2>1. threads' = [threads EXCEPT ![t] = stays]
    BY <1>3 DEF Throws, Answered
  <2>2. stays.script = th.script /\ stays.pc = th.pc /\ stays.gum = th.gum /\ stays.tx = NoTx
    BY ThreadFields
  <2>3. th.script = "initialize"
    BY <1>1, <1>3 DEF ThreadFits, WaitFits
  <2>4. ThreadFits(stays, generated, stakeMint, pools, wsol)
    BY <2>2, <2>3, NothingAwaited DEF ThreadFits, WaitFits, GumFits, WsolFits, Scripts
  <2> QED
    BY <1>2, <2>1, <2>2, <2>4
<1>4. CASE th.tx.op = "make_wsol" /\ th.pc = "recheck"
  <2>1. threads' = [threads EXCEPT ![t] = syncs]
    BY <1>4 DEF Throws, Answered, AfterConversion
  <2>2. syncs.script = th.script /\ syncs.pc = "sync" /\ syncs.gum = th.gum /\ syncs.tx = NoTx
    BY ThreadFields
  <2>3. th.script = "create-pool" /\ th.gum \in GumMints /\ th.gum = stakeMint /\ stakeMint # NoMint
    BY <1>1, <1>4 DEF ThreadFits, WaitFits, GumFits
  <2>4. ThreadFits(syncs, generated, stakeMint, pools, wsol)
    BY <2>2, <2>3, NothingAwaited DEF ThreadFits, WaitFits, GumFits, WsolFits, Scripts
  <2> QED
    BY <1>2, <2>1, <2>2, <2>4
<1>5. CASE th.tx.op # "set_oracle" /\ ~(th.tx.op = "make_wsol" /\ th.pc = "recheck")
  <2>1. threads' = [threads EXCEPT ![t] = IdleThread]
    BY <1>5 DEF Throws, Ends, AfterConversion
  <2> QED
    BY <1>2, <2>1, IdleFits
<1> QED
  BY <1>3, <1>4, <1>5

\* When one thread moves and the others stay fit, all are.
LEMMA OneThreadMoves ==
    ASSUME ThreadsInv, NEW t \in Threads, NEW th2, threads' = [threads EXCEPT ![t] = th2],
           ThreadFits(th2, generated', stakeMint', pools', wsol'),
           th2.script \in {threads[t].script, "none"},
           \A u \in Threads : ThreadFits(threads[u], generated', stakeMint', pools', wsol') \/ u = t
    PROVE  /\ ThreadsInv'
           /\ threads'[t] = th2 /\ \A u \in Threads \ {t} : threads'[u] = threads[u]
           /\ t # 1 => threads'[1] = threads[1]
<1>1. threads = [u \in Threads |-> threads[u]]
  BY DEF ThreadsInv
<1>2. /\ threads'[t] = th2 /\ \A u \in Threads \ {t} : threads'[u] = threads[u]
      /\ t # 1 => threads'[1] = threads[1]
  BY <1>1 DEF Threads
<1>3. threads' = [u \in Threads |-> threads'[u]]
  BY <1>1
<1>4. \A u \in Threads : ThreadFits(threads'[u], generated', stakeMint', pools', wsol')
  BY <1>2
<1>5. threads'[2].script \in {"none", "initialize"}
  BY <1>2 DEF ThreadsInv, Threads
<1> QED
  BY <1>2, <1>3, <1>4, <1>5 DEF ThreadsInv

\* With the accounts as they are, every other thread is fit as it was.
LEMMA OthersStayFit ==
    ASSUME ThreadsInv, AccountsInv, UNCHANGED <<stakeMint, pools, wsol>>,
           generated' \in Nat, generated <= generated'
    PROVE  \A u \in Threads : ThreadFits(threads[u], generated', stakeMint', pools', wsol')
<1>1. SUFFICES ASSUME NEW u \in Threads
               PROVE  ThreadFits(threads[u], generated', stakeMint, pools, wsol)
  OBVIOUS
<1>2. ThreadFits(threads[u], generated, stakeMint, pools, wsol)
  BY DEF ThreadsInv
<1>3. generated \in Nat /\ wsol.amount \in Nat /\ wsol.amount >= wsol.amount
  BY DEF AccountsInv
<1> QED
  BY <1>2, <1>3, ThreadStaysFit

(* How often a vault is funded. *)

LEMMA FundingIsCounted ==
    ASSUME NEW given_up, IsFiniteSet(given_up), NEW op, NEW tx
    PROVE  /\ IsFiniteSet({l \in given_up : l.tx.op = op})
           /\ Cardinality({l \in given_up : l.tx.op = op}) \in Nat
           /\ Cardinality({l \in given_up : l.tx.op = op}) <= Cardinality(given_up)
           /\ Funding(op, given_up, tx) \in Nat
           /\ Funding(op, given_up, tx)
                = Cardinality({l \in given_up : l.tx.op = op}) + (IF tx.op = op THEN 1 ELSE 0)
<1> DEFINE S == {l \in given_up : l.tx.op = op}
<1>1. IsFiniteSet(S) /\ Cardinality(S) <= Cardinality(given_up)
  BY FS_Subset
<1>2. Cardinality(S) \in Nat
  BY <1>1, FS_CardinalityType
<1>3. Funding(op, given_up, tx) = Cardinality(S) + (IF tx.op = op THEN 1 ELSE 0)
  BY DEF Funding
<1> HIDE DEF S
<1>4. Funding(op, given_up, tx) \in Nat
  BY <1>2, <1>3
<1> QED
  BY <1>1, <1>2, <1>3, <1>4 DEF S

\* As many transfers may land as before, or one more for a wait given up.
LEMMA FundedStays ==
    ASSUME NEW vault, NEW fund, NEW op, NEW given_up, NEW given_up2, NEW tx, NEW tx2,
           NEW f \in Nat, NEW f2 \in Nat, IsFiniteSet(given_up), IsFiniteSet(given_up2),
           FundedOnce(vault, fund, op, given_up, tx, f),
           Funding(op, given_up2, tx2) + f <= Funding(op, given_up, tx) + f2
    PROVE  FundedOnce(vault, fund, op, given_up2, tx2, f2)
<1>1. PICK k \in Nat : vault = fund * k /\ k + Funding(op, given_up, tx) <= 1 + f
  BY DEF FundedOnce
<1>2. Funding(op, given_up, tx) \in Nat /\ Funding(op, given_up2, tx2) \in Nat
  BY FundingIsCounted
<1>3. k + Funding(op, given_up2, tx2) <= 1 + f2
  BY <1>1, <1>2
<1> QED
  BY <1>1, <1>3 DEF FundedOnce

\* The transfer that is awaited lands.
LEMMA FundedAsAwaited ==
    ASSUME NEW vault, NEW fund \in Nat, NEW op, NEW given_up, NEW tx, NEW tx2, NEW f \in Nat,
           IsFiniteSet(given_up), FundedOnce(vault, fund, op, given_up, tx, f),
           tx.op = op, tx2.op # op
    PROVE  FundedOnce(vault + fund, fund, op, given_up, tx2, f)
<1>1. PICK k \in Nat : vault = fund * k /\ k + Funding(op, given_up, tx) <= 1 + f
  BY DEF FundedOnce
<1> DEFINE n == Cardinality({l \in given_up : l.tx.op = op})
<1>a. n \in Nat /\ Funding(op, given_up, tx) = n + (IF tx.op = op THEN 1 ELSE 0)
  BY FundingIsCounted
<1>b. Funding(op, given_up, tx2) = n + (IF tx2.op = op THEN 1 ELSE 0)
  BY FundingIsCounted
<1> HIDE DEF n
<1>2. Funding(op, given_up, tx) = n + 1 /\ Funding(op, given_up, tx2) = n
  BY <1>a, <1>b
<1>3. (k + 1) + Funding(op, given_up, tx2) <= 1 + f
  BY <1>1, <1>a, <1>2
<1>4. vault + fund = fund * (k + 1)
  BY <1>1
<1> QED
  BY <1>3, <1>4 DEF FundedOnce

\* A transfer that was given up lands.
LEMMA FundedLate ==
    ASSUME NEW vault, NEW fund \in Nat, NEW given_up, NEW l \in given_up, NEW tx,
           NEW f \in Nat, IsFiniteSet(given_up),
           FundedOnce(vault, fund, l.tx.op, given_up, tx, f)
    PROVE  FundedOnce(vault + fund, fund, l.tx.op, given_up \ {l}, tx, f)
<1> DEFINE op == l.tx.op
           S == {m \in given_up : m.tx.op = op}
           S2 == {m \in given_up \ {l} : m.tx.op = op}
<1>1. PICK k \in Nat : vault = fund * k /\ k + Funding(op, given_up, tx) <= 1 + f
  BY DEF FundedOnce
<1>2. IsFiniteSet(given_up \ {l})
  BY FS_Subset
<1>3. /\ Funding(op, given_up, tx) = Cardinality(S) + (IF tx.op = op THEN 1 ELSE 0)
      /\ Funding(op, given_up \ {l}, tx) = Cardinality(S2) + (IF tx.op = op THEN 1 ELSE 0)
      /\ IsFiniteSet(S) /\ Cardinality(S) \in Nat /\ Cardinality(S2) \in Nat
  BY <1>2, FundingIsCounted
<1>4. S2 = S \ {l} /\ l \in S
  OBVIOUS
<1> HIDE DEF S, S2
<1>5. Cardinality(S2) = Cardinality(S) - 1
  BY <1>3, <1>4, FS_RemoveElement
<1>6. (k + 1) + Funding(op, given_up \ {l}, tx) <= 1 + f
  <2>1. PICK w \in {0, 1} : w = IF tx.op = op THEN 1 ELSE 0
    OBVIOUS
  <2> HIDE DEF op
  <2> QED
    BY <1>1, <1>3, <1>5, <2>1
<1>7. vault + fund = fund * (k + 1)
  BY <1>1
<1> QED
  BY <1>6, <1>7 DEF FundedOnce

\* An empty vault is to be funded: only those given up may land before.
LEMMA FundedFirst ==
    ASSUME NEW fund \in Nat, NEW op, NEW given_up, NEW tx, NEW f \in Nat,
           IsFiniteSet(given_up), Cardinality(given_up) <= f
    PROVE  FundedOnce(0, fund, op, given_up, tx, f)
<1>1. /\ Cardinality({l \in given_up : l.tx.op = op}) <= Cardinality(given_up)
      /\ Cardinality({l \in given_up : l.tx.op = op}) \in Nat
      /\ Cardinality(given_up) \in Nat
      /\ Funding(op, given_up, tx)
            = Cardinality({l \in given_up : l.tx.op = op}) + (IF tx.op = op THEN 1 ELSE 0)
  BY FundingIsCounted, FS_CardinalityType
<1>2. 0 + Funding(op, given_up, tx) <= 1 + f
  BY <1>1
<1>3. 0 = fund * 0
  OBVIOUS
<1> QED
  BY <1>2, <1>3 DEF FundedOnce

\* When the wait for tx is given up, one more may land late, if any.
LEMMA GivenUpIsCounted ==
    ASSUME NEW given_up, IsFiniteSet(given_up), NEW l, NEW op, NEW tx, NEW tx2,
           tx2.op # op
    PROVE  /\ IsFiniteSet(given_up \cup {l})
           /\ Cardinality(given_up \cup {l}) <= Cardinality(given_up) + 1
           /\ Funding(op, given_up \cup {l}, tx2) <= Funding(op, given_up, tx) + 1
<1> DEFINE S == {m \in given_up : m.tx.op = op}
           S2 == {m \in given_up \cup {l} : m.tx.op = op}
<1>1. IsFiniteSet(given_up \cup {l}) /\ Cardinality(given_up) \in Nat
  BY FS_AddElement, FS_CardinalityType
<1>2. Cardinality(given_up \cup {l}) <= Cardinality(given_up) + 1
  BY <1>1, FS_AddElement
<1>f. IsFiniteSet(S) /\ Cardinality(S) \in Nat
  BY FundingIsCounted
<1>a. Funding(op, given_up, tx) = Cardinality(S) + (IF tx.op = op THEN 1 ELSE 0)
  BY DEF Funding
<1>b. /\ Funding(op, given_up \cup {l}, tx2) = Cardinality(S2) + (IF tx2.op = op THEN 1 ELSE 0)
      /\ IsFiniteSet(S2) /\ Cardinality(S2) \in Nat
  BY <1>1, FundingIsCounted
<1>4. S2 \subseteq S \cup {l}
  OBVIOUS
<1> HIDE DEF S, S2
<1>5. IsFiniteSet(S \cup {l}) /\ Cardinality(S \cup {l}) <= Cardinality(S) + 1
  <2>1. l \notin S => Cardinality(S \cup {l}) = Cardinality(S) + 1
    BY <1>f, FS_AddElement
  <2>2. l \in S => S \cup {l} = S
    OBVIOUS
  <2>3. IsFiniteSet(S \cup {l})
    BY <1>f, FS_AddElement
  <2> QED
    BY <1>f, <2>1, <2>2, <2>3
<1>6. Cardinality(S2) <= Cardinality(S \cup {l}) /\ Cardinality(S \cup {l}) \in Nat
  BY <1>4, <1>5, FS_Subset, FS_CardinalityType
<1>7. PICK w \in {0, 1} : w = IF tx.op = op THEN 1 ELSE 0
  OBVIOUS
<1>8. Funding(op, given_up \cup {l}, tx2) <= Funding(op, given_up, tx) + 1
  BY <1>a, <1>b, <1>f, <1>5, <1>6, <1>7
<1> QED
  BY <1>1, <1>2, <1>8

\* What a transaction does to the vaults and the machine.
LEMMA LandsOnVaults ==
    ASSUME NEW tx, Lands(tx)
    PROVE  /\ nftVault' = IF tx.op = "fund_nft" THEN nftVault + NFT_FUND ELSE nftVault
           /\ lpVault' = IF tx.op = "fund_lp" THEN lpVault + LP_FUND ELSE lpVault
           /\ tx.op # "initialize_machine" => machine' = machine /\ (active => active')
           /\ tx.op = "initialize_machine" => machine = "absent"
           /\ tx.op = "set_active" => active'
           /\ tx.op # "none"
BY DEF Lands, Creates_gum, Initialize_machine, Set_oracle, Set_active, Initialize_staking, FundNft,
       FundLp, Initialize_xnt_fees, MakeWsol, AddWsol, CreatesPool, Withdraws, ClosesWsol,
       accounts, machineVars, tokenVars, poolVars

(* What a script decides. *)

\* The thread t goes on as th2, with a transaction or without one; a vault is
\* only funded when it is empty, and a thread that was to open the machine
\* still is.
Decides(t, th2) ==
    /\ threads' = [threads EXCEPT ![t] = th2]
    /\ ThreadFits(th2, generated', stakeMint, pools, wsol)
    /\ th2.script \in {threads[t].script, "none"}
    /\ threads[t].tx = NoTx
    /\ th2.tx.op = "fund_nft" => nftVault = 0
    /\ th2.tx.op = "fund_lp" => lpVault = 0
    /\ Opens(threads[t]) => Opens(th2)
    /\ UNCHANGED <<machine, active, wallet, mints, stakeMint, nftVault, lpVault, pools, lp, wsol,
                   late, launches, deployFaults>>
    /\ keyFile' \in 0..generated' /\ generated' \in Nat /\ generated <= generated'
    /\ generated' <= MaxMints

\* A thread at pc has decided nothing yet.
LEMMA AtPc ==
    ASSUME DeployInv, NEW t \in Threads, NEW script, NEW pc, At(t, script, pc)
    PROVE  /\ threads[t].script = script /\ threads[t].pc = pc /\ threads[t].tx = NoTx
           /\ ThreadFits(threads[t], generated, stakeMint, pools, wsol)
           /\ UNCHANGED <<machine, active, wallet, mints, stakeMint, nftVault, lpVault, pools, lp,
                          wsol, late, launches, deployFaults>>
           /\ generated \in Nat /\ generated <= MaxMints /\ keyFile \in 0..generated
BY DEF DeployInv, ThreadsInv, AccountsInv, At, accounts, machineVars, tokenVars, poolVars

\* It goes to another pc, with what it has to know there.
LEMMA GoesToDecides ==
    ASSUME DeployInv, NEW t \in Threads, NEW script, NEW pc, NEW next, At(t, script, pc),
           GoesTo(t, next), UNCHANGED <<keyFile, generated>>, script \in Scripts,
           ~Opens(threads[t]),
           ASSUME NEW th2, th2.script = script, th2.pc = next, th2.gum = threads[t].gum,
                  th2.tx = NoTx
           PROVE  GumFits(th2, stakeMint, pools) /\ WsolFits(th2, pools, wsol)
    PROVE  \E th2 : Decides(t, th2)
<1> DEFINE th2 == Thread(threads[t].script, next, threads[t].gum, threads[t].force, threads[t].tx)
<1>1. /\ threads[t].script = script /\ threads[t].tx = NoTx
      /\ UNCHANGED <<machine, active, wallet, mints, stakeMint, nftVault, lpVault, pools, lp,
                     wsol, late, launches, deployFaults>>
      /\ generated \in Nat /\ generated <= MaxMints /\ keyFile \in 0..generated
  BY AtPc
<1>2. th2.script = script /\ th2.pc = next /\ th2.gum = threads[t].gum /\ th2.tx = NoTx
  BY <1>1, ThreadFields
<1>3. threads' = [threads EXCEPT ![t] = th2]
  BY DEF GoesTo
<1> HIDE DEF th2
<1>4. GumFits(th2, stakeMint, pools) /\ WsolFits(th2, pools, wsol)
  BY <1>2
<1>5. WaitFits(th2) /\ TxFits(th2.tx, generated', stakeMint, pools)
  BY <1>2, NothingAwaited DEF WaitFits
<1>6. ThreadFits(th2, generated', stakeMint, pools, wsol)
  BY <1>2, <1>4, <1>5 DEF ThreadFits
<1>7. th2.tx.op = "none"
  BY <1>2, NothingAwaited
<1>8. Decides(t, th2)
  BY <1>1, <1>2, <1>3, <1>6, <1>7 DEF Decides
<1> QED
  BY <1>8

\* It sends a transaction.
LEMMA SendsDecides ==
    ASSUME DeployInv, NEW t \in Threads, NEW script, NEW pc, NEW op, NEW amount, NEW next,
           At(t, script, pc), Sends(t, op, amount, next), UNCHANGED <<keyFile, generated>>,
           script \in Scripts,
           op = "fund_nft" => nftVault = 0, op = "fund_lp" => lpVault = 0,
           ASSUME NEW th2, th2.script = script, th2.pc = next, th2.gum = threads[t].gum,
                  th2.tx.op = op, th2.tx.gum = threads[t].gum, th2.tx.amount = amount,
                  th2.tx.op # "none" => th2.tx # NoTx
           PROVE  /\ TxFits(th2.tx, generated, stakeMint, pools) /\ WaitFits(th2)
                  /\ GumFits(th2, stakeMint, pools) /\ WsolFits(th2, pools, wsol)
                  /\ Opens(threads[t]) => Opens(th2)
    PROVE  \E th2 : Decides(t, th2)
<1> DEFINE tx == [op |-> op, gum |-> threads[t].gum, amount |-> amount]
           th2 == Thread(threads[t].script, next, threads[t].gum, threads[t].force, tx)
<1>1. /\ threads[t].script = script /\ threads[t].tx = NoTx
      /\ UNCHANGED <<machine, active, wallet, mints, stakeMint, nftVault, lpVault, pools, lp,
                     wsol, late, launches, deployFaults>>
      /\ generated \in Nat /\ generated <= MaxMints /\ keyFile \in 0..generated
  BY AtPc
<1>2. tx.op = op /\ tx.gum = threads[t].gum /\ tx.amount = amount /\ (tx.op # "none" => tx # NoTx)
  BY NothingAwaited
<1>3. threads' = [threads EXCEPT ![t] = th2]
  BY DEF Sends
<1> HIDE DEF tx
<1>4. th2.script = script /\ th2.pc = next /\ th2.gum = threads[t].gum /\ th2.tx = tx
  BY <1>1, ThreadFields
<1> HIDE DEF th2
<1>5. /\ TxFits(th2.tx, generated, stakeMint, pools) /\ WaitFits(th2)
      /\ GumFits(th2, stakeMint, pools) /\ WsolFits(th2, pools, wsol)
      /\ Opens(threads[t]) => Opens(th2)
  BY <1>2, <1>4
<1>6. ThreadFits(th2, generated', stakeMint, pools, wsol)
  BY <1>4, <1>5 DEF ThreadFits
<1>7. Decides(t, th2)
  BY <1>1, <1>2, <1>3, <1>4, <1>5, <1>6 DEF Decides
<1> QED
  BY <1>7

LEMMA EndsDecides ==
    ASSUME DeployInv, NEW t \in Threads, NEW script, NEW pc, At(t, script, pc), Ends(t),
           UNCHANGED <<keyFile, generated>>, ~Opens(threads[t])
    PROVE  \E th2 : Decides(t, th2)
<1>1. /\ threads[t].tx = NoTx
      /\ UNCHANGED <<machine, active, wallet, mints, stakeMint, nftVault, lpVault, pools, lp,
                     wsol, late, launches, deployFaults>>
      /\ generated \in Nat /\ generated <= MaxMints /\ keyFile \in 0..generated
  BY AtPc
<1>2. threads' = [threads EXCEPT ![t] = IdleThread]
  BY DEF Ends
<1>3. Decides(t, IdleThread)
  BY <1>1, <1>2, IdleFits DEF Decides
<1> QED
  BY <1>3

\* create-gum-token.cjs sends the mint whose key it has just saved, or nothing.
LEMMA GenerateMintDecides ==
    ASSUME DeployInv, NEW t \in Threads, GenerateMint(t)
    PROVE  \E th2 : Decides(t, th2)
<1>a. CASE Ends(t) /\ generated' = generated /\ keyFile' \in {keyFile, NoMint}
  <2>1. /\ threads[t].script = "create-gum-token" /\ threads[t].tx = NoTx
        /\ UNCHANGED <<machine, active, wallet, mints, stakeMint, nftVault, lpVault, pools, lp,
                       wsol, late, launches, deployFaults>>
        /\ generated \in Nat /\ generated <= MaxMints /\ keyFile \in 0..generated
    BY AtPc DEF GenerateMint
  <2>2. threads' = [threads EXCEPT ![t] = IdleThread] /\ ~Opens(threads[t])
    BY <1>a, <2>1 DEF Ends, Opens
  <2>3. keyFile' \in 0..generated' /\ generated' \in Nat /\ generated <= generated'
    BY <1>a, <2>1 DEF NoMint
  <2>4. Decides(t, IdleThread)
    BY <1>a, <2>1, <2>2, <2>3, IdleFits DEF Decides
  <2> QED
    BY <2>4
<1>b. CASE /\ generated' = generated + 1 /\ keyFile' = generated + 1
           /\ threads' = [threads EXCEPT ![t] =
                Thread("create-gum-token", "end", generated + 1, FALSE,
                       [op |-> "create_gum", gum |-> generated + 1, amount |-> 0])]
  <2> DEFINE tx == [op |-> "create_gum", gum |-> generated + 1, amount |-> 0]
             th2 == Thread("create-gum-token", "end", generated + 1, FALSE, tx)
  <2>1. /\ threads[t].script = "create-gum-token" /\ threads[t].tx = NoTx
        /\ UNCHANGED <<machine, active, wallet, mints, stakeMint, nftVault, lpVault, pools, lp,
                       wsol, late, launches, deployFaults>>
        /\ generated \in Nat /\ generated < MaxMints
        /\ generated' = generated + 1 /\ keyFile' = generated + 1
        /\ threads' = [threads EXCEPT ![t] = th2]
    BY <1>b, AtPc DEF GenerateMint
  <2>2. tx.op = "create_gum" /\ tx.gum = generated + 1 /\ tx.amount = 0
    OBVIOUS
  <2> HIDE DEF tx
  <2>3. th2.script = "create-gum-token" /\ th2.pc = "end" /\ th2.tx = tx
    BY DEF Thread
  <2> HIDE DEF th2
  <2>4. TxFits(tx, generated', stakeMint, pools)
    BY <2>1, <2>2 DEF TxFits, TxOps
  <2>5. WaitFits(th2) /\ GumFits(th2, stakeMint, pools) /\ WsolFits(th2, pools, wsol)
    BY <2>2, <2>3 DEF WaitFits, GumFits, WsolFits
  <2>6. ThreadFits(th2, generated', stakeMint, pools, wsol)
    BY <2>3, <2>4, <2>5 DEF ThreadFits, Scripts
  <2>7. ~Opens(threads[t])
    BY <2>1 DEF Opens
  <2>8. generated' \in Nat /\ generated <= generated' /\ generated' <= MaxMints
    BY <2>1, DeployNumbers
  <2>9. Decides(t, th2)
    BY <2>1, <2>2, <2>3, <2>6, <2>7, <2>8 DEF Decides
  <2> QED
    BY <2>9
<1> QED
  BY <1>a, <1>b DEF GenerateMint

\* Each thread of initialize.cjs goes on to open the machine.
LEMMA InitializeDecides ==
    ASSUME DeployInv, NEW t \in Threads, ReadMachine(t) \/ SetOracleToWallet(t) \/ Activate(t)
    PROVE  \E th2 : Decides(t, th2)
<1>s. "initialize" \in Scripts
  BY DEF Scripts
<1>1. CASE ReadMachine(t)
  <2>1. At(t, "initialize", "start") /\ UNCHANGED <<keyFile, generated>>
    BY <1>1 DEF ReadMachine
  <2>2. ~Opens(threads[t])
    BY <2>1, AtPc DEF Opens
  <2>3. CASE Sends(t, "initialize_machine", 0, "oracle")
    <3>1. ASSUME NEW th2, th2.script = "initialize", th2.pc = "oracle", th2.gum = threads[t].gum,
                 th2.tx.op = "initialize_machine", th2.tx.gum = threads[t].gum, th2.tx.amount = 0,
                 th2.tx.op # "none" => th2.tx # NoTx
          PROVE  /\ TxFits(th2.tx, generated, stakeMint, pools) /\ WaitFits(th2)
                 /\ GumFits(th2, stakeMint, pools) /\ WsolFits(th2, pools, wsol)
                 /\ Opens(threads[t]) => Opens(th2)
      BY <2>2, <3>1 DEF TxFits, TxOps, WaitFits, GumFits, WsolFits
    <3> QED
      BY <1>s, <2>1, <2>3, <3>1, SendsDecides
  <2>4. CASE Ends(t)
    BY <2>1, <2>2, <2>4, EndsDecides
  <2>5. CASE GoesTo(t, "oracle")
    <3>1. ASSUME NEW th2, th2.script = "initialize", th2.pc = "oracle", th2.gum = threads[t].gum,
                 th2.tx = NoTx
          PROVE  GumFits(th2, stakeMint, pools) /\ WsolFits(th2, pools, wsol)
      BY <3>1 DEF GumFits, WsolFits
    <3> QED
      BY <1>s, <2>1, <2>2, <2>5, <3>1, GoesToDecides
  <2> QED
    BY <1>1, <2>3, <2>4, <2>5 DEF ReadMachine
<1>2. CASE SetOracleToWallet(t)
  <2>1. /\ At(t, "initialize", "oracle") /\ UNCHANGED <<keyFile, generated>>
        /\ Sends(t, "set_oracle", 0, "activate")
    BY <1>2 DEF SetOracleToWallet
  <2>2. ASSUME NEW th2, th2.script = "initialize", th2.pc = "activate", th2.gum = threads[t].gum,
               th2.tx.op = "set_oracle", th2.tx.gum = threads[t].gum, th2.tx.amount = 0,
               th2.tx.op # "none" => th2.tx # NoTx
        PROVE  /\ TxFits(th2.tx, generated, stakeMint, pools) /\ WaitFits(th2)
               /\ GumFits(th2, stakeMint, pools) /\ WsolFits(th2, pools, wsol)
               /\ Opens(threads[t]) => Opens(th2)
    BY <2>2 DEF TxFits, TxOps, WaitFits, GumFits, WsolFits, Opens
  <2> QED
    BY <1>s, <2>1, <2>2, SendsDecides
<1>3. CASE Activate(t)
  <2>1. /\ At(t, "initialize", "activate") /\ UNCHANGED <<keyFile, generated>>
        /\ Sends(t, "set_active", 0, "end")
    BY <1>3 DEF Activate
  <2>2. ASSUME NEW th2, th2.script = "initialize", th2.pc = "end", th2.gum = threads[t].gum,
               th2.tx.op = "set_active", th2.tx.gum = threads[t].gum, th2.tx.amount = 0,
               th2.tx.op # "none" => th2.tx # NoTx
        PROVE  /\ TxFits(th2.tx, generated, stakeMint, pools) /\ WaitFits(th2)
               /\ GumFits(th2, stakeMint, pools) /\ WsolFits(th2, pools, wsol)
               /\ Opens(threads[t]) => Opens(th2)
    BY <2>2 DEF TxFits, TxOps, WaitFits, GumFits, WsolFits, Opens
  <2> QED
    BY <1>s, <2>1, <2>2, SendsDecides
<1> QED
  BY <1>1, <1>2, <1>3

\* init-staking.cjs and init-xnt-fees.cjs fund a vault that is empty.
LEMMA StakingDecides ==
    ASSUME DeployInv, NEW t \in Threads,
           ReadStakeConfig(t) \/ FundNftVault(t) \/ FundLpVault(t) \/ ReadXntPools(t)
    PROVE  \E th2 : Decides(t, th2)
<1>s. {"init-staking", "init-xnt-fees"} \subseteq Scripts
  BY DEF Scripts
<1>v. nftVault \in Nat /\ lpVault \in Nat
  BY DEF DeployInv, AccountsInv
<1>g. ASSUME NEW script \in {"init-staking", "init-xnt-fees"}, NEW pc, At(t, script, pc)
      PROVE  ~Opens(threads[t]) /\ threads[t].gum \in GumMints
  <2>1. threads[t].script = script /\ ThreadFits(threads[t], generated, stakeMint, pools, wsol)
    BY <1>g, AtPc
  <2> QED
    BY <1>g, <2>1 DEF Opens, ThreadFits, GumFits
<1>n. ASSUME NEW pc, NEW next, At(t, "init-staking", pc), GoesTo(t, next), UNCHANGED <<keyFile, generated>>
      PROVE  \E th2 : Decides(t, th2)
  <2>1. ASSUME NEW th2, th2.script = "init-staking", th2.pc = next, th2.gum = threads[t].gum,
               th2.tx = NoTx
        PROVE  GumFits(th2, stakeMint, pools) /\ WsolFits(th2, pools, wsol)
    BY <1>g, <1>n, <2>1 DEF GumFits, WsolFits
  <2> QED
    BY <1>s, <1>g, <1>n, <2>1, GoesToDecides
<1>1. CASE ReadStakeConfig(t)
  <2>1. At(t, "init-staking", "start") /\ UNCHANGED <<keyFile, generated>>
    BY <1>1 DEF ReadStakeConfig
  <2>2. CASE Sends(t, "initialize_staking", 0, "nft")
    <3>1. ASSUME NEW th2, th2.script = "init-staking", th2.pc = "nft", th2.gum = threads[t].gum,
                 th2.tx.op = "initialize_staking", th2.tx.gum = threads[t].gum, th2.tx.amount = 0,
                 th2.tx.op # "none" => th2.tx # NoTx
          PROVE  /\ TxFits(th2.tx, generated, stakeMint, pools) /\ WaitFits(th2)
                 /\ GumFits(th2, stakeMint, pools) /\ WsolFits(th2, pools, wsol)
                 /\ Opens(threads[t]) => Opens(th2)
      BY <1>g, <2>1, <3>1 DEF TxFits, TxOps, WaitFits, GumFits, WsolFits
    <3> QED
      BY <1>s, <2>1, <2>2, <3>1, SendsDecides
  <2> QED
    BY <1>1, <1>n, <2>1, <2>2 DEF ReadStakeConfig
<1>2. CASE FundNftVault(t)
  <2>1. At(t, "init-staking", "nft") /\ UNCHANGED <<keyFile, generated>>
    BY <1>2 DEF FundNftVault
  <2>2. CASE Sends(t, "fund_nft", 0, "lp") /\ ~AlreadyFunded(nftVault)
    <3>1. ASSUME NEW th2, th2.script = "init-staking", th2.pc = "lp", th2.gum = threads[t].gum,
                 th2.tx.op = "fund_nft", th2.tx.gum = threads[t].gum, th2.tx.amount = 0,
                 th2.tx.op # "none" => th2.tx # NoTx
          PROVE  /\ TxFits(th2.tx, generated, stakeMint, pools) /\ WaitFits(th2)
                 /\ GumFits(th2, stakeMint, pools) /\ WsolFits(th2, pools, wsol)
                 /\ Opens(threads[t]) => Opens(th2)
      BY <1>g, <2>1, <3>1 DEF TxFits, TxOps, WaitFits, GumFits, WsolFits
    <3>2. nftVault = 0
      BY <1>v, <2>2 DEF AlreadyFunded
    <3> QED
      BY <1>s, <2>1, <2>2, <3>1, <3>2, SendsDecides
  <2> QED
    BY <1>2, <1>n, <2>1, <2>2 DEF FundNftVault
<1>3. CASE FundLpVault(t)
  <2>1. At(t, "init-staking", "lp") /\ UNCHANGED <<keyFile, generated>>
    BY <1>3 DEF FundLpVault
  <2>2. CASE Sends(t, "fund_lp", 0, "end") /\ ~AlreadyFunded(lpVault)
    <3>1. ASSUME NEW th2, th2.script = "init-staking", th2.pc = "end", th2.gum = threads[t].gum,
                 th2.tx.op = "fund_lp", th2.tx.gum = threads[t].gum, th2.tx.amount = 0,
                 th2.tx.op # "none" => th2.tx # NoTx
          PROVE  /\ TxFits(th2.tx, generated, stakeMint, pools) /\ WaitFits(th2)
                 /\ GumFits(th2, stakeMint, pools) /\ WsolFits(th2, pools, wsol)
                 /\ Opens(threads[t]) => Opens(th2)
      BY <1>g, <2>1, <3>1 DEF TxFits, TxOps, WaitFits, GumFits, WsolFits
    <3>2. lpVault = 0
      BY <1>v, <2>2 DEF AlreadyFunded
    <3> QED
      BY <1>s, <2>1, <2>2, <3>1, <3>2, SendsDecides
  <2>3. CASE Ends(t)
    BY <1>g, <2>1, <2>3, EndsDecides
  <2> QED
    BY <1>3, <2>2, <2>3 DEF FundLpVault
<1>4. CASE ReadXntPools(t)
  <2>1. At(t, "init-xnt-fees", "start") /\ UNCHANGED <<keyFile, generated>>
    BY <1>4 DEF ReadXntPools
  <2>2. CASE Sends(t, "initialize_xnt_fees", 0, "end")
    <3>1. ASSUME NEW th2, th2.script = "init-xnt-fees", th2.pc = "end", th2.gum = threads[t].gum,
                 th2.tx.op = "initialize_xnt_fees", th2.tx.gum = threads[t].gum, th2.tx.amount = 0,
                 th2.tx.op # "none" => th2.tx # NoTx
          PROVE  /\ TxFits(th2.tx, generated, stakeMint, pools) /\ WaitFits(th2)
                 /\ GumFits(th2, stakeMint, pools) /\ WsolFits(th2, pools, wsol)
                 /\ Opens(threads[t]) => Opens(th2)
      BY <1>g, <2>1, <3>1 DEF TxFits, TxOps, WaitFits, GumFits, WsolFits
    <3> QED
      BY <1>s, <2>1, <2>2, <3>1, SendsDecides
  <2>3. CASE Ends(t)
    BY <1>g, <2>1, <2>3, EndsDecides
  <2> QED
    BY <1>4, <2>2, <2>3 DEF ReadXntPools
<1> QED
  BY <1>1, <1>2, <1>3, <1>4

\* create-pool.cjs makes the pool for the mint of the rewards, when the WSOL
\* account holds what it takes.
LEMMA CreatePoolDecides ==
    ASSUME DeployInv, NEW t \in Threads,
           AssertLiveGumMint(t) \/ FundWsolAccount(t) \/ SyncWsol(t) \/ RecheckWsol(t) \/ CreatePool(t)
    PROVE  \E th2 : Decides(t, th2)
<1> DEFINE gum == threads[t].gum
<1>s. "create-pool" \in Scripts
  BY DEF Scripts
<1>w. wsol.kind \in {"absent", "system", "token"} /\ wsol.amount \in Nat /\ 0 \notin mints /\ stakeMint \in mints \cup {0}
  BY DEF DeployInv, AccountsInv, NoMint
<1>g. ASSUME NEW pc, At(t, "create-pool", pc)
      PROVE  /\ ~Opens(threads[t]) /\ gum \in GumMints
             /\ pc \in {"wsol", "sync", "recheck", "create"} => gum = stakeMint /\ stakeMint # NoMint
             /\ pc = "create" => Covered(gum, 0, pools, wsol)
             /\ pc = "recheck" => wsol.kind = "token" \/ gum \in pools
  <2>1. /\ threads[t].script = "create-pool" /\ threads[t].pc = pc /\ threads[t].tx = NoTx
        /\ ThreadFits(threads[t], generated, stakeMint, pools, wsol)
    BY <1>g, AtPc
  <2> QED
    BY <2>1 DEF Opens, ThreadFits, GumFits, WsolFits
<1>t. ASSUME NEW pc, At(t, "create-pool", pc), TopUp(t), UNCHANGED <<keyFile, generated>>,
             gum = stakeMint, stakeMint # NoMint, wsol.kind = "token"
      PROVE  \E th2 : Decides(t, th2)
  <2>1. CASE wsol.amount < INIT_XNT /\ Sends(t, "add_wsol", INIT_XNT - wsol.amount + BUFFER, "create")
    <3> DEFINE amount == INIT_XNT - wsol.amount + BUFFER
    <3>1. amount \in Nat /\ wsol.amount + amount >= INIT_XNT
      BY <1>w, <2>1, DeployNumbers
    <3> HIDE DEF amount
    <3>2. ASSUME NEW th2, th2.script = "create-pool", th2.pc = "create", th2.gum = threads[t].gum,
                 th2.tx.op = "add_wsol", th2.tx.gum = threads[t].gum, th2.tx.amount = amount,
                 th2.tx.op # "none" => th2.tx # NoTx
          PROVE  /\ TxFits(th2.tx, generated, stakeMint, pools) /\ WaitFits(th2)
                 /\ GumFits(th2, stakeMint, pools) /\ WsolFits(th2, pools, wsol)
                 /\ Opens(threads[t]) => Opens(th2)
      BY <1>g, <1>t, <3>1, <3>2 DEF TxFits, TxOps, WaitFits, GumFits, WsolFits, Covered
    <3>3. Sends(t, "add_wsol", amount, "create")
      BY <2>1 DEF amount
    <3> QED
      BY <1>s, <1>t, <3>2, <3>3, SendsDecides
  <2>2. CASE wsol.amount >= INIT_XNT /\ GoesTo(t, "create")
    <3>1. wsol.amount + 0 >= INIT_XNT
      BY <1>w, <2>2
    <3>2. ASSUME NEW th2, th2.script = "create-pool", th2.pc = "create", th2.gum = threads[t].gum,
                 th2.tx = NoTx
          PROVE  GumFits(th2, stakeMint, pools) /\ WsolFits(th2, pools, wsol)
      BY <1>g, <1>t, <3>1, <3>2, NothingAwaited DEF GumFits, WsolFits, Covered
    <3> QED
      BY <1>s, <1>g, <1>t, <2>2, <3>2, GoesToDecides
  <2> QED
    BY <1>t, <1>w, <2>1, <2>2, DeployNumbers DEF TopUp
<1>1. CASE AssertLiveGumMint(t)
  <2>1. At(t, "create-pool", "start") /\ UNCHANGED <<keyFile, generated>>
    BY <1>1 DEF AssertLiveGumMint
  <2>2. CASE GoesTo(t, "wsol") /\ IsLiveGumMint(gum)
    <3>1. gum = stakeMint /\ stakeMint # NoMint
      BY <1>g, <2>1, <2>2 DEF IsLiveGumMint, GumMints, NoMint
    <3>2. ASSUME NEW th2, th2.script = "create-pool", th2.pc = "wsol", th2.gum = threads[t].gum,
                 th2.tx = NoTx
          PROVE  GumFits(th2, stakeMint, pools) /\ WsolFits(th2, pools, wsol)
      BY <1>g, <2>1, <3>1, <3>2 DEF GumFits, WsolFits
    <3> QED
      BY <1>s, <1>g, <2>1, <2>2, <3>2, GoesToDecides
  <2>3. CASE Ends(t)
    BY <1>g, <2>1, <2>3, EndsDecides
  <2> QED
    BY <1>1, <2>2, <2>3 DEF AssertLiveGumMint
<1>2. CASE FundWsolAccount(t)
  <2>1. At(t, "create-pool", "wsol") /\ UNCHANGED <<keyFile, generated>>
    BY <1>2 DEF FundWsolAccount
  <2>2. CASE Sends(t, "make_wsol", INIT_XNT + BUFFER, "create")
    <3> DEFINE amount == INIT_XNT + BUFFER
    <3>1. amount \in Nat /\ amount >= INIT_XNT
      BY DeployNumbers
    <3> HIDE DEF amount
    <3>2. ASSUME NEW th2, th2.script = "create-pool", th2.pc = "create", th2.gum = threads[t].gum,
                 th2.tx.op = "make_wsol", th2.tx.gum = threads[t].gum, th2.tx.amount = amount,
                 th2.tx.op # "none" => th2.tx # NoTx
          PROVE  /\ TxFits(th2.tx, generated, stakeMint, pools) /\ WaitFits(th2)
                 /\ GumFits(th2, stakeMint, pools) /\ WsolFits(th2, pools, wsol)
                 /\ Opens(threads[t]) => Opens(th2)
      BY <1>g, <2>1, <3>1, <3>2 DEF TxFits, TxOps, WaitFits, GumFits, WsolFits
    <3>3. Sends(t, "make_wsol", amount, "create")
      BY <2>2 DEF amount
    <3> QED
      BY <1>s, <2>1, <3>2, <3>3, SendsDecides
  <2>3. CASE Sends(t, "make_wsol", 0, "recheck")
    <3>1. ASSUME NEW th2, th2.script = "create-pool", th2.pc = "recheck", th2.gum = threads[t].gum,
                 th2.tx.op = "make_wsol", th2.tx.gum = threads[t].gum, th2.tx.amount = 0,
                 th2.tx.op # "none" => th2.tx # NoTx
          PROVE  /\ TxFits(th2.tx, generated, stakeMint, pools) /\ WaitFits(th2)
                 /\ GumFits(th2, stakeMint, pools) /\ WsolFits(th2, pools, wsol)
                 /\ Opens(threads[t]) => Opens(th2)
      BY <1>g, <2>1, <3>1 DEF TxFits, TxOps, WaitFits, GumFits, WsolFits
    <3> QED
      BY <1>s, <2>1, <2>3, <3>1, SendsDecides
  <2>4. CASE TopUp(t) /\ wsol.kind = "token"
    BY <1>g, <1>t, <2>1, <2>4
  <2>5. \/ Sends(t, "make_wsol", INIT_XNT + BUFFER, "create")
        \/ Sends(t, "make_wsol", 0, "recheck")
        \/ TopUp(t) /\ wsol.kind = "token"
    BY <1>2, <1>w DEF FundWsolAccount, AfterConversion
  <2> QED
    BY <2>2, <2>3, <2>4, <2>5
<1>3. CASE SyncWsol(t)
  <2>1. /\ At(t, "create-pool", "sync") /\ UNCHANGED <<keyFile, generated>>
        /\ Sends(t, "add_wsol", 0, "recheck")
    BY <1>3 DEF SyncWsol
  <2>2. ASSUME NEW th2, th2.script = "create-pool", th2.pc = "recheck", th2.gum = threads[t].gum,
               th2.tx.op = "add_wsol", th2.tx.gum = threads[t].gum, th2.tx.amount = 0,
               th2.tx.op # "none" => th2.tx # NoTx
        PROVE  /\ TxFits(th2.tx, generated, stakeMint, pools) /\ WaitFits(th2)
               /\ GumFits(th2, stakeMint, pools) /\ WsolFits(th2, pools, wsol)
               /\ Opens(threads[t]) => Opens(th2)
    BY <1>g, <2>1, <2>2 DEF TxFits, TxOps, WaitFits, GumFits, WsolFits
  <2> QED
    BY <1>s, <2>1, <2>2, SendsDecides
<1>4. CASE RecheckWsol(t)
  <2>1. At(t, "create-pool", "recheck") /\ UNCHANGED <<keyFile, generated>>
    BY <1>4 DEF RecheckWsol
  <2>2. CASE wsol.kind = "token" /\ TopUp(t)
    BY <1>g, <1>t, <2>1, <2>2
  <2>3. CASE wsol.kind # "token" /\ GoesTo(t, "create")
    <3>1. gum \in pools
      BY <1>g, <2>1, <2>3
    <3>2. ASSUME NEW th2, th2.script = "create-pool", th2.pc = "create", th2.gum = threads[t].gum,
                 th2.tx = NoTx
          PROVE  GumFits(th2, stakeMint, pools) /\ WsolFits(th2, pools, wsol)
      BY <1>g, <2>1, <3>1, <3>2, NothingAwaited DEF GumFits, WsolFits, Covered
    <3> QED
      BY <1>s, <1>g, <2>1, <2>3, <3>2, GoesToDecides
  <2> QED
    BY <1>4, <2>2, <2>3 DEF RecheckWsol
<1>5. CASE CreatePool(t)
  <2>1. /\ At(t, "create-pool", "create") /\ UNCHANGED <<keyFile, generated>>
        /\ Sends(t, "create_pool", 0, "end")
    BY <1>5 DEF CreatePool
  <2>2. ASSUME NEW th2, th2.script = "create-pool", th2.pc = "end", th2.gum = threads[t].gum,
               th2.tx.op = "create_pool", th2.tx.gum = threads[t].gum, th2.tx.amount = 0,
               th2.tx.op # "none" => th2.tx # NoTx
        PROVE  /\ TxFits(th2.tx, generated, stakeMint, pools) /\ WaitFits(th2)
               /\ GumFits(th2, stakeMint, pools) /\ WsolFits(th2, pools, wsol)
               /\ Opens(threads[t]) => Opens(th2)
    BY <1>g, <2>1, <2>2 DEF TxFits, TxOps, WaitFits, GumFits, WsolFits
  <2> QED
    BY <1>s, <2>1, <2>2, SendsDecides
<1> QED
  BY <1>1, <1>2, <1>3, <1>4, <1>5

\* withdraw-pool.cjs takes the LP tokens of a pool, and closes the account.
LEMMA WithdrawDecides ==
    ASSUME DeployInv, NEW t \in Threads, ReadLp(t) \/ UnwrapWsol(t)
    PROVE  \E th2 : Decides(t, th2)
<1>s. "withdraw-pool" \in Scripts
  BY DEF Scripts
<1>g. ASSUME NEW pc, At(t, "withdraw-pool", pc)
      PROVE  /\ ~Opens(threads[t]) /\ threads[t].gum \in GumMints
             /\ pc = "unwrap" => threads[t].gum \in pools
  <2>1. /\ threads[t].script = "withdraw-pool" /\ threads[t].pc = pc
        /\ ThreadFits(threads[t], generated, stakeMint, pools, wsol)
    BY <1>g, AtPc
  <2> QED
    BY <2>1 DEF Opens, ThreadFits, GumFits
<1>1. CASE ReadLp(t)
  <2>1. At(t, "withdraw-pool", "start") /\ UNCHANGED <<keyFile, generated>>
    BY <1>1 DEF ReadLp
  <2>2. ASSUME NEW op \in {"withdraw", "make_wsol_and_withdraw"}, Sends(t, op, 0, "unwrap"),
               threads[t].gum \in lp
        PROVE  \E th2 : Decides(t, th2)
    <3>1. threads[t].gum \in pools
      BY <2>2 DEF DeployInv, AccountsInv
    <3>2. ASSUME NEW th2, th2.script = "withdraw-pool", th2.pc = "unwrap", th2.gum = threads[t].gum,
                 th2.tx.op = op, th2.tx.gum = threads[t].gum, th2.tx.amount = 0,
                 th2.tx.op # "none" => th2.tx # NoTx
          PROVE  /\ TxFits(th2.tx, generated, stakeMint, pools) /\ WaitFits(th2)
                 /\ GumFits(th2, stakeMint, pools) /\ WsolFits(th2, pools, wsol)
                 /\ Opens(threads[t]) => Opens(th2)
      BY <1>g, <2>1, <3>1, <3>2 DEF TxFits, TxOps, WaitFits, GumFits, WsolFits
    <3> QED
      BY <1>s, <2>1, <2>2, <3>2, SendsDecides
  <2>3. CASE Ends(t)
    BY <1>g, <2>1, <2>3, EndsDecides
  <2> QED
    BY <1>1, <2>2, <2>3 DEF ReadLp
<1>2. CASE UnwrapWsol(t)
  <2>1. /\ At(t, "withdraw-pool", "unwrap") /\ UNCHANGED <<keyFile, generated>>
        /\ Sends(t, "close_wsol", 0, "end")
    BY <1>2 DEF UnwrapWsol
  <2>2. ASSUME NEW th2, th2.script = "withdraw-pool", th2.pc = "end", th2.gum = threads[t].gum,
               th2.tx.op = "close_wsol", th2.tx.gum = threads[t].gum, th2.tx.amount = 0,
               th2.tx.op # "none" => th2.tx # NoTx
        PROVE  /\ TxFits(th2.tx, generated, stakeMint, pools) /\ WaitFits(th2)
               /\ GumFits(th2, stakeMint, pools) /\ WsolFits(th2, pools, wsol)
               /\ Opens(threads[t]) => Opens(th2)
    BY <1>g, <2>1, <2>2 DEF TxFits, TxOps, WaitFits, GumFits, WsolFits
  <2> QED
    BY <1>s, <2>1, <2>2, SendsDecides
<1> QED
  BY <1>1, <1>2

\* EndScript, and what every decision leaves in order.
LEMMA EveryDecision ==
    ASSUME DeployInv, NEW t \in Threads,
           \/ GenerateMint(t) \/ ReadMachine(t) \/ SetOracleToWallet(t) \/ Activate(t)
           \/ ReadStakeConfig(t) \/ FundNftVault(t) \/ FundLpVault(t) \/ ReadXntPools(t)
           \/ AssertLiveGumMint(t) \/ FundWsolAccount(t) \/ SyncWsol(t) \/ RecheckWsol(t)
           \/ CreatePool(t) \/ ReadLp(t) \/ UnwrapWsol(t) \/ EndScript(t)
    PROVE  \E th2 : Decides(t, th2)
<1>1. CASE EndScript(t)
  <2>1. /\ At(t, threads[t].script, "end") /\ Ends(t) /\ UNCHANGED <<keyFile, generated>>
        /\ threads[t].pc = "end" /\ threads[t].tx = NoTx
    BY <1>1 DEF EndScript, At
  <2>2. ~Opens(threads[t])
    BY <2>1, NothingAwaited DEF Opens
  <2> QED
    BY <2>1, <2>2, EndsDecides
<1> QED
  BY <1>1, GenerateMintDecides, InitializeDecides, StakingDecides, CreatePoolDecides, WithdrawDecides

LEMMA DecisionKeeps ==
    ASSUME DeployInv, NEW t \in Threads, NEW th2, Decides(t, th2)
    PROVE  DeployInv'
<1>d. /\ threads' = [threads EXCEPT ![t] = th2]
      /\ ThreadFits(th2, generated', stakeMint, pools, wsol)
      /\ th2.script \in {threads[t].script, "none"}
      /\ threads[t].tx = NoTx
      /\ th2.tx.op = "fund_nft" => nftVault = 0
      /\ th2.tx.op = "fund_lp" => lpVault = 0
      /\ Opens(threads[t]) => Opens(th2)
      /\ UNCHANGED <<machine, active, wallet, mints, stakeMint, nftVault, lpVault, pools, lp, wsol,
                     late, launches, deployFaults>>
      /\ keyFile' \in 0..generated' /\ generated' \in Nat /\ generated <= generated'
      /\ generated' <= MaxMints
  BY DEF Decides
<1>1. AccountsInv'
  <2>1. 1..generated \subseteq 1..generated'
    BY <1>d DEF DeployInv, AccountsInv
  <2> QED
    BY <1>d, <2>1 DEF DeployInv, AccountsInv
<1>2. /\ ThreadsInv'
      /\ threads'[t] = th2 /\ \A u \in Threads \ {t} : threads'[u] = threads[u]
      /\ t # 1 => threads'[1] = threads[1]
  <2>1. \A u \in Threads : ThreadFits(threads[u], generated', stakeMint', pools', wsol')
    BY <1>d, OthersStayFit DEF DeployInv
  <2>2. ThreadFits(th2, generated', stakeMint', pools', wsol')
    BY <1>d
  <2> QED
    BY <1>d, <2>1, <2>2, OneThreadMoves DEF DeployInv
<1>3. LateInv'
  <2>1. generated \in Nat
    BY DEF DeployInv, AccountsInv
  <2>2. \A l \in late : TxFits(l.tx, generated', stakeMint, pools)
    BY <1>d, <2>1, TxStaysFit DEF DeployInv, LateInv
  <2> QED
    BY <1>d, <2>2 DEF DeployInv, LateInv
<1>4. FundInv'
  <2>1. IsFiniteSet(late) /\ Cardinality(late) <= deployFaults /\ deployFaults \in Nat
    BY DEF DeployInv, LateInv
  <2>2. ASSUME NEW vault, NEW fund \in Nat, NEW op \in {"fund_nft", "fund_lp"},
               FundedOnce(vault, fund, op, late, threads[1].tx, deployFaults),
               th2.tx.op = op => vault = 0
        PROVE  FundedOnce(vault, fund, op, late, threads'[1].tx, deployFaults)
    <3>1. CASE t # 1
      BY <1>2, <2>2, <3>1
    <3>2. CASE t = 1 /\ th2.tx.op = op
      BY <2>1, <2>2, <3>2, FundedFirst
    <3>3. CASE t = 1 /\ th2.tx.op # op
      <4>1. threads'[1] = th2 /\ threads[1].tx.op = "none"
        BY <1>d, <1>2, <3>3, NothingAwaited
      <4>2. threads[1].tx.op # op
        BY <4>1
      <4>3. Funding(op, late, threads'[1].tx) = Funding(op, late, threads[1].tx)
        BY <3>3, <4>1, <4>2 DEF Funding
      <4>4. Funding(op, late, threads[1].tx) \in Nat
        BY <2>1, FundingIsCounted
      <4>5. Funding(op, late, threads'[1].tx) + deployFaults
              <= Funding(op, late, threads[1].tx) + deployFaults
        BY <2>1, <4>3, <4>4
      <4> QED
        BY <2>1, <2>2, <4>5, FundedStays
    <3> QED
      BY <3>1, <3>2, <3>3
  <2>3. FundedOnce(nftVault, NFT_FUND, "fund_nft", late, threads'[1].tx, deployFaults)
    BY <1>d, <2>2, DeployNumbers DEF DeployInv, FundInv
  <2>4. FundedOnce(lpVault, LP_FUND, "fund_lp", late, threads'[1].tx, deployFaults)
    BY <1>d, <2>2, DeployNumbers DEF DeployInv, FundInv
  <2> QED
    BY <1>d, <2>3, <2>4 DEF FundInv
<1>5. OpenInv'
  <2>1. SUFFICES ASSUME NEW u \in Threads, Opens(threads[u])
                 PROVE  \E v \in Threads : Opens(threads'[v])
    BY <1>d DEF DeployInv, OpenInv
  <2>2. Opens(threads'[u])
    BY <1>d, <1>2, <2>1
  <2> QED
    BY <2>2
<1> QED
  BY <1>1, <1>2, <1>3, <1>4, <1>5 DEF DeployInv

LEMMA LaunchKeeps ==
    ASSUME DeployInv, Launch
    PROVE  DeployInv'
<1>1. PICK script \in Scripts, gum \in GumMints \cup {NoMint}, force \in BOOLEAN :
        /\ LaunchScript(script, gum, force)
        /\ script \notin {"initialize", "create-gum-token"} => gum \in GumMints
  BY DEF Launch, Scripts
<1> DEFINE th2 == Thread(script, "start", gum, force, NoTx)
<1>2. /\ \A t \in Threads : threads[t] = IdleThread
      /\ threads' = [t \in Threads |-> IF t = 1 \/ script = "initialize" THEN th2 ELSE IdleThread]
      /\ launches < MaxLaunches /\ launches' = launches + 1
      /\ UNCHANGED <<machine, active, wallet, mints, stakeMint, nftVault, lpVault, pools, lp, wsol,
                     keyFile, generated, late, deployFaults>>
  BY <1>1 DEF LaunchScript, accounts, machineVars, tokenVars, poolVars
<1>3. th2.script = script /\ th2.pc = "start" /\ th2.gum = gum /\ th2.tx = NoTx
  BY ThreadFields
<1> HIDE DEF th2
<1>4. ThreadFits(th2, generated, stakeMint, pools, wsol)
  BY <1>1, <1>3, NothingAwaited DEF ThreadFits, WaitFits, GumFits, WsolFits
<1>5. ThreadFits(IdleThread, generated, stakeMint, pools, wsol) /\ IdleThread.script = "none"
      /\ IdleThread.tx = NoTx
  BY IdleFits
<1>6. AccountsInv'
  BY <1>2 DEF DeployInv, AccountsInv
<1>7. ThreadsInv'
  <2>1. threads' = [t \in Threads |-> threads'[t]]
    BY <1>2
  <2>2. \A t \in Threads : threads'[t] \in {th2, IdleThread}
    BY <1>2
  <2>3. \A t \in Threads : ThreadFits(threads'[t], generated', stakeMint', pools', wsol')
    BY <1>2, <1>4, <1>5, <2>2
  <2>4. threads'[2].script \in {"none", "initialize"}
    BY <1>2, <1>3, <1>5 DEF Threads
  <2> QED
    BY <2>1, <2>3, <2>4 DEF ThreadsInv
<1>8. LateInv'
  <2>1. launches' \in Nat /\ launches' <= MaxLaunches
    BY <1>2, DeployNumbers DEF DeployInv, LateInv
  <2> QED
    BY <1>2, <2>1 DEF DeployInv, LateInv
<1>9. threads'[1].tx = NoTx /\ threads[1].tx = NoTx
  BY <1>2, <1>3, <1>5 DEF Threads
<1>10. FundInv'
  BY <1>2, <1>9 DEF DeployInv, FundInv
<1>11. OpenInv'
  <2>1. \A t \in Threads : ~Opens(threads[t])
    BY <1>2, <1>5 DEF Opens
  <2> QED
    BY <1>2, <2>1 DEF DeployInv, OpenInv
<1> QED
  BY <1>6, <1>7, <1>8, <1>10, <1>11 DEF DeployInv

(* What becomes of a transaction. *)

\* When a transaction lands, every thread is fit, and so is the one whose
\* transaction it was once it goes on.
LEMMA LandingIsMet ==
    ASSUME DeployInv, NEW tx, TxFits(tx, generated, stakeMint, pools), Lands(tx),
           UNCHANGED <<keyFile, generated>>
    PROVE  /\ AccountsInv'
           /\ \A u \in Threads : ThreadFits(threads[u], generated', stakeMint', pools', wsol')
           /\ \A u \in Threads : threads[u].tx = tx =>
                ThreadFits(Thread(threads[u].script, threads[u].pc, threads[u].gum, threads[u].force, NoTx),
                           generated', stakeMint', pools', wsol')
           /\ \A l \in late : TxFits(l.tx, generated', stakeMint', pools')
<1>1. /\ AccountsInv /\ AccountsInv' /\ pools \subseteq pools' /\ generated' = generated
      /\ stakeMint' = stakeMint \/ stakeMint = NoMint
  BY LandsKeepsAccounts DEF DeployInv
<1>2. /\ tx.op = "make_wsol" => wsol'.kind = "token" /\ wsol'.amount >= tx.amount
      /\ tx.op = "add_wsol" =>
           wsol.kind = "token" /\ wsol'.kind = "token" /\ wsol'.amount = wsol.amount + tx.amount
      /\ \/ stakeMint \in pools'
         \/ wsol.kind # "token"
         \/ wsol'.kind = "token" /\ wsol'.amount >= wsol.amount
  BY LandsOnWsol DEF DeployInv
<1>3. generated \in Nat /\ generated <= generated /\ wsol.amount \in Nat /\ wsol'.amount \in Nat
  BY <1>1 DEF AccountsInv
<1>4. ASSUME NEW u \in Threads
      PROVE  ThreadFits(threads[u], generated, stakeMint', pools', wsol')
  <2>1. ThreadFits(threads[u], generated, stakeMint, pools, wsol)
    BY DEF DeployInv, ThreadsInv
  <2> QED
    BY <1>1, <1>2, <1>3, <2>1, ThreadStaysFit
<1>5. ASSUME NEW u \in Threads, threads[u].tx = tx
      PROVE  ThreadFits(Thread(threads[u].script, threads[u].pc, threads[u].gum, threads[u].force, NoTx),
                        generated, stakeMint', pools', wsol')
  <2>1. ThreadFits(threads[u], generated, stakeMint, pools, wsol)
    BY DEF DeployInv, ThreadsInv
  <2> QED
    BY <1>1, <1>2, <1>3, <1>5, <2>1, AnswerFits
<1>6. ASSUME NEW l \in late PROVE TxFits(l.tx, generated, stakeMint', pools')
  <2>1. TxFits(l.tx, generated, stakeMint, pools)
    BY DEF DeployInv, LateInv
  <2> QED
    BY <1>1, <1>3, <2>1, TxStaysFit
<1> QED
  BY <1>1, <1>4, <1>5, <1>6

\* A transfer to a vault is only awaited by the first thread.
LEMMA OnlyFirstFunds ==
    ASSUME DeployInv, NEW t \in Threads, threads[t].tx.op \in {"fund_nft", "fund_lp"}
    PROVE  t = 1
<1>1. threads[t].script = "init-staking"
  BY DEF DeployInv, ThreadsInv, ThreadFits, WaitFits
<1> QED
  BY <1>1 DEF DeployInv, ThreadsInv, Threads

\* A thread that no longer waits makes one transfer less possible, if any.
LEMMA FundedWithout ==
    ASSUME DeployInv, NEW vault, NEW fund, NEW op \in {"fund_nft", "fund_lp"}, NEW f2 \in Nat,
           FundedOnce(vault, fund, op, late, threads[1].tx, deployFaults), deployFaults <= f2,
           NEW tx2, tx2.op # op \/ tx2 = threads[1].tx
    PROVE  FundedOnce(vault, fund, op, late, tx2, f2)
<1>1. IsFiniteSet(late) /\ deployFaults \in Nat
  BY DEF DeployInv, LateInv
<1> DEFINE n == Cardinality({l \in late : l.tx.op = op})
<1>2. n \in Nat /\ Funding(op, late, threads[1].tx) = n + (IF threads[1].tx.op = op THEN 1 ELSE 0)
  BY <1>1, FundingIsCounted
<1>3. Funding(op, late, tx2) = n + (IF tx2.op = op THEN 1 ELSE 0)
  BY <1>1, FundingIsCounted
<1> HIDE DEF n
<1>4. PICK w \in {0, 1} : w = IF threads[1].tx.op = op THEN 1 ELSE 0
  OBVIOUS
<1>5. PICK w2 \in {0, 1} : w2 = IF tx2.op = op THEN 1 ELSE 0
  OBVIOUS
<1>6. w2 <= w
  BY <1>4, <1>5
<1>7. Funding(op, late, tx2) + deployFaults <= Funding(op, late, threads[1].tx) + f2
  BY <1>1, <1>2, <1>3, <1>4, <1>5, <1>6
<1> QED
  BY <1>1, <1>7, FundedStays

LEMMA ConfirmedKeeps ==
    ASSUME DeployInv, NEW t \in Threads, Confirmed(t)
    PROVE  DeployInv'
<1> DEFINE th == threads[t]
           th2 == Thread(th.script, th.pc, th.gum, th.force, NoTx)
<1>1. /\ Lands(th.tx) /\ threads' = [threads EXCEPT ![t] = th2]
      /\ UNCHANGED <<keyFile, generated, late, launches, deployFaults>>
  BY DEF Confirmed, Answered
<1>2. ThreadFits(th, generated, stakeMint, pools, wsol) /\ TxFits(th.tx, generated, stakeMint, pools)
  BY DEF DeployInv, ThreadsInv, ThreadFits
<1>3. /\ AccountsInv'
      /\ \A u \in Threads : ThreadFits(threads[u], generated', stakeMint', pools', wsol')
      /\ ThreadFits(th2, generated', stakeMint', pools', wsol')
      /\ \A l \in late : TxFits(l.tx, generated', stakeMint', pools')
  BY <1>1, <1>2, LandingIsMet
<1>4. th2.script = th.script /\ th2.pc = th.pc /\ th2.tx = NoTx
  BY ThreadFields
<1> HIDE DEF th2
<1>5. /\ ThreadsInv'
      /\ threads'[t] = th2 /\ \A u \in Threads \ {t} : threads'[u] = threads[u]
      /\ t # 1 => threads'[1] = threads[1]
  BY <1>1, <1>3, <1>4, OneThreadMoves DEF DeployInv
<1>6. LateInv'
  BY <1>1, <1>3 DEF DeployInv, LateInv
<1>v. /\ nftVault' = IF th.tx.op = "fund_nft" THEN nftVault + NFT_FUND ELSE nftVault
      /\ lpVault' = IF th.tx.op = "fund_lp" THEN lpVault + LP_FUND ELSE lpVault
      /\ th.tx.op # "initialize_machine" => machine' = machine /\ (active => active')
      /\ th.tx.op = "initialize_machine" => machine = "absent"
      /\ th.tx.op = "set_active" => active'
      /\ th.tx.op # "none"
  BY <1>1, LandsOnVaults
<1>7. ASSUME NEW vault, NEW fund \in Nat, NEW op \in {"fund_nft", "fund_lp"},
             FundedOnce(vault, fund, op, late, threads[1].tx, deployFaults)
      PROVE  FundedOnce(IF th.tx.op = op THEN vault + fund ELSE vault, fund, op, late,
                        threads'[1].tx, deployFaults)
  <2>1. IsFiniteSet(late) /\ deployFaults \in Nat
    BY DEF DeployInv, LateInv
  <2>2. CASE th.tx.op = op
    <3>1. t = 1
      BY <2>2, <1>7, OnlyFirstFunds
    <3>2. threads'[1].tx.op # op /\ threads[1].tx.op = op
      BY <1>4, <1>5, <2>2, <3>1, NothingAwaited
    <3> QED
      BY <1>7, <2>1, <2>2, <3>2, FundedAsAwaited
  <2>3. CASE th.tx.op # op
    <3>1. threads'[1].tx.op # op \/ threads'[1].tx = threads[1].tx
      BY <1>4, <1>5, NothingAwaited
    <3>2. FundedOnce(vault, fund, op, late, threads'[1].tx, deployFaults)
      BY <1>7, <2>1, <3>1, FundedWithout
    <3> QED
      BY <2>3, <3>2
  <2> QED
    BY <2>2, <2>3
<1>8. FundInv'
  <2>1. FundedOnce(nftVault', NFT_FUND, "fund_nft", late, threads'[1].tx, deployFaults)
    BY <1>7, <1>v, DeployNumbers DEF DeployInv, FundInv
  <2>2. FundedOnce(lpVault', LP_FUND, "fund_lp", late, threads'[1].tx, deployFaults)
    BY <1>7, <1>v, DeployNumbers DEF DeployInv, FundInv
  <2> QED
    BY <1>1, <2>1, <2>2 DEF FundInv
<1>9. OpenInv'
  <2>1. SUFFICES ASSUME deployFaults = 0, machine' = "ready", ~active'
                 PROVE  \E u \in Threads : Opens(threads'[u])
    BY <1>1 DEF OpenInv
  <2>2. CASE th.tx.op = "initialize_machine"
    <3>1. Opens(th2)
      BY <1>2, <1>4, <2>2 DEF ThreadFits, WaitFits, Opens
    <3> QED
      BY <1>5, <3>1
  <2>3. CASE th.tx.op # "initialize_machine"
    <3>1. PICK u \in Threads : Opens(threads[u])
      BY <1>v, <2>1, <2>3 DEF DeployInv, OpenInv
    <3>2. CASE u # t
      BY <1>5, <3>1, <3>2
    <3>3. CASE u = t
      <4>1. th.tx # NoTx /\ th.tx.op # "set_active"
        BY <1>v, <2>1, NothingAwaited
      <4>2. Opens(th2)
        BY <1>4, <3>1, <3>3, <4>1 DEF Opens
      <4> QED
        BY <1>5, <4>2
    <3> QED
      BY <3>2, <3>3
  <2> QED
    BY <2>2, <2>3
<1> QED
  BY <1>3, <1>5, <1>6, <1>8, <1>9 DEF DeployInv

LEMMA TwinKeeps ==
    ASSUME DeployInv, NEW t \in Threads, ConfirmedAsTwin(t)
    PROVE  DeployInv'
<1> DEFINE th == threads[t]
           th2 == Thread(th.script, th.pc, th.gum, th.force, NoTx)
<1>1. /\ th.tx.op = "initialize_machine" /\ threads' = [threads EXCEPT ![t] = th2]
      /\ UNCHANGED <<machine, active, wallet, mints, stakeMint, nftVault, lpVault, pools, lp, wsol,
                     keyFile, generated, late, launches, deployFaults>>
  BY DEF ConfirmedAsTwin, Answered, accounts, machineVars, tokenVars, poolVars
<1>2. ThreadFits(th, generated, stakeMint, pools, wsol)
  BY DEF DeployInv, ThreadsInv
<1>3. generated \in Nat /\ wsol.amount \in Nat /\ wsol.amount >= wsol.amount
  BY DEF DeployInv, AccountsInv
<1>4. th2.script = th.script /\ th2.pc = th.pc /\ th2.tx = NoTx
  BY ThreadFields
<1>5. ThreadFits(th2, generated, stakeMint, pools, wsol)
  BY <1>1, <1>2, <1>3, AnswerFits
<1> HIDE DEF th2
<1>6. AccountsInv'
  BY <1>1 DEF DeployInv, AccountsInv
<1>7. /\ ThreadsInv'
      /\ threads'[t] = th2 /\ \A u \in Threads \ {t} : threads'[u] = threads[u]
      /\ t # 1 => threads'[1] = threads[1]
  BY <1>1, <1>4, <1>5, OneThreadMoves DEF DeployInv, ThreadsInv
<1>8. LateInv'
  BY <1>1 DEF DeployInv, LateInv
<1>9. FundInv'
  <2>1. ASSUME NEW op \in {"fund_nft", "fund_lp"}
        PROVE  threads'[1].tx.op # op \/ threads'[1].tx = threads[1].tx
    BY <1>4, <1>7, NothingAwaited
  <2>2. deployFaults \in Nat /\ deployFaults <= deployFaults
    BY DEF DeployInv, LateInv
  <2>3. FundedOnce(nftVault, NFT_FUND, "fund_nft", late, threads'[1].tx, deployFaults)
    BY <2>1, <2>2, FundedWithout DEF DeployInv, FundInv
  <2>4. FundedOnce(lpVault, LP_FUND, "fund_lp", late, threads'[1].tx, deployFaults)
    BY <2>1, <2>2, FundedWithout DEF DeployInv, FundInv
  <2> QED
    BY <1>1, <2>3, <2>4 DEF FundInv
<1>10. OpenInv'
  <2>1. Opens(th2)
    BY <1>1, <1>2, <1>4 DEF ThreadFits, WaitFits, Opens
  <2> QED
    BY <1>7, <2>1 DEF OpenInv
<1> QED
  BY <1>6, <1>7, <1>8, <1>9, <1>10 DEF DeployInv

\* A transaction that is refused, or whose wait is given up: the latter may
\* still land, and is counted as a fault.
LEMMA FailureKeeps ==
    ASSUME DeployInv, NEW t \in Threads, Refused(t) \/ GivenUp(t)
    PROVE  DeployInv'
<1> DEFINE th == threads[t]
           l == [nr |-> deployFaults, tx |-> th.tx]
<1>1. /\ th.tx # NoTx /\ Throws(t)
      /\ UNCHANGED <<machine, active, wallet, mints, stakeMint, nftVault, lpVault, pools, lp, wsol,
                     keyFile, generated, launches>>
  BY DEF Refused, GivenUp, accounts, machineVars, tokenVars, poolVars
<1>2. PICK th2 :
        /\ threads' = [threads EXCEPT ![t] = th2]
        /\ ThreadFits(th2, generated, stakeMint, pools, wsol)
        /\ th2.script \in {th.script, "none"}
        /\ th2.tx = NoTx
        /\ th.tx.op = "initialize_machine" => ~Opens(th)
  BY <1>1, ThrowFits DEF DeployInv
<1>f. /\ IsFiniteSet(late) /\ Cardinality(late) <= deployFaults /\ deployFaults \in Nat
      /\ deployFaults <= MaxDeployFaults /\ Cardinality(late) \in Nat
      /\ launches \in Nat /\ launches <= MaxLaunches
  BY FS_CardinalityType DEF DeployInv, LateInv
<1>3. \/ /\ late' = late /\ deployFaults' = deployFaults /\ th.tx.op = "initialize_machine"
      \/ late' = late /\ deployFaults' = deployFaults + 1 /\ deployFaults < MaxDeployFaults
      \/ late' = late \cup {l} /\ deployFaults' = deployFaults + 1 /\ deployFaults < MaxDeployFaults
  BY DEF Refused, GivenUp
<1>4. /\ deployFaults' \in Nat /\ deployFaults' <= MaxDeployFaults /\ deployFaults <= deployFaults'
      /\ deployFaults' # deployFaults => deployFaults' > 0
  BY <1>f, <1>3, DeployNumbers
<1>5. l.tx = th.tx
  OBVIOUS
<1>6. TxFits(th.tx, generated, stakeMint, pools)
  BY DEF DeployInv, ThreadsInv, ThreadFits
<1> HIDE DEF l
<1>7. AccountsInv'
  BY <1>1 DEF DeployInv, AccountsInv
<1>8. /\ ThreadsInv'
      /\ threads'[t] = th2 /\ \A u \in Threads \ {t} : threads'[u] = threads[u]
      /\ t # 1 => threads'[1] = threads[1]
  <2>1. \A u \in Threads : ThreadFits(threads[u], generated', stakeMint', pools', wsol')
    BY <1>1 DEF DeployInv, ThreadsInv
  <2>2. ThreadFits(th2, generated', stakeMint', pools', wsol')
    BY <1>1, <1>2
  <2> QED
    BY <1>2, <2>1, <2>2, OneThreadMoves DEF DeployInv
<1>9. LateInv'
  <2>1. IsFiniteSet(late') /\ Cardinality(late') <= deployFaults'
    <3>1. CASE late' = late
      BY <1>f, <1>3, <1>4, <3>1
    <3>2. CASE late' = late \cup {l} /\ deployFaults' = deployFaults + 1
      <4>1. IsFiniteSet(late \cup {l}) /\ Cardinality(late \cup {l}) <= Cardinality(late) + 1
        <5>1. /\ IsFiniteSet(late \cup {l})
              /\ \/ Cardinality(late \cup {l}) = Cardinality(late)
                 \/ Cardinality(late \cup {l}) = Cardinality(late) + 1
          BY <1>f, FS_AddElement
        <5> QED
          BY <1>f, <5>1
      <4>2. Cardinality(late \cup {l}) \in Nat
        BY <4>1, FS_CardinalityType
      <4> QED
        BY <1>f, <3>2, <4>1, <4>2
    <3> QED
      BY <1>3, <3>1, <3>2
  <2>2. \A m \in late' : TxFits(m.tx, generated', stakeMint', pools')
    <3>1. \A m \in late : TxFits(m.tx, generated, stakeMint, pools)
      BY DEF DeployInv, LateInv
    <3>2. \A m \in late' : m \in late \/ m.tx = th.tx
      BY <1>3, <1>5
    <3> QED
      BY <1>1, <1>6, <3>1, <3>2
  <2> QED
    BY <1>1, <1>f, <1>4, <2>1, <2>2 DEF LateInv
<1>10. ASSUME NEW vault, NEW fund, NEW op \in {"fund_nft", "fund_lp"},
              FundedOnce(vault, fund, op, late, threads[1].tx, deployFaults)
       PROVE  FundedOnce(vault, fund, op, late', threads'[1].tx, deployFaults')
  <2>1. threads'[1].tx.op # op \/ threads'[1].tx = threads[1].tx
    BY <1>2, <1>8, NothingAwaited
  <2>2. CASE late' = late
    BY <1>4, <1>10, <2>1, <2>2, FundedWithout
  <2>3. CASE late' = late \cup {l} /\ deployFaults' = deployFaults + 1
    <3>1. IsFiniteSet(late')
      BY <1>9 DEF LateInv
    <3>2. CASE threads'[1].tx.op # op
      <4>1. Funding(op, late', threads'[1].tx) <= Funding(op, late, threads[1].tx) + 1
        BY <1>f, <2>3, <3>2, GivenUpIsCounted
      <4>2. /\ Funding(op, late', threads'[1].tx) \in Nat
            /\ Funding(op, late, threads[1].tx) \in Nat
        BY <1>f, <3>1, FundingIsCounted
      <4>3. Funding(op, late', threads'[1].tx) + deployFaults
              <= Funding(op, late, threads[1].tx) + deployFaults'
        BY <1>f, <2>3, <4>1, <4>2
      <4> QED
        BY <1>f, <1>4, <1>10, <3>1, <4>3, FundedStays
    <3>3. CASE threads'[1].tx = threads[1].tx /\ threads'[1].tx.op = op
      <4>1. threads[1].tx.op = op
        BY <3>3
      <4>2. t # 1
        BY <1>2, <1>8, <3>3, NothingAwaited
      <4>3. th.tx.op # op
        BY <4>2, OnlyFirstFunds
      <4>4. {m \in late' : m.tx.op = op} = {m \in late : m.tx.op = op}
        BY <1>5, <2>3, <4>3
      <4>5. Funding(op, late', threads'[1].tx) = Funding(op, late, threads[1].tx)
        BY <3>3, <4>4 DEF Funding
      <4>6. Funding(op, late, threads[1].tx) \in Nat
        BY <1>f, FundingIsCounted
      <4>7. Funding(op, late', threads'[1].tx) + deployFaults
              <= Funding(op, late, threads[1].tx) + deployFaults'
        BY <1>f, <2>3, <4>5, <4>6
      <4> QED
        BY <1>f, <1>4, <1>10, <3>1, <4>7, FundedStays
    <3> QED
      BY <2>1, <3>2, <3>3
  <2> QED
    BY <1>3, <2>2, <2>3
<1>11. FundInv'
  <2>1. /\ FundedOnce(nftVault, NFT_FUND, "fund_nft", late', threads'[1].tx, deployFaults')
        /\ FundedOnce(lpVault, LP_FUND, "fund_lp", late', threads'[1].tx, deployFaults')
    BY <1>10 DEF DeployInv, FundInv
  <2> QED
    BY <1>1, <2>1 DEF FundInv
<1>12. OpenInv'
  <2>1. SUFFICES ASSUME deployFaults' = 0, machine' = "ready", ~active'
                 PROVE  \E u \in Threads : Opens(threads'[u])
    BY DEF OpenInv
  <2>2. deployFaults = 0 /\ ~Opens(th)
    BY <1>2, <1>3, <1>4, <1>f, <2>1
  <2>3. PICK u \in Threads : Opens(threads[u])
    BY <1>1, <2>1, <2>2 DEF DeployInv, OpenInv
  <2> QED
    BY <1>8, <2>2, <2>3
<1> QED
  BY <1>7, <1>8, <1>9, <1>11, <1>12 DEF DeployInv

LEMMA LandsLateKeeps ==
    ASSUME DeployInv, NEW l \in late, LandsLate(l)
    PROVE  DeployInv'
<1>1. /\ Lands(l.tx) /\ late' = late \ {l}
      /\ UNCHANGED <<keyFile, generated, threads, launches, deployFaults>>
  BY DEF LandsLate
<1>2. TxFits(l.tx, generated, stakeMint, pools)
  BY DEF DeployInv, LateInv
<1>3. /\ AccountsInv'
      /\ \A u \in Threads : ThreadFits(threads[u], generated', stakeMint', pools', wsol')
      /\ \A m \in late : TxFits(m.tx, generated', stakeMint', pools')
  BY <1>1, <1>2, LandingIsMet
<1>f. /\ IsFiniteSet(late) /\ Cardinality(late) <= deployFaults /\ deployFaults \in Nat
      /\ Cardinality(late) \in Nat
  BY FS_CardinalityType DEF DeployInv, LateInv
<1>4. IsFiniteSet(late \ {l}) /\ Cardinality(late \ {l}) = Cardinality(late) - 1
  BY <1>f, FS_RemoveElement
<1>c. Cardinality(late \ {l}) \in Nat
  BY <1>4, FS_CardinalityType
<1>5. ThreadsInv'
  BY <1>1, <1>3 DEF DeployInv, ThreadsInv
<1>6. LateInv'
  <2>1. Cardinality(late \ {l}) <= deployFaults
    BY <1>f, <1>4
  <2> QED
    BY <1>1, <1>3, <1>4, <2>1 DEF DeployInv, LateInv
<1>7. /\ nftVault' = IF l.tx.op = "fund_nft" THEN nftVault + NFT_FUND ELSE nftVault
      /\ lpVault' = IF l.tx.op = "fund_lp" THEN lpVault + LP_FUND ELSE lpVault
  BY <1>1, LandsOnVaults
<1>8. ASSUME NEW vault, NEW fund \in Nat, NEW op \in {"fund_nft", "fund_lp"},
             FundedOnce(vault, fund, op, late, threads[1].tx, deployFaults)
      PROVE  FundedOnce(IF l.tx.op = op THEN vault + fund ELSE vault, fund, op, late',
                        threads[1].tx, deployFaults)
  <2>1. CASE l.tx.op = op
    <3>1. FundedOnce(vault + fund, fund, l.tx.op, late \ {l}, threads[1].tx, deployFaults)
      BY <1>8, <1>f, <2>1, FundedLate
    <3> QED
      BY <1>1, <2>1, <3>1
  <2>2. CASE l.tx.op # op
    <3>1. {m \in late' : m.tx.op = op} = {m \in late : m.tx.op = op}
      BY <1>1, <2>2
    <3>2. Funding(op, late', threads[1].tx) = Funding(op, late, threads[1].tx)
      BY <3>1 DEF Funding
    <3>3. Funding(op, late, threads[1].tx) \in Nat
      BY <1>f, FundingIsCounted
    <3>4. Funding(op, late', threads[1].tx) + deployFaults
            <= Funding(op, late, threads[1].tx) + deployFaults
      BY <1>f, <3>2, <3>3
    <3>5. IsFiniteSet(late')
      BY <1>1, <1>4
    <3>6. FundedOnce(vault, fund, op, late', threads[1].tx, deployFaults)
      BY <1>8, <1>f, <3>4, <3>5, FundedStays
    <3> QED
      BY <2>2, <3>6
  <2> QED
    BY <2>1, <2>2
<1>9. FundInv'
  <2>1. FundedOnce(nftVault', NFT_FUND, "fund_nft", late', threads[1].tx, deployFaults)
    BY <1>7, <1>8, DeployNumbers DEF DeployInv, FundInv
  <2>2. FundedOnce(lpVault', LP_FUND, "fund_lp", late', threads[1].tx, deployFaults)
    BY <1>7, <1>8, DeployNumbers DEF DeployInv, FundInv
  <2> QED
    BY <1>1, <2>1, <2>2 DEF FundInv
<1>10. OpenInv'
  <2>1. deployFaults # 0
    BY <1>f, <1>4, <1>c
  <2> QED
    BY <1>1, <2>1 DEF OpenInv
<1> QED
  BY <1>3, <1>5, <1>6, <1>9, <1>10 DEF DeployInv

LEMMA DeploySteps == DeployInv /\ [DeployNext]_deployVars => DeployInv'
<1> SUFFICES ASSUME DeployInv, [DeployNext]_deployVars PROVE DeployInv'
  OBVIOUS
<1>1. ASSUME NEW t \in Threads,
             \/ GenerateMint(t) \/ ReadMachine(t) \/ SetOracleToWallet(t) \/ Activate(t)
             \/ ReadStakeConfig(t) \/ FundNftVault(t) \/ FundLpVault(t) \/ ReadXntPools(t)
             \/ AssertLiveGumMint(t) \/ FundWsolAccount(t) \/ SyncWsol(t) \/ RecheckWsol(t)
             \/ CreatePool(t) \/ ReadLp(t) \/ UnwrapWsol(t) \/ EndScript(t)
      PROVE  DeployInv'
  BY <1>1, EveryDecision, DecisionKeeps
<1>2. ASSUME NEW t \in Threads, Confirmed(t) \/ ConfirmedAsTwin(t) \/ Refused(t) \/ GivenUp(t)
      PROVE  DeployInv'
  BY <1>2, ConfirmedKeeps, TwinKeeps, FailureKeeps
<1>3. CASE UNCHANGED deployVars
  <2>1. UNCHANGED <<machine, active, wallet, mints, stakeMint, nftVault, lpVault, pools, lp, wsol,
                    keyFile, generated, threads, late, launches, deployFaults>>
    BY <1>3 DEF deployVars, accounts, machineVars, tokenVars, poolVars
  <2>2. AccountsInv' /\ ThreadsInv'
    BY <2>1 DEF DeployInv, AccountsInv, ThreadsInv
  <2>3. LateInv' /\ FundInv' /\ OpenInv'
    BY <2>1 DEF DeployInv, LateInv, FundInv, OpenInv
  <2> QED
    BY <2>2, <2>3 DEF DeployInv
<1> QED
  BY <1>1, <1>2, <1>3, LaunchKeeps, LandsLateKeeps DEF DeployNext

\* Of all steps only the one that saves a key sends a transaction for its mint.
LEMMA KeyStaysSaved == DeployInv /\ KeySavedFirst /\ [DeployNext]_deployVars => KeySavedFirst'
<1> SUFFICES ASSUME DeployInv, KeySavedFirst, [DeployNext]_deployVars PROVE KeySavedFirst'
  OBVIOUS
<1> DEFINE Stays(u) == threads'[u].tx.op = "create_gum" => threads'[u].tx = threads[u].tx
<1>a. IdleThread.tx = NoTx /\ NoTx.op # "create_gum"
  BY IdleFits, NothingAwaited
<1>b. threads = [u \in Threads |-> threads[u]]
  BY DEF DeployInv, ThreadsInv
<1>1. ASSUME UNCHANGED keyFile, \A u \in Threads : Stays(u) PROVE KeySavedFirst'
  BY <1>1 DEF KeySavedFirst
<1>2. ASSUME NEW t \in Threads, GenerateMint(t) PROVE KeySavedFirst'
  <2>1. threads[t].script = "create-gum-token"
    BY <1>2 DEF GenerateMint, At
  <2>2. \A u \in Threads \ {t} : threads[u].tx.op # "create_gum" /\ threads'[u] = threads[u]
    <3>1. t = 1
      BY <2>1 DEF DeployInv, ThreadsInv, Threads
    <3>2. threads[2].tx.op # "create_gum"
      BY DEF DeployInv, ThreadsInv, ThreadFits, WaitFits, Threads
    <3> QED
      BY <1>2, <1>b, <3>1, <3>2 DEF GenerateMint, Ends, Threads
  <2>3. threads'[t].tx.op = "create_gum" => keyFile' = threads'[t].tx.gum
    <3> DEFINE tx == [op |-> "create_gum", gum |-> generated + 1, amount |-> 0]
               th2 == Thread("create-gum-token", "end", generated + 1, FALSE, tx)
    <3>1. \/ threads' = [threads EXCEPT ![t] = th2] /\ keyFile' = generated + 1
          \/ threads' = [threads EXCEPT ![t] = IdleThread]
      BY <1>2 DEF GenerateMint, Ends
    <3>2. tx.gum = generated + 1
      OBVIOUS
    <3> HIDE DEF tx
    <3>3. th2.tx = tx
      BY DEF Thread
    <3> HIDE DEF th2
    <3>4. threads'[t] = IdleThread \/ (threads'[t] = th2 /\ keyFile' = generated + 1)
      BY <1>b, <3>1
    <3> QED
      BY <1>a, <3>2, <3>3, <3>4
  <2> QED
    BY <2>2, <2>3 DEF KeySavedFirst
<1>3. ASSUME NEW t \in Threads, NEW th2, threads' = [threads EXCEPT ![t] = th2],
             UNCHANGED keyFile, th2.tx.op = "create_gum" => th2.tx = threads[t].tx
      PROVE  KeySavedFirst'
  BY <1>1, <1>3, <1>b
<1>4. ASSUME NEW t \in Threads, UNCHANGED keyFile,
             \/ Ends(t) \/ \E pc : GoesTo(t, pc) \/ Answered(t, pc)
             \/ \E op, amount, next : Sends(t, op, amount, next) /\ op # "create_gum"
      PROVE  KeySavedFirst'
  <2>1. CASE Ends(t)
    BY <1>3, <1>4, <1>a, <2>1 DEF Ends
  <2>2. ASSUME NEW pc, GoesTo(t, pc) PROVE KeySavedFirst'
    <3> DEFINE th == threads[t]
               th2 == Thread(th.script, pc, th.gum, th.force, th.tx)
    <3>1. threads' = [threads EXCEPT ![t] = th2] /\ th2.tx = threads[t].tx
      BY <2>2, ThreadFields DEF GoesTo
    <3> HIDE DEF th2
    <3> QED
      BY <1>3, <1>4, <3>1
  <2>3. ASSUME NEW pc, Answered(t, pc) PROVE KeySavedFirst'
    <3> DEFINE th == threads[t]
               th2 == Thread(th.script, pc, th.gum, th.force, NoTx)
    <3>1. threads' = [threads EXCEPT ![t] = th2] /\ th2.tx = NoTx
      BY <2>3, ThreadFields DEF Answered
    <3> HIDE DEF th2
    <3> QED
      BY <1>3, <1>4, <1>a, <3>1
  <2>4. ASSUME NEW op, NEW amount, NEW next, Sends(t, op, amount, next), op # "create_gum"
        PROVE  KeySavedFirst'
    <3> DEFINE th == threads[t]
               tx == [op |-> op, gum |-> th.gum, amount |-> amount]
               th2 == Thread(th.script, next, th.gum, th.force, tx)
    <3>1. threads' = [threads EXCEPT ![t] = th2]
      BY <2>4 DEF Sends
    <3>2. th2.tx = tx /\ tx.op = op
      BY ThreadFields
    <3> QED
      BY <1>3, <1>4, <2>4, <3>1, <3>2
  <2> QED
    BY <1>4, <2>1, <2>2, <2>3, <2>4
<1>5. ASSUME NEW t \in Threads,
             \/ ReadMachine(t) \/ SetOracleToWallet(t) \/ Activate(t)
             \/ ReadStakeConfig(t) \/ FundNftVault(t) \/ FundLpVault(t) \/ ReadXntPools(t)
             \/ EndScript(t)
      PROVE  KeySavedFirst'
  BY <1>4, <1>5 DEF ReadMachine, SetOracleToWallet, Activate, ReadStakeConfig, FundNftVault,
                    FundLpVault, ReadXntPools, EndScript
<1>6. ASSUME NEW t \in Threads,
             \/ AssertLiveGumMint(t) \/ FundWsolAccount(t) \/ SyncWsol(t) \/ RecheckWsol(t)
             \/ CreatePool(t) \/ ReadLp(t) \/ UnwrapWsol(t)
      PROVE  KeySavedFirst'
  <2>1. wsol.kind \in {"absent", "system", "token"}
    BY DEF DeployInv, AccountsInv
  <2> QED
    <3>t. ASSUME TopUp(t), UNCHANGED keyFile PROVE KeySavedFirst'
      BY <1>4, <3>t DEF TopUp
    <3>1. CASE AssertLiveGumMint(t)
      BY <1>4, <3>1 DEF AssertLiveGumMint
    <3>2. CASE FundWsolAccount(t)
      <4>1. \/ Sends(t, "make_wsol", INIT_XNT + BUFFER, "create")
            \/ Sends(t, "make_wsol", 0, AfterConversion)
            \/ TopUp(t)
        BY <2>1, <3>2 DEF FundWsolAccount
      <4>2. UNCHANGED keyFile
        BY <3>2 DEF FundWsolAccount
      <4> QED
        BY <1>4, <3>t, <4>1, <4>2
    <3>3. CASE RecheckWsol(t)
      BY <1>4, <3>t, <3>3 DEF RecheckWsol
    <3>4. CASE SyncWsol(t) \/ CreatePool(t) \/ UnwrapWsol(t)
      BY <1>4, <3>4 DEF SyncWsol, CreatePool, UnwrapWsol
    <3>5. CASE ReadLp(t)
      BY <1>4, <3>5 DEF ReadLp
    <3> QED
      BY <1>6, <3>1, <3>2, <3>3, <3>4, <3>5
<1>7. ASSUME NEW t \in Threads, Confirmed(t) \/ ConfirmedAsTwin(t) \/ Refused(t) \/ GivenUp(t)
      PROVE  KeySavedFirst'
  <2>1. ASSUME Refused(t) \/ GivenUp(t) PROVE KeySavedFirst'
    <3>1. UNCHANGED keyFile /\ (Ends(t) \/ \E pc : Answered(t, pc))
      BY <2>1 DEF Refused, GivenUp, Throws
    <3> QED
      BY <1>4, <3>1
  <2>2. ASSUME Confirmed(t) \/ ConfirmedAsTwin(t) PROVE KeySavedFirst'
    <3>1. UNCHANGED keyFile /\ Answered(t, threads[t].pc)
      BY <2>2 DEF Confirmed, ConfirmedAsTwin
    <3> QED
      BY <1>4, <3>1
  <2> QED
    BY <1>7, <2>1, <2>2
<1>8. CASE Launch
  <2>1. PICK script, gum, force : LaunchScript(script, gum, force)
    BY <1>8 DEF Launch
  <2>2. \A u \in Threads : threads'[u].tx = NoTx
    BY <1>a, <2>1, ThreadFields DEF LaunchScript
  <2> QED
    BY <1>1, <1>a, <2>1, <2>2 DEF LaunchScript
<1>9. ASSUME NEW l \in late, LandsLate(l) PROVE KeySavedFirst'
  BY <1>1, <1>9 DEF LandsLate
<1>10. CASE UNCHANGED deployVars
  BY <1>1, <1>10 DEF deployVars
<1> QED
  BY <1>2, <1>5, <1>6, <1>7, <1>8, <1>9, <1>10 DEF DeployNext

\* What the inductive invariant is for.
LEMMA DeployInvIsEnough == DeployInv => DeployTypeOK /\ (KeySavedFirst => DeploySafe)
<1> SUFFICES ASSUME DeployInv PROVE DeployTypeOK /\ (KeySavedFirst => DeploySafe)
  OBVIOUS
<1>a. AccountsInv /\ ThreadsInv /\ LateInv /\ FundInv /\ OpenInv
  BY DEF DeployInv
<1>1. DeployTypeOK
  <2>1. wallet \in [GumMints -> 0..SUPPLY]
    <3>1. ASSUME NEW g \in GumMints PROVE wallet[g] \in 0..SUPPLY
      <4>1. /\ wallet[g] \in Nat /\ wallet[g] + (IF g \in lp THEN INIT_GUM ELSE 0) <= SUPPLY
        BY <1>a DEF AccountsInv
      <4> QED
        BY <4>1, DeployNumbers
    <3> QED
      BY <1>a, <3>1 DEF AccountsInv
  <2>2. keyFile \in {NoMint} \cup GumMints
    BY <1>a, DeployNumbers DEF AccountsInv, NoMint, GumMints
  <2>3. \A t \in Threads : threads[t].script \in Scripts \cup {"none"}
    BY <1>a DEF ThreadsInv, ThreadFits
  <2>4. deployFaults \in 0..MaxDeployFaults /\ launches \in 0..MaxLaunches
    BY <1>a, DeployNumbers DEF LateInv
  <2> QED
    BY <1>a, <2>1, <2>2, <2>3, <2>4 DEF DeployTypeOK, AccountsInv, LateInv
<1>2. ASSUME NEW vault, NEW fund \in Nat, NEW op,
             FundedOnce(vault, fund, op, late, threads[1].tx, deployFaults)
      PROVE  vault <= fund * (1 + deployFaults)
  <2>1. PICK k \in Nat : vault = fund * k /\ k + Funding(op, late, threads[1].tx) <= 1 + deployFaults
    BY <1>2 DEF FundedOnce
  <2>2. Funding(op, late, threads[1].tx) \in Nat /\ deployFaults \in Nat
    BY <1>a, FundingIsCounted DEF LateInv
  <2>3. PICK d \in Nat : 1 + deployFaults = k + d
    <3>1. (1 + deployFaults) - k \in Nat /\ 1 + deployFaults = k + ((1 + deployFaults) - k)
      BY <2>1, <2>2
    <3> QED
      BY <3>1
  <2>4. PICK p \in Nat : p = fund * k
    OBVIOUS
  <2>5. PICK q \in Nat : q = fund * d
    OBVIOUS
  <2>6. fund * (1 + deployFaults) = p + q
    BY <2>3, <2>4, <2>5
  <2> QED
    BY <2>1, <2>4, <2>6
<1>3. VaultsFundedOnce
  BY <1>a, <1>2, DeployNumbers DEF FundInv, VaultsFundedOnce
<1>5. PoolHoldsRewardMint
  BY <1>a DEF AccountsInv, PoolHoldsRewardMint
<1>6. WsolCoversPool
  BY <1>a DEF AccountsInv, ThreadsInv, ThreadFits, WsolFits, Covered, WsolCoversPool
<1>7. LaunchOpensMachine
  <2>1. ~Opens(IdleThread)
    BY IdleFits DEF Opens
  <2> QED
    BY <1>a, <2>1 DEF OpenInv, LaunchOpensMachine
<1> QED
  BY <1>1, <1>3, <1>5, <1>6, <1>7 DEF DeploySafe

\* Whatever scripts the operator runs, however often, and whichever of their
\* transactions are refused, land late or are taken for lost: a vault is
\* funded once and once more per wait that was given up, there is no pool but
\* for the mint of the rewards, the pool's WSOL is there when it is made, and a
\* launch without a fault opens the machine, and no mint is created whose key
\* was not saved before.
THEOREM DeployKeepsItsPromises == DeploySpec => []DeploySafe
<1>1. DeployInit => KeySavedFirst
  BY IdleFits, NothingAwaited DEF DeployInit, KeySavedFirst
<1>2. DeploySpec => []DeployInv
  BY DeployStarts, DeploySteps, PTL DEF DeploySpec
<1>3. DeploySpec => []KeySavedFirst
  BY <1>1, <1>2, KeyStaysSaved, PTL DEF DeploySpec
<1> QED
  BY <1>2, <1>3, DeployInvIsEnough, PTL

-----------------------------------------------------------------------------
(* What keeps the system running, together.                                *)

\* What a step of any part may rely on.
OpsInv ==
    /\ MonitorInv
    /\ CommandsInv
    /\ DeployInv
    /\ SupervisionInv
    /\ LoopInv
    /\ StoreInv
    /\ UpkeepInv

LEMMA OpsStart == MCInit => OpsInv
  BY MonitorStarts, CommandsStart, DeployStarts, SupervisionStarts, LoopStarts, StoreStarts,
     UpkeepStarts DEF MCInit, OpsInv

\* What is not loaded stutters.
LEMMA OthersRest ==
    ASSUME [MCNext]_MCVars
    PROVE  /\ [MonitorNext]_monitorVars
           /\ [CommandsNext]_commandsVars
           /\ [DeployNext]_deployVars
           /\ [SupervisionNext]_supervisionVars
           /\ [OracleLoopNext]_loopVars
           /\ [SecretStoreNext]_storeVars
           /\ [UpkeepNext]_upkeepVars
  <1>1. CASE MCRequests \/ MCProcess
    BY <1>1 DEF MCRequests, MCProcess, MCLoops
  <1>2. CASE MCCommands \/ MCDeploy
    BY <1>2 DEF MCCommands, MCDeploy, MCLoops
  <1>3. CASE MCServers \/ MCLoop \/ MCStore
    BY <1>3 DEF MCServers, MCLoop, MCStore
  <1>4. CASE MCGumballScripts \/ MCAdminScripts
    BY <1>4 DEF MCGumballScripts, MCAdminScripts
  <1>5. CASE UNCHANGED MCVars
    BY <1>5 DEF MCVars, MCLoops
  <1> QED
    BY <1>1, <1>2, <1>3, <1>4, <1>5 DEF MCNext

LEMMA OpsSteps == OpsInv /\ [MCNext]_MCVars => OpsInv'
  <1> SUFFICES ASSUME OpsInv, [MCNext]_MCVars PROVE OpsInv'
    OBVIOUS
  <1>1. /\ [MonitorNext]_monitorVars
        /\ [CommandsNext]_commandsVars
        /\ [DeployNext]_deployVars
        /\ [SupervisionNext]_supervisionVars
        /\ [OracleLoopNext]_loopVars
        /\ [SecretStoreNext]_storeVars
        /\ [UpkeepNext]_upkeepVars
    BY OthersRest
  <1>2. MonitorInv' /\ CommandsInv' /\ DeployInv' /\ SupervisionInv'
    BY <1>1, MonitorSteps, CommandsSteps, DeploySteps, SupervisionSteps DEF OpsInv
  <1>3. LoopInv' /\ StoreInv' /\ UpkeepInv'
    BY <1>1, LoopSafe, StoreSafe, UpkeepStays DEF OpsInv
  <1> QED
    BY <1>2, <1>3 DEF OpsInv

\* Of what keeps the system running, whichever part is loaded and for any
\* values of the constants: the state of each part stays well formed, the loop
\* of the oracle is silent for a reason only and changes its endpoint in time,
\* no change of the key loses a secret, and the upkeep does what it reports.
THEOREM SystemStaysWellFormed == MCSpec => []OpsInvariant
  <1>1. MCInit => OpsInv
    BY OpsStart
  <1>2. OpsInv /\ [MCNext]_MCVars => OpsInv'
    BY OpsSteps
  <1>3. OpsInv => OpsInvariant
    BY MonitorInvIsEnough, CommandsInvIsEnough, DeployInvIsEnough, SupervisionInvIsTyped,
       UpkeepInvIsEnough DEF OpsInv, OpsInvariant, LoopInv, StoreInv
  <1> QED
    BY <1>1, <1>2, <1>3, PTL DEF MCSpec

=============================================================================
