----------------------------- MODULE SignInProofs -----------------------------
(***************************************************************************)
(* Theorems about SignIn and the counter below it, for any window, lock,   *)
(* count and number of requests.                                           *)
(***************************************************************************)
EXTENDS SignIn, FiniteSetTheorems, TLAPS

(***************************************************************************)
(* What the writes under way will leave in the store.  A session is shown  *)
(* only with nothing to write; a login that saves its token has it at the  *)
(* end, behind deletions; everything else that is under way deletes.       *)
(***************************************************************************)
ShownIsStored ==
    status = "authenticated" => writes = <<>> /\ stored = session /\ login = "none"

OnlyDeletes == login # "saving" => \A k \in 1..Len(writes) : writes[k] = 0

SavesLast ==
    login = "saving" =>
        /\ writes # <<>> /\ writes[Len(writes)] # 0
        /\ \A k \in 1..(Len(writes) - 1) : writes[k] = 0

LoginIsOfTheScreen ==
    /\ login # "none" => status = "unauthenticated"
    /\ status = "off" => writes = <<>>

SignedOutIsDeleted ==
    status = "unauthenticated" /\ writes = <<>> => stored = 0

PhoneTypeOK ==
    /\ status \in {"off", "loading", "authenticated", "unauthenticated"}
    /\ session \in 0..Tokens /\ stored \in 0..Tokens /\ minted \in 0..Tokens
    /\ status = "authenticated" <=> session # 0
    /\ writes \in Seq(0..Tokens)
    /\ calls \subseteq Token /\ dead \subseteq Token
    /\ login \in {"none", "posted", "saving"}

\* A login under way has a token left to give, and none is still to be saved.
TokenIsLeft == request[Phone].pc # "idle" => minted < Tokens /\ login # "saving"

PhoneInv ==
    /\ PhoneTypeOK /\ TokenIsLeft
    /\ ShownIsStored /\ OnlyDeletes /\ SavesLast
    /\ LoginIsOfTheScreen /\ SignedOutIsDeleted

IInv == ThrottleTypeOK /\ PhoneInv

-----------------------------------------------------------------------------
(* The counter.                                                            *)

LEMMA Bounds ==
    /\ Failures \in Nat /\ Window \in Nat /\ Lock \in Nat /\ Slowest \in Nat
    /\ Window > 0 /\ Lock > 0 /\ Slowest < Window /\ Slowest < Lock
    /\ Oldest \in Int /\ Oldest = -(Window + Slowest) /\ Oldest <= -Slowest
    /\ Span \in Nat /\ Slowest < Span
    /\ -Slowest..0 \subseteq Time
BY ThrottleAssumption DEF Oldest, Time, Span

LEMMA NullIsApart == None \notin Throttle /\ None \notin Int /\ None \notin Time
BY NoneIsApart, Bounds DEF Time

LEMMA EarlierType == Earlier(None) = None /\ \A t \in Time : Earlier(t) \in Time
BY Bounds, NullIsApart DEF Earlier, Time

LEMMA AgedType ==
    ASSUME NEW row \in Throttle \cup {None}
    PROVE  Aged(row) \in Throttle \cup {None}
BY EarlierType, NullIsApart DEF Aged, Throttle

LEMMA CountedType ==
    ASSUME NEW row \in Throttle \cup {None}, NEW now \in -Slowest..0
    PROVE  Counted(row, now) \in Throttle
<1>1. now \in Time /\ now + Lock \in Time
    BY Bounds DEF Time
<1>2. Fresh(now) \in Throttle
    BY <1>1 DEF Fresh, Throttle
<1>3. row # None => [row EXCEPT !.failure_count = @ + 1] \in Throttle
    BY DEF Throttle
<1>4. \A counted \in Throttle : [counted EXCEPT !.locked_until = now + Lock] \in Throttle
    BY <1>1 DEF Throttle
<1> QED BY <1>2, <1>3, <1>4 DEF Counted

LEMMA UpdatedType ==
    ASSUME NEW base \in Throttle, NEW cur \in Throttle, throttle \in Throttle
    PROVE  Updated(base, cur) \in Throttle
BY DEF Updated, Changed, Throttle

LEMMA IdleType == Idle \in Request
<1>1. 0 \in -Slowest..0
    BY Bounds
<1> QED BY <1>1 DEF Idle, Request

LEMMA InitThrottleType == InitThrottle => ThrottleTypeOK
<1> SUFFICES ASSUME InitThrottle PROVE ThrottleTypeOK
    OBVIOUS
<1>1. failed \in [Newest -> 0..Span]
    BY Bounds DEF InitThrottle, NoneFailed
<1>2. request \in [Requests -> Request]
    BY IdleType DEF InitThrottle
<1> QED BY <1>1, <1>2 DEF InitThrottle, ThrottleTypeOK

LEMMA ThrottleStep ==
    ASSUME ThrottleTypeOK, [NextThrottle]_throttleVars
    PROVE  ThrottleTypeOK'
<1>0. Idle \in Request
    BY IdleType
<1>1. CASE UNCHANGED throttleVars
    BY <1>1 DEF throttleVars, ThrottleTypeOK
<1>2. CASE Tick
    <2>1. throttle' \in Throttle \cup {None}
        BY <1>2, AgedType DEF Tick, ThrottleTypeOK
    <2>2. ASSUME NEW r \in Requests, request[r].pc # "idle"
          PROVE  [request[r] EXCEPT !.now = @ - 1, !.row = Aged(@)] \in Request
        <3>1. request[r] \in Request /\ request[r].now > -Slowest
            BY <1>2, <2>2 DEF Tick, ThrottleTypeOK
        <3>2. Aged(request[r].row) \in Throttle \cup {None}
            BY <3>1, AgedType DEF Request
        <3>3. \A t \in -Slowest..0 : t > -Slowest => t - 1 \in -Slowest..0
            BY Bounds
        <3>4. request[r].now - 1 \in -Slowest..0
            BY <3>1, <3>3 DEF Request
        <3> QED BY <3>1, <3>2, <3>4 DEF Request
    <2>3. request' \in [Requests -> Request]
        BY <1>0, <1>2, <2>2 DEF Tick
    <2>4. failed' \in [Newest -> 0..Span]
        <3>1. \A a \in 0..Span : (IF a < Span THEN a + 1 ELSE Span) \in 0..Span
            BY Bounds
        <3>2. Span \in 0..Span
            BY Bounds
        <3> QED BY <1>2, <3>1, <3>2 DEF Tick, ThrottleTypeOK, NoneFailed
    <2> QED BY <1>2, <2>1, <2>3, <2>4 DEF Tick, ThrottleTypeOK
<1>3. ASSUME NEW r \in Requests, Arrive(r) PROVE ThrottleTypeOK'
    <2>1. [pc |-> "check", now |-> 0, row |-> None] \in Request
        BY Bounds DEF Request
    <2> QED BY <1>3, <2>1 DEF Arrive, ThrottleTypeOK
<1>4. ASSUME NEW r \in Requests, Wrong(r) PROVE ThrottleTypeOK'
    <2>1. [request[r] EXCEPT !.pc = "fail", !.row = throttle] \in Request
        BY DEF ThrottleTypeOK, Request
    <2>2. request' \in [Requests -> Request]
        BY <1>4, <2>1 DEF Wrong, ThrottleTypeOK
    <2>3. -request[r].now \in 0..Span
        BY Bounds DEF ThrottleTypeOK, Request
    <2>4. failed' \in [Newest -> 0..Span]
        <3>1. \A n \in Newest : n # 1 => n - 1 \in Newest
            BY ThrottleAssumption DEF Newest
        <3> QED BY <1>4, <2>3, <3>1 DEF Wrong, ThrottleTypeOK
    <2> QED BY <1>4, <2>2, <2>4 DEF Wrong, ThrottleTypeOK
<1>5. ASSUME NEW r \in Requests, Right(r) PROVE ThrottleTypeOK'
    <2>1. [request[r] EXCEPT !.pc = "clear", !.row = throttle] \in Request
        BY DEF ThrottleTypeOK, Request
    <2>2. request' \in [Requests -> Request]
        BY <1>0, <1>5, <2>1 DEF Right, Answer, ThrottleTypeOK
    <2>3. failed' \in [Newest -> 0..Span]
        BY <1>5, Bounds DEF Right, ThrottleTypeOK, NoneFailed
    <2> QED BY <1>5, <2>2, <2>3 DEF Right, ThrottleTypeOK
<1>6. ASSUME NEW r \in Requests, RecordFailure(r) PROVE ThrottleTypeOK'
    <2> DEFINE row == request[r].row
               new == Counted(row, request[r].now)
    <2>1. row \in Throttle \cup {None} /\ request[r].now \in -Slowest..0
        BY DEF ThrottleTypeOK, Request
    <2>2. new \in Throttle
        BY <2>1, CountedType
    <2>3. row # None /\ throttle # None => Updated(row, new) \in Throttle
        <3> HIDE DEF row, new
        <3> QED BY <2>1, <2>2, UpdatedType DEF ThrottleTypeOK
    <2>4. throttle' \in Throttle \cup {None}
        <3>1. throttle' \in {new, throttle, Updated(row, new)}
            BY <1>6 DEF RecordFailure
        <3>2. throttle' = Updated(row, new) =>
                 (row # None /\ throttle # None) \/ throttle' \in {new, throttle}
            BY <1>6 DEF RecordFailure
        <3> HIDE DEF row, new
        <3> QED BY <2>2, <2>3, <3>1, <3>2 DEF ThrottleTypeOK
    <2>5. request' \in [Requests -> Request]
        BY <1>0, <1>6 DEF RecordFailure, Answer, ThrottleTypeOK
    <2> QED BY <1>6, <2>4, <2>5 DEF RecordFailure, ThrottleTypeOK
<1>7. ASSUME NEW r \in Requests, ClearFailures(r) PROVE ThrottleTypeOK'
    BY <1>0, <1>7 DEF ClearFailures, Answer, ThrottleTypeOK
<1> QED BY <1>1, <1>2, <1>3, <1>4, <1>5, <1>6, <1>7 DEF NextThrottle, Handle

-----------------------------------------------------------------------------
(***************************************************************************)
(* What the row says of the wrong passphrases, while no requests overlap.  *)
(* A failure that was looked at and is not yet recorded is pending.  The   *)
(* open window accounts for its own failures; before it at most            *)
(* Failures - 2 others can be as recent as Span, the late ones of a window *)
(* that never filled.                                                      *)
(***************************************************************************)
Waiting == IF \E r \in Requests : request[r].pc = "fail" THEN 1 ELSE 0

\* At most n of the passphrases were looked at in the last k ticks.
Since(ages, k, n) == \A j \in Newest : j > n => ages[j] >= k \/ ages[j] = Span

Spare == IF Failures = 1 THEN 0 ELSE Failures - 2

UnlockedCounts(row, ages, p) ==
    /\ row.failure_count < Failures
    /\ Since(ages, -row.window_started_at, row.failure_count - 1 + p)
    /\ Since(ages, Span, row.failure_count + Spare + p)

LockedCounts(row, ages, p) ==
    /\ row.failure_count = Failures
    /\ Since(ages, Lock - row.locked_until, p)
    /\ Since(ages, Span, Failures + Spare)

RowCounts(row, ages, p) ==
    IF row = None THEN Since(ages, Span, p)
    ELSE /\ row.failure_count >= 1
         /\ row.locked_until = None => UnlockedCounts(row, ages, p)
         /\ row.locked_until # None => LockedCounts(row, ages, p)

\* A request has seen every wrong passphrase so far, and its row is not stale.
RequestCounts(q, row, ages) ==
    /\ q.pc \in {"check", "fail"} => Since(ages, -q.now, 0) /\ ~Locked(row, q.now)
    /\ q.pc = "fail" => q.row = row
    /\ q.pc = "clear" => Since(ages, Span, 0)

OneRequest ==
    \A q, r \in Requests : request[q].pc # "idle" /\ request[r].pc # "idle" => q = r

CountInv ==
    ~overlapped =>
        /\ RowCounts(throttle, failed, Waiting)
        /\ OneRequest
        /\ \A r \in Requests : RequestCounts(request[r], throttle, failed)

Ages == [Newest -> 0..Span]

LEMMA SinceLess ==
    ASSUME NEW ages \in Ages, NEW k \in Int, NEW n \in Int, Since(ages, k, n),
           NEW h \in Int, NEW m \in Int, h <= k \/ (h <= Span /\ k >= Span), n <= m
    PROVE  Since(ages, h, m)
BY Bounds DEF Since, Newest, Ages

\* Once as old as Span, the ages stay so.
LEMMA SinceTick ==
    ASSUME NEW ages \in Ages, NEW k \in Int, NEW n \in Int, Since(ages, k, n),
           NEW h \in Int, h <= k + 1 \/ k >= Span
    PROVE  Since([j \in Newest |-> IF ages[j] < Span THEN ages[j] + 1 ELSE Span], h, n)
BY Bounds DEF Since, Ages

\* One more passphrase is one more among the last.
LEMMA SinceWrong ==
    ASSUME NEW ages \in Ages, NEW k \in Int, NEW n \in Nat, Since(ages, k, n), NEW a \in Int
    PROVE  Since([j \in Newest |-> IF j = 1 THEN a ELSE ages[j - 1]], k, n + 1)
<1>1. \A j \in Newest : j > n + 1 => j # 1 /\ j - 1 \in Newest /\ j - 1 > n
    BY ThrottleAssumption DEF Newest
<1> QED BY <1>1 DEF Since

LEMMA SinceNone == \A k \in Int, n \in Int : Since(NoneFailed, k, n)
BY DEF Since, NoneFailed

LEMMA AgesType == ThrottleTypeOK => failed \in Ages
BY DEF ThrottleTypeOK, Ages

LEMMA SpareType == Spare \in Nat /\ (Failures > 1 => Spare = Failures - 2) /\ (Failures = 1 => Spare = 0)
BY ThrottleAssumption DEF Spare

LEMMA WaitingType == Waiting \in {0, 1}
BY DEF Waiting

LEMMA RowTimes ==
    ASSUME NEW row \in Throttle
    PROVE  /\ row # None /\ row.failure_count \in Nat /\ row.window_started_at \in Int
           /\ row.window_started_at \in Time
           /\ row.locked_until # None => row.locked_until \in Time /\ row.locked_until \in Int
BY NullIsApart DEF Throttle, Time

\* Time passes over the row and over the passphrases alike.
LEMMA AgedCounts ==
    ASSUME NEW row \in Throttle \cup {None}, NEW ages \in Ages, NEW p \in {0, 1},
           RowCounts(row, ages, p)
    PROVE  RowCounts(Aged(row),
                     [j \in Newest |-> IF ages[j] < Span THEN ages[j] + 1 ELSE Span], p)
<1> DEFINE later == [j \in Newest |-> IF ages[j] < Span THEN ages[j] + 1 ELSE Span]
<1>1. ASSUME NEW k \in Int, NEW h \in Int, NEW n \in Int, Since(ages, k, n),
             h <= k + 1 \/ k >= Span
      PROVE  Since(later, h, n)
    BY <1>1, SinceTick
<1>2. Span \in Int /\ Lock \in Int
    BY Bounds
<1> SUFFICES RowCounts(Aged(row), later, p)
    OBVIOUS
<1> HIDE DEF later
<1>3. CASE row = None
    <2>1. Since(later, Span, p)
        BY <1>1, <1>2, <1>3 DEF RowCounts
    <2> QED BY <1>3, <2>1 DEF RowCounts, Aged
<1>4. CASE row # None
    <2> DEFINE w == row.window_started_at
               l == row.locked_until
               c == row.failure_count
               aged == [row EXCEPT !.window_started_at = Earlier(@), !.locked_until = Earlier(@)]
    <2>1. row \in Throttle
        BY <1>4
    <2>2. c \in Nat /\ w \in Time /\ w \in Int /\ (l # None => l \in Time /\ l \in Int)
        BY <2>1, RowTimes
    <2>3. /\ aged.window_started_at = Earlier(w) /\ aged.locked_until = Earlier(l)
          /\ aged.failure_count = c /\ Aged(row) = aged /\ aged \in Throttle
        <3>1. Aged(row) = aged
            BY <1>4 DEF Aged
        <3>2. aged \in Throttle
            BY <2>1, EarlierType DEF Throttle
        <3> QED BY <2>1, <3>1, <3>2 DEF Throttle
    <2>4. aged # None
        BY <2>3, NullIsApart
    <2> HIDE DEF aged
    <2>5. c >= 1
        BY <1>4 DEF RowCounts
    <2>6. CASE l = None
        <3>1. Earlier(l) = None
            BY <2>6 DEF Earlier
        <3>2. /\ c < Failures /\ Since(ages, -w, c - 1 + p)
              /\ Since(ages, Span, c + Spare + p)
            BY <1>4, <2>6 DEF RowCounts, UnlockedCounts
        <3>3. Earlier(w) \in Int /\ (-Earlier(w) <= -w + 1 \/ -w >= Span)
            BY <2>2, NullIsApart, Bounds DEF Earlier
        <3>4. Since(later, -Earlier(w), c - 1 + p)
            <4>1. c - 1 + p \in Int /\ -w \in Int /\ -Earlier(w) \in Int
                BY <2>2, <3>3
            <4> HIDE DEF w, c
            <4> QED BY <1>1, <3>2, <3>3, <4>1
        <3>5. Since(later, Span, c + Spare + p)
            <4>1. c + Spare + p \in Int
                BY <2>2, SpareType
            <4> HIDE DEF w, c
            <4> QED BY <1>1, <1>2, <3>2, <4>1
        <3> QED BY <2>3, <2>4, <2>5, <3>1, <3>2, <3>4, <3>5 DEF RowCounts, UnlockedCounts
    <2>7. CASE l # None
        <3>1. /\ c = Failures /\ Since(ages, Lock - l, p) /\ Since(ages, Span, Failures + Spare)
            BY <1>4, <2>7 DEF RowCounts, LockedCounts
        <3>2. /\ Earlier(l) \in Int /\ Earlier(l) # None
              /\ Lock - Earlier(l) <= Lock - l + 1 \/ Lock - l >= Span
            BY <2>2, <2>7, NullIsApart, Bounds DEF Earlier, Time
        <3>3. Since(later, Lock - Earlier(l), p)
            <4>1. Lock - l \in Int /\ Lock - Earlier(l) \in Int /\ p \in Int
                BY <1>2, <2>2, <2>7, <3>2
            <4> HIDE DEF l
            <4> QED BY <1>1, <3>1, <3>2, <4>1
        <3>4. Since(later, Span, Failures + Spare)
            <4>1. Failures + Spare \in Int
                BY Bounds, SpareType
            <4> QED BY <1>1, <1>2, <3>1, <4>1
        <3> QED BY <2>3, <2>4, <2>5, <3>1, <3>2, <3>3, <3>4 DEF RowCounts, LockedCounts
    <2> QED BY <2>3, <2>6, <2>7
<1> QED BY <1>3, <1>4

\* A lock that is over is as old as Span for a request it did not turn away.
LEMMA LockIsOld ==
    ASSUME NEW row \in Throttle, NEW now \in -Slowest..0, ~Locked(row, now),
           row.locked_until # None
    PROVE  row.locked_until \in Int /\ row.locked_until <= now /\ Lock - row.locked_until >= Span
BY RowTimes, Bounds DEF Locked, Span

LEMMA WrongCounts ==
    ASSUME NEW row \in Throttle \cup {None}, NEW ages \in Ages, NEW now \in -Slowest..0,
           RowCounts(row, ages, 0), ~Locked(row, now)
    PROVE  RowCounts(row, [j \in Newest |-> IF j = 1 THEN -now ELSE ages[j - 1]], 1)
<1> DEFINE more == [j \in Newest |-> IF j = 1 THEN -now ELSE ages[j - 1]]
<1>0. -now \in 0..Span /\ -now \in Int
    BY Bounds
<1>1. more \in Ages
    <2>1. \A j \in Newest : j # 1 => j - 1 \in Newest
        BY ThrottleAssumption DEF Newest
    <2> QED BY <1>0, <2>1 DEF Ages
<1>2. ASSUME NEW k \in Int, NEW n \in Nat, Since(ages, k, n) PROVE Since(more, k, n + 1)
    BY <1>0, <1>2, SinceWrong
<1>3. Span \in Int /\ Failures \in Nat /\ Failures >= 1
    BY Bounds, ThrottleAssumption
<1> HIDE DEF more
<1>4. CASE row = None
    <2>1. Since(more, Span, 0 + 1)
        BY <1>2, <1>3, <1>4 DEF RowCounts
    <2> QED BY <1>4, <2>1 DEF RowCounts, more
<1>5. CASE row # None /\ row.locked_until = None
    <2> DEFINE c == row.failure_count
               w == row.window_started_at
    <2>1. c \in Nat /\ w \in Int /\ c >= 1 /\ c < Failures
        BY <1>5, RowTimes DEF RowCounts, UnlockedCounts
    <2>2. Since(ages, -w, c - 1) /\ Since(ages, Span, c + Spare)
        <3>1. c - 1 + 0 = c - 1 /\ c + Spare + 0 = c + Spare
            BY <2>1, SpareType
        <3> QED BY <1>5, <3>1 DEF RowCounts, UnlockedCounts
    <2>3. -w \in Int /\ c - 1 \in Nat /\ c + Spare \in Nat
        BY <2>1, SpareType
    <2>4. Since(more, -w, c - 1 + 1) /\ Since(more, Span, c + Spare + 1)
        <3> HIDE DEF c, w
        <3> QED BY <1>2, <1>3, <2>2, <2>3
    <2> QED BY <1>5, <2>1, <2>4 DEF RowCounts, UnlockedCounts, more
<1>6. CASE row # None /\ row.locked_until # None
    <2> DEFINE l == row.locked_until
    <2>1. l \in Int /\ Lock - l >= Span /\ Lock - l \in Int
        BY <1>3, <1>6, LockIsOld, Bounds
    <2>2. Since(ages, Lock - l, 0) /\ row.failure_count = Failures /\ row.failure_count >= 1
        BY <1>6 DEF RowCounts, LockedCounts
    <2>3. Since(more, Lock - l, 1)
        <3> HIDE DEF l
        <3>1. Since(more, Lock - l, 0 + 1)
            BY <1>2, <2>1, <2>2
        <3> QED BY <3>1
    <2>4. Since(more, Span, Failures + Spare)
        <3>1. Failures + Spare \in Int /\ 1 <= Failures + Spare
            BY <1>3, SpareType
        <3> HIDE DEF l
        <3> QED BY <1>1, <1>3, <2>1, <2>3, <3>1, SinceLess
    <2> QED BY <1>6, <2>2, <2>3, <2>4 DEF RowCounts, LockedCounts, more
<1> QED BY <1>4, <1>5, <1>6

\* record_failure on the row the request has just read.
LEMMA CountedCounts ==
    ASSUME NEW row \in Throttle \cup {None}, NEW ages \in Ages, NEW now \in -Slowest..0,
           RowCounts(row, ages, 1), ~Locked(row, now), Since(ages, -now, 0)
    PROVE  RowCounts(Counted(row, now), ages, 0)
<1>0. /\ Span \in Int /\ now \in Int /\ -now \in Int /\ now + Lock \in Int
      /\ Failures \in Nat /\ Failures >= 1 /\ Spare \in Nat
      /\ Lock - (now + Lock) = -now
    BY Bounds, ThrottleAssumption, SpareType
<1>1. now + Lock # None
    BY <1>0, NullIsApart
\* A row that is full is locked, and accounts for everything before its window.
<1>2. ASSUME NEW full \in Throttle, full.failure_count = Failures,
             Since(ages, Span, Failures + Spare)
      PROVE  RowCounts([full EXCEPT !.locked_until = now + Lock], ages, 0)
    <2> DEFINE new == [full EXCEPT !.locked_until = now + Lock]
    <2>1. new.failure_count = Failures /\ new.locked_until = now + Lock
        BY <1>2 DEF Throttle
    <2>2. new # None
        <3>1. new \in Throttle
            BY <1>0, Bounds DEF Throttle, Time
        <3> QED BY <3>1, NullIsApart
    <2> HIDE DEF new
    <2>3. RowCounts(new, ages, 0)
        BY <1>0, <1>1, <1>2, <2>1, <2>2 DEF RowCounts, LockedCounts
    <2> QED BY <2>3 DEF new
<1>3. CASE row = None \/ Over(row, now)
    <2>1. Counted(row, now) = IF LocksAt(1) THEN [Fresh(now) EXCEPT !.locked_until = now + Lock]
                              ELSE Fresh(now)
        BY <1>3 DEF Counted, Fresh
    <2>2. Fresh(now) \in Throttle /\ Fresh(now) # None
        BY Bounds, NullIsApart DEF Fresh, Throttle, Time
    <2>3. Since(ages, Span, 1 + Spare)
        <3>1. CASE row = None
            BY <1>0, <3>1, SinceLess DEF RowCounts
        <3>2. CASE row # None /\ row.locked_until # None
            <4>1. Lock - row.locked_until \in Int /\ Lock - row.locked_until >= Span
                BY <3>2, LockIsOld, Bounds
            <4>2. Since(ages, Lock - row.locked_until, 1)
                BY <3>2 DEF RowCounts, LockedCounts
            <4> QED BY <1>0, <4>1, <4>2, SinceLess
        <3>3. CASE row # None /\ row.locked_until = None
            <4>1. /\ row.failure_count \in Nat /\ row.failure_count >= 1
                  /\ row.failure_count < Failures
                  /\ Since(ages, -row.window_started_at, row.failure_count - 1 + 1)
                BY <3>3, RowTimes DEF RowCounts, UnlockedCounts
            <4>2. row.window_started_at \in Int /\ -row.window_started_at >= Window - now
                BY <1>0, <1>3, <3>3, RowTimes, Bounds DEF Over
            <4>3. -row.window_started_at \in Int /\ -row.window_started_at >= Span
                BY <1>0, <4>2, Bounds DEF Span
            <4>4. row.failure_count - 1 + 1 \in Int /\ row.failure_count - 1 + 1 <= 1 + Spare
                BY <1>0, <4>1, SpareType
            <4> QED BY <1>0, <4>1, <4>3, <4>4, SinceLess
        <3> QED BY <3>1, <3>2, <3>3
    <2>4. CASE Failures = 1
        BY <1>2, <2>1, <2>2, <2>3, <2>4 DEF LocksAt, Fresh
    <2>5. CASE Failures > 1
        <3>1. Counted(row, now) = Fresh(now)
            BY <1>0, <2>1, <2>5 DEF LocksAt
        <3>2. Since(ages, -now, 1 - 1 + 0) /\ Since(ages, Span, 1 + Spare + 0)
            BY <1>0, <2>3
        <3> QED BY <2>2, <2>5, <3>1, <3>2 DEF RowCounts, UnlockedCounts, Fresh
    <2> QED BY <1>0, <2>4, <2>5
<1>4. CASE row # None /\ ~Over(row, now)
    <2> DEFINE more == [row EXCEPT !.failure_count = @ + 1]
    <2>1. row \in Throttle /\ row.locked_until = None
        BY <1>0, <1>4, LockIsOld DEF Over
    <2>2. /\ row.failure_count \in Nat /\ row.failure_count >= 1
          /\ row.failure_count < Failures
          /\ Since(ages, -row.window_started_at, row.failure_count - 1 + 1)
          /\ Since(ages, Span, row.failure_count + Spare + 1)
        BY <1>4, <2>1, RowTimes DEF RowCounts, UnlockedCounts
    <2>3. /\ more \in Throttle /\ more.failure_count = row.failure_count + 1
          /\ more.locked_until = None /\ more.window_started_at = row.window_started_at
        BY <2>1, <2>2 DEF Throttle
    <2>4. more # None
        BY <2>3, NullIsApart
    <2>5. Counted(row, now) = IF LocksAt(more.failure_count)
                              THEN [more EXCEPT !.locked_until = now + Lock] ELSE more
        BY <1>4 DEF Counted
    <2> HIDE DEF more
    <2>6. CASE row.failure_count + 1 = Failures
        <3>1. Failures + Spare = row.failure_count + Spare + 1
            BY <1>0, <2>2, <2>6
        <3>2. LocksAt(more.failure_count) /\ more.failure_count = Failures
            BY <1>0, <2>3, <2>6 DEF LocksAt
        <3> QED BY <1>2, <2>2, <2>3, <2>5, <3>1, <3>2
    <2>7. CASE row.failure_count + 1 # Failures
        <3>1. row.failure_count + 1 < Failures
            BY <1>0, <2>2, <2>7
        <3>2. Counted(row, now) = more
            BY <1>0, <2>2, <2>3, <2>5, <3>1 DEF LocksAt
        <3>3. UnlockedCounts(more, ages, 0)
            <4>1. /\ more.failure_count - 1 + 0 = row.failure_count - 1 + 1
                  /\ more.failure_count + Spare + 0 = row.failure_count + Spare + 1
                  /\ more.failure_count < Failures
                BY <1>0, <2>2, <2>3, <3>1
            <4>2. Since(ages, -more.window_started_at, more.failure_count - 1 + 0)
                BY <2>2, <2>3, <4>1
            <4> QED BY <2>2, <4>1, <4>2 DEF UnlockedCounts
        <3>4. more.failure_count >= 1
            BY <2>2, <2>3
        <3> QED BY <2>3, <2>4, <3>2, <3>3, <3>4 DEF RowCounts
    <2> QED BY <2>6, <2>7
<1> QED BY <1>3, <1>4

LEMMA CountInit == InitThrottle => CountInv
<1> SUFFICES ASSUME InitThrottle PROVE CountInv
    OBVIOUS
<1>1. \A r \in Requests : request[r].pc = "idle"
    BY DEF InitThrottle, Idle
<1>2. RowCounts(throttle, failed, Waiting)
    BY <1>1, SinceNone, WaitingType, Bounds DEF InitThrottle, RowCounts
<1> QED BY <1>1, <1>2 DEF CountInv, OneRequest, RequestCounts

\* Whoever is not idle is the only one.
LEMMA Alone ==
    ASSUME OneRequest, NEW r \in Requests, request[r].pc # "idle"
    PROVE  /\ \A q \in Requests \ {r} : request[q].pc = "idle"
           /\ Waiting = IF request[r].pc = "fail" THEN 1 ELSE 0
BY DEF OneRequest, Waiting

\* The step of the one request that is under way.
LEMMA AloneAfter ==
    ASSUME ThrottleTypeOK, OneRequest, NEW r \in Requests, request[r].pc # "idle",
           \E new \in Request : request' = [request EXCEPT ![r] = new]
    PROVE  /\ OneRequest'
           /\ \A q \in Requests \ {r} : request'[q].pc = "idle"
           /\ Waiting' = IF request'[r].pc = "fail" THEN 1 ELSE 0
<1>1. \A q \in Requests \ {r} : request'[q].pc = "idle"
    BY Alone DEF ThrottleTypeOK
<1> QED BY <1>1 DEF OneRequest, Waiting

LEMMA CountStep ==
    ASSUME ThrottleTypeOK, CountInv, [NextThrottle]_throttleVars
    PROVE  CountInv'
<1> SUFFICES ASSUME ~overlapped'
             PROVE  /\ RowCounts(throttle', failed', Waiting')
                    /\ OneRequest'
                    /\ \A q \in Requests : RequestCounts(request'[q], throttle', failed')
    BY DEF CountInv
<1>0. /\ throttle \in Throttle \cup {None}
      /\ failed \in Ages
      /\ \A q \in Requests : request[q] \in Request /\ request[q].now \in -Slowest..0
    BY DEF ThrottleTypeOK, Ages, Request
<1>1. ~overlapped
    BY DEF NextThrottle, Handle, Tick, Arrive, Wrong, Right, RecordFailure, ClearFailures,
           throttleVars
<1>2. /\ RowCounts(throttle, failed, Waiting)
      /\ OneRequest
      /\ \A q \in Requests : RequestCounts(request[q], throttle, failed)
    BY <1>1 DEF CountInv
<1>3. CASE UNCHANGED throttleVars
    BY <1>2, <1>3 DEF throttleVars, OneRequest, Waiting
<1>4. CASE Tick
    <2>1. /\ throttle' = Aged(throttle)
          /\ failed' = [j \in Newest |-> IF failed[j] < Span THEN failed[j] + 1 ELSE Span]
        BY <1>1, <1>4 DEF Tick
    <2>2. \A q \in Requests : request'[q].pc = request[q].pc
        BY <1>0, <1>4 DEF Tick, Idle, Request
    <2>3. Waiting' = Waiting /\ OneRequest'
        BY <1>2, <2>2 DEF Waiting, OneRequest
    <2>4. RowCounts(throttle', failed', Waiting')
        BY <1>0, <1>2, <2>1, <2>3, AgedCounts, WaitingType
    <2>5. ASSUME NEW q \in Requests PROVE RequestCounts(request'[q], throttle', failed')
        <3>1. CASE request[q].pc = "idle"
            BY <2>2, <3>1 DEF RequestCounts
        <3>2. CASE request[q].pc # "idle"
            <4>1. /\ request'[q].now = request[q].now - 1
                  /\ request'[q].row = Aged(request[q].row)
                  /\ request[q].now \in Int /\ request[q].now > -Slowest
                <5>1. request[q] \in Request /\ request[q].now \in Int
                    BY <1>0
                <5>2. request'[q] = [request[q] EXCEPT !.now = @ - 1, !.row = Aged(@)]
                    BY <1>4, <3>2 DEF Tick
                <5>3. request[q].now > -Slowest
                    BY <1>4, <3>2 DEF Tick
                <5> QED BY <5>1, <5>2, <5>3 DEF Request
            <4>2. request[q].pc \in {"check", "fail"} =>
                      Since(failed', -request'[q].now, 0)
                <5>1. -request[q].now \in Int /\ -request'[q].now \in Int
                      /\ -request'[q].now <= -request[q].now + 1
                    BY <4>1
                <5>2. request[q].pc \in {"check", "fail"} => Since(failed, -request[q].now, 0)
                    BY <1>2 DEF RequestCounts
                <5> QED BY <1>0, <2>1, <5>1, <5>2, SinceTick
            <4>3. request[q].pc \in {"check", "fail"} => ~Locked(throttle', request'[q].now)
                <5> SUFFICES ASSUME ~Locked(throttle, request[q].now)
                             PROVE  ~Locked(throttle', request'[q].now)
                    BY <1>2 DEF RequestCounts
                <5>1. CASE throttle = None
                    BY <2>1, <5>1 DEF Aged, Locked
                <5>2. CASE throttle # None
                    <6>1. throttle \in Throttle
                        BY <1>0, <5>2
                    <6>2. throttle'.locked_until = Earlier(throttle.locked_until)
                        BY <2>1, <5>2, <6>1 DEF Aged, Throttle
                    <6>3. CASE throttle.locked_until = None
                        BY <6>2, <6>3 DEF Earlier, Locked
                    <6>4. CASE throttle.locked_until # None
                        <7>1. /\ throttle.locked_until \in Int
                              /\ throttle.locked_until <= request[q].now
                            BY <1>0, <6>1, <6>4, LockIsOld
                        <7>2. Earlier(throttle.locked_until) <= request[q].now - 1
                            BY <4>1, <6>4, <7>1, Bounds DEF Earlier
                        <7>3. Earlier(throttle.locked_until) \in Int
                            BY <6>4, <7>1 DEF Earlier
                        <7> QED BY <4>1, <6>2, <7>2, <7>3 DEF Locked
                    <6> QED BY <6>3, <6>4
                <5> QED BY <5>1, <5>2
            <4>4. request[q].pc = "fail" => request'[q].row = throttle'
                BY <1>2, <2>1, <4>1 DEF RequestCounts
            <4>5. request[q].pc = "clear" => Since(failed', Span, 0)
                BY <1>0, <1>2, <2>1, Bounds, SinceTick DEF RequestCounts
            <4> QED BY <2>2, <4>2, <4>3, <4>4, <4>5 DEF RequestCounts
        <3> QED BY <3>1, <3>2
    <2> QED BY <2>3, <2>4, <2>5
<1>5. ASSUME NEW r \in Requests, Arrive(r)
      PROVE  /\ RowCounts(throttle', failed', Waiting') /\ OneRequest'
             /\ \A q \in Requests : RequestCounts(request'[q], throttle', failed')
    <2>1. \A q \in Requests : request[q].pc = "idle"
        BY <1>5 DEF Arrive
    <2>2. /\ request'[r] = [pc |-> "check", now |-> 0, row |-> None]
          /\ \A q \in Requests \ {r} : request'[q] = request[q]
          /\ throttle' = throttle /\ failed' = failed
        BY <1>5 DEF Arrive, ThrottleTypeOK
    <2>3. Waiting' = Waiting /\ OneRequest'
        BY <2>1, <2>2 DEF Waiting, OneRequest
    <2>4. Since(failed, -0, 0) /\ ~Locked(throttle, 0)
        <3>1. \A j \in Newest : failed[j] >= 0
            BY <1>0, Bounds DEF Ages
        <3> QED BY <1>5, <3>1 DEF Arrive, Since
    <2>5. RequestCounts(request'[r], throttle', failed')
        BY <2>2, <2>4 DEF RequestCounts
    <2>6. \A q \in Requests \ {r} : RequestCounts(request'[q], throttle', failed')
        BY <1>2, <2>2
    <2> QED BY <1>2, <2>2, <2>3, <2>5, <2>6
<1>6. ASSUME NEW r \in Requests, Wrong(r)
      PROVE  /\ RowCounts(throttle', failed', Waiting') /\ OneRequest'
             /\ \A q \in Requests : RequestCounts(request'[q], throttle', failed')
    <2> DEFINE now == request[r].now
               new == [request[r] EXCEPT !.pc = "fail", !.row = throttle]
    <2>1. /\ request[r].pc = "check" /\ request' = [request EXCEPT ![r] = new]
          /\ failed' = [j \in Newest |-> IF j = 1 THEN -now ELSE failed[j - 1]]
          /\ throttle' = throttle
        BY <1>1, <1>6 DEF Wrong
    <2>2. new \in Request /\ new.pc = "fail" /\ new.row = throttle /\ new.now = now
        BY <1>0 DEF Request
    <2>3. request'[r] = new
        BY <2>1 DEF ThrottleTypeOK
    <2> HIDE DEF new
    <2>4. /\ OneRequest' /\ \A q \in Requests \ {r} : request'[q].pc = "idle"
          /\ Waiting' = 1
        BY <1>2, <2>1, <2>2, <2>3, AloneAfter
    <2>5. Waiting = 0 /\ Since(failed, -now, 0) /\ ~Locked(throttle, now)
        BY <1>2, <2>1, Alone DEF RequestCounts
    <2>6. RowCounts(throttle', failed', Waiting')
        BY <1>0, <1>2, <2>1, <2>4, <2>5, WrongCounts
    <2>7. Since(failed', -now, 0)
        <3>1. \A j \in Newest : j > 0 /\ (j # 1 => j - 1 \in Newest /\ j - 1 > 0)
            BY ThrottleAssumption DEF Newest
        <3>2. -now >= -now
            BY <1>0
        <3> HIDE DEF now
        <3> QED BY <2>1, <2>5, <3>1, <3>2 DEF Since
    <2>8. RequestCounts(request'[r], throttle', failed')
        BY <2>1, <2>2, <2>3, <2>5, <2>7 DEF RequestCounts
    <2>9. \A q \in Requests \ {r} : RequestCounts(request'[q], throttle', failed')
        BY <2>4 DEF RequestCounts
    <2> QED BY <2>4, <2>6, <2>8, <2>9
<1>7. ASSUME NEW r \in Requests, Right(r)
      PROVE  /\ RowCounts(throttle', failed', Waiting') /\ OneRequest'
             /\ \A q \in Requests : RequestCounts(request'[q], throttle', failed')
    <2>1. /\ request[r].pc = "check" /\ throttle' = throttle /\ failed' = NoneFailed
        BY <1>7 DEF Right
    <2>2. PICK new \in Request : /\ request' = [request EXCEPT ![r] = new]
                                 /\ new.pc \in {"idle", "clear"}
        <3>1. [request[r] EXCEPT !.pc = "clear", !.row = throttle] \in Request
            BY <1>0 DEF Request
        <3>2. [request[r] EXCEPT !.pc = "clear", !.row = throttle].pc = "clear"
            BY <1>0 DEF Request
        <3>3. CASE Answer(r)
            BY <3>3, IdleType DEF Answer, Idle
        <3>4. CASE request' = [request EXCEPT ![r].pc = "clear", ![r].row = throttle]
            BY <3>1, <3>2, <3>4
        <3> QED BY <1>7, <3>3, <3>4 DEF Right
    <2>3. request'[r] = new
        BY <2>2 DEF ThrottleTypeOK
    <2>4. /\ OneRequest' /\ \A q \in Requests \ {r} : request'[q].pc = "idle"
          /\ Waiting' = 0
        BY <1>2, <2>1, <2>2, <2>3, AloneAfter
    <2>5. Waiting = 0
        BY <1>2, <2>1, Alone
    <2>6. RowCounts(throttle, NoneFailed, 0)
        <3>1. CASE throttle = None
            BY <3>1, SinceNone, Bounds DEF RowCounts
        <3>2. CASE throttle # None /\ throttle.locked_until = None
            <4>1. /\ throttle.failure_count \in Nat /\ -throttle.window_started_at \in Int
                BY <1>0, <3>2, RowTimes
            <4>2. /\ throttle.failure_count - 1 + 0 \in Int
                  /\ throttle.failure_count + Spare + 0 \in Int
                BY <4>1, SpareType
            <4> QED BY <1>2, <2>5, <3>2, <4>1, <4>2, SinceNone, Bounds
                    DEF RowCounts, UnlockedCounts
        <3>3. CASE throttle # None /\ throttle.locked_until # None
            <4>1. Lock - throttle.locked_until \in Int /\ Failures + Spare \in Int
                BY <1>0, <3>3, RowTimes, SpareType, Bounds
            <4> QED BY <1>2, <2>5, <3>3, <4>1, SinceNone, Bounds DEF RowCounts, LockedCounts
        <3> QED BY <3>1, <3>2, <3>3
    <2>7. \A q \in Requests : RequestCounts(request'[q], throttle', failed')
        BY <2>1, <2>2, <2>3, <2>4, SinceNone, Bounds DEF RequestCounts
    <2> QED BY <2>1, <2>4, <2>6, <2>7
<1>8. ASSUME NEW r \in Requests, RecordFailure(r) \/ ClearFailures(r)
      PROVE  /\ RowCounts(throttle', failed', Waiting') /\ OneRequest'
             /\ \A q \in Requests : RequestCounts(request'[q], throttle', failed')
    <2>1. /\ request[r].pc # "idle" /\ failed' = failed
          /\ request' = [request EXCEPT ![r] = Idle]
        BY <1>8 DEF RecordFailure, ClearFailures, Answer
    <2>2. request'[r] = Idle /\ Idle.pc = "idle" /\ Idle \in Request
        BY <2>1, IdleType DEF Idle, ThrottleTypeOK
    <2>3. /\ OneRequest' /\ \A q \in Requests \ {r} : request'[q].pc = "idle"
          /\ Waiting' = 0
        BY <1>2, <2>1, <2>2, AloneAfter
    <2>4. \A q \in Requests : RequestCounts(request'[q], throttle', failed')
        BY <2>2, <2>3 DEF RequestCounts
    <2>5. CASE RecordFailure(r)
        <3> DEFINE now == request[r].now
                   new == Counted(throttle, now)
        <3>1. /\ request[r].pc = "fail" /\ request[r].row = throttle
              /\ Since(failed, -now, 0) /\ ~Locked(throttle, now)
            BY <1>2, <2>5 DEF RecordFailure, RequestCounts
        <3>2. Waiting = 1
            BY <1>2, <3>1, Alone
        <3>3. new \in Throttle
            BY <1>0, CountedType
        <3>4. throttle' = new
            <4>1. throttle # None => Updated(throttle, new) = new
                <5> HIDE DEF new
                <5> QED BY <1>0, <3>3 DEF Updated, Changed, Throttle
            <4>2. throttle' = IF throttle = None THEN new ELSE Updated(throttle, new)
                BY <2>5, <3>1 DEF RecordFailure
            <4> QED BY <4>1, <4>2
        <3>5. RowCounts(new, failed, 0)
            BY <1>0, <1>2, <3>1, <3>2, CountedCounts
        <3> QED BY <2>1, <2>3, <2>4, <3>4, <3>5
    <2>6. CASE ClearFailures(r)
        <3>1. throttle' = None /\ Since(failed, Span, 0)
            BY <1>2, <2>6 DEF ClearFailures, RequestCounts
        <3> QED BY <2>1, <2>3, <2>4, <3>1 DEF RowCounts
    <2> QED BY <1>8, <2>5, <2>6
<1> QED BY <1>3, <1>4, <1>5, <1>6, <1>7, <1>8 DEF NextThrottle, Handle

LEMMA CountsBound == ThrottleTypeOK /\ CountInv => FailuresAreBounded
<1> SUFFICES ASSUME ThrottleTypeOK, CountInv, ~overlapped
             PROVE  LET looked == Cardinality({j \in Newest : failed[j] < Span})
                    IN  looked <= Failures \/ looked <= 2 * Failures - 2
    BY DEF FailuresAreBounded
<1> DEFINE late == {j \in Newest : failed[j] < Span}
<1>1. RowCounts(throttle, failed, Waiting) /\ Waiting \in {0, 1}
    BY WaitingType DEF CountInv
<1>2. PICK m \in Nat : Since(failed, Span, m) /\ (m <= Failures \/ m <= 2 * Failures - 2)
    <2>1. CASE throttle = None
        BY <1>1, <2>1, ThrottleAssumption DEF RowCounts
    <2>2. CASE throttle # None /\ throttle.locked_until = None
        <3>1. throttle.failure_count \in Nat
            BY <2>2, RowTimes DEF ThrottleTypeOK
        <3>2. /\ throttle.failure_count >= 1 /\ throttle.failure_count < Failures
              /\ Since(failed, Span, throttle.failure_count + Spare + Waiting)
            BY <1>1, <2>2 DEF RowCounts, UnlockedCounts
        <3>3. /\ throttle.failure_count + Spare + Waiting \in Nat
              /\ throttle.failure_count + Spare + Waiting <= 2 * Failures - 2
            BY <1>1, <3>1, <3>2, SpareType, Bounds
        <3> QED BY <3>2, <3>3
    <2>3. CASE throttle # None /\ throttle.locked_until # None
        <3>1. Failures + Spare \in Nat /\
              (Failures + Spare <= Failures \/ Failures + Spare <= 2 * Failures - 2)
            BY SpareType, ThrottleAssumption
        <3> QED BY <1>1, <2>3, <3>1 DEF RowCounts, LockedCounts
    <2> QED BY <2>1, <2>2, <2>3
<1>3. late \subseteq 1..m
    <2>1. \A j \in Newest : j \in Int /\ j >= 1 /\ failed[j] \in Int
        BY Bounds DEF Newest, ThrottleTypeOK
    <2> QED BY <1>2, <2>1, Bounds DEF Since
<1>4. IsFiniteSet(1..m) /\ Cardinality(1..m) = m
    <2>1. Cardinality(1..m) = IF 1 > m THEN 0 ELSE m - 1 + 1
        BY FS_Interval
    <2> QED BY <2>1, FS_Interval
<1>5. Cardinality(late) <= m /\ Cardinality(late) \in Nat
    BY <1>3, <1>4, FS_Subset, FS_CardinalityType
<1> HIDE DEF late
<1>6. Cardinality(late) <= Failures \/ Cardinality(late) <= 2 * Failures - 2
    BY <1>2, <1>5, ThrottleAssumption
<1> QED BY <1>6 DEF late

-----------------------------------------------------------------------------
(* The phone.                                                              *)

\* Every step of the phone and the server is one of the counter or leaves it.
LEMMA StepOfThrottle == Next => [NextThrottle]_throttleVars
BY PhoneAssumption DEF Next, Start, Loaded, Call, Submit, LoginFails, LoginSucceeds,
    ServerStep, Written, Killed, Answered, Refuse, NextThrottle, Handle

\* The steps of others leave the phone's login under way, or answered.
LEMMA LoginGoesOn ==
    ASSUME ThrottleTypeOK, ServerStep
    PROVE  request'[Phone].pc = "idle" <=> request[Phone].pc = "idle"
<1>0. Phone \in Requests /\ request \in [Requests -> Request]
    BY PhoneAssumption DEF ThrottleTypeOK
<1>1. CASE Tick
    <2>1. CASE request[Phone].pc = "idle"
        BY <1>0, <1>1, <2>1 DEF Tick, Idle
    <2>2. CASE request[Phone].pc # "idle"
        BY <1>0, <1>1, <2>2 DEF Tick, Request
    <2> QED BY <2>1, <2>2
<1>2. CASE Wrong(Phone)
    BY <1>0, <1>2 DEF Wrong, Request
<1>3. ASSUME NEW r \in Requests \ {Phone}, Arrive(r) \/ Handle(r)
      PROVE  request'[Phone] = request[Phone]
    BY <1>0, <1>3 DEF Arrive, Handle, Wrong, Right, RecordFailure, ClearFailures, Answer
<1> QED BY <1>1, <1>2, <1>3 DEF ServerStep

LEMMA PhoneInit == InitThrottle /\ InitPhone => PhoneInv
<1> SUFFICES ASSUME InitThrottle, InitPhone PROVE PhoneInv
    OBVIOUS
<1>1. PhoneTypeOK
    BY SignInBounds DEF InitPhone, PhoneTypeOK
<1>2. TokenIsLeft
    BY PhoneAssumption DEF InitThrottle, Idle, TokenIsLeft
<1>3. OnlyDeletes
    BY DEF InitPhone, OnlyDeletes
<1> QED BY <1>1, <1>2, <1>3
    DEF InitPhone, PhoneInv, ShownIsStored, SavesLast, LoginIsOfTheScreen, SignedOutIsDeleted

LEMMA PhoneStep ==
    ASSUME IInv, [Next]_signInVars
    PROVE  PhoneInv'
<1> USE SignInBounds
<1> USE DEF PhoneInv, PhoneTypeOK, ShownIsStored, OnlyDeletes, SavesLast,
        LoginIsOfTheScreen, SignedOutIsDeleted, TokenIsLeft
<1>0. ThrottleTypeOK /\ PhoneInv
    BY DEF IInv
<1>1. CASE UNCHANGED signInVars
    BY <1>0, <1>1 DEF signInVars, throttleVars, phoneVars
<1>2. CASE Start
    BY <1>0, <1>2 DEF Start, throttleVars
<1>3. CASE Loaded
    <2>1. Len(<<0>>) = 1 /\ <<0>>[1] = 0 /\ <<0>> \in Seq(0..Tokens)
        OBVIOUS
    <2>2. writes = <<>> /\ status = "loading" /\ login = "none"
        BY <1>0, <1>3 DEF Loaded
    <2>3. CASE stored = 0 /\ status' = "unauthenticated" /\ UNCHANGED <<session, writes, calls>>
        BY <1>0, <1>3, <2>2, <2>3 DEF Loaded, throttleVars
    <2>4. CASE stored \in dead /\ writes' = <<0>> /\ UNCHANGED <<status, session, calls>>
        BY <1>0, <1>3, <2>1, <2>2, <2>4 DEF Loaded, throttleVars
    <2>5. CASE /\ stored # 0 /\ status' = "authenticated" /\ session' = stored
               /\ calls' = calls \cup {stored} /\ UNCHANGED writes
        BY <1>0, <1>3, <2>2, <2>5 DEF Loaded, throttleVars, Token
    <2> QED BY <1>3, <2>3, <2>4, <2>5 DEF Loaded
<1>4. CASE Call
    BY <1>0, <1>4 DEF Call, throttleVars, Token
<1>5. ASSUME NEW t \in Token, Answered(t) PROVE PhoneInv'
    <2>1. CASE t \in dead /\ SignsOut
        <3>1. writes = <<>> /\ status = "authenticated" /\ login = "none"
            BY <1>0, <2>1 DEF SignsOut
        <3>2. writes' = <<0>>
            BY <1>5, <2>1, <3>1 DEF Answered
        <3>3. Len(<<0>>) = 1 /\ <<0>>[1] = 0 /\ <<0>> \in Seq(0..Tokens) /\ <<0>> # <<>>
            OBVIOUS
        <3> QED BY <1>0, <1>5, <2>1, <3>1, <3>2, <3>3 DEF Answered, SignedOut, throttleVars
    <2>2. CASE ~(t \in dead /\ SignsOut)
        BY <1>0, <1>5, <2>2 DEF Answered, throttleVars
    <2> QED BY <2>1, <2>2
<1>6. ASSUME NEW t \in Token, Refuse(t) PROVE PhoneInv'
    BY <1>0, <1>6 DEF Refuse, throttleVars, Token
<1>7. CASE Submit
    BY <1>0, <1>7 DEF Submit
<1>8. CASE LoginFails
    <2>1. request[Phone].pc # "idle" /\ request'[Phone].pc = "idle"
        BY <1>0, <1>8, PhoneAssumption DEF LoginFails, RecordFailure, Answer, Idle, ThrottleTypeOK
    <2> QED BY <1>0, <1>8, <2>1 DEF LoginFails
<1>9. CASE LoginSucceeds
    <2>1. request[Phone].pc # "idle"
        BY <1>9 DEF LoginSucceeds, Right, ClearFailures
    <2>2. minted < Tokens /\ login # "saving"
        BY <1>0, <2>1
    <2>3. CASE request'[Phone].pc # "idle"
        BY <1>0, <1>9, <2>2, <2>3 DEF LoginSucceeds, phoneVars
    <2>4. CASE request'[Phone].pc = "idle" /\ login = "posted"
        <3>1. /\ minted' = minted + 1 /\ login' = "saving"
              /\ writes' = Append(writes, minted + 1)
              /\ UNCHANGED <<status, session, stored, calls, dead>>
            BY <1>9, <2>4 DEF LoginSucceeds, Minted
        <3>2. minted + 1 \in 0..Tokens /\ minted + 1 # 0
            BY <1>0, <2>2
        <3>3. /\ writes' \in Seq(0..Tokens) /\ writes' # <<>>
              /\ Len(writes') = Len(writes) + 1 /\ writes'[Len(writes')] = minted + 1
              /\ \A k \in 1..Len(writes) : writes'[k] = writes[k]
            BY <1>0, <3>1, <3>2
        <3>4. \A k \in 1..(Len(writes') - 1) : writes'[k] = 0
            <4>1. PICK n \in Nat : n = Len(writes)
                BY <1>0
            <4>2. Len(writes') - 1 = n /\ \A k \in 1..n : writes'[k] = writes[k]
                BY <3>3, <4>1
            <4>3. \A k \in 1..n : writes[k] = 0
                BY <1>0, <2>4, <4>1
            <4> QED BY <4>2, <4>3
        <3> QED BY <1>0, <2>4, <3>1, <3>2, <3>3, <3>4
    <2>5. CASE request'[Phone].pc = "idle" /\ login # "posted"
        BY <1>0, <1>9, <2>2, <2>5 DEF LoginSucceeds, Minted
    <2> QED BY <2>3, <2>4, <2>5
<1>10. CASE ServerStep
    <2>1. UNCHANGED phoneVars
        BY <1>10 DEF ServerStep
    <2> QED BY <1>0, <1>10, <2>1, LoginGoesOn DEF phoneVars
<1>11. CASE Written
    <2>1. /\ writes # <<>> /\ writes' = Tail(writes) /\ stored' = writes[1]
          /\ status \notin {"authenticated", "off"} /\ session = 0
        BY <1>0, <1>11 DEF Written
    <2>2. /\ Len(writes) \in Nat \ {0} /\ writes[1] \in 0..Tokens
          /\ Tail(writes) \in Seq(0..Tokens) /\ Len(Tail(writes)) = Len(writes) - 1
          /\ \A k \in 1..(Len(writes) - 1) : Tail(writes)[k] = writes[k + 1]
        BY <1>0, <2>1
    <2>3. Tail(writes) = <<>> <=> Len(writes) = 1
        <3>1. PICK rest \in Seq(0..Tokens) : rest = Tail(writes)
            BY <2>2
        <3>2. rest = <<>> <=> Len(rest) = 0
            OBVIOUS
        <3>3. Len(writes) \in Nat /\ Len(rest) = Len(writes) - 1
            BY <2>2, <3>1
        <3>4. rest = <<>> <=> Len(writes) = 1
            BY <3>2, <3>3
        <3> QED BY <3>1, <3>4, Zenon
    <2>4. CASE login = "saving" /\ writes[1] # 0
        <3>1. Len(writes) = 1
            BY <1>0, <2>2, <2>4
        <3> QED BY <1>0, <1>11, <2>1, <2>2, <2>3, <2>4, <3>1 DEF Written, throttleVars
    <2>5. CASE login = "saving" /\ writes[1] = 0
        <3>1. Len(writes) > 1
            BY <1>0, <2>2, <2>5
        <3>2. writes'[Len(writes')] = writes[Len(writes)]
            BY <2>1, <2>2, <3>1
        <3>3. \A k \in 1..(Len(writes') - 1) : writes'[k] = 0
            BY <1>0, <2>1, <2>2, <2>5
        <3> QED BY <1>0, <1>11, <2>1, <2>2, <2>3, <2>5, <3>1, <3>2, <3>3
                DEF Written, throttleVars
    <2>6. CASE login # "saving"
        <3>1. writes[1] = 0 /\ \A k \in 1..Len(writes') : writes'[k] = 0
            BY <1>0, <2>1, <2>2, <2>6
        <3> QED BY <1>0, <1>11, <2>1, <2>2, <2>6, <3>1 DEF Written, throttleVars
    <2> QED BY <2>4, <2>5, <2>6
<1>12. CASE Killed
    BY <1>0, <1>12 DEF Killed, throttleVars
<1> QED BY <1>1, <1>2, <1>3, <1>4, <1>5, <1>6, <1>7, <1>8, <1>9, <1>10, <1>11, <1>12
        DEF Next

LEMMA IInvInduction ==
    /\ Init => IInv
    /\ IInv /\ [Next]_signInVars => IInv'
<1>1. Init => IInv
    BY InitThrottleType, PhoneInit DEF Init, IInv
<1>2. ASSUME IInv, [Next]_signInVars PROVE IInv'
    <2>1. [NextThrottle]_throttleVars
        BY <1>2, StepOfThrottle DEF signInVars
    <2>2. ThrottleTypeOK'
        BY <1>2, <2>1, ThrottleStep DEF IInv
    <2> QED BY <1>2, <2>2, PhoneStep DEF IInv
<1> QED BY <1>1, <1>2

LEMMA Invariance == Spec => []IInv
BY IInvInduction, PTL DEF Spec

(***************************************************************************)
(* The row of the address, the requests on it and the phone's session are  *)
(* well formed, whatever the window, the lock and the count are: no time   *)
(* is older than the model keeps, none later than a lock from now.         *)
(***************************************************************************)
THEOREM TypeCorrect == Spec => []TypeOK
<1>1. IInv => TypeOK
    BY DEF IInv, PhoneInv, PhoneTypeOK, TypeOK
<1> QED BY Invariance, <1>1, PTL

(***************************************************************************)
(* auth-store.tsx never leaves a session on the screen that the store will *)
(* not have, nor one in the store that was signed out: a login saves       *)
(* before it shows, a 401 deletes after, and no login starts while one is  *)
(* shown.                                                                  *)
(***************************************************************************)
THEOREM StoredShown == Spec => []StoredIsShown
<1>1. IInv => StoredIsShown
    BY DEF IInv, PhoneInv, PhoneTypeOK, ShownIsStored, SignedOutIsDeleted, StoredIsShown
<1> QED BY Invariance, <1>1, PTL

(***************************************************************************)
(* auth_throttle.py keeps what its limits promise when requests do not     *)
(* overlap, for every count, window and lock: in no span as short as both  *)
(* are more wrong passphrases looked at than a full count, or than the     *)
(* late ones of a window that did not fill and the full count of the next. *)
(***************************************************************************)
THEOREM FailuresBounded == Spec => []FailuresAreBounded
<1>1. Init => CountInv
    BY CountInit DEF Init
<1>2. IInv /\ CountInv /\ [Next]_signInVars => CountInv'
    BY StepOfThrottle, CountStep DEF IInv, signInVars
<1>3. IInv /\ CountInv => FailuresAreBounded
    BY CountsBound DEF IInv
<1> QED BY Invariance, <1>1, <1>2, <1>3, PTL DEF Spec
=============================================================================
