------------------------------ MODULE AuthThrottle ------------------------------
(***************************************************************************)
(* app/services/auth_throttle.py as POST /auth/login and                   *)
(* POST /auth/verify-passphrase use it: the row of one action and address, *)
(* read by get_lock_expiry, and after the passphrase was checked read      *)
(* again and written by record_failure or deleted by clear_failures.       *)
(* Requests overlap; each statement reads what is committed.               *)
(*                                                                         *)
(* Only differences of times matter, so a time is kept as its distance     *)
(* from the present: Tick moves every time one step into the past.  Every  *)
(* request takes its own time, now, once, when it arrives.                 *)
(***************************************************************************)
EXTENDS Integers, FiniteSets

CONSTANTS
    Requests,
    Failures,  \* auth_rate_limit_failures
    Window,    \* auth_rate_limit_window_seconds, in ticks
    Lock,      \* auth_rate_limit_lock_seconds, in ticks
    Slowest,   \* bound of the ticks a request takes
    None

ASSUME ThrottleAssumption ==
    /\ Failures \in Nat \ {0} /\ Window \in Nat \ {0} /\ Lock \in Nat \ {0}
    /\ Slowest \in Nat /\ 2 * Slowest < Window /\ 2 * Slowest < Lock

VARIABLES
    throttle,   \* the committed row, or None
    request,    \* per request: its place, its now, and the row it has read
    failed,     \* history: the ages of the last wrong passphrases, the latest checked first
    overlapped  \* history: two requests were under way at a time

throttleVars == <<throttle, request, failed, overlapped>>

\* An age that is no longer told apart: as old as that, or no passphrase at all.
Span == IF Window < Lock THEN Window ELSE Lock

\* Times before Oldest differ in nothing a request can see.
Oldest == -(Window + Slowest)

Time == Oldest..Lock

Throttle == [failure_count : Nat, window_started_at : Time,
             locked_until : Time \cup {None}]

ASSUME NoneIsApart == None \notin Throttle /\ None \notin Int

Idle == [pc |-> "idle", now |-> 0, row |-> None]

Request == [pc : {"idle", "check", "fail", "clear"}, now : -Slowest..0,
            row : Throttle \cup {None}]

\* As many passphrases as exceed the bound.
Newest == 1..(2 * Failures)

NoneFailed == [n \in Newest |-> Span]

InitThrottle ==
    /\ throttle = None
    /\ request = [r \in Requests |-> Idle]
    /\ failed = NoneFailed
    /\ overlapped = FALSE

-----------------------------------------------------------------------------
\* Mutant: a lock never ends by itself.
LockedForGood(row, now) == row # None /\ row.locked_until # None

\* get_lock_expiry.
Locked(row, now) == row # None /\ row.locked_until # None /\ row.locked_until > now

\* Mutant: the failure that fills the count goes unpunished.
LocksLate(count) == count > Failures

LocksAt(count) == count >= Failures

\* The window or the lock of the row has ended.
Over(row, now) ==
    \/ row.locked_until # None /\ row.locked_until <= now
    \/ row.window_started_at + Window <= now

Fresh(now) ==
    [failure_count |-> 1, window_started_at |-> now, locked_until |-> None]

\* record_failure's row: a new window, or one failure more; full, it is locked.
Counted(row, now) ==
    LET counted == IF row = None \/ Over(row, now) THEN Fresh(now)
                   ELSE [row EXCEPT !.failure_count = @ + 1]
    IN  IF LocksAt(counted.failure_count)
        THEN [counted EXCEPT !.locked_until = now + Lock] ELSE counted

Changed(base, cur, committed) == IF cur # base THEN cur ELSE committed

\* The UPDATE of the columns record_failure has changed.
Updated(base, cur) ==
    [c \in DOMAIN cur |-> Changed(base[c], cur[c], throttle[c])]

-----------------------------------------------------------------------------
Answer(r) == request' = [request EXCEPT ![r] = Idle]

\* A locked address is answered 429 before its passphrase is looked at.
Arrive(r) ==
    /\ request[r].pc = "idle" /\ ~Locked(throttle, 0)
    /\ request' = [request EXCEPT ![r] = [pc |-> "check", now |-> 0, row |-> None]]
    /\ overlapped' = (overlapped \/ \E q \in Requests : request[q].pc # "idle")
    /\ UNCHANGED <<throttle, failed>>

Wrong(r) ==
    /\ request[r].pc = "check"
    /\ request' = [request EXCEPT ![r].pc = "fail", ![r].row = throttle]
    /\ failed' = IF overlapped THEN failed
                 ELSE [n \in Newest |-> IF n = 1 THEN -request[r].now ELSE failed[n - 1]]
    /\ UNCHANGED <<throttle, overlapped>>

\* clear_failures has nothing to do for an address without failures.
Right(r) ==
    /\ request[r].pc = "check"
    /\ \/ throttle = None /\ Answer(r)
       \/ /\ throttle # None
          /\ request' = [request EXCEPT ![r].pc = "clear", ![r].row = throttle]
    /\ failed' = NoneFailed
    /\ UNCHANGED <<throttle, overlapped>>

\* The row after record_failure's commit: inserted, updated, or as it is when the
\* key was inserted or the row deleted in between, which is an unhandled error.
RecordFailure(r) ==
    LET row == request[r].row
        new == Counted(row, request[r].now)
    IN  /\ request[r].pc = "fail"
        /\ throttle' = IF row = None /\ throttle = None THEN new
                       ELSE IF row = None \/ throttle = None THEN throttle
                       ELSE Updated(row, new)
        /\ Answer(r)
        /\ UNCHANGED <<failed, overlapped>>

\* A DELETE that finds no row is only logged.
ClearFailures(r) ==
    /\ request[r].pc = "clear"
    /\ throttle' = None
    /\ Answer(r)
    /\ UNCHANGED <<failed, overlapped>>

Earlier(t) == IF t = None THEN None ELSE IF t = Oldest THEN t ELSE t - 1

Aged(row) ==
    IF row = None THEN None
    ELSE [row EXCEPT !.window_started_at = Earlier(@), !.locked_until = Earlier(@)]

\* Time passes; no request in progress is older than Slowest.
Tick ==
    /\ \A r \in Requests : request[r].pc # "idle" => request[r].now > -Slowest
    /\ throttle' = Aged(throttle)
    /\ request' = [r \in Requests |->
                      IF request[r].pc = "idle" THEN Idle
                      ELSE [request[r] EXCEPT !.now = @ - 1, !.row = Aged(@)]]
    /\ failed' = IF overlapped THEN NoneFailed
                 ELSE [n \in Newest |-> IF failed[n] < Span THEN failed[n] + 1 ELSE Span]
    /\ UNCHANGED overlapped

Handle(r) == Wrong(r) \/ Right(r) \/ RecordFailure(r) \/ ClearFailures(r)

NextThrottle == Tick \/ \E r \in Requests : Arrive(r) \/ Handle(r)

-----------------------------------------------------------------------------
\* The row, the requests and the histories are well formed.
ThrottleTypeOK ==
    /\ throttle \in Throttle \cup {None}
    /\ request \in [Requests -> Request]
    /\ failed \in [Newest -> 0..Span]
    /\ overlapped \in BOOLEAN

\* What counting in windows amounts to, for requests that do not overlap: in any
\* span as short as the window and the lock, no more wrong passphrases are
\* looked at than the late ones of a window and the full count of the next.
FailuresAreBounded ==
    ~overlapped =>
        LET looked == Cardinality({n \in Newest : failed[n] < Span})
        IN  looked <= Failures \/ looked <= 2 * Failures - 2

\* However requests overlap, and whoever goes on trying: a lock ends.  A request
\* that is turned away does not extend it, and one that was under way when it
\* began can do so only once.
LockEnds == Locked(throttle, 0) ~> ~Locked(throttle, 0)
=============================================================================
