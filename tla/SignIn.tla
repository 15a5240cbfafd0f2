--------------------------------- MODULE SignIn ---------------------------------
(***************************************************************************)
(* The phone's session, mobile/lib/auth/auth-store.tsx over                *)
(* session-storage.ts, against the server's login of AuthThrottle: the     *)
(* token that is shown, the one in the secure store, and the calls that    *)
(* carry a token and may come back with a 401 at any later time.  The app  *)
(* may be killed and started again; the store and the server survive it.   *)
(*                                                                         *)
(* An action is one task of the JavaScript thread.  tokenRef is the token  *)
(* of the shown session between two tasks: each render sets it, and each   *)
(* handler that sets it changes the session in the same task.              *)
(***************************************************************************)
EXTENDS AuthThrottle, Sequences

CONSTANTS
    Phone,    \* the request that is the phone's login; one at a time
    Tokens,   \* bound of the logins that succeed
    Pending   \* bound of the writes the store has not finished

ASSUME PhoneAssumption == Phone \in Requests
ASSUME SignInBounds == Tokens \in Nat /\ Pending \in Nat

VARIABLES
    status,   \* AuthStatus, or "off"
    session,  \* the token shown, or 0
    stored,   \* the token in the secure store, or 0
    writes,   \* setItemAsync and deleteItemAsync under way: the values written
    calls,    \* tokens of the calls that are not answered
    login,    \* the login screen's submit
    minted,   \* the last token the server gave
    dead      \* tokens the server no longer takes

phoneVars == <<status, session, stored, writes, calls, login, minted, dead>>
signInVars == <<throttleVars, phoneVars>>

Token == 1..Tokens

InitPhone ==
    /\ status = "off" /\ session = 0 /\ stored = 0 /\ writes = <<>>
    /\ calls = {} /\ login = "none" /\ minted = 0 /\ dead = {}

-----------------------------------------------------------------------------
\* The provider mounts and reads the store.
Start ==
    /\ status = "off"
    /\ status' = "loading"
    /\ UNCHANGED <<throttleVars, session, stored, writes, calls, login, minted, dead>>

\* A stored session is shown and verified by one call; one that has expired by the
\* phone's clock is deleted first.  The server may also refuse a token early.
Loaded ==
    /\ status = "loading" /\ writes = <<>>
    /\ \/ /\ stored = 0
          /\ status' = "unauthenticated"
          /\ UNCHANGED <<session, writes, calls>>
       \/ /\ stored \in dead
          /\ writes' = <<0>>
          /\ UNCHANGED <<status, session, calls>>
       \/ /\ stored # 0
          /\ status' = "authenticated" /\ session' = stored
          /\ calls' = calls \cup {stored}
          /\ UNCHANGED writes
    /\ UNCHANGED <<throttleVars, stored, login, minted, dead>>

\* Any request of the screens.
Call ==
    /\ session # 0
    /\ calls' = calls \cup {session}
    /\ UNCHANGED <<throttleVars, status, session, stored, writes, login, minted, dead>>

\* Mutant: every 401 signs out.
AlwaysSignsOut == TRUE

\* handleUnauthorized: nobody is signed in any more.
SignsOut == session # 0

\* Mutant: only the session is taken away.
StaysSignedIn == "authenticated"

SignedOut == "unauthenticated"

\* The answer of one of the calls with token t.
Answered(t) ==
    /\ t \in calls
    /\ calls' \in {calls, calls \ {t}}
    /\ IF t \in dead /\ SignsOut
       THEN /\ session' = 0 /\ status' = SignedOut
            /\ writes' = Append(writes, 0)
       ELSE UNCHANGED <<session, status, writes>>
    /\ Len(writes) < Pending
    /\ UNCHANGED <<throttleVars, stored, login, minted, dead>>

-----------------------------------------------------------------------------
\* The login screen; its button is disabled until the answer is there.
Submit ==
    /\ status = "unauthenticated" /\ login = "none" /\ minted < Tokens
    /\ Arrive(Phone)
    /\ login' = "posted"
    /\ UNCHANGED <<status, session, stored, writes, calls, minted, dead>>

\* A wrong passphrase, a lock or an unhandled error; the app may be gone by now.
\* A 401 finds nobody signed in.
LoginFails ==
    /\ RecordFailure(Phone)
    /\ login' = "none"
    /\ UNCHANGED <<status, session, stored, writes, calls, minted, dead>>

\* The token of the answer, to be saved before it is shown.
Minted ==
    /\ minted' = minted + 1
    /\ IF login = "posted"
       THEN login' = "saving" /\ writes' = Append(writes, minted + 1)
       ELSE UNCHANGED <<login, writes>>
    /\ UNCHANGED <<status, session, stored, calls, dead>>

LoginSucceeds ==
    /\ Right(Phone) \/ ClearFailures(Phone)
    /\ IF request'[Phone].pc = "idle" THEN Minted ELSE UNCHANGED phoneVars

\* The steps of the requests that end nothing for the phone.
ServerStep ==
    /\ \/ Tick \/ Wrong(Phone)
       \/ \E r \in Requests \ {Phone} : Arrive(r) \/ Handle(r)
    /\ UNCHANGED phoneVars

\* The oldest write of the store is done, with the continuation that awaits it.
Written ==
    /\ writes # <<>>
    /\ stored' = Head(writes) /\ writes' = Tail(writes)
    /\ \/ /\ login = "saving" /\ Head(writes) # 0
          /\ login' = "none"
          /\ session' = Head(writes) /\ status' = "authenticated"
       \/ /\ ~(login = "saving" /\ Head(writes) # 0)
          /\ status' = IF status = "loading" THEN "unauthenticated" ELSE status
          /\ UNCHANGED <<login, session>>
    /\ UNCHANGED <<throttleVars, calls, minted, dead>>

\* The process ends; what the store has not begun is lost, and nobody waits for
\* the answers of its calls.
Killed ==
    /\ status # "off"
    /\ status' = "off" /\ session' = 0 /\ writes' = <<>> /\ calls' = {} /\ login' = "none"
    /\ UNCHANGED <<throttleVars, stored, minted, dead>>

\* A token expires, or its owner or the secret is replaced.
Refuse(t) ==
    /\ t <= minted /\ t \notin dead
    /\ dead' = dead \cup {t}
    /\ UNCHANGED <<throttleVars, status, session, stored, writes, calls, login, minted>>

Next ==
    \/ Start \/ Loaded \/ Call \/ Submit \/ LoginFails \/ LoginSucceeds
    \/ ServerStep \/ Written \/ Killed
    \/ \E t \in Token : Answered(t) \/ Refuse(t)

\* Time passes, and the server works off the requests it has accepted.
Fairness ==
    /\ WF_signInVars(Tick /\ UNCHANGED phoneVars)
    /\ WF_signInVars(LoginFails \/ LoginSucceeds \/ (Wrong(Phone) /\ UNCHANGED phoneVars))
    /\ \A r \in Requests \ {Phone} : WF_signInVars(Handle(r) /\ UNCHANGED phoneVars)

Init == InitThrottle /\ InitPhone

Spec == Init /\ [][Next]_signInVars /\ Fairness

-----------------------------------------------------------------------------
\* The server's row and requests and the phone's session are well formed.
TypeOK ==
    /\ ThrottleTypeOK
    /\ status \in {"off", "loading", "authenticated", "unauthenticated"}
    /\ session \in 0..Tokens /\ stored \in 0..Tokens /\ minted \in 0..Tokens
    /\ status = "authenticated" <=> session # 0
    /\ writes \in Seq(0..Tokens)
    /\ calls \subseteq Token /\ dead \subseteq Token
    /\ login \in {"none", "posted", "saving"}

\* Once the store has caught up, the next start of the app shows what this one
\* shows: no late 401 and no login that overlaps one leaves a session on the
\* screen that is not stored, or one in the store that was signed out.
StoredIsShown ==
    status \in {"authenticated", "unauthenticated"} /\ writes = <<>> => stored = session
=============================================================================
