------------------------------- MODULE TurnLog -------------------------------
(***************************************************************************)
(* What POST /chat promises the clients of one session, whatever runs,     *)
(* retries and broken connections it takes: an answer belongs to one turn, *)
(* a turn that was asked gets at most one and keeps it, and whoever is     *)
(* told an answer is told one of the log.  Only posts that outlive their   *)
(* session may give a turn another.                                        *)
(***************************************************************************)
CONSTANTS
    Turns,
    Posts,  \* requests, and the ids of the answers they may give
    None

VARIABLES
    asked,    \* the turns that were asked
    answers,  \* the log: turns and their answers
    told,     \* by post: the entry of the log its client saw finished, or None
    closed    \* the session was deleted

vars == <<asked, answers, told, closed>>

Init ==
    /\ asked = {} /\ answers = {}
    /\ told = [p \in Posts |-> None] /\ closed = FALSE

Ask(t) ==
    /\ t \notin asked /\ asked' = asked \cup {t}
    /\ UNCHANGED <<answers, told, closed>>

Answer(t) ==
    /\ t \in asked
    /\ closed \/ \A r \in answers : r.turn # t
    /\ \E a \in Posts :
          /\ \A r \in answers : r.answer # a
          /\ answers' = answers \cup {[turn |-> t, answer |-> a]}
    /\ UNCHANGED <<asked, told, closed>>

\* A post is told once.
Tell(p) ==
    /\ told[p] = None
    /\ \E r \in answers : told' = [told EXCEPT ![p] = r]
    /\ UNCHANGED <<asked, answers, closed>>

Close ==
    /\ ~closed /\ closed' = TRUE
    /\ UNCHANGED <<asked, answers, told>>

Next ==
    \/ \E t \in Turns : Ask(t) \/ Answer(t)
    \/ \E p \in Posts : Tell(p)
    \/ Close

Spec == Init /\ [][Next]_vars
=============================================================================
