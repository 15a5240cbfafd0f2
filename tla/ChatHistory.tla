------------------------------ MODULE ChatHistory ------------------------------
(***************************************************************************)
(* What a run of ChatTurn is told of the conversation: created_at of       *)
(* app/models/message.py and load_recent_history of                        *)
(* app/services/sessions.py.                                               *)
(*                                                                         *)
(* created_at is Postgres' now(), the start of the transaction that        *)
(* inserts the message.  A request has its transaction from its first      *)
(* statement on; a commit ends it and the next statement starts another.   *)
(* An INSERT of the user message that finds the row commits nothing, so a  *)
(* retry's transaction goes on into the run, and a run's until a tool of   *)
(* it commits.                                                             *)
(***************************************************************************)
EXTENDS ChatTurn, Naturals, FiniteSets, FiniteSetsExt

CONSTANT
    Pairs  \* chat_history_turns

ASSUME PairsAssumption == Pairs \in Nat \ {0}
ASSUME FiniteAssumption == IsFiniteSet(Turns) /\ IsFiniteSet(Posts)

VARIABLES
    began,     \* per request: the start of its transaction, or 0 without one
    askedAt,   \* created_at of the user messages, or 0
    repliedAt, \* created_at of the replies, or 0
    loaded,    \* the requests whose run was given the history
    raced      \* history: turns recorded while another post of them was about to

historyVars == <<vars, began, askedAt, repliedAt, loaded, raced>>

InitHistory ==
    /\ Init
    /\ began = [p \in Posts |-> 0] /\ askedAt = [t \in Turns |-> 0]
    /\ repliedAt = [p \in Posts |-> 0]
    /\ loaded = {} /\ raced = {}

\* A time after every one that is remembered.
Now ==
    1 + Max({began[p] : p \in Posts} \cup {askedAt[t] : t \in Turns}
              \cup {repliedAt[p] : p \in Posts})

\* The transaction of p starts at time; a request that has ended has none.
Begun(p, time) ==
    /\ began' = [began EXCEPT ![p] = IF post'[p].pc = "done" THEN 0 ELSE time]
    /\ loaded' = {q \in loaded : post'[q].pc # "done"}

-----------------------------------------------------------------------------
\* current_user and get_session.
Receive(p, t) ==
    /\ Open(p, t) /\ Begun(p, Now)
    /\ UNCHANGED <<askedAt, repliedAt, raced>>

CreatedAt(p) == began[p]

\* The refresh of the session after the commit starts the next transaction.
Record(p) ==
    LET t == post[p].turn IN
    /\ RecordUser(p)
    /\ IF asked[t] = "none"
       THEN /\ askedAt' = [askedAt EXCEPT ![t] = CreatedAt(p)]
            /\ Begun(p, Now)
            /\ raced' = IF \E q \in Posts \ {p} : post[q].pc = "record" /\ post[q].turn = t
                        THEN raced \cup {t} ELSE raced
       ELSE UNCHANGED <<askedAt, began, loaded, raced>>
    /\ UNCHANGED repliedAt

Question(t) == [turn |-> t, role |-> "user", at |-> askedAt[t]]
Answer(a) == [turn |-> replies[a].turn, role |-> "assistant", at |-> repliedAt[a]]

\* The live messages but the one that is just being asked.
Candidates(t) ==
    {Question(u) : u \in {u \in Turns \ {t} : asked[u] = "live"}}
        \cup {Answer(a) : a \in {a \in Posts : LiveReply(a)}}

\* Mutant: as many messages as there are to be pairs.
OnePerPair == Pairs

\* Two messages for a pair.
Rows == 2 * Pairs

\* load_recent_history: the newest ones; no two messages have one time.
RecentHistory(t) ==
    {m \in Candidates(t) : Cardinality({n \in Candidates(t) : n.at > m.at}) < Rows}

Load(p) ==
    /\ post[p].pc = "run" /\ p \notin loaded
    /\ loaded' = loaded \cup {p}
    /\ UNCHANGED <<vars, began, askedAt, repliedAt, raced>>

\* The run; a tool that commits or is rolled back starts a transaction anew.
Run(p) ==
    /\ p \in loaded
    /\ \/ \E x \in Texts : CreateMemory(p, x) /\ Begun(p, Now)
       \/ \E outcome \in {"text", "empty", "error"}, time \in {began[p], Now} :
             EndRun(p, outcome) /\ Begun(p, time)
    /\ UNCHANGED <<askedAt, repliedAt, raced>>

Insert(p) ==
    /\ Persist(p)
    /\ repliedAt' = IF replies' = replies THEN repliedAt
                    ELSE [repliedAt EXCEPT ![p] = CreatedAt(p)]
    /\ Begun(p, 0)
    /\ UNCHANGED <<askedAt, raced>>

Read(p) ==
    /\ LookUp(p) \/ Replay(p) \/ Finish(p) \/ Disconnect(p)
    /\ Begun(p, began[p])
    /\ UNCHANGED <<askedAt, repliedAt, raced>>

Delete ==
    /\ DeleteMessages \/ DeleteCommit \/ DeleteRollback
    /\ UNCHANGED <<began, askedAt, repliedAt, loaded, raced>>

HistoryNext ==
    \/ \E p \in Posts :
          \/ \E t \in Turns : Receive(p, t)
          \/ Record(p) \/ Load(p) \/ Run(p) \/ Insert(p) \/ Read(p)
    \/ Delete

HistorySpec == InitHistory /\ [][HistoryNext]_historyVars

-----------------------------------------------------------------------------
\* The other turns with a message newer than one of this turn's.
Newer(u, rows) ==
    {v \in Turns \ {u} : \E m, n \in rows : m.turn = u /\ n.turn = v /\ n.at > m.at}

\* A run knows the turns its client had seen answered when it posted, question
\* and answer, unless chat_history_turns others have newer messages: no lost
\* post, retry or message that was recorded in a transaction of long ago pushes
\* them out.  The question comes first, unless two posts of it met when it was
\* recorded: then the answer's transaction may be the older one.
Knows(p, u) ==
    LET told(role) == {m \in RecentHistory(post[p].turn) : m.turn = u /\ m.role = role} IN
    /\ told("user") # {} /\ told("assistant") # {}
    /\ u \notin raced => \A m \in told("user"), n \in told("assistant") : m.at < n.at

AnsweredTurnsAreKnown ==
    [][\A p \in Posts : p \in loaded' \ loaded /\ ~closed =>
          \A u \in {post[q].turn : q \in post[p].answered} \ {post[p].turn} :
              Cardinality(Newer(u, Candidates(post[p].turn))) < Pairs => Knows(p, u)
      ]_historyVars
=============================================================================
