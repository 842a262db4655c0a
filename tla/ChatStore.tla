----------------------------- MODULE ChatStore ------------------------------
(***************************************************************************)
(* Conversations in memory (api/internal/chat/store.go) and the chat       *)
(* handler around them (Chat in api/internal/api/agent_chat.go): it reads  *)
(* the session's history, stores the question, waits for the answer and    *)
(* stores that.  Each store call runs under the store's mutex; between     *)
(* them requests of the same and of other sessions, the janitor and time   *)
(* interleave.  A message stands for its text cut to                       *)
(* maxStoredMessageChars.                                                  *)
(***************************************************************************)
EXTENDS Integers, Sequences, FiniteSets

CONSTANTS
    Sessions,      \* session IDs clients send
    Slots,         \* chat requests handled at the same time
    MaxSessions,   \* the store's capacity in sessions
    MaxMessages,   \* maxMessagesPerSession
    HistoryTurns,  \* chatHistoryTurns
    Ttl,           \* ticks a session may be idle
    MaxTurns,      \* bound: chat requests in all
    Blank,         \* the empty session ID: nothing keeps a client from sending it
    NoSession

ASSUME ChatAssumption ==
    /\ IsFiniteSet(Sessions) /\ NoSession \notin Sessions
    /\ MaxSessions \in Nat \ {0} /\ MaxMessages \in Nat \ {0}
    /\ HistoryTurns \in Nat /\ Ttl \in Nat /\ MaxTurns \in Nat

VARIABLES
    conv,         \* session -> stored messages, <<>> when it is not in the map
    lastActive,   \* session -> how recent its last message is: its number
    idle,         \* session -> ticks since its last message
    writes,       \* messages stored so far
    chat,         \* request -> its position, session, question and history
    turns,        \* requests begun
    log,          \* history: what was said in a session since it was last
                  \* silent for longer than Ttl
    others        \* history: the sessions active since a session's last message

chatVars == <<conv, lastActive, idle, writes, chat, turns, log, others>>
stored   == <<conv, lastActive, idle, writes, log, others>>

Message == [turn : 1..MaxTurns, role : {"user", "assistant"}]

NoChat == [pc |-> "idle", session |-> NoSession, turn |-> 0, history |-> <<>>]

ChatTypeOK ==
    /\ conv \in [Sessions -> Seq(Message)] /\ \A s \in Sessions : Len(conv[s]) <= MaxMessages
    /\ lastActive \in [Sessions -> Nat] /\ writes \in Nat
    /\ idle \in [Sessions -> 0..(Ttl + 1)]
    /\ chat \in [Slots -> [pc : {"idle", "ask", "answer"}, session : Sessions \union {NoSession},
                           turn : 0..MaxTurns, history : Seq(Message)]]
    /\ turns \in 0..MaxTurns

ChatInit ==
    /\ conv = [s \in Sessions |-> <<>>]
    /\ lastActive = [s \in Sessions |-> 0] /\ writes = 0
    /\ idle = [s \in Sessions |-> 0]
    /\ chat = [c \in Slots |-> NoChat]
    /\ turns = 0
    /\ log = [s \in Sessions |-> <<>>]
    /\ others = [s \in Sessions |-> {}]

InStore(c) == {s \in Sessions : c[s] # <<>>}

LastN(msgs, n) == IF Len(msgs) > n THEN SubSeq(msgs, Len(msgs) - n + 1, Len(msgs)) ELSE msgs

(* Mutant: a session is never too old. *)
NeverExpired(s) == FALSE

Expired(s) == idle[s] > Ttl

(* Mutant: the session that spoke last is dropped. *)
NewestOf(c, active) == {s \in InStore(c) : \A x \in InStore(c) : active[x] <= active[s]}

(* evictOldest's choice: the least recently active session.  Its scan      *)
(* takes the empty ID for having chosen none yet, so when that session is  *)
(* the oldest it starts anew behind it, wherever the map's order puts it:  *)
(* any other session may come out, or none.                                *)
OldestOf(c, active) ==
    LET oldest == {s \in InStore(c) : \A x \in InStore(c) : active[s] <= active[x]} IN
    IF Blank \in oldest THEN (InStore(c) \ {Blank}) \union {NoSession} ELSE oldest

(* AddMessage: append to the session, or to a new one in its place when it *)
(* is unknown or expired, keep the latest MaxMessages, and drop the least  *)
(* recently active session if there is one too many.                       *)
AddMessage(s, m) ==
    LET known  == IF Expired(s) THEN <<>> ELSE conv[s]
        added  == [conv EXCEPT ![s] = LastN(Append(known, m), MaxMessages)]
        active == [lastActive EXCEPT ![s] = writes + 1]
    IN
    /\ IF Cardinality(InStore(added)) > MaxSessions
       THEN \E old \in OldestOf(added, active) :
              conv' = [x \in Sessions |-> IF x = old THEN <<>> ELSE added[x]]
       ELSE conv' = added
    /\ lastActive' = active /\ writes' = writes + 1
    /\ idle' = [idle EXCEPT ![s] = 0]
    /\ log' = [log EXCEPT ![s] = Append(IF idle[s] > Ttl THEN <<>> ELSE @, m)]
    /\ others' = [x \in Sessions |-> IF x = s THEN {} ELSE others[x] \union {s}]

RecentMessages(s) == IF Expired(s) THEN <<>> ELSE LastN(conv[s], HistoryTurns)

Respond(c) == chat' = [chat EXCEPT ![c] = NoChat]

(* Chat up to RecentMessages; a request it turns away (empty or overlong   *)
(* question, unknown repository) changes nothing.                          *)
Begin(c) ==
    /\ chat[c].pc = "idle" /\ turns < MaxTurns
    /\ \E s \in Sessions :
         chat' = [chat EXCEPT ![c] = [pc |-> "ask", session |-> s, turn |-> turns + 1,
                                      history |-> RecentMessages(s)]]
    /\ turns' = turns + 1
    /\ UNCHANGED stored

Ask(c) ==
    /\ chat[c].pc = "ask"
    /\ AddMessage(chat[c].session, [turn |-> chat[c].turn, role |-> "user"])
    /\ chat' = [chat EXCEPT ![c].pc = "answer"]
    /\ UNCHANGED turns

(* Answer returned an error: the question stays without an answer. *)
AnswerFails(c) ==
    /\ chat[c].pc = "answer"
    /\ Respond(c)
    /\ UNCHANGED <<stored, turns>>

AnswerArrives(c) ==
    /\ chat[c].pc = "answer"
    /\ AddMessage(chat[c].session, [turn |-> chat[c].turn, role |-> "assistant"])
    /\ Respond(c)
    /\ UNCHANGED turns

(* The janitor. *)
PruneExpired ==
    /\ \E s \in InStore(conv) : Expired(s)
    /\ conv' = [s \in Sessions |-> IF Expired(s) THEN <<>> ELSE conv[s]]
    /\ UNCHANGED <<lastActive, idle, writes, chat, turns, log, others>>

ChatTick ==
    /\ \E s \in Sessions : log[s] # <<>> /\ idle[s] <= Ttl
    /\ idle' = [s \in Sessions |-> IF log[s] # <<>> /\ idle[s] <= Ttl THEN idle[s] + 1 ELSE idle[s]]
    /\ UNCHANGED <<conv, lastActive, writes, chat, turns, log, others>>

ChatNext ==
    \/ \E c \in Slots : Begin(c) \/ Ask(c) \/ AnswerFails(c) \/ AnswerArrives(c)
    \/ PruneExpired
    \/ ChatTick

ChatSpec == ChatInit /\ [][ChatNext]_chatVars
-----------------------------------------------------------------------------
(* A message was stored under the empty session ID. *)
BlankSpoke == Blank \in Sessions /\ log[Blank] # <<>>

(* As long as nobody has used the empty session ID, the store never holds  *)
(* more than MaxSessions conversations, whatever sessions are written in   *)
(* whatever order (store.go: "What it must not do is grow without bound"). *)
(* Once it is used there is no bound: see OldestOf.                        *)
SessionsBounded == ~BlankSpoke => Cardinality(InStore(conv)) <= MaxSessions

(* Eviction takes the least recently active: a session that spoke within   *)
(* the TTL is still there as long as fewer than MaxSessions others have    *)
(* spoken since, so a request that is waiting for its answer does not lose *)
(* its conversation to fewer (evictOldest, PruneExpired).  The empty       *)
(* session ID breaks this for the others once it is used, and is itself    *)
(* never evicted, however many have spoken since.                          *)
SessionSurvives ==
    \A s \in Sessions : log[s] # <<>> /\ idle[s] <= Ttl =>
        IF s = Blank THEN conv[s] # <<>>
        ELSE ~BlankSpoke /\ Cardinality(others[s]) < MaxSessions => conv[s] # <<>>

Suffix(t, s) == Len(t) <= Len(s) /\ t = LastN(s, Len(t))

(* A conversation is an unbroken end of what its own session said since it *)
(* was last silent for longer than the TTL: concurrent requests, evictions *)
(* in mid-request and re-created sessions never mix in another session's   *)
(* messages, a message of before the silence, or leave a gap.              *)
ConversationIsTail == \A s \in Sessions : conv[s] # <<>> => Suffix(conv[s], log[s])
=============================================================================
