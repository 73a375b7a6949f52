---------------------------- MODULE ChatThreads ----------------------------
(***************************************************************************)
(* Requests on chats (app/api.py): questions, answers to a clarification    *)
(* and deletions, each in its own database session.                         *)
(*                                                                          *)
(* A question is two transactions: the workflow commits the query together  *)
(* with the user's message, the endpoint commits the assistant's message    *)
(* afterwards.  In between the chat may be deleted.  A deletion is one      *)
(* transaction of many statements that begins with a list of queries.  A    *)
(* request that has committed may still fail before its client hears of it. *)
(* The database keeps foreign keys and row locks; a query is named by the   *)
(* request that asked it.                                                   *)
(***************************************************************************)
EXTENDS FiniteSets

CONSTANTS
    Requests,
    Chats,
    NoChat,
    NoQuery

Statuses == {"success", "blocked", "clarification_required", "clarified"}

Queries == [chat : Chats, status : Statuses, asked : BOOLEAN]

ASSUME ThreadAssumption == NoChat \notin Chats /\ NoQuery \notin Requests \cup Queries

VARIABLES
    chats,      \* chats on record
    queries,    \* queries on record, by request
    said,       \* messages on record
    pc,         \* where each request is
    kind,       \* what it was sent for
    chat,       \* the chat it works on
    original,   \* the query whose clarification it answers
    listed,     \* the queries its deletion has found
    response    \* what its client gets

record == <<chats, queries, said>>
task == <<kind, chat, original>>
vars == <<record, pc, task, listed, response>>

Roles == {"user", "assistant"}

TypeOK ==
    /\ chats \subseteq Chats
    /\ queries \in [Requests -> Queries \cup {NoQuery}]
    /\ said \subseteq [by : Requests, role : Roles]
    /\ pc \in [Requests -> {"idle", "checked", "marked", "answered", "asking", "replying",
                            "committed", "listed", "halfway", "emptied", "done"}]
    /\ kind \in [Requests -> {"none", "run", "send", "clarify", "delete"}]
    /\ chat \in [Requests -> Chats \cup {NoChat}]
    /\ original \in [Requests -> Requests \cup {NoQuery}]
    /\ listed \in [Requests -> SUBSET Requests]
    /\ response \in [Requests -> {"none", "200", "404", "500", "503"}]

Init ==
    /\ chats \in SUBSET Chats
    /\ queries = [q \in Requests |-> NoQuery]
    /\ said = {}
    /\ pc = [r \in Requests |-> "idle"]
    /\ kind = [r \in Requests |-> "none"]
    /\ chat = [r \in Requests |-> NoChat]
    /\ original = [r \in Requests |-> NoQuery]
    /\ listed = [r \in Requests |-> {}]
    /\ response = [r \in Requests |-> "none"]

-----------------------------------------------------------------------------
(* Rows and locks *)

OnRecord(q) == queries[q] # NoQuery

Of(c) == {q \in Requests : OnRecord(q) /\ queries[q].chat = c}

Goto(r, stage) == pc' = [pc EXCEPT ![r] = stage]

Respond(r, code) == Goto(r, "done") /\ response' = [response EXCEPT ![r] = code]

\* The UPDATE of a query's status is held until the workflow commits.
HoldsQuery(r, q) ==
    \/ original[r] = q /\ pc[r] \in {"marked", "answered", "asking"}
    \/ q \in listed[r] /\ pc[r] = "emptied"

\* So is the row of its clarification, which a deletion takes before the query.
HoldsClarification(r, q) ==
    \/ original[r] = q /\ pc[r] \in {"answered", "asking"} /\ queries[q].asked
    \/ q \in listed[r] /\ pc[r] \in {"halfway", "emptied"} /\ queries[q].asked

\* [bug] a 503 is answered with the transaction still open
HoldsChat_Open(r, c) == chat[r] = c /\ (pc[r] = "asking" \/ response[r] = "503")

\* The inserts of a question keep their chat from being deleted.
HoldsChat(r, c) == chat[r] = c /\ pc[r] = "asking"

FreeOf(Holds(_, _), r, x) == \A s \in Requests \ {r} : ~Holds(s, x)

-----------------------------------------------------------------------------
(* Questions *)

\* A chat that is not on record yet belongs to the request that created it.
Unused(c) == c \notin chats /\ \A r \in Requests : chat[r] # c

\* ensure_query_chat, require_owned_chat
Open(r, k, c) ==
    /\ pc[r] = "idle"
    /\ k \in {"run", "send", "delete"}
    /\ kind' = [kind EXCEPT ![r] = k]
    /\ IF c \in chats \/ (k = "run" /\ Unused(c))
       THEN /\ chat' = [chat EXCEPT ![r] = c]
            /\ Goto(r, "checked") /\ UNCHANGED response
       ELSE Respond(r, "404") /\ UNCHANGED chat
    /\ UNCHANGED <<record, original, listed>>

Fresh(r) == kind[r] = "run" /\ chat[r] \notin chats /\ \A s \in Requests \ {r} : chat[s] # chat[r]

\* The user's message is flushed; its foreign key needs the chat, or its own insert.
Tell(r) ==
    /\ \/ kind[r] \in {"run", "send"} /\ pc[r] = "checked"
       \/ kind[r] = "clarify" /\ pc[r] = "answered"
    /\ IF chat[r] \in chats \/ Fresh(r)
       THEN Goto(r, "asking") /\ UNCHANGED response
       ELSE Respond(r, "500")
    /\ UNCHANGED <<record, task, listed>>

\* What the request has flushed before its workflow: the original is answered.
Marked(r) ==
    IF original[r] = NoQuery THEN queries
    ELSE [queries EXCEPT ![original[r]].status = "clarified"]

\* [bug] the user's message waits for the answer
Flushed_Later(r) == {}

Flushed(r) == {[by |-> r, role |-> "user"]}

\* run_query_workflow commits whatever the session has flushed so far
WorkflowCommits(r) ==
    /\ pc[r] = "asking"
    /\ \E s \in Statuses \ {"clarified"} :
          queries' = [Marked(r) EXCEPT ![r] =
             [chat |-> chat[r], status |-> s, asked |-> s = "clarification_required"]]
    /\ said' = said \cup Flushed(r)
    /\ chats' = chats \cup {chat[r]}
    /\ Goto(r, "replying")
    /\ UNCHANGED <<task, listed, response>>

\* _run_query_workflow_or_503 rolls back, and so does any other exception
WorkflowFails(r) ==
    /\ pc[r] = "asking"
    /\ \E code \in {"500", "503"} : Respond(r, code)
    /\ UNCHANGED <<record, task, listed>>

\* Both the UPDATE of the chat and the INSERT of the message need the chat.
Thread(r) == chat[r] \in chats

\* The assistant's message and chat.updated_at, committed together
Reply(r) ==
    /\ pc[r] = "replying"
    /\ IF Thread(r)
       THEN /\ said' = said \cup {[by |-> r, role |-> "assistant"]}
            /\ Goto(r, "committed") /\ UNCHANGED response
       ELSE Respond(r, "500") /\ UNCHANGED said
    /\ UNCHANGED <<chats, queries, task, listed>>

\* After its commit send_message reads its three rows again, the others nothing.
Refreshed(r) == IF kind[r] = "send" /\ chat[r] \notin chats THEN "500" ELSE "200"

Tells(r) ==
    /\ pc[r] = "committed"
    /\ Respond(r, Refreshed(r))
    /\ UNCHANGED <<record, task, listed>>

\* The database fails a statement, or is lost: before the commit, which rolls back
\* what is not committed, or after it, when a row is read again or answered for.
Breaks(r) ==
    /\ pc[r] \notin {"idle", "done"}
    /\ Respond(r, "500")
    /\ UNCHANGED <<record, task, listed>>

-----------------------------------------------------------------------------
(* Answers to a clarification *)

\* clarify_query looks the query up, and its latest clarification; not its status.
Clarify(r, q) ==
    /\ pc[r] = "idle"
    /\ kind' = [kind EXCEPT ![r] = "clarify"]
    /\ original' = [original EXCEPT ![r] = q]
    /\ IF OnRecord(q)
       THEN Goto(r, "checked") /\ UNCHANGED response
            /\ chat' = [chat EXCEPT ![r] = queries[q].chat]
       ELSE Respond(r, "404") /\ UNCHANGED chat
    /\ UNCHANGED <<record, listed>>

\* The flush writes the query first; a row that is gone is a StaleDataError.
Mark(r) ==
    /\ kind[r] = "clarify" /\ pc[r] = "checked"
    /\ FreeOf(HoldsQuery, r, original[r])
    /\ IF OnRecord(original[r]) THEN Goto(r, "marked") /\ UNCHANGED response
                                ELSE Respond(r, "500")
    /\ UNCHANGED <<record, task, listed>>

\* [bug] the answer to the clarification is committed at once
AfterFlush_Committed(r) == Marked(r)

\* A flush is no commit: nobody else sees the answer yet.
AfterFlush(r) == queries

\* ... and then its clarification, if there is one
AnswerIt(r) ==
    /\ pc[r] = "marked"
    /\ queries[original[r]].asked => FreeOf(HoldsClarification, r, original[r])
    /\ queries' = AfterFlush(r)
    /\ Goto(r, "answered")
    /\ UNCHANGED <<chats, said, task, listed, response>>

-----------------------------------------------------------------------------
(* Deletions *)

List(r) ==
    /\ kind[r] = "delete" /\ pc[r] = "checked"
    /\ listed' = [listed EXCEPT ![r] = Of(chat[r])]
    /\ Goto(r, "listed")
    /\ UNCHANGED <<record, task, response>>

\* Reports and audits are detached, clarifications, events and logs deleted.
DeleteParts(r) ==
    /\ pc[r] = "listed"
    /\ \A q \in listed[r] : OnRecord(q) /\ queries[q].asked =>
          FreeOf(HoldsClarification, r, q)
    /\ Goto(r, "halfway")
    /\ UNCHANGED <<record, task, listed, response>>

DeleteQueries(r) ==
    /\ pc[r] = "halfway"
    /\ \A q \in listed[r] : OnRecord(q) => FreeOf(HoldsQuery, r, q)
    /\ Goto(r, "emptied")
    /\ UNCHANGED <<record, task, listed, response>>

\* [bug] queries.chat_id is no foreign key
Referenced_Unchecked(r) == FALSE

\* A query that came after the list still refers to the chat.
Referenced(r) == ~(Of(chat[r]) \subseteq listed[r])

\* The chat itself, which waits for the questions in flight; messages cascade
DeleteChat(r) ==
    /\ pc[r] = "emptied"
    /\ FreeOf(HoldsChat, r, chat[r])
    /\ IF Referenced(r)
       THEN Respond(r, "500") /\ UNCHANGED record
       ELSE /\ chats' = chats \ {chat[r]}
            /\ queries' = [q \in Requests |-> IF q \in listed[r] THEN NoQuery ELSE queries[q]]
            /\ said' = {m \in said : chat[m.by] # chat[r]}
            /\ Goto(r, "committed") /\ UNCHANGED response
    /\ UNCHANGED <<task, listed>>

\* A clarification and a deletion that wait for each other: the database ends one.
Deadlocked(r) ==
    /\ \E s \in Requests \ {r} : \E q \in Requests :
          /\ \/ original[r] = q /\ q \in listed[s]
             \/ original[s] = q /\ q \in listed[r]
          /\ {pc[r], pc[s]} = {"marked", "halfway"}
          /\ queries[q].asked
    /\ Respond(r, "500")
    /\ UNCHANGED <<record, task, listed>>

Step(r) ==
    \/ Tell(r) \/ WorkflowCommits(r) \/ WorkflowFails(r) \/ Reply(r) \/ Tells(r)
    \/ Mark(r) \/ AnswerIt(r)
    \/ List(r) \/ DeleteParts(r) \/ DeleteQueries(r) \/ DeleteChat(r) \/ Deadlocked(r)

Next ==
    \E r \in Requests :
        \/ \E k \in {"run", "send", "delete"}, c \in Chats : Open(r, k, c)
        \/ \E q \in Requests : Clarify(r, q)
        \/ Step(r) \/ Breaks(r)

Spec == Init /\ [][Next]_vars

\* The server takes up the requests it has accepted; clients may stay away.
FairSpec == Spec /\ \A r \in Requests : WF_vars(Step(r))

-----------------------------------------------------------------------------
(* Properties *)

\* Whatever is deleted while it is asked about, a chat on record is whole: a query
\* has its chat and the question it answers, an answer has its query.
ThreadsAreWhole ==
    /\ \A q \in Requests : OnRecord(q) =>
          queries[q].chat \in chats /\ [by |-> q, role |-> "user"] \in said
    /\ \A m \in said : chat[m.by] \in chats /\ OnRecord(m.by)

\* A query leaves its state for "clarified" together with the query that follows it
\* up: an answer whose workflow failed may be given again.
ClarifiedIsFollowedUp ==
    \A q \in Requests : OnRecord(q) /\ queries[q].status = "clarified" =>
        \E r \in Requests : original[r] = q /\ OnRecord(r)

Told(r) ==
    CASE response[r] \in {"404", "503"} ->
           ~OnRecord(r) /\ \A m \in said : m.by # r
      [] response[r] = "200" /\ kind[r] = "delete" ->
           chat[r] \notin chats /\ Of(chat[r]) = {}
      [] response[r] = "200" /\ kind[r] # "delete" ->
           chat[r] \in chats => [by |-> r, role |-> "assistant"] \in said
      [] OTHER -> TRUE

\* What a client may conclude from a status code.  Of a 200: the answer is in the chat
\* as long as that is on record, a deleted chat is gone with its queries.  Of a 404 or
\* a 503: nothing of the request is on record, it may be sent again without harm.  Of a
\* 500 nothing follows, since a request can fail after its commit.
ToldTheTruth == \A r \in Requests : pc[r] = "done" => Told(r)

\* Every accepted request ends, the ones that meet on rows included.
RequestsEnd == \A r \in Requests : pc[r] # "idle" ~> pc[r] = "done"

=============================================================================
