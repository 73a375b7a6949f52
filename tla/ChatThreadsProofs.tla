------------------------- MODULE ChatThreadsProofs -------------------------
(***************************************************************************)
(* ChatThreads, for any number of requests and chats.  What keeps threads   *)
(* whole is that a chat no record names has one request at most (Asking),   *)
(* that a deletion lists queries of its own chat only (Lists), and that a   *)
(* query whose clarification is being answered stays on record (Held).      *)
(***************************************************************************)
EXTENDS ChatThreads, TLAPS

\* What a request is for, by where it is
Kinds ==
    \A r \in Requests :
        /\ pc[r] = "idle" => chat[r] = NoChat /\ original[r] = NoQuery
        /\ pc[r] \notin {"idle", "done"} => chat[r] \in Chats
        /\ pc[r] = "checked" => kind[r] \in {"run", "send", "clarify", "delete"}
        /\ pc[r] \in {"marked", "answered"} => kind[r] = "clarify"
        /\ pc[r] \in {"asking", "replying"} => kind[r] \in {"run", "send", "clarify"}
        /\ pc[r] = "committed" => kind[r] \in {"run", "send", "clarify", "delete"}
        /\ pc[r] \in {"listed", "halfway", "emptied"} => kind[r] = "delete"
        /\ (original[r] = NoQuery) = (kind[r] # "clarify")

\* Only a workflow that committed has put its query on record.
Asked ==
    \A q \in Requests : OnRecord(q) =>
        pc[q] \in {"replying", "committed", "done"} /\ queries[q].chat = chat[q]

\* Nobody else can refer to a chat that its first question has not committed.
Asking == \A r \in Requests : pc[r] = "asking" => chat[r] \in chats \/ Fresh(r)

Held ==
    \A r \in Requests :
        pc[r] \in {"marked", "answered", "asking"} /\ original[r] # NoQuery =>
            /\ OnRecord(original[r])
            /\ \A s \in Requests : pc[s] = "emptied" => original[r] \notin listed[s]

\* A query is followed up in its own chat.
Origins ==
    \A r \in Requests :
        original[r] # NoQuery /\ chat[r] # NoChat =>
            /\ pc[original[r]] \in {"replying", "committed", "done"}
            /\ chat[r] = chat[original[r]]

Lists ==
    \A s \in Requests :
        pc[s] \in {"listed", "halfway", "emptied"} => \A q \in listed[s] :
            pc[q] \in {"replying", "committed", "done"} /\ chat[q] = chat[s]

\* What a request has done that has committed
Done(r) ==
    IF kind[r] = "delete"
    THEN chat[r] \notin chats /\ Of(chat[r]) = {}
    ELSE chat[r] \in chats => OnRecord(r) /\ [by |-> r, role |-> "assistant"] \in said

\* As long as a chat is on record, so are its questions and their answers.
Kept ==
    \A r \in Requests :
        /\ pc[r] = "replying" /\ chat[r] \in chats => OnRecord(r)
        /\ pc[r] = "committed" => Done(r)
        /\ [by |-> r, role |-> "assistant"] \in said => pc[r] \in {"committed", "done"}

ThreadInv ==
    /\ TypeOK /\ Kinds /\ Asked /\ Asking /\ Held /\ Origins /\ Lists /\ Kept
    /\ ThreadsAreWhole /\ ClarifiedIsFollowedUp /\ ToldTheTruth

LEMMA ThreadInit == Init => ThreadInv
<1> USE ThreadAssumption
<1> SUFFICES ASSUME Init PROVE ThreadInv
  OBVIOUS
<1>1. TypeOK
  BY DEF Init, TypeOK, Roles, Statuses
<1>2. Kinds /\ Asked /\ Asking /\ Held /\ Origins /\ Lists
  BY DEF Init, Kinds, Asked, OnRecord, Asking, Held, Origins, Lists
<1>3. Kept /\ ThreadsAreWhole /\ ClarifiedIsFollowedUp /\ ToldTheTruth
  BY DEF Init, Kept, OnRecord, ThreadsAreWhole, ClarifiedIsFollowedUp, ToldTheTruth
<1> QED BY <1>1, <1>2, <1>3 DEF ThreadInv

-----------------------------------------------------------------------------
(* Steps that leave the record alone *)

LEMMA ResponseType ==
    ASSUME TypeOK, NEW r \in Requests, NEW code \in {"200", "404", "500", "503"}, Respond(r, code)
    PROVE  /\ pc' \in [Requests -> {"idle", "checked", "marked", "answered", "asking", "replying",
                                    "committed", "listed", "halfway", "emptied", "done"}]
           /\ response' \in [Requests -> {"none", "200", "404", "500", "503"}]
           /\ pc'[r] = "done" /\ response'[r] = code
           /\ \A s \in Requests \ {r} : pc'[s] = pc[s] /\ response'[s] = response[s]
  BY DEF TypeOK, Respond, Goto

\* Where nothing is committed yet
Stages == {"checked", "marked", "answered", "asking", "listed", "halfway", "emptied"}

\* A request that ends: a success is told after the commit, that it may be sent again
\* before it, a failure at any time.
LEMMA EndStep ==
    ASSUME ThreadInv, NEW r \in Requests, NEW code \in {"200", "404", "500", "503"},
           Respond(r, code), UNCHANGED <<record, task, listed>>,
           pc[r] \notin {"idle", "done"},
           code = "200" => pc[r] = "committed",
           code \in {"404", "503"} => pc[r] \in Stages
    PROVE  ThreadInv'
<1> USE ThreadAssumption
<1>1. TypeOK'
  BY ResponseType DEF ThreadInv, TypeOK, record, task
<1>2. /\ pc'[r] = "done" /\ response'[r] = code
      /\ \A s \in Requests \ {r} : pc'[s] = pc[s] /\ response'[s] = response[s]
      /\ UNCHANGED <<chats, queries, said, kind, chat, original, listed>>
  BY ResponseType DEF ThreadInv, record, task
<1>3. Kinds' /\ Asked'
  BY <1>2 DEF ThreadInv, Kinds, Asked, OnRecord
<1>8. Asking'
  BY <1>2 DEF ThreadInv, Asking, Fresh
<1>9. Lists'
  BY <1>2 DEF ThreadInv, TypeOK, Lists
<1>4. Held' /\ Origins' /\ Kept'
  BY <1>2 DEF ThreadInv, TypeOK, Held, Origins, Kept, Done, Of, OnRecord
<1>5. ThreadsAreWhole' /\ ClarifiedIsFollowedUp'
  BY <1>2 DEF ThreadInv, ThreadsAreWhole, ClarifiedIsFollowedUp, OnRecord
<1>6. ToldTheTruth'
  <2>1. CASE code \in {"404", "503"}
    <3>1. ~OnRecord(r) /\ \A m \in said : m.by # r
      BY <2>1 DEF ThreadInv, Asked, ThreadsAreWhole, Stages
    <3> QED BY <1>2, <2>1, <3>1 DEF ThreadInv, ToldTheTruth, Told, Of, OnRecord
  <2>2. CASE code \in {"200", "500"}
    <3>1. code = "200" => Done(r)
      BY DEF ThreadInv, Kept
    <3> QED BY <1>2, <2>2, <3>1 DEF ThreadInv, ToldTheTruth, Told, Done, Of, OnRecord
  <2> QED BY <2>1, <2>2
<1> QED BY <1>1, <1>3, <1>4, <1>5, <1>6, <1>8, <1>9 DEF ThreadInv

\* A request that goes on to a stage of its own transaction
LEMMA MoveStep ==
    ASSUME ThreadInv, NEW r \in Requests, NEW stage \in Stages,
           pc[r] \in Stages, Goto(r, stage), UNCHANGED <<record, task, response>>,
           stage = "checked" => kind[r] \in {"run", "send", "clarify", "delete"},
           stage \in {"marked", "answered"} => kind[r] = "clarify",
           stage = "asking" => kind[r] \in {"run", "send", "clarify"} /\ (chat[r] \in chats \/ Fresh(r)),
           stage \in {"listed", "halfway", "emptied"} => kind[r] = "delete",
           listed' = IF stage = "listed" THEN [listed EXCEPT ![r] = Of(chat[r])] ELSE listed,
           stage \in {"halfway", "emptied"} => pc[r] \in {"listed", "halfway"},
           stage \in {"marked", "answered", "asking"} =>
               \/ pc[r] \in {"marked", "answered", "asking"}
               \/ original[r] = NoQuery
               \/ /\ OnRecord(original[r])
                  /\ \A s \in Requests : pc[s] = "emptied" => original[r] \notin listed[s],
           stage = "emptied" => \A q \in listed[r] : OnRecord(q) =>
               \A s \in Requests \ {r} : ~HoldsQuery(s, q)
    PROVE  ThreadInv'
<1> USE ThreadAssumption
<1>1. TypeOK'
  BY DEF ThreadInv, TypeOK, Goto, Stages, record, task, Of
<1>2. /\ pc'[r] = stage
      /\ \A s \in Requests \ {r} : pc'[s] = pc[s] /\ listed'[s] = listed[s]
      /\ UNCHANGED <<chats, queries, said, kind, chat, original, response>>
  BY DEF ThreadInv, TypeOK, Goto, record, task
<1>3. Kinds' /\ Asked'
  BY <1>2 DEF ThreadInv, Kinds, Asked, OnRecord, Stages
<1>4. Asking'
  BY <1>2 DEF ThreadInv, Asking, Fresh
<1>5. Lists'
  <2>1. CASE stage = "listed"
    BY <1>2, <2>1 DEF ThreadInv, TypeOK, Lists, Of, Asked, Stages
  <2>2. CASE stage # "listed"
    BY <1>2, <2>2 DEF ThreadInv, TypeOK, Lists, Stages
  <2> QED BY <2>1, <2>2
<1>6. Held'
  <2> SUFFICES ASSUME NEW s \in Requests, pc'[s] \in {"marked", "answered", "asking"},
                      original[s] # NoQuery
               PROVE  /\ OnRecord(original[s])
                      /\ \A u \in Requests : pc'[u] = "emptied" => original[s] \notin listed'[u]
    BY <1>2 DEF Held, OnRecord
  <2>1. OnRecord(original[s])
        /\ \A u \in Requests : pc[u] = "emptied" => original[s] \notin listed[u]
    BY <1>2 DEF ThreadInv, Held, Stages
  <2>2. stage = "emptied" => original[s] \notin listed[r]
    BY <1>2, <2>1 DEF HoldsQuery
  <2> QED BY <1>2, <2>1, <2>2 DEF Stages
<1>7. Origins'
  BY <1>2 DEF ThreadInv, TypeOK, Origins, Stages
<1>8. Kept' /\ ToldTheTruth'
  BY <1>2 DEF ThreadInv, Kept, Done, ToldTheTruth, Told, Of, OnRecord, Stages
<1>9. ThreadsAreWhole' /\ ClarifiedIsFollowedUp'
  BY <1>2 DEF ThreadInv, ThreadsAreWhole, ClarifiedIsFollowedUp, OnRecord
<1> QED BY <1>1, <1>3, <1>4, <1>5, <1>6, <1>7, <1>8, <1>9 DEF ThreadInv

\* A request that is answered without having begun, or sets out
LEMMA OpenStep ==
    ASSUME ThreadInv, NEW r \in Requests, NEW k \in {"run", "send", "delete"}, NEW c \in Chats,
           Open(r, k, c)
    PROVE  ThreadInv'
<1> USE ThreadAssumption
<1>1. /\ pc[r] = "idle" /\ kind' = [kind EXCEPT ![r] = k]
      /\ UNCHANGED <<chats, queries, said, original, listed>>
      /\ \/ /\ c \in chats \/ (k = "run" /\ Unused(c))
            /\ chat' = [chat EXCEPT ![r] = c]
            /\ Goto(r, "checked") /\ UNCHANGED response
         \/ Respond(r, "404") /\ UNCHANGED chat
  BY DEF Open, record
<1>2. /\ kind'[r] = k /\ \A s \in Requests \ {r} : pc'[s] = pc[s] /\ kind'[s] = kind[s]
                                                  /\ chat'[s] = chat[s] /\ response'[s] = response[s]
      /\ \/ pc'[r] = "checked" /\ chat'[r] = c
            /\ (c \in chats \/ \A s \in Requests : chat[s] # c)
         \/ pc'[r] = "done" /\ chat'[r] = chat[r] /\ response'[r] = "404"
  BY <1>1, ResponseType DEF ThreadInv, TypeOK, Goto, Unused
<1>3. TypeOK'
  BY <1>1, ResponseType DEF ThreadInv, TypeOK, Goto
<1>4. ~OnRecord(r) /\ chat[r] = NoChat /\ original[r] = NoQuery
  BY <1>1 DEF ThreadInv, Kinds, Asked
<1>5. Kinds' /\ Asked'
  BY <1>1, <1>2, <1>4 DEF ThreadInv, Kinds, Asked, OnRecord
<1>6. Asking'
  <2> SUFFICES ASSUME NEW s \in Requests, pc'[s] = "asking", chat'[s] \notin chats
               PROVE  Fresh(s)'
    BY <1>1 DEF Asking
  <2>1. s # r /\ Fresh(s)
    BY <1>2 DEF ThreadInv, Asking
  <2>2. chat[s] \in Chats
    BY <1>2, <2>1 DEF ThreadInv, Kinds
  <2> QED BY <1>1, <1>2, <1>4, <2>1, <2>2 DEF Fresh
<1>7. Held' /\ Origins'
  BY <1>1, <1>2, <1>4 DEF ThreadInv, TypeOK, Held, Origins, OnRecord
<1>8. Lists'
  BY <1>1, <1>2 DEF ThreadInv, TypeOK, Lists
<1>9. Kept' /\ ToldTheTruth'
  <2>1. \A m \in said : m.by # r
    BY <1>4 DEF ThreadInv, ThreadsAreWhole
  <2> QED BY <1>1, <1>2, <1>4, <2>1 DEF ThreadInv, Kept, Done, ToldTheTruth, Told, Of, OnRecord
<1>10. ThreadsAreWhole' /\ ClarifiedIsFollowedUp'
  <2>1. \A m \in said : m.by # r /\ m.by \in Requests
    BY <1>4 DEF ThreadInv, ThreadsAreWhole, TypeOK
  <2> QED BY <1>1, <1>2, <2>1 DEF ThreadInv, ThreadsAreWhole, ClarifiedIsFollowedUp, OnRecord
<1> QED BY <1>3, <1>5, <1>6, <1>7, <1>8, <1>9, <1>10 DEF ThreadInv

LEMMA ClarifyStep ==
    ASSUME ThreadInv, NEW r \in Requests, NEW q \in Requests, Clarify(r, q)
    PROVE  ThreadInv'
<1> USE ThreadAssumption
<1>1. /\ pc[r] = "idle" /\ kind' = [kind EXCEPT ![r] = "clarify"]
      /\ original' = [original EXCEPT ![r] = q]
      /\ UNCHANGED <<chats, queries, said, listed>>
      /\ \/ OnRecord(q) /\ chat' = [chat EXCEPT ![r] = queries[q].chat]
            /\ Goto(r, "checked") /\ UNCHANGED response
         \/ Respond(r, "404") /\ UNCHANGED chat
  BY DEF Clarify, record
<1>2. /\ kind'[r] = "clarify" /\ original'[r] = q
      /\ \A s \in Requests \ {r} : pc'[s] = pc[s] /\ kind'[s] = kind[s] /\ original'[s] = original[s]
                                   /\ chat'[s] = chat[s] /\ response'[s] = response[s]
      /\ \/ pc'[r] = "checked" /\ OnRecord(q) /\ chat'[r] = queries[q].chat
         \/ pc'[r] = "done" /\ chat'[r] = chat[r] /\ response'[r] = "404"
  BY <1>1, ResponseType DEF ThreadInv, TypeOK, Goto
<1>3. ~OnRecord(r) /\ chat[r] = NoChat
  BY <1>1 DEF ThreadInv, Kinds, Asked
<1>4. OnRecord(q) => /\ queries[q].chat \in chats /\ queries[q].chat \in Chats
                     /\ queries[q].chat = chat[q] /\ q # r
                     /\ pc[q] \in {"replying", "committed", "done"}
  BY <1>3 DEF ThreadInv, ThreadsAreWhole, TypeOK, Asked
<1>5. TypeOK'
  BY <1>1, <1>4, ResponseType DEF ThreadInv, TypeOK, Goto
<1>6. Kinds' /\ Asked'
  BY <1>1, <1>2, <1>3, <1>4 DEF ThreadInv, Kinds, Asked, OnRecord
<1>7. Asking'
  <2> SUFFICES ASSUME NEW s \in Requests, pc'[s] = "asking", chat'[s] \notin chats
               PROVE  Fresh(s)'
    BY <1>1 DEF Asking
  <2>1. s # r /\ Fresh(s)
    BY <1>2 DEF ThreadInv, Asking
  <2>2. chat[s] \in Chats
    BY <1>2, <2>1 DEF ThreadInv, Kinds
  <2> QED BY <1>1, <1>2, <1>3, <1>4, <2>1, <2>2 DEF Fresh
<1>8. Held'
  BY <1>1, <1>2 DEF ThreadInv, TypeOK, Held, OnRecord
<1>9. Origins'
  <2> SUFFICES ASSUME NEW s \in Requests, original'[s] # NoQuery, chat'[s] # NoChat
               PROVE  /\ pc'[original'[s]] \in {"replying", "committed", "done"}
                      /\ chat'[s] = chat'[original'[s]]
    BY DEF Origins
  <2>1. CASE s = r
    BY <1>2, <1>3, <1>4, <2>1
  <2>2. CASE s # r
    BY <1>1, <1>2, <2>2 DEF ThreadInv, TypeOK, Origins
  <2> QED BY <2>1, <2>2
<1>10. Lists'
  BY <1>1, <1>2 DEF ThreadInv, TypeOK, Lists
<1>11. Kept' /\ ToldTheTruth'
  <2>1. \A m \in said : m.by # r
    BY <1>3 DEF ThreadInv, ThreadsAreWhole
  <2> QED BY <1>1, <1>2, <1>3, <2>1 DEF ThreadInv, Kept, Done, ToldTheTruth, Told, Of, OnRecord
<1>12. ThreadsAreWhole' /\ ClarifiedIsFollowedUp'
  <2>1. \A m \in said : m.by # r /\ m.by \in Requests
    BY <1>3 DEF ThreadInv, ThreadsAreWhole, TypeOK
  <2> QED BY <1>1, <1>2, <1>3, <2>1 DEF ThreadInv, ThreadsAreWhole, ClarifiedIsFollowedUp, OnRecord, Kinds
<1> QED BY <1>5, <1>6, <1>7, <1>8, <1>9, <1>10, <1>11, <1>12 DEF ThreadInv

-----------------------------------------------------------------------------
(* Steps that commit *)

\* Only the first question of a chat puts it on record; nobody else knows it.
LEMMA NewChat ==
    ASSUME ThreadInv, NEW r \in Requests, pc[r] = "asking", NEW s \in Requests,
           chat[s] \in chats \cup {chat[r]}, chat[s] \notin chats
    PROVE  s = r
  BY DEF ThreadInv, Asking, Fresh

LEMMA ClarifiedQuery ==
    ASSUME NEW x \in Queries
    PROVE  LET y == [x EXCEPT !.status = "clarified"]
           IN  y \in Queries /\ y.chat = x.chat
  BY DEF Queries, Statuses

LEMMA CommitStep ==
    ASSUME ThreadInv, NEW r \in Requests, WorkflowCommits(r)
    PROVE  ThreadInv'
<1> USE ThreadAssumption
<1>0. PICK st \in Statuses \ {"clarified"} :
         queries' = [Marked(r) EXCEPT ![r] =
             [chat |-> chat[r], status |-> st, asked |-> st = "clarification_required"]]
  BY DEF WorkflowCommits
<1>1. PICK a \in BOOLEAN :
         queries' = [Marked(r) EXCEPT ![r] = [chat |-> chat[r], status |-> st, asked |-> a]]
  <2>1. (st = "clarification_required") \in BOOLEAN
    OBVIOUS
  <2> QED BY <1>0, <2>1
<1>2. /\ pc[r] = "asking" /\ Goto(r, "replying")
      /\ said' = said \cup {[by |-> r, role |-> "user"]} /\ chats' = chats \cup {chat[r]}
      /\ UNCHANGED <<kind, chat, original, listed, response>>
  BY DEF WorkflowCommits, Flushed, task
<1>3. /\ chat[r] \in Chats /\ kind[r] \in {"run", "send", "clarify"} /\ ~OnRecord(r)
      /\ [by |-> r, role |-> "assistant"] \notin said
  BY <1>2 DEF ThreadInv, Kinds, Asked, Kept
<1>4. original[r] # NoQuery =>
         /\ original[r] \in Requests /\ OnRecord(original[r]) /\ original[r] # r
  BY <1>2, <1>3 DEF ThreadInv, TypeOK, Held
<1>5. pc'[r] = "replying" /\ \A s \in Requests \ {r} : pc'[s] = pc[s]
  BY <1>2 DEF ThreadInv, TypeOK, Goto
<1>6. /\ queries'[r] = [chat |-> chat[r], status |-> st, asked |-> a]
      /\ \A q \in Requests \ {r} : queries'[q] = IF q = original[r]
                                                 THEN [queries[q] EXCEPT !.status = "clarified"]
                                                 ELSE queries[q]
  BY <1>1, <1>4 DEF ThreadInv, TypeOK, Marked
<1>7. queries'[r] \in Queries
  BY <1>3, <1>6 DEF Queries
<1>8. \A q \in Requests : OnRecord(q) => queries[q] \in Queries
  BY DEF ThreadInv, TypeOK, OnRecord
<1>9. ASSUME NEW q \in Requests, OnRecord(q)
      PROVE  /\ q # r /\ queries'[q] \in Queries /\ queries'[q].chat = queries[q].chat
             /\ q # original[r] => queries'[q] = queries[q]
  <2>1. CASE q = original[r]
    <3>1. queries'[q] = [queries[q] EXCEPT !.status = "clarified"]
      BY <1>3, <1>6, <1>9, <2>1
    <3> QED BY <1>3, <1>8, <1>9, <2>1, <3>1, ClarifiedQuery
  <2>2. CASE q # original[r]
    BY <1>3, <1>6, <1>8, <1>9, <2>2
  <2> QED BY <2>1, <2>2
<1>10. \A q \in Requests : OnRecord(q)' <=> q = r \/ OnRecord(q)
  <2>1. \A q \in Requests : queries'[q] \in Queries => queries'[q] # NoQuery
    OBVIOUS
  <2>2. \A q \in Requests \ {r} : ~OnRecord(q) => queries'[q] = NoQuery
    <3> TAKE q \in Requests \ {r}
    <3> HAVE ~OnRecord(q)
    <3>1. q # original[r]
      BY <1>4
    <3> QED BY <1>6, <3>1 DEF OnRecord
  <2> QED BY <1>7, <1>9, <2>1, <2>2 DEF OnRecord
<1>11. TypeOK'
  <2>1. \A q \in Requests : queries'[q] \in Queries \cup {NoQuery}
    BY <1>7, <1>9, <1>10 DEF OnRecord
  <2>2. queries' \in [Requests -> Queries \cup {NoQuery}]
    BY <1>1, <2>1 DEF ThreadInv, TypeOK, Marked
  <2>3. said' \subseteq [by : Requests, role : Roles]
    BY <1>2 DEF ThreadInv, TypeOK, Roles
  <2>4. pc' \in [Requests -> {"idle", "checked", "marked", "answered", "asking", "replying",
                             "committed", "listed", "halfway", "emptied", "done"}]
    BY <1>2 DEF ThreadInv, TypeOK, Goto
  <2> QED BY <1>2, <1>3, <2>2, <2>3, <2>4 DEF ThreadInv, TypeOK
<1>12. Kinds'
  BY <1>2, <1>3, <1>5 DEF ThreadInv, Kinds
<1>13. Asked'
  BY <1>2, <1>5, <1>6, <1>9, <1>10 DEF ThreadInv, Asked
<1>14. Asking'
  <2> SUFFICES ASSUME NEW s \in Requests, pc'[s] = "asking", chat[s] \notin chats'
               PROVE  Fresh(s)'
    BY <1>2 DEF Asking
  <2>1. s # r /\ Fresh(s)
    BY <1>2, <1>5 DEF ThreadInv, Asking
  <2> QED BY <1>2, <2>1 DEF Fresh
<1>15. Held'
  BY <1>2, <1>4, <1>5, <1>10 DEF ThreadInv, TypeOK, Held
<1>16. Origins' /\ Lists'
  BY <1>2, <1>5 DEF ThreadInv, TypeOK, Origins, Lists
<1>17. ThreadsAreWhole'
  <2>1. \A q \in Requests : OnRecord(q)' =>
            queries'[q].chat \in chats' /\ [by |-> q, role |-> "user"] \in said'
    <3>1. queries'[r].chat \in chats' /\ [by |-> r, role |-> "user"] \in said'
      BY <1>2, <1>6
    <3>2. \A q \in Requests : OnRecord(q) =>
              queries'[q].chat \in chats' /\ [by |-> q, role |-> "user"] \in said'
      BY <1>2, <1>9 DEF ThreadInv, ThreadsAreWhole
    <3> QED BY <1>10, <3>1, <3>2
  <2>2. \A m \in said' : chat'[m.by] \in chats' /\ OnRecord(m.by)'
    <3>1. \A m \in said : m.by \in Requests
      BY DEF ThreadInv, TypeOK
    <3> QED BY <1>2, <1>10, <3>1 DEF ThreadInv, ThreadsAreWhole
  <2> QED BY <2>1, <2>2 DEF ThreadsAreWhole
<1>18. Kept'
  <2> SUFFICES ASSUME NEW s \in Requests
               PROVE  /\ pc'[s] = "replying" /\ chat[s] \in chats' => OnRecord(s)'
                      /\ pc'[s] = "committed" => Done(s)'
                      /\ [by |-> s, role |-> "assistant"] \in said' =>
                            pc'[s] \in {"committed", "done"}
    BY <1>2 DEF Kept
  <2>1. [by |-> s, role |-> "assistant"] \in said' <=> [by |-> s, role |-> "assistant"] \in said
    BY <1>2
  <2>2. CASE s = r
    BY <1>3, <1>5, <1>10, <2>1, <2>2
  <2>3. CASE s # r
    <3>1. chat[s] \in chats' => chat[s] \in chats
      BY <1>2, <2>3, NewChat
    <3>2. chat[s] \notin chats' => Of(chat[s])' = {}
      BY <1>2, <1>17 DEF Of, ThreadsAreWhole
    <3>3. pc'[s] = pc[s]
      BY <1>5, <2>3
    <3>4. pc[s] = "committed" => Done(s)'
      BY <1>2, <1>10, <2>1, <3>1, <3>2 DEF ThreadInv, Kept, Done
    <3> QED BY <1>10, <2>1, <3>1, <3>3, <3>4 DEF ThreadInv, Kept
  <2> QED BY <2>2, <2>3
<1>19. ClarifiedIsFollowedUp'
  <2> SUFFICES ASSUME NEW q \in Requests, OnRecord(q)', queries'[q].status = "clarified"
               PROVE  \E s \in Requests : original[s] = q /\ OnRecord(s)'
    BY <1>2 DEF ClarifiedIsFollowedUp
  <2>1. q # r /\ OnRecord(q)
    BY <1>6, <1>10
  <2>2. CASE q = original[r]
    BY <1>10, <2>2
  <2>3. CASE q # original[r]
    BY <1>9, <1>10, <2>1, <2>3 DEF ThreadInv, ClarifiedIsFollowedUp
  <2> QED BY <2>2, <2>3
<1>20. ToldTheTruth'
  <2> SUFFICES ASSUME NEW s \in Requests, pc'[s] = "done"
               PROVE  Told(s)'
    BY DEF ToldTheTruth, Told
  <2>1. s # r /\ pc[s] = "done"
    BY <1>5
  <2>2. chat[s] \in chats' => chat[s] \in chats
    BY <1>2, <2>1, NewChat
  <2>3. [by |-> s, role |-> "assistant"] \in said' <=> [by |-> s, role |-> "assistant"] \in said
    BY <1>2
  <2>4. chat[s] \notin chats' => Of(chat[s])' = {}
    BY <1>2, <1>17 DEF Of, ThreadsAreWhole
  <2>5. Told(s)
    BY <2>1 DEF ThreadInv, ToldTheTruth
  <2>6. \A m \in said' : m.by = s => m \in said
    BY <1>2, <2>1
  <2> QED BY <1>2, <1>10, <2>1, <2>2, <2>3, <2>4, <2>5, <2>6 DEF Told
<1> QED
  BY <1>11, <1>12, <1>13, <1>14, <1>15, <1>16, <1>17, <1>18, <1>19, <1>20 DEF ThreadInv

\* The assistant's message of a chat that is still there
LEMMA ReplyStep ==
    ASSUME ThreadInv, NEW r \in Requests, Reply(r), Thread(r)
    PROVE  ThreadInv'
<1> USE ThreadAssumption
<1> DEFINE answer == [by |-> r, role |-> "assistant"]
<1>1. /\ pc[r] = "replying" /\ chat[r] \in chats /\ Goto(r, "committed")
      /\ UNCHANGED <<chats, queries, kind, chat, original, listed, response>>
      /\ said' = said \cup {answer}
  BY DEF Reply, Thread, task
<1>2. pc'[r] = "committed" /\ \A s \in Requests \ {r} : pc'[s] = pc[s]
  BY <1>1 DEF ThreadInv, TypeOK, Goto
<1>3. OnRecord(r) /\ kind[r] \in {"run", "send", "clarify"} /\ chat[r] \in Chats
  BY <1>1 DEF ThreadInv, Kept, Kinds
<1>4. TypeOK'
  <2>1. said' \subseteq [by : Requests, role : Roles]
    BY <1>1 DEF ThreadInv, TypeOK, Roles
  <2>2. pc' \in [Requests -> {"idle", "checked", "marked", "answered", "asking", "replying",
                              "committed", "listed", "halfway", "emptied", "done"}]
    BY <1>1 DEF ThreadInv, TypeOK, Goto
  <2> QED BY <1>1, <2>1, <2>2 DEF ThreadInv, TypeOK
<1>5. Kinds' /\ Asked'
  BY <1>1, <1>2, <1>3 DEF ThreadInv, Kinds, Asked, OnRecord
<1>6. Asking' /\ Held'
  BY <1>1, <1>2 DEF ThreadInv, Asking, Fresh, Held, OnRecord
<1>7. Origins' /\ Lists'
  BY <1>1, <1>2 DEF ThreadInv, TypeOK, Origins, Lists
<1>8. \A s \in Requests : [by |-> s, role |-> "assistant"] \in said'
                          <=> s = r \/ [by |-> s, role |-> "assistant"] \in said
  BY <1>1
<1>9. Kept'
  BY <1>1, <1>2, <1>3, <1>8 DEF ThreadInv, Kept, Done, Of, OnRecord
<1>10. ThreadsAreWhole' /\ ClarifiedIsFollowedUp'
  BY <1>1, <1>3 DEF ThreadInv, ThreadsAreWhole, ClarifiedIsFollowedUp, OnRecord
<1>11. ToldTheTruth'
  <2> SUFFICES ASSUME NEW s \in Requests, pc'[s] = "done"
               PROVE  Told(s)'
    BY DEF ToldTheTruth, Told
  <2>1. s # r /\ Told(s)
    BY <1>2 DEF ThreadInv, ToldTheTruth
  <2>2. \A m \in said' : m.by = s => m \in said
    BY <1>1, <2>1
  <2> QED BY <1>1, <1>8, <2>1, <2>2 DEF Told, Of, OnRecord
<1> QED BY <1>4, <1>5, <1>6, <1>7, <1>9, <1>10, <1>11 DEF ThreadInv

LEMMA DeleteStep ==
    ASSUME ThreadInv, NEW r \in Requests, DeleteChat(r), ~Referenced(r)
    PROVE  ThreadInv'
<1> USE ThreadAssumption
<1>1. /\ pc[r] = "emptied" /\ Goto(r, "committed")
      /\ UNCHANGED <<kind, chat, original, listed, response>>
      /\ \A s \in Requests \ {r} : ~HoldsChat(s, chat[r])
      /\ chats' = chats \ {chat[r]}
      /\ queries' = [q \in Requests |-> IF q \in listed[r] THEN NoQuery ELSE queries[q]]
      /\ said' = {m \in said : chat[m.by] # chat[r]}
  BY DEF DeleteChat, FreeOf, task
<1>2. pc'[r] = "committed" /\ \A s \in Requests \ {r} : pc'[s] = pc[s]
  BY <1>1 DEF ThreadInv, TypeOK, Goto
<1>3. kind[r] = "delete" /\ ~OnRecord(r)
  BY <1>1 DEF ThreadInv, Kinds, Asked
<1>4. \A q \in Requests : OnRecord(q) => (q \in listed[r] <=> chat[q] = chat[r])
  BY <1>1 DEF ThreadInv, Lists, Asked, Referenced, Of
<1>5. \A q \in Requests : /\ OnRecord(q)' <=> OnRecord(q) /\ chat[q] # chat[r]
                          /\ OnRecord(q)' => queries'[q] = queries[q]
  BY <1>1, <1>4 DEF OnRecord
<1>6. TypeOK'
  <2>1. queries' \in [Requests -> Queries \cup {NoQuery}]
    BY <1>1 DEF ThreadInv, TypeOK
  <2> QED BY <1>1, <2>1 DEF ThreadInv, TypeOK, Goto
<1>7. Kinds'
  BY <1>1, <1>2, <1>3 DEF ThreadInv, Kinds
<1>8. Asked'
  BY <1>1, <1>2, <1>3, <1>5 DEF ThreadInv, Asked
<1>9. Asking'
  BY <1>1, <1>2 DEF ThreadInv, Asking, HoldsChat, Fresh
<1>10. Held'
  <2> SUFFICES ASSUME NEW s \in Requests, pc[s] \in {"marked", "answered", "asking"},
                      original[s] # NoQuery, s # r
               PROVE  OnRecord(original[s])'
                      /\ \A u \in Requests : pc'[u] = "emptied" => original[s] \notin listed[u]
    BY <1>1, <1>2 DEF Held
  <2>1. OnRecord(original[s])
        /\ \A u \in Requests : pc[u] = "emptied" => original[s] \notin listed[u]
    BY DEF ThreadInv, Held
  <2> QED BY <1>1, <1>2, <2>1 DEF ThreadInv, TypeOK, OnRecord
<1>11. Origins' /\ Lists'
  BY <1>1, <1>2 DEF ThreadInv, TypeOK, Origins, Lists
<1>13. ThreadsAreWhole'
  <2>1. \A q \in Requests : OnRecord(q)' =>
            queries'[q].chat \in chats' /\ [by |-> q, role |-> "user"] \in said'
    BY <1>1, <1>5 DEF ThreadInv, ThreadsAreWhole, Asked
  <2>2. \A m \in said : m.by \in Requests
    BY DEF ThreadInv, TypeOK
  <2> QED BY <1>1, <1>5, <2>1, <2>2 DEF ThreadInv, ThreadsAreWhole
<1>14. ClarifiedIsFollowedUp'
  <2> SUFFICES ASSUME NEW q \in Requests, OnRecord(q)', queries'[q].status = "clarified"
               PROVE  \E s \in Requests : original[s] = q /\ OnRecord(s)'
    BY <1>1 DEF ClarifiedIsFollowedUp
  <2>1. PICK s \in Requests : original[s] = q /\ OnRecord(s)
    BY <1>5 DEF ThreadInv, ClarifiedIsFollowedUp
  <2>2. chat[s] # NoChat
    BY <2>1 DEF ThreadInv, Asked, TypeOK, OnRecord, Queries
  <2>3. chat[s] = chat[q]
    BY <2>1, <2>2 DEF ThreadInv, Origins
  <2> QED BY <1>5, <2>1, <2>3
<1>12. \A s \in Requests : chat[s] \notin chats' => Of(chat[s])' = {}
  BY <1>1, <1>13 DEF Of, ThreadsAreWhole
<1>15. Kept'
  BY <1>1, <1>2, <1>3, <1>5, <1>12 DEF ThreadInv, Kept, Done
<1>16. ToldTheTruth'
  <2> SUFFICES ASSUME NEW s \in Requests, pc'[s] = "done"
               PROVE  Told(s)'
    BY DEF ToldTheTruth, Told
  <2>1. s # r /\ Told(s)
    BY <1>2 DEF ThreadInv, ToldTheTruth
  <2> QED BY <1>1, <1>2, <1>5, <1>12, <2>1 DEF Told
<1> QED
  BY <1>6, <1>7, <1>8, <1>9, <1>10, <1>11, <1>13, <1>14, <1>15, <1>16 DEF ThreadInv

-----------------------------------------------------------------------------
(* Every step *)

LEMMA RequestStep ==
    ASSUME ThreadInv, NEW r \in Requests, Step(r)
    PROVE  ThreadInv'
<1>1. CASE Tell(r)
  <2>1. /\ pc[r] \in {"checked", "answered"} /\ kind[r] \in {"run", "send", "clarify"}
        /\ pc[r] = "checked" => original[r] = NoQuery
    BY <1>1 DEF Tell, ThreadInv, Kinds
  <2>2. CASE chat[r] \in chats \/ Fresh(r)
    BY <1>1, <2>1, <2>2, MoveStep DEF Tell, Stages
  <2>3. CASE ~(chat[r] \in chats \/ Fresh(r))
    BY <1>1, <2>1, <2>3, EndStep DEF Tell
  <2> QED BY <2>2, <2>3
<1>2. CASE WorkflowCommits(r)
  BY <1>2, CommitStep
<1>3. CASE WorkflowFails(r) \/ Deadlocked(r)
  <2>1. pc[r] \in {"asking", "marked", "halfway"}
    BY <1>3 DEF WorkflowFails, Deadlocked
  <2> QED BY <1>3, <2>1, EndStep DEF WorkflowFails, Deadlocked, Stages
<1>4. CASE Reply(r)
  BY <1>4, ReplyStep, EndStep DEF Reply, Thread, record
<1>5. CASE Tells(r)
  <2>1. Refreshed(r) \in {"200", "500"}
    BY DEF Refreshed
  <2> QED BY <1>5, <2>1, EndStep DEF Tells
<1>6. CASE Mark(r)
  <2>1. CASE OnRecord(original[r])
    <3>1. \A s \in Requests : pc[s] = "emptied" => original[r] \notin listed[s]
      BY <1>6 DEF Mark, FreeOf, HoldsQuery
    <3> QED BY <1>6, <2>1, <3>1, MoveStep DEF Mark, Stages
  <2>2. CASE ~OnRecord(original[r])
    BY <1>6, <2>2, EndStep DEF Mark
  <2> QED BY <2>1, <2>2
<1>7. CASE AnswerIt(r)
  <2>1. kind[r] = "clarify"
    BY <1>7 DEF AnswerIt, ThreadInv, Kinds
  <2> QED BY <1>7, <2>1, MoveStep DEF AnswerIt, AfterFlush, record, Stages
<1>8. CASE List(r)
  BY <1>8, MoveStep DEF List, Stages
<1>9. CASE DeleteParts(r)
  BY <1>9, MoveStep DEF DeleteParts, ThreadInv, Kinds, Stages
<1>10. CASE DeleteQueries(r)
  BY <1>10, MoveStep DEF DeleteQueries, FreeOf, ThreadInv, Kinds, Stages
<1>11. CASE DeleteChat(r)
  BY <1>11, DeleteStep, EndStep DEF DeleteChat
<1> QED
  BY <1>1, <1>2, <1>3, <1>4, <1>5, <1>6, <1>7, <1>8, <1>9, <1>10, <1>11 DEF Step

\* What every step of run_query, send_message, clarify_query and delete_chat keeps.
THEOREM ThreadsKeep == Spec => []ThreadInv
<1>1. ASSUME ThreadInv, Next PROVE ThreadInv'
  BY <1>1, OpenStep, ClarifyStep, RequestStep, EndStep DEF Next, Breaks
<1>2. ASSUME ThreadInv, UNCHANGED vars PROVE ThreadInv'
  <2>1. UNCHANGED <<chats, queries, said, pc, kind, chat, original, listed, response>>
    BY <1>2 DEF vars, record, task
  <2>2. TypeOK' /\ Kinds' /\ Asked' /\ Asking' /\ Held'
    BY <1>2, <2>1 DEF ThreadInv, TypeOK, Kinds, Asked, Asking, Fresh, Held, OnRecord
  <2>3. Origins' /\ Lists' /\ Kept'
    BY <1>2, <2>1 DEF ThreadInv, Origins, Lists, Kept, Done, Of, OnRecord
  <2>4. ThreadsAreWhole' /\ ClarifiedIsFollowedUp' /\ ToldTheTruth'
    BY <1>2, <2>1 DEF ThreadInv, ThreadsAreWhole, ClarifiedIsFollowedUp, ToldTheTruth, Told, Of, OnRecord
  <2> QED BY <2>2, <2>3, <2>4 DEF ThreadInv
<1> QED BY ThreadInit, <1>1, <1>2, PTL DEF Spec

\* Foreign keys are kept and no message is left without its query, whichever
\* deletions meet whichever questions (delete_chat, run_query_workflow).
THEOREM ThreadsWhole == Spec => []ThreadsAreWhole
<1>1. ThreadInv => ThreadsAreWhole
  BY DEF ThreadInv
<1> QED BY <1>1, ThreadsKeep, PTL

\* A query is marked as clarified in the transaction that commits its successor
\* (clarify_query).
THEOREM ClarifiedAreFollowedUp == Spec => []ClarifiedIsFollowedUp
<1>1. ThreadInv => ClarifiedIsFollowedUp
  BY DEF ThreadInv
<1> QED BY <1>1, ThreadsKeep, PTL

\* A success told of a question or of a deletion is on record, and of a refusal
\* nothing is (run_query, send_message, clarify_query, delete_chat).
THEOREM ClientsAreTold == Spec => []ToldTheTruth
<1>1. ThreadInv => ToldTheTruth
  BY DEF ThreadInv
<1> QED BY <1>1, ThreadsKeep, PTL

=============================================================================
