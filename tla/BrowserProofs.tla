---------------------------- MODULE BrowserProofs ----------------------------
(***************************************************************************)
(* What the browser keeps.  Sessions, for any set of requests and accounts, *)
(* any lifetime and any clock: that a confirmed logout holds, and that the  *)
(* browser holds no cookie the server knows nothing of.  The analytics      *)
(* page, for any set of chats: that it does not stay with the wrong chat.   *)
(***************************************************************************)
EXTENDS Sessions, ChatFlow, TLAPS

USE SessionAssumption

Entering == {"register", "login"}
Underway == {"idle", "sent", "checked", "committed"}

\* A request to enter names an account.
Named == \A r \in Requests : kind[r] \in Entering => email[r] \in Emails

\* A logout that has been authenticated came with a session on record.
Held ==
    \A r \in Requests : pc[r] \in {"checked", "committed"} /\ kind[r] = "logout"
        => sent[r] \in Requests /\ tokens[sent[r]] # None

TypeInv == TypeOK /\ Named /\ Held

LEMMA TypeHolds == TypeInv /\ [Next]_vars => TypeInv'
<1> SUFFICES ASSUME TypeInv, [Next]_vars PROVE TypeInv'
  OBVIOUS
<1> USE DEF TypeInv, TypeOK, Named, Held, Entering
<1>1. CASE Tick
  BY <1>1 DEF Tick, quiet, browser, ghosts
<1>2. ASSUME NEW r \in Requests, Send(r) PROVE TypeInv'
  <2>1. PICK k \in {"register", "login", "logout", "call"} : kind' = [kind EXCEPT ![r] = k]
    BY <1>2 DEF Send
  <2>2. PICK e \in Emails : email' = [email EXCEPT ![r] =
                              IF kind'[r] \in {"register", "login"} THEN e ELSE None]
    BY <1>2 DEF Send
  <2> QED
    BY <1>2, <2>1, <2>2 DEF Send, Goto, ghosts
<1>3. ASSUME NEW r \in Requests, Receive(r) PROVE TypeInv'
  <2>1. jar' \in {jar, r, None}
    <3>1. CASE kind[r] \in {"register", "login"}
      BY <1>3, <3>1, Zenon DEF Receive
    <3>2. CASE kind[r] = "logout"
      BY <1>3, <3>2, Zenon DEF Receive
    <3>3. CASE kind[r] \notin {"register", "login", "logout"}
      BY <1>3, <3>3, Zenon DEF Receive
    <3> QED
      BY <3>1, <3>2, <3>3
  <2> QED
    BY <1>3, <2>1 DEF Receive, Goto, ghosts
<1>4. ASSUME NEW r \in Requests, Check(r) PROVE TypeInv'
  BY <1>4 DEF Check, Goto, Answer, Ends, quiet, browser, ghosts
<1>5. ASSUME NEW r \in Requests, CommitSession(r) PROVE TypeInv'
  <2> DEFINE t == [of |-> email[r], expires |-> expiry[r], revoked |-> FALSE]
  <2>1. t \in Token
    BY <1>5 DEF CommitSession, Token
  <2>2. CASE UNCHANGED tokens
    BY <1>5, <2>2 DEF CommitSession, Goto, Answer, quiet, browser, ghosts
  <2>3. CASE tokens' = [tokens EXCEPT ![r] = t]
    <3>1. /\ tokens' \in [Requests -> Token \cup {None}]
          /\ \A q \in Requests : tokens[q] # None => tokens'[q] # None
      BY <2>1, <2>3
    <3> HIDE DEF t
    <3> QED
      BY <1>5, <3>1 DEF CommitSession, Goto, Answer, quiet, browser, ghosts
  <2> QED
    BY <1>5, <2>2, <2>3 DEF CommitSession
<1>6. ASSUME NEW r \in Requests, Authenticate(r) PROVE TypeInv'
  <2>1. Valid(sent[r]) => tokens[sent[r]].of \in Emails /\ sent[r] \in Requests
    BY DEF Valid, Token
  <2>2. Valid(sent[r]) => tokens[sent[r]] # None
    BY DEF Valid
  <2> QED
    BY <1>6, <2>1, <2>2 DEF Authenticate, Goto, Answer, browser
<1>7. ASSUME NEW r \in Requests, Revoke(r) PROVE TypeInv'
  <2>1. /\ tokens' \in [Requests -> Token \cup {None}]
        /\ \A q \in Requests : tokens[q] # None => tokens'[q] # None
    <3>1. sent[r] \in Requests /\ tokens[sent[r]] \in Token
      BY <1>7 DEF Revoke
    <3>2. [tokens[sent[r]] EXCEPT !.revoked = TRUE] \in Token
      BY <3>1 DEF Token
    <3>3. tokens' = [tokens EXCEPT ![sent[r]] = [tokens[sent[r]] EXCEPT !.revoked = TRUE]]
      BY <1>7 DEF Revoke, Revoked
    <3> QED
      BY <3>1, <3>2, <3>3
  <2> QED
    BY <1>7, <2>1 DEF Revoke, Goto, quiet, browser, ghosts
<1>8. ASSUME NEW r \in Requests, Serve(r) PROVE TypeInv'
  BY <1>8 DEF Serve, Goto, quiet, browser, ghosts
<1>9. ASSUME NEW r \in Requests, Finish(r) PROVE TypeInv'
  BY <1>9 DEF Finish, Goto, Answer, browser
<1>10. ASSUME NEW r \in Requests, Fail(r) PROVE TypeInv'
  BY <1>10 DEF Fail, CodeOf, Goto, Answer, quiet, browser, ghosts
<1>11. CASE UNCHANGED vars
  BY <1>11 DEF vars, browser, ghosts
<1> QED
  BY <1>1, <1>2, <1>3, <1>4, <1>5, <1>6, <1>7, <1>8, <1>9, <1>10, <1>11 DEF Next

\* The types hold for any set of requests and any clock.
THEOREM TypeCorrect == Spec => []TypeOK
<1>1. Init => TypeInv
  BY DEF Init, TypeInv, TypeOK, Named, Held, Entering
<1> QED
  BY <1>1, TypeHolds, PTL DEF Spec, TypeInv

-----------------------------------------------------------------------------

\* What has not answered has no answer; who was served in entering is on record.
Answers ==
    \A r \in Requests :
       /\ pc[r] \in Underway => response[r] = "none"
       /\ kind[r] \in Entering /\ (pc[r] = "committed" \/ response[r] = "200")
            => tokens[r] # None

\* A session is on record only after its request has committed it.
Fresh == \A r \in Requests : tokens[r] # None => pc[r] \notin {"idle", "sent", "checked"}

\* Sessions whose logout has been committed, or confirmed, are revoked.
Revocations ==
    /\ \A r \in Requests : pc[r] = "committed" /\ kind[r] = "logout" => tokens[sent[r]].revoked
    /\ \A t \in ended : tokens[t] # None /\ tokens[t].revoked

\* Requests that came with such a session have been refused.
Refused == \A r \in late : pc[r] \notin Underway /\ response[r] # "200"

SessionInv == Answers /\ Fresh /\ Revocations /\ Refused /\ CookieIsBacked

LEMMA SessionHolds ==
    TypeInv /\ TypeInv' /\ SessionInv /\ [Next]_vars => SessionInv'
<1> SUFFICES ASSUME TypeInv, TypeInv', SessionInv, [Next]_vars PROVE SessionInv'
  OBVIOUS
<1> USE DEF TypeInv, TypeOK, Held, Entering, Underway, SessionInv, Answers, Fresh,
            Revocations, Refused, CookieIsBacked
<1>1. CASE Tick
  BY <1>1 DEF Tick, quiet, browser, ghosts
<1>2. ASSUME NEW r \in Requests, Send(r) PROVE SessionInv'
  <2>1. PICK k \in {"register", "login", "logout", "call"} : kind' = [kind EXCEPT ![r] = k]
    BY <1>2 DEF Send
  <2> QED
    BY <1>2, <2>1 DEF Send, Goto, ghosts
<1>3. ASSUME NEW r \in Requests, Receive(r) PROVE SessionInv'
  <2>1. \/ jar' \in {jar, None}
        \/ jar' = r /\ kind[r] \in {"register", "login"} /\ response[r] = "200"
    <3>1. CASE kind[r] \in {"register", "login"}
      BY <1>3, <3>1, Zenon DEF Receive
    <3>2. CASE kind[r] = "logout"
      BY <1>3, <3>2, Zenon DEF Receive
    <3>3. CASE kind[r] \notin {"register", "login", "logout"}
      BY <1>3, <3>3, Zenon DEF Receive
    <3> QED
      BY <3>1, <3>2, <3>3
  <2> QED
    BY <1>3, <2>1 DEF Receive, Goto, ghosts
<1>4. ASSUME NEW r \in Requests, Check(r) PROVE SessionInv'
  BY <1>4 DEF Check, Goto, Answer, quiet, browser, ghosts
<1>5. ASSUME NEW r \in Requests, CommitSession(r) PROVE SessionInv'
  <2>1. r \notin ended /\ tokens[r] = None /\ email[r] \in Emails
    BY <1>5 DEF CommitSession, Named
  <2>2. CASE UNCHANGED tokens /\ Answer(r, "500")
    BY <1>5, <2>2 DEF CommitSession, Answer, Goto, quiet, browser, ghosts
  <2> DEFINE t == [of |-> email[r], expires |-> expiry[r], revoked |-> FALSE]
  <2>3. CASE tokens' = [tokens EXCEPT ![r] = t] /\ Goto(r, "committed") /\ UNCHANGED response
    <3>1. t \in Token
      BY <2>1 DEF Token
    <3> HIDE DEF t
    <3>2. tokens'[r] # None /\ \A q \in Requests \ {r} : tokens'[q] = tokens[q]
      BY <2>3, <3>1
    <3>3. \A q \in Requests : tokens[q] # None => tokens'[q] = tokens[q]
      BY <2>1, <3>2
    <3> QED
      BY <1>5, <2>1, <2>3, <3>2, <3>3 DEF CommitSession, Goto, quiet, browser, ghosts
  <2> QED
    BY <1>5, <2>2, <2>3 DEF CommitSession
<1>6. ASSUME NEW r \in Requests, Authenticate(r) PROVE SessionInv'
  <2>1. sent[r] \in ended => ~Valid(sent[r])
    BY DEF Valid
  <2> QED
    BY <1>6, <2>1 DEF Authenticate, Goto, Answer, browser
<1>7. ASSUME NEW r \in Requests, Revoke(r) PROVE SessionInv'
  <2>1. sent[r] \in Requests /\ tokens[sent[r]] \in Token
    BY <1>7 DEF Revoke
  <2> DEFINE t == [tokens[sent[r]] EXCEPT !.revoked = TRUE]
  <2>2. t \in Token /\ t.revoked
    BY <2>1 DEF Token
  <2>3. tokens' = [tokens EXCEPT ![sent[r]] = t]
    BY <1>7 DEF Revoke, Revoked
  <2> HIDE DEF t
  <2>4. /\ tokens'[sent[r]] # None /\ tokens'[sent[r]].revoked
        /\ \A q \in Requests : q # sent[r] => tokens'[q] = tokens[q]
    BY <2>1, <2>2, <2>3
  <2> QED
    BY <1>7, <2>1, <2>4 DEF Revoke, Goto, quiet, browser, ghosts
<1>8. ASSUME NEW r \in Requests, Serve(r) PROVE SessionInv'
  BY <1>8 DEF Serve, Goto, quiet, browser, ghosts
<1>9. ASSUME NEW r \in Requests, Finish(r) PROVE SessionInv'
  BY <1>9 DEF Finish, Goto, Answer, browser
<1>10. ASSUME NEW r \in Requests, Fail(r) PROVE SessionInv'
  BY <1>10 DEF Fail, CodeOf, Goto, Answer, quiet, browser, ghosts
<1>11. CASE UNCHANGED vars
  BY <1>11 DEF vars, browser, ghosts
<1> QED
  BY <1>1, <1>2, <1>3, <1>4, <1>5, <1>6, <1>7, <1>8, <1>9, <1>10, <1>11 DEF Next

LEMMA SessionsHold == Spec => []SessionInv
<1>1. Init => TypeInv /\ SessionInv
  BY DEF Init, TypeInv, TypeOK, Named, Held, Entering, Underway, SessionInv, Answers,
         Fresh, Revocations, Refused, CookieIsBacked
<1> QED
  BY <1>1, TypeHolds, SessionHolds, PTL DEF Spec

\* However requests and their answers overtake each other, none that comes to the
\* server with a session after its logout was confirmed is served (resolve_session_user
\* in app/auth.py).
THEOREM LogoutsHold == Spec => []LogoutHolds
<1>1. SessionInv => LogoutHolds
  BY DEF SessionInv, Refused, LogoutHolds
<1> QED
  BY <1>1, SessionsHold, PTL

\* Whatever fails, the cookie of the browser names a session that has been committed
\* (login and register in app/api.py).
THEOREM CookiesAreBacked == Spec => []CookieIsBacked
<1>1. SessionInv => CookieIsBacked
  BY DEF SessionInv
<1> QED
  BY <1>1, SessionsHold, PTL

-----------------------------------------------------------------------------
(* The page *)

\* Every reload of the page's state ends in a fetch of the selected chat.
LEMMA LoadFetches ==
    ASSUME PageTypeOK, NEW c \in Chats \cup {NoChat}, Load(c)
    PROVE  /\ current' \in Chats \cup {NoChat} /\ loaded' \in Chats \cup {NoChat}
           /\ shown' = NoChat /\ error' = FALSE /\ stored' \in Chats \cup {NoChat}
           /\ fetches' \in [Chats -> Nat]
           /\ current' # NoChat => fetches'[current'] > 0
  BY FlowAssumption DEF PageTypeOK, Load

LEMMA Clicks == PageTypeOK /\ Click => clicks' \in 0..MaxClicks /\ failures' \in 0..MaxFailures
  BY FlowAssumption DEF PageTypeOK, Click

LEMMA PageTypeStep == PageTypeOK /\ [PageNext]_pageVars => PageTypeOK'
<1> SUFFICES ASSUME PageTypeOK, [PageNext]_pageVars PROVE PageTypeOK'
  OBVIOUS
<1> USE FlowAssumption
<1>1. CASE Hydrate
  <2>1. PICK c \in Preferred :
           IF usable /\ MustLoad(c) THEN Load(c) ELSE UNCHANGED <<selection, fetches>>
    BY <1>1 DEF Hydrate
  <2>2. c \in Chats \cup {NoChat}
    BY <2>1 DEF Preferred, PageTypeOK
  <2>3. CASE Load(c)
    BY <1>1, <2>2, <2>3, LoadFetches DEF Hydrate, PageTypeOK, data, counts, Changed
  <2>4. CASE UNCHANGED <<selection, fetches>>
    BY <1>1, <2>4 DEF Hydrate, PageTypeOK, data, counts, selection, Changed
  <2> QED
    BY <2>1, <2>3, <2>4
<1>2. CASE Retry
  <2>1. /\ clicks' \in 0..MaxClicks /\ failures' \in 0..MaxFailures
        /\ current \in Chats \cup {NoChat}
    BY <1>2, Clicks DEF Retry, PageTypeOK
  <2>2. due' \in BOOLEAN
    BY <1>2 DEF Retry, Rendered
  <2> QED
    BY <1>2, <2>1, <2>2, LoadFetches DEF Retry, PageTypeOK, data
<1>3. CASE Ask
  <2>1. /\ clicks' \in 0..MaxClicks /\ failures' \in 0..MaxFailures
        /\ due' \in BOOLEAN
    BY <1>3, Clicks DEF Ask, Rendered
  <2>2. /\ asked' \in Chats /\ server' \subseteq Chats /\ list' \subseteq Chats
        /\ usable' \in BOOLEAN
    BY <1>3 DEF Ask, SetList, PageTypeOK
  <2> QED
    BY <1>3, <2>1, <2>2 DEF Ask, PageTypeOK, selection
<1>4. CASE Answered
  <2>1. outdated' \in BOOLEAN /\ due' \in BOOLEAN
    BY <1>4 DEF Answered, Rendered, PageTypeOK
  <2>2. CASE Load(asked)
    BY <1>4, <2>1, <2>2, LoadFetches DEF Answered, PageTypeOK, counts
  <2>3. CASE UNCHANGED <<selection, fetches>>
    BY <1>4, <2>1, <2>3 DEF Answered, PageTypeOK, selection, counts
  <2> QED
    BY <1>4, <2>2, <2>3 DEF Answered
<1>5. CASE Refetch \/ RefetchFails
  <2>1. /\ clicks' \in 0..MaxClicks /\ failures' \in 0..MaxFailures /\ list' \subseteq Chats
        /\ UNCHANGED <<server, selection, requests>>
    BY <1>5 DEF Refetch, RefetchFails, PageTypeOK, counts
  <2>2. usable' \in BOOLEAN /\ outdated' \in BOOLEAN
    BY <1>5 DEF Refetch, RefetchFails
  <2>3. due' \in BOOLEAN
    BY <1>5 DEF Refetch, RefetchFails, Rendered
  <2> QED
    BY <2>1, <2>2, <2>3 DEF PageTypeOK, selection, requests
<1>6. ASSUME NEW c \in Chats, Arrive(c) \/ FetchFails(c) PROVE PageTypeOK'
  <2>1. fetches' \in [Chats -> Nat]
    BY <1>6 DEF Arrive, FetchFails, TakeAnswer, PageTypeOK
  <2>2. shown' \in Chats \cup {NoChat} /\ error' \in BOOLEAN /\ due' \in BOOLEAN
    BY <1>6 DEF Arrive, FetchFails, Rendered, PageTypeOK
  <2> QED
    BY <1>6, <2>1, <2>2 DEF Arrive, FetchFails, TakeAnswer, PageTypeOK, data, counts
<1>7. ASSUME NEW c \in Chats, Pick(c) \/ Create(c) PROVE PageTypeOK'
  <2>1. /\ Load(c) /\ clicks' \in 0..MaxClicks /\ failures' \in 0..MaxFailures
        /\ due' \in BOOLEAN
    BY <1>7, Clicks DEF Pick, Create, Rendered
  <2> QED
    BY <1>7, <2>1, LoadFetches DEF Pick, Create, SetList, PageTypeOK, data
<1>8. ASSUME NEW c \in Chats, Delete(c) \/ DeletionFails(c) PROVE PageTypeOK'
  BY <1>8 DEF Delete, DeletionFails, NotDeleting, Click, Rendered, Changed, PageTypeOK,
              data, selection, counts
<1>9. ASSUME NEW c \in Chats, Deleted(c) PROVE PageTypeOK'
  <2>1. PICK seen \in Seen(c) :
           IF seen = c
           THEN \E n \in NextChat(c) : Load(n)
           ELSE stored' = seen /\ UNCHANGED <<current, loaded, shown, error, fetches>>
    BY <1>9 DEF Deleted
  <2>2. CASE \E n \in NextChat(c) : Load(n)
    BY <1>9, <2>2, LoadFetches DEF Deleted, NextChat, NotDeleting, SetList, Rendered, Changed,
                                   PageTypeOK, counts
  <2>3. CASE stored' = seen /\ UNCHANGED <<current, loaded, shown, error, fetches>>
    BY <1>9, <2>3 DEF Deleted, Seen, NotDeleting, SetList, Rendered, Changed, PageTypeOK, counts
  <2> QED
    BY <2>1, <2>2, <2>3
<1>10. CASE UNCHANGED pageVars
  BY <1>10 DEF pageVars, PageTypeOK, data, selection, requests, counts
<1> QED
  BY <1>1, <1>2, <1>3, <1>4, <1>5, <1>6, <1>7, <1>8, <1>9, <1>10 DEF PageNext

\* The state of the page has its types for any set of chats.
THEOREM PageTypeCorrect == PageSpec => []PageTypeOK
<1>1. PageInit => PageTypeOK
  <2> SUFFICES ASSUME PageInit PROVE PageTypeOK
    OBVIOUS
  <2>1. fetches \in [Chats -> Nat] /\ clicks \in 0..MaxClicks /\ failures \in 0..MaxFailures
    BY FlowAssumption DEF PageInit
  <2> QED
    BY <2>1 DEF PageInit, PageTypeOK
<1> QED
  BY <1>1, PageTypeStep, PTL DEF PageSpec

\* Whatever is done at the page: it starts a fetch of what it selects, or leaves the
\* selection and its fetches alone, or has received what another chat's fetch brings.
\* A list that becomes usable again makes the effect due.
LEMMA StuckStep == PageTypeOK /\ NeverStuck /\ [PageNext]_pageVars => NeverStuck'
<1> SUFFICES ASSUME PageTypeOK, NeverStuck, [PageNext]_pageVars PROVE NeverStuck'
  OBVIOUS
<1> USE FlowAssumption
<1>1. ASSUME NEW c \in Chats \cup {NoChat}, Load(c) PROVE NeverStuck'
  BY <1>1, LoadFetches DEF NeverStuck
<1>2. ASSUME UNCHANGED <<current, loaded, fetches>>, due => due',
             usable' => usable \/ due'
      PROVE  NeverStuck'
  BY <1>2 DEF NeverStuck
<1>3. CASE Hydrate
  <2>1. PICK c \in Preferred :
           IF usable /\ MustLoad(c) THEN Load(c) ELSE UNCHANGED <<selection, fetches>>
    BY <1>3 DEF Hydrate
  <2>2. c \in Chats \cup {NoChat}
    BY <2>1 DEF Preferred, PageTypeOK
  <2>3. CASE usable /\ MustLoad(c)
    BY <1>1, <2>1, <2>2, <2>3
  <2>4. CASE ~(usable /\ MustLoad(c))
    BY <1>3, <2>1, <2>4 DEF Hydrate, MustLoad, NeverStuck, selection, data
  <2> QED
    BY <2>3, <2>4
<1>4. CASE Retry \/ Ask \/ Answered \/ Refetch \/ RefetchFails
  <2>1. usable' => usable \/ due'
    BY <1>4 DEF Retry, Ask, Answered, Refetch, RefetchFails, Rendered, Changed, data, PageTypeOK
  <2> QED
    BY <1>1, <1>2, <1>4, <2>1 DEF Retry, Ask, Answered, Refetch, RefetchFails, Rendered, PageTypeOK,
                                  selection, requests
<1>5. ASSUME NEW c \in Chats, Arrive(c) \/ FetchFails(c) PROVE NeverStuck'
  <2>1. /\ current' = current /\ loaded' = c /\ usable' = usable
        /\ fetches' = [fetches EXCEPT ![c] = @ - 1]
        /\ due' = (due \/ Changed)
    BY <1>5 DEF Arrive, FetchFails, TakeAnswer, Rendered, data
  <2>2. CASE loaded = c
    BY <2>1, <2>2 DEF NeverStuck, PageTypeOK
  <2>3. CASE loaded # c
    BY <2>1, <2>3 DEF NeverStuck, Changed
  <2> QED
    BY <2>2, <2>3
<1>6. ASSUME NEW c \in Chats, Pick(c) \/ Create(c) \/ Delete(c) \/ DeletionFails(c)
      PROVE  NeverStuck'
  BY <1>1, <1>2, <1>6 DEF Pick, Create, Delete, DeletionFails, Rendered, selection, data
<1>7. ASSUME NEW c \in Chats, Deleted(c) PROVE NeverStuck'
  <2>1. PICK seen \in Seen(c) :
           IF seen = c
           THEN \E n \in NextChat(c) : Load(n)
           ELSE stored' = seen /\ UNCHANGED <<current, loaded, shown, error, fetches>>
    BY <1>7 DEF Deleted
  <2>2. NextChat(c) \subseteq Chats \cup {NoChat}
    BY DEF NextChat, PageTypeOK
  <2>3. (due => due') /\ (usable' => usable \/ due')
    BY <1>7 DEF Deleted, SetList, Rendered, Changed, PageTypeOK
  <2> QED
    BY <1>1, <1>2, <2>1, <2>2, <2>3
<1>8. CASE UNCHANGED pageVars
  BY <1>2, <1>8 DEF pageVars, data, selection, requests
<1> QED
  BY <1>3, <1>4, <1>5, <1>6, <1>7, <1>8 DEF PageNext

\* However late the answers of its fetches arrive, the page does not stay with the
\* messages of another chat, unless it waits for its list (loadChat and hydrateSelection
\* in useAnalyticsFlow.ts, the effect of App.tsx).
THEOREM PageIsNeverStuck == PageSpec => []NeverStuck
<1>1. PageInit => NeverStuck
  BY DEF PageInit, NeverStuck
<1> QED
  BY <1>1, StuckStep, PageTypeCorrect, PTL DEF PageSpec

=============================================================================
