------------------------------ MODULE ChatFlow ------------------------------
(***************************************************************************)
(* The analytics page (features/analytics/api/useAnalyticsFlow.ts, and the  *)
(* effect of app/App.tsx that drives it): which chat is selected, whose     *)
(* messages are shown, and the answers that are still under way.            *)
(*                                                                          *)
(* loadChat does not remember which of its fetches is the last one: every   *)
(* answer is shown when it arrives.  The page finds back to the selected    *)
(* chat because the effect runs hydrateSelection whenever something it      *)
(* depends on has changed, unless the list is loading or has failed to.     *)
(***************************************************************************)
EXTENDS Integers, FiniteSets

CONSTANTS
    Chats,
    NoChat,
    MaxClicks,      \* bound on what the user does
    MaxFailures     \* bound on failed fetches of the list

ASSUME FlowAssumption == NoChat \notin Chats /\ MaxClicks \in Nat /\ MaxFailures \in Nat

VARIABLES
    server,     \* chats the server has
    list,       \* queryClient's ["chats"]
    usable,     \* chatsQuery is neither loading nor in error
    outdated,   \* the list has not been fetched yet, or is invalidated
    current,    \* currentChatId
    loaded,     \* loadedChatId
    shown,      \* the chat whose messages are in the state
    error,      \* chatError is not empty
    stored,     \* CHAT_SELECTION_KEY in the local storage
    due,        \* a dependency of the effect has changed since it ran
    fetches,    \* fetchChatMessages requests under way, for each chat
    asked,      \* the chat the question or clarification under way belongs to
    deleting,   \* deletions under way
    latest,     \* the one deleteChatMutation shows
    clicks,
    failures    \* fetches of the list that have failed

selection == <<current, loaded, shown, error, stored>>
requests == <<fetches, asked, deleting, latest>>
data == <<server, list, usable, outdated>>
counts == <<clicks, failures>>
pageVars == <<data, selection, due, requests, counts>>

PageTypeOK ==
    /\ server \subseteq Chats
    /\ list \subseteq Chats
    /\ usable \in BOOLEAN
    /\ outdated \in BOOLEAN
    /\ current \in Chats \cup {NoChat}
    /\ loaded \in Chats \cup {NoChat}
    /\ shown \in Chats \cup {NoChat}
    /\ error \in BOOLEAN
    /\ stored \in Chats \cup {NoChat}
    /\ due \in BOOLEAN
    /\ fetches \in [Chats -> Nat]
    /\ asked \in Chats \cup {NoChat}
    /\ deleting \subseteq Chats
    /\ latest \in Chats \cup {NoChat}
    /\ clicks \in 0..MaxClicks
    /\ failures \in 0..MaxFailures

\* The page has been opened: the list is being fetched; an earlier visit stored a chat.
PageInit ==
    /\ server \in SUBSET Chats
    /\ list = {}
    /\ usable = FALSE
    /\ outdated = TRUE
    /\ stored \in Chats \cup {NoChat}
    /\ current = NoChat
    /\ loaded = NoChat
    /\ shown = NoChat
    /\ error = FALSE
    /\ due = TRUE
    /\ fetches = [c \in Chats |-> 0]
    /\ asked = NoChat
    /\ deleting = {}
    /\ latest = NoChat
    /\ clicks = 0
    /\ failures = 0

-----------------------------------------------------------------------------
(* The hook *)

\* [bug] the effect does not depend on what has been loaded
Changed_NotLoaded == <<current, error, list, usable>>' # <<current, error, list, usable>>

\* The dependencies of hydrateSelection, the list itself and its isLoading, isError
Changed ==
    <<current, loaded, error, list, usable>>' # <<current, loaded, error, list, usable>>

Rendered == due' = (due \/ Changed)

\* loadChat(c, { force: true }), up to its await
Load(c) ==
    /\ stored' = c
    /\ current' = c
    /\ shown' = NoChat
    /\ error' = FALSE
    /\ IF c = NoChat THEN loaded' = NoChat /\ UNCHANGED fetches
       ELSE fetches' = [fetches EXCEPT ![c] = @ + 1] /\ UNCHANGED loaded

\* resolvePreferredChatId; the head of the list is any of its chats
Preferred ==
    IF current \in list THEN {current}
    ELSE IF stored \in list THEN {stored}
    ELSE IF list = {} THEN {NoChat} ELSE list

\* [bug] a failed load counts as loaded
MustLoad_Once(c) == current # c \/ loaded # c

MustLoad(c) == current # c \/ (c # NoChat /\ (loaded # c \/ error))

\* The effect of App: hydrateSelection(chats), or its early return
Hydrate ==
    /\ due
    /\ \E c \in Preferred : IF usable /\ MustLoad(c) THEN Load(c)
                                                   ELSE UNCHANGED <<selection, fetches>>
    /\ UNCHANGED <<data, asked, deleting, latest, counts>>
    /\ due' = Changed

TakeAnswer(c) ==
    /\ fetches[c] > 0
    /\ fetches' = [fetches EXCEPT ![c] = @ - 1]
    /\ loaded' = c
    /\ UNCHANGED <<data, current, stored, asked, deleting, latest, counts>>

\* fetchChatMessages answers: whatever is selected by now
Arrive(c) ==
    /\ TakeAnswer(c)
    /\ c \in server
    /\ shown' = c
    /\ UNCHANGED error
    /\ Rendered

FetchFails(c) ==
    /\ TakeAnswer(c)
    /\ error' = TRUE
    /\ UNCHANGED shown
    /\ Rendered

-----------------------------------------------------------------------------
(* The user *)

Click == clicks < MaxClicks /\ clicks' = clicks + 1 /\ UNCHANGED failures

\* The sidebar offers the chats of a list that is neither loading nor in error.
Offered(c) == usable /\ c \in list

\* setQueryData(["chats"], ...): the list counts as loaded, whatever failed before.
SetList(cs) == list' = cs /\ usable' = TRUE

\* openChat; the button is disabled while the chat is being deleted
Pick(c) ==
    /\ Click
    /\ Offered(c)
    /\ c # latest
    /\ Load(c)
    /\ UNCHANGED <<data, asked, deleting, latest>>
    /\ Rendered

\* reloadCurrentChat
Retry ==
    /\ Click
    /\ error
    /\ Load(current)
    /\ UNCHANGED <<data, asked, deleting, latest>>
    /\ Rendered

\* createChatMutation, from its answer on
Create(c) ==
    /\ Click
    /\ c \notin server \cup list \cup deleting
    /\ server' = server \cup {c}
    /\ SetList(list \cup {c})
    /\ Load(c)
    /\ UNCHANGED <<outdated, asked, deleting, latest>>
    /\ Rendered

\* submitQuery, and clarify, which answers the latest query that is shown
Ask ==
    /\ Click
    /\ asked = NoChat
    /\ \/ /\ asked' \in {current, shown} \ {NoChat}
          /\ UNCHANGED <<server, list, usable>>
       \/ /\ current = NoChat
          /\ asked' \in Chats \ (server \cup list \cup deleting)
          /\ server' = server \cup {asked'}
          /\ SetList(list \cup {asked'})
    /\ UNCHANGED <<outdated, selection, fetches, deleting, latest>>
    /\ Rendered

Answered ==
    /\ asked # NoChat
    /\ asked' = NoChat
    /\ \/ Load(asked) /\ outdated' = TRUE
       \/ UNCHANGED <<selection, fetches, outdated>>
    /\ UNCHANGED <<server, list, usable, deleting, latest, counts>>
    /\ Rendered

Delete(c) ==
    /\ Click
    /\ Offered(c)
    /\ c # latest
    /\ deleting' = deleting \cup {c}
    /\ latest' = c
    /\ UNCHANGED <<data, selection, fetches, asked>>
    /\ Rendered

NotDeleting(c) ==
    /\ deleting' = deleting \ {c}
    /\ latest' = IF latest = c THEN NoChat ELSE latest

\* The callback of the latest deletion is that of the last render, the callbacks of
\* older ones have stopped at an earlier selection.
Seen(c) == IF c = latest THEN {current} ELSE Chats \cup {NoChat}

\* nextChatAfterDeletion
NextChat(c) == IF list \ {c} = {} THEN {NoChat} ELSE list \ {c}

Deleted(c) ==
    /\ c \in deleting
    /\ NotDeleting(c)
    /\ server' = server \ {c}
    /\ SetList(list \ {c})
    /\ outdated' = TRUE
    /\ \E seen \in Seen(c) :
          IF seen = c
          THEN \E n \in NextChat(c) : Load(n)
          ELSE stored' = seen /\ UNCHANGED <<current, loaded, shown, error, fetches>>
    /\ UNCHANGED <<asked, counts>>
    /\ Rendered

DeletionFails(c) ==
    /\ c \in deleting
    /\ NotDeleting(c)
    /\ UNCHANGED <<data, selection, fetches, asked, counts>>
    /\ Rendered

\* The list is fetched: first, when it was invalidated, when the window gets the focus,
\* or by the sidebar's Retry.
Refetch ==
    /\ list' = server
    /\ usable' = TRUE
    /\ outdated' = FALSE
    /\ UNCHANGED <<server, selection, requests, counts>>
    /\ Rendered

\* ... and has failed as often as React Query tries: isError, with the list as it was
RefetchFails ==
    /\ failures < MaxFailures
    /\ failures' = failures + 1
    /\ usable' = FALSE
    /\ outdated' = FALSE
    /\ UNCHANGED <<server, list, selection, requests, clicks>>
    /\ Rendered

PageNext ==
    \/ Hydrate \/ Retry \/ Ask \/ Answered \/ Refetch \/ RefetchFails
    \/ \E c \in Chats : \/ Arrive(c) \/ FetchFails(c) \/ Pick(c) \/ Create(c)
                        \/ Delete(c) \/ Deleted(c) \/ DeletionFails(c)

PageSpec == PageInit /\ [][PageNext]_pageVars

\* React runs the effect of every render, so of one with a usable list before the next
\* fetch of it has failed; requests end; a chat that is fetched again and again is
\* answered some time.  No fetch of the list need ever succeed.
FairPageSpec ==
    /\ PageSpec
    /\ WF_pageVars(Hydrate)
    /\ WF_pageVars(Answered)
    /\ SF_pageVars(usable /\ Hydrate)
    /\ WF_pageVars(outdated /\ (Refetch \/ RefetchFails))
    /\ \A c \in Chats :
          /\ SF_pageVars(Arrive(c))
          /\ WF_pageVars(FetchFails(c))
          /\ WF_pageVars(Deleted(c) \/ DeletionFails(c))

-----------------------------------------------------------------------------
(* Properties *)

\* Whatever arrives late: when the messages that were loaded last are not those of
\* the selected chat, the right ones are under way or the effect is about to ask,
\* unless the list of chats is loading or has failed to load.
NeverStuck ==
    current # NoChat /\ loaded # current => due \/ fetches[current] > 0 \/ ~usable

\* Once the user is done, a page with a chat has one that exists, and shows it,
\* again and again if not for good, provided its list of chats is not in error for good.
Settles ==
    []<>usable => []<>(current # NoChat => current \in server /\ shown = current)

=============================================================================
