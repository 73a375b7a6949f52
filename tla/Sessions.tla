------------------------------ MODULE Sessions ------------------------------
(***************************************************************************)
(* Sessions (app/auth.py and the /auth endpoints of app/api.py): accounts   *)
(* and session tokens on record, the cookies of one browser, and requests   *)
(* whose answers may overtake each other.  A token is named by the request  *)
(* that created it; its CSRF cookie always travels with it.                 *)
(***************************************************************************)
EXTENDS Integers

CONSTANTS
    Requests,
    Emails,
    None,
    Lifetime,       \* session_ttl_hours
    MaxTime         \* bound on the clock

Token == [of : Emails, expires : Nat, revoked : BOOLEAN]

ASSUME SessionAssumption ==
    /\ None \notin Requests
    /\ None \notin Token
    /\ Lifetime \in Nat
    /\ MaxTime \in Nat

VARIABLES
    now,
    users,      \* accounts on record
    tokens,     \* refresh_tokens on record
    jar,        \* the session cookie of the browser
    pc,         \* where each request is
    kind,       \* what it was sent for
    email,      \* the account it names, or that its session belongs to
    sent,       \* the cookie it was sent with
    expiry,     \* of the session it creates
    response,
    ended,      \* sessions whose logout has been confirmed
    late        \* requests that came to the server with such a session

vars == <<now, users, tokens, jar, pc, kind, email, sent, expiry, response, ended, late>>
browser == <<jar, kind, sent>>
ghosts == <<ended, late>>
quiet == <<browser, ghosts>>

TypeOK ==
    /\ now \in 0..MaxTime
    /\ users \subseteq Emails
    /\ tokens \in [Requests -> Token \cup {None}]
    /\ jar \in Requests \cup {None}
    /\ pc \in [Requests -> {"idle", "sent", "checked", "committed", "answered", "received"}]
    /\ kind \in [Requests -> {"none", "register", "login", "logout", "call"}]
    /\ email \in [Requests -> Emails \cup {None}]
    /\ sent \in [Requests -> Requests \cup {None}]
    /\ expiry \in [Requests -> Nat]
    /\ response \in [Requests -> {"none", "200", "401", "409", "500"}]
    /\ ended \subseteq Requests
    /\ late \subseteq Requests

Init ==
    /\ now = 0
    /\ users \in SUBSET Emails
    /\ tokens = [r \in Requests |-> None]
    /\ jar = None
    /\ pc = [r \in Requests |-> "idle"]
    /\ kind = [r \in Requests |-> "none"]
    /\ email = [r \in Requests |-> None]
    /\ sent = [r \in Requests |-> None]
    /\ expiry = [r \in Requests |-> 0]
    /\ response = [r \in Requests |-> "none"]
    /\ ended = {}
    /\ late = {}

Goto(r, stage) == pc' = [pc EXCEPT ![r] = stage]

Answer(r, code) ==
    /\ Goto(r, "answered")
    /\ response' = [response EXCEPT ![r] = code]

-----------------------------------------------------------------------------
(* The browser *)

Send(r) ==
    /\ pc[r] = "idle"
    /\ Goto(r, "sent")
    /\ \E k \in {"register", "login", "logout", "call"} : kind' = [kind EXCEPT ![r] = k]
    /\ \E e \in Emails : email' = [email EXCEPT ![r] =
                              IF kind'[r] \in {"register", "login"} THEN e ELSE None]
    /\ sent' = [sent EXCEPT ![r] = jar]
    /\ UNCHANGED <<now, users, tokens, jar, expiry, response, ghosts>>

\* apply_session_cookies, clear_session_cookies: only a 200 carries them
Receive(r) ==
    /\ pc[r] = "answered"
    /\ Goto(r, "received")
    /\ jar' = IF response[r] # "200" THEN jar
              ELSE CASE kind[r] \in {"register", "login"} -> r
                     [] kind[r] = "logout" -> None
                     [] OTHER -> jar
    /\ UNCHANGED <<now, users, tokens, kind, email, sent, expiry, response, ghosts>>

-----------------------------------------------------------------------------
(* The server *)

Ends == now + Lifetime

\* register looks for the account, login for the account and its password.
Check(r) ==
    /\ pc[r] = "sent"
    /\ \/ /\ kind[r] = "register"
          /\ IF email[r] \in users THEN Answer(r, "409") /\ UNCHANGED expiry
             ELSE Goto(r, "checked") /\ UNCHANGED response
                  /\ expiry' = [expiry EXCEPT ![r] = Ends]
       \/ /\ kind[r] = "login"
          /\ \/ Answer(r, "401") /\ UNCHANGED expiry
             \/ /\ email[r] \in users
                /\ Goto(r, "checked") /\ UNCHANGED response
                /\ expiry' = [expiry EXCEPT ![r] = Ends]
    /\ UNCHANGED <<now, users, tokens, email, quiet>>

\* The flush of register, on the unique email, and the commit of both
CommitSession(r) ==
    /\ pc[r] = "checked"
    /\ kind[r] \in {"register", "login"}
    /\ IF kind[r] = "register" /\ email[r] \in users
       THEN Answer(r, "500") /\ UNCHANGED <<users, tokens>>
       ELSE /\ users' = users \cup {email[r]}
            /\ tokens' = [tokens EXCEPT ![r] =
                 [of |-> email[r], expires |-> expiry[r], revoked |-> FALSE]]
            /\ Goto(r, "committed") /\ UNCHANGED response
    /\ UNCHANGED <<now, email, expiry, quiet>>

\* resolve_session_user
Valid(t) == t # None /\ tokens[t] # None /\ ~tokens[t].revoked /\ tokens[t].expires > now

\* get_current_user.  What it marks as revoked because it has expired is rolled back
\* with the 401.
Authenticate(r) ==
    /\ pc[r] = "sent"
    /\ kind[r] \in {"logout", "call"}
    /\ IF Valid(sent[r])
       THEN Goto(r, "checked") /\ UNCHANGED response
            /\ email' = [email EXCEPT ![r] = tokens[sent[r]].of]
       ELSE Answer(r, "401") /\ UNCHANGED email
    /\ late' = IF sent[r] \in ended THEN late \cup {r} ELSE late
    /\ UNCHANGED <<now, users, tokens, expiry, browser, ended>>

\* [bug] the session is flushed and not committed, as the expired one is
Revoked_Flushed(t) == tokens

Revoked(t) == [tokens EXCEPT ![t].revoked = TRUE]

\* logout: revoke_session, and the commit
Revoke(r) ==
    /\ pc[r] = "checked"
    /\ kind[r] = "logout"
    /\ tokens' = Revoked(sent[r])
    /\ Goto(r, "committed")
    /\ UNCHANGED <<now, users, email, expiry, response, quiet>>

\* Any other endpoint: its work is done as the user it was authenticated for.
Serve(r) ==
    /\ pc[r] = "checked"
    /\ kind[r] = "call"
    /\ Goto(r, "committed")
    /\ UNCHANGED <<now, users, tokens, email, expiry, response, quiet>>

Finish(r) ==
    /\ pc[r] = "committed"
    /\ Answer(r, "200")
    /\ ended' = IF kind[r] = "logout" THEN ended \cup {sent[r]} ELSE ended
    /\ UNCHANGED <<now, users, tokens, email, expiry, browser, late>>

\* [bug] the cookies have been applied, and the handler of the exception keeps them
CodeOf_Kept == "200"

\* An exception makes a response of its own, without the cookies.
CodeOf == "500"

Fail(r) ==
    /\ pc[r] \in {"sent", "checked", "committed"}
    /\ Answer(r, CodeOf)
    /\ UNCHANGED <<now, users, tokens, email, expiry, quiet>>

Tick ==
    /\ now < MaxTime
    /\ now' = now + 1
    /\ UNCHANGED <<users, tokens, pc, email, expiry, response, quiet>>

Next ==
    \/ Tick
    \/ \E r \in Requests :
          \/ Send(r) \/ Receive(r) \/ Check(r) \/ CommitSession(r)
          \/ Authenticate(r) \/ Revoke(r) \/ Serve(r) \/ Finish(r) \/ Fail(r)

Spec == Init /\ [][Next]_vars

-----------------------------------------------------------------------------
(* Properties *)

\* Once a logout has been confirmed, no request that comes with its session is
\* served, one that was sent before the logout included.
LogoutHolds == \A r \in late : response[r] # "200"

\* The browser never holds a session that the server has no record of, whatever
\* failed between the cookies and the commit.
CookieIsBacked == jar # None => tokens[jar] # None

=============================================================================
