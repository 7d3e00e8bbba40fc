----------------------------- MODULE WebSession -----------------------------
(***************************************************************************)
(* The session of the web client (web/src/session.ts) and the guards of    *)
(* its routes (App.tsx, routes/Login.tsx), on top of sign-in, gateway and  *)
(* API: one tab for each cookie jar.  The token manager is the framework's *)
(* and is modelled as session.ts uses it: getToken gives a token or none,  *)
(* or is rejected; logout ends the session.                                *)
(***************************************************************************)
EXTENDS Access

VARIABLES
    state,    \* state[j]: what the page of jar j shows
    user,     \* user[j]: the user it shows, when authenticated
    held,     \* held[j]: the app token in the memory of the page, or None
    leaving   \* leaving[j]: a logout waits for its answer

web  == <<state, user, held, leaving>>
vars == <<now, app_users, auth_sessions, tokens, calls, web>>

\* Every variable has the type its comment gives, and a user is shown to
\* authenticated pages only.
WebTypeOK ==
    /\ TypeOK
    /\ state \in [Jars -> {"loading", "anonymous", "authenticated", "error"}]
    /\ user \in [Jars -> UserIds \cup {None}]
    /\ \A j \in Jars : user[j] # None <=> state[j] = "authenticated"
    /\ held \in [Jars -> tokens \cup {None}]
    /\ leaving \in [Jars -> BOOLEAN]

Init ==
    /\ AccessInit
    /\ state = [j \in Jars |-> "anonymous"]
    /\ user = [j \in Jars |-> None]
    /\ held = [j \in Jars |-> None]
    /\ leaving = [j \in Jars |-> FALSE]

\* setState
Show(j, s, u) == state' = [state EXCEPT ![j] = s] /\ user' = [user EXCEPT ![j] = u]

\* refresh, up to getToken: one for each call id in cs; what an earlier page of
\* this tab still waits for is no longer heard.
Refreshing(j, cs, unheard) ==
    [c \in Calls |->
        IF c \in cs THEN [Idle EXCEPT !.pc = "token", !.by = j]
        ELSE IF unheard /\ calls[c].by = j
             THEN [calls[c] EXCEPT !.by = None, !.pc = IF @ = "token" THEN "done" ELSE @]
             ELSE calls[c]]

Unused == {c \in Calls : At(c, "idle")}

\* Fault: the effect that refreshes runs twice, as React's StrictMode has it in
\* a development build.
Mount_Twice(j) ==
    /\ \E c, d \in Unused : c # d /\ calls' = Refreshing(j, {c, d}, TRUE)
    /\ Show(j, "loading", None)
    /\ held' = [held EXCEPT ![j] = None]
    /\ leaving' = [leaving EXCEPT ![j] = FALSE]

\* The page is loaded anew and its effect refreshes once.
Mount(j) ==
    /\ \E c \in Unused : calls' = Refreshing(j, {c}, TRUE)
    /\ Show(j, "loading", None)
    /\ held' = [held EXCEPT ![j] = None]
    /\ leaving' = [leaving EXCEPT ![j] = FALSE]

LoadPage(j) == Mount(j) /\ UNCHANGED <<now, app_users, auth_sessions, tokens>>

\* The link of the Login card: a navigation that ends at the callback.
SignIn(j, i) ==
    /\ state[j] = "anonymous"
    /\ Callback(j, i)
    /\ UNCHANGED web

\* Login's "Try again".
Retry(j) ==
    /\ state[j] = "error"
    /\ \E c \in Unused : calls' = Refreshing(j, {c}, FALSE)
    /\ Show(j, "loading", None)
    /\ UNCHANGED <<now, app_users, auth_sessions, tokens, held, leaving>>

\* GetSession is called with token t.
CallGetSession(c, t) ==
    calls' = [calls EXCEPT ![c].pc = "gateway", ![c].token = t,
                           ![c].path = GetSession]

\* getToken gives the token in memory while it lasts.
TokenFromMemory(c) ==
    LET j == calls[c].by IN
    /\ At(c, "token")
    /\ Valid(held[j])
    /\ CallGetSession(c, held[j])
    /\ UNCHANGED <<now, app_users, auth_sessions, tokens, web>>

\* getToken asks /auth/token, which mints a token for the user of the session.
TokenMinted(c) ==
    LET j == calls[c].by IN
    /\ At(c, "token")
    /\ ~Valid(held[j])
    /\ auth_sessions[j] # None
    /\ \E u \in RowsOf(auth_sessions[j]) :
          LET t == AppToken(auth_sessions[j], u.id) IN
          /\ tokens' = tokens \cup {t}
          /\ held' = [held EXCEPT ![j] = t]
          /\ CallGetSession(c, t)
    /\ UNCHANGED <<now, app_users, auth_sessions, state, user, leaving>>

\* The request to /auth/token fails, before or after a token was minted.  getToken
\* is rejected, and refresh, which awaits it outside of its try, ends there.
TokenFails(c) ==
    LET j == calls[c].by IN
    /\ At(c, "token")
    /\ ~Valid(held[j])
    /\ \/ UNCHANGED tokens
       \/ /\ auth_sessions[j] # None
          /\ \E u \in RowsOf(auth_sessions[j]) :
                tokens' = tokens \cup {AppToken(auth_sessions[j], u.id)}
    /\ Goto(c, "rejected")
    /\ UNCHANGED <<now, app_users, auth_sessions, web>>

\* Fault: without a token the page keeps waiting.
NoToken_Waits(c) ==
    /\ At(c, "token")
    /\ ~Valid(held[calls[c].by])
    /\ auth_sessions[calls[c].by] = None
    /\ Goto(c, "done")
    /\ UNCHANGED <<now, app_users, auth_sessions, tokens, web>>

\* getToken gives none.
NoToken(c) ==
    LET j == calls[c].by IN
    /\ At(c, "token")
    /\ ~Valid(held[j])
    /\ auth_sessions[j] = None
    /\ Goto(c, "done")
    /\ Show(j, "anonymous", None)
    /\ UNCHANGED <<now, app_users, auth_sessions, tokens, held, leaving>>

\* refresh, after GetSession.
Settle(c) ==
    LET j == calls[c].by IN
    /\ At(c, "answered")
    /\ j # None
    /\ Goto(c, "done")
    /\ IF calls[c].code = "ok" THEN Show(j, "authenticated", calls[c].token.sub)
                               ELSE Show(j, "error", None)
    /\ UNCHANGED <<now, app_users, auth_sessions, tokens, held, leaving>>

\* The button of the AppShell, which only an authenticated page has.
Logout(j) ==
    /\ state[j] = "authenticated"
    /\ ~leaving[j]
    /\ leaving' = [leaving EXCEPT ![j] = TRUE]
    /\ UNCHANGED <<now, app_users, auth_sessions, tokens, calls, state, user, held>>

\* The logout is answered, or fails with or without having ended the session.
LogoutReturns(j) ==
    /\ leaving[j]
    /\ leaving' = [leaving EXCEPT ![j] = FALSE]
    /\ \/ /\ auth_sessions' = [auth_sessions EXCEPT ![j] = None]
          /\ held' = [held EXCEPT ![j] = None]
          /\ Show(j, "anonymous", None)
       \/ /\ auth_sessions' \in {auth_sessions, [auth_sessions EXCEPT ![j] = None]}
          /\ UNCHANGED <<held, state, user>>
    /\ UNCHANGED <<now, app_users, tokens, calls>>

GetToken(c) == TokenFromMemory(c) \/ TokenMinted(c) \/ TokenFails(c) \/ NoToken(c)

Next ==
    \/ AccessNext /\ UNCHANGED web
    \/ \E j \in Jars : \/ LoadPage(j) \/ Retry(j) \/ Logout(j) \/ LogoutReturns(j)
                       \/ \E i \in Identities : SignIn(j, i)
    \/ \E c \in Calls : GetToken(c) \/ Settle(c)

Spec == Init /\ [][Next]_vars

\* A call is answered or fails, and the page goes on with its answer.
Continue(c) == GetToken(c) \/ Settle(c) \/ (Progress(c) /\ UNCHANGED web)
FairSpec == Spec /\ \A c \in Calls : WF_vars(Continue(c))

\* After a logout the page stays signed out until it is loaded again: no refresh
\* that was under way shows a session (session.ts:23-25 beside 31-34).
LogoutIsFinal ==
    [][\A j \in Jars : state[j] = "anonymous" => state'[j] \in {"anonymous", "loading"}]_vars

\* The page of jar j waits for a getToken that was rejected.
Rejected(j) == \E c \in Calls : calls[c].by = j /\ At(c, "rejected")

\* "Checking session..." ends, whatever becomes of GetSession and whether there is
\* a session or not; only a rejected getToken (session.ts:18) leaves it there.
CheckingEnds == \A j \in Jars : state[j] = "loading" ~> (state[j] # "loading" \/ Rejected(j))

\* docs/workflows.md:44-45: from "loading" the page gets to another state.
LoadingLeadsOn == \A j \in Jars : state[j] = "loading" ~> state[j] # "loading"
=============================================================================
