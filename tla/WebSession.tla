----------------------------- MODULE WebSession -----------------------------
(***************************************************************************)
(* The browser side of a session: the fetch wrapper of api.ts with its     *)
(* single retry, the AuthContext that keeps user, access token and refresh *)
(* timer of a tab, and the two handlers of the API it meets, the rotation  *)
(* of refresh tokens and logout.  The tabs of one browser share one cookie *)
(* jar; every tab has several refreshes under way at once, because nothing *)
(* joins them.                                                             *)
(*                                                                         *)
(* A refresh token is a number.  One that neither the jar nor a message    *)
(* mentions can influence nothing: it is forgotten and its number is used  *)
(* again.                                                                  *)
(***************************************************************************)
EXTENDS Naturals, FiniteSets

CONSTANTS
    Tabs,       \* the tabs of the browser
    Pages,      \* the calls that the pages of a tab have under way at once
    MaxToken,   \* how many refresh tokens are mentioned at once
    MaxFaults   \* how many answers get lost or fail, or reuses happen elsewhere

ASSUME SessionAssumption ==
    /\ IsFiniteSet(Tabs) /\ IsFiniteSet(Pages)
    /\ Pages \cap {"boot", "timer", "me", "login"} = {}
    /\ MaxToken \in Nat \ {0} /\ MaxFaults \in Nat

VARIABLES
    tokens,     \* the refresh tokens that are not revoked and still mentioned somewhere
    aged,       \* those of them that are past their 30 days
    jar,        \* the refresh_token cookie of the browser, 0 when there is none
    page,       \* per tab: user shown, access token, loading flag, refresh timer
    refresh,    \* per tab and owner: a call of /api/auth/refresh
    call,       \* per tab and owner: any other call of the API
    signout,    \* per tab: a call of /api/auth/logout
    faults,     \* such faults so far
    excused,    \* whether anything happened that may cost a session
    lost,       \* whether a refused refresh took a user away before that
    signedOut,  \* per tab: a logout ended with nothing under way in the tab, and
                \* nobody has signed in or been shown since
    kept,       \* per tab: that logout left the cookie, because its request was lost
    tried       \* per tab: a refused sign-in was followed by a refresh with a cookie

logouts == <<signedOut, kept, tried>>
vars == <<tokens, aged, jar, page, refresh, call, signout, faults, excused, lost, logouts>>

Token == 1..MaxToken
Authorized == {"me"} \cup Pages
Callers == {"login"} \cup Authorized
Owners == {"boot", "timer"} \cup Callers
Access == {"none", "valid"}

Idle == [at |-> "idle", token |-> 0]
NoCall == [at |-> "idle", access |-> "none", retry |-> FALSE]

Mounted == [user |-> FALSE, access |-> "none", loading |-> TRUE, timer |-> FALSE]

\* The bootstrap effect of a tab sends its refresh at once.
Init ==
    /\ jar \in {0, 1}
    /\ tokens = {jar} \ {0} /\ aged = {}
    /\ page = [t \in Tabs |-> Mounted]
    /\ refresh = [t \in Tabs |-> [o \in Owners |->
                    IF o = "boot" THEN [at |-> "sent", token |-> jar] ELSE Idle]]
    /\ call = [t \in Tabs |-> [o \in Callers |-> NoCall]]
    /\ signout = [t \in Tabs |-> Idle]
    /\ faults = 0
    /\ excused = (\E t, u \in Tabs : t # u)
    /\ lost = FALSE
    /\ signedOut = [t \in Tabs |-> FALSE]
    /\ kept = [t \in Tabs |-> FALSE] /\ tried = [t \in Tabs |-> FALSE]

\* The shape of the state; a refresh is scheduled only for a tab that shows
\* a user, whichever of several refreshes was answered last.
TypeOK ==
    /\ tokens \subseteq Token /\ aged \subseteq tokens
    /\ jar \in 0..MaxToken
    /\ page \in [Tabs -> [user: BOOLEAN, access: Access, loading: BOOLEAN, timer: BOOLEAN]]
    /\ \A t \in Tabs : page[t].timer => page[t].user
    /\ refresh \in [Tabs -> [Owners ->
            [at: {"idle", "sent", "checked", "granted", "refused"}, token: 0..MaxToken]]]
    /\ call \in [Tabs -> [Callers ->
            [at: {"idle", "sent", "refreshing"}, access: Access, retry: BOOLEAN]]]
    /\ signout \in [Tabs -> [at: {"idle", "sent", "answered", "failed"}, token: 0..MaxToken]]
    /\ faults \in 0..MaxFaults
    /\ lost \in BOOLEAN /\ excused \in BOOLEAN
    /\ signedOut \in [Tabs -> BOOLEAN]
    /\ kept \in [Tabs -> BOOLEAN] /\ tried \in [Tabs -> BOOLEAN]

-----------------------------------------------------------------------------
(* What is under way *)

Refreshing(t) == \E o \in Owners : refresh[t][o].at # "idle"
SigningOut(t) == signout[t].at # "idle"
Calling(t) == \E o \in Callers : call[t][o].at # "idle"

\* A token that a request or an answer still carries, or the jar holds.
Mentioned ==
    {jar} \cup {signout[t].token : t \in Tabs}
          \cup UNION {{refresh[t][o].token : o \in Owners} : t \in Tabs}

\* The tokens that are not revoked after a step, and the aged ones of them.
Live(live) == tokens' = live /\ aged' = aged \cap live
Remember(live) == Live(live \cap Mentioned')

Free == Token \ Mentioned
NewToken == CHOOSE n \in Free : TRUE

\* Another user of the cookie is under way when a refresh or a logout starts.
Contended == \E t \in Tabs : Refreshing(t) \/ SigningOut(t)

-----------------------------------------------------------------------------
(* AuthContext: the state of a tab *)

\* setAccessToken, setUser and a new timer of 14 minutes.
ApplySession(p) == [p EXCEPT !.user = TRUE, !.access = "valid", !.timer = TRUE]

ClearSessionKeepingTimer(p) == [p EXCEPT !.user = FALSE, !.access = "none"]

\* No user, no access token and no timer.
ClearSession(p) == [p EXCEPT !.user = FALSE, !.access = "none", !.timer = FALSE]

\* The request of refresh(): it carries the cookie of the moment.
SendRefresh(t, o) == refresh' = [refresh EXCEPT ![t][o] = [at |-> "sent", token |-> jar]]

\* The timer of scheduleRefresh fires.
TimerFires(t) ==
    /\ page[t].timer
    /\ refresh[t]["timer"].at = "idle"
    /\ page' = [page EXCEPT ![t].timer = FALSE]
    /\ SendRefresh(t, "timer")
    /\ excused' = (excused \/ Contended)
    /\ UNCHANGED <<tokens, aged, jar, call, signout, faults, lost, logouts>>

-----------------------------------------------------------------------------
(* The API: rotation of refresh tokens *)

\* SELECT: an unknown token is refused, a revoked one revokes every token of
\* the user, an aged one is refused, and any other goes on to the rotation.
CheckToken(t, o) ==
    LET r == refresh[t][o]
        live == r.token \in tokens
    IN  /\ r.at = "sent"
        /\ refresh' = [refresh EXCEPT ![t][o] =
                IF live /\ r.token \notin aged THEN [r EXCEPT !.at = "checked"]
                ELSE [at |-> "refused", token |-> 0]]
        /\ Live(IF live \/ r.token = 0 THEN tokens ELSE {})
        /\ UNCHANGED <<jar, page, call, signout, faults, excused, lost, logouts>>

\* UPDATE revoked_at, whatever happened since the SELECT, and a new token.
RotateToken(t, o) ==
    /\ refresh[t][o].at = "checked"
    /\ Free # {}
    /\ Live((tokens \ {refresh[t][o].token}) \cup {NewToken})
    /\ refresh' = [refresh EXCEPT ![t][o] = [at |-> "granted", token |-> NewToken]]
    /\ UNCHANGED <<jar, page, call, signout, faults, excused, lost, logouts>>

\* The network loses the request or the answer, or the API answers that it
\* failed or was asked too often: refresh() throws, and the cookie of a lost
\* answer is never stored.
LoseRefresh(t, o) ==
    /\ faults < MaxFaults
    /\ refresh[t][o].at \in {"sent", "checked", "granted"}
    /\ refresh' = [refresh EXCEPT ![t][o] = [at |-> "refused", token |-> 0]]
    /\ faults' = faults + 1
    /\ excused' = TRUE
    /\ UNCHANGED <<jar, page, call, signout, lost, logouts>>
    /\ Remember(tokens)

\* The token of the cookie, which no refresh replaced for 30 days, with the
\* tabs closed or asleep; the browser then drops the cookie. Nothing is under
\* way by then: no request lasts that long.
TokenAges ==
    /\ jar \in tokens \ aged
    /\ \A t \in Tabs : ~Refreshing(t) /\ ~SigningOut(t) /\ ~Calling(t)
    /\ aged' = aged \cup {jar}
    /\ excused' = TRUE
    /\ UNCHANGED <<tokens, jar, page, refresh, call, signout, faults, lost, logouts>>

CookieAges ==
    /\ jar \in aged
    /\ jar' = 0
    /\ UNCHANGED <<page, refresh, call, signout, faults, excused, lost, logouts>>
    /\ Remember(tokens)

\* Another browser of the same user presents a revoked token.
ReuseElsewhere ==
    /\ faults < MaxFaults
    /\ tokens # {}
    /\ Live({})
    /\ faults' = faults + 1
    /\ excused' = TRUE
    /\ UNCHANGED <<jar, page, refresh, call, signout, lost, logouts>>

-----------------------------------------------------------------------------
(* request() and refresh(): what follows an answer *)

RetryAgain(c) == [at |-> "sent", access |-> c.access, retry |-> TRUE]

\* request(path, init, false): the second attempt gives up on a 401.
RetryOnce(c) == [at |-> "sent", access |-> c.access, retry |-> FALSE]

\* The continuation of whoever awaited the refresh: a call is repeated, with
\* the access token of this moment, or hands its 401 on.
Resume(t, o, granted, access) ==
    IF o \notin Callers THEN call
    ELSE [call EXCEPT ![t][o] =
            IF granted THEN RetryOnce([@ EXCEPT !.access = access])
            ELSE NoCall]

\* The logout of a tab is history once someone is signed in there.
ForgetLogout(t) ==
    /\ signedOut' = [signedOut EXCEPT ![t] = FALSE]
    /\ kept' = [kept EXCEPT ![t] = FALSE]
    /\ tried' = [tried EXCEPT ![t] = FALSE]

StoreCookieNever(o, token) == jar

\* Set-Cookie of a granted refresh.
StoreCookie(o, token) == token

\* refresh() gets its answer: applySession; the bootstrap goes on with me().
RefreshGranted(t, o) ==
    /\ refresh[t][o].at = "granted"
    /\ jar' = StoreCookie(o, refresh[t][o].token)
    /\ page' = [page EXCEPT ![t] = ApplySession(@)]
    /\ refresh' = [refresh EXCEPT ![t][o] = Idle]
    /\ call' = IF o = "boot"
               THEN [call EXCEPT ![t]["me"] = [at |-> "sent", access |-> "valid", retry |-> TRUE]]
               ELSE Resume(t, o, TRUE, "valid")
    /\ ForgetLogout(t)
    /\ UNCHANGED <<signout, faults, excused, lost>>
    /\ Remember(tokens)

\* clearSession; the bootstrap stops loading, after its own refresh or after
\* that of me(), whose error it ignores.
AfterRefusal(p, o) ==
    [ClearSession(p) EXCEPT !.loading = p.loading /\ o \notin {"boot", "me"}]

\* refresh() throws.
RefreshRefused(t, o) ==
    /\ refresh[t][o].at = "refused"
    /\ lost' = (lost \/ (page[t].user /\ ~excused))
    /\ page' = [page EXCEPT ![t] = AfterRefusal(@, o)]
    /\ refresh' = [refresh EXCEPT ![t][o] = Idle]
    /\ call' = Resume(t, o, FALSE, "none")
    /\ UNCHANGED <<tokens, aged, jar, signout, faults, excused, logouts>>

\* A page behind ProtectedRoute, which shows it only to a user, calls the API.
StartCall(t, o) ==
    /\ ~page[t].loading /\ page[t].user
    /\ call[t][o].at = "idle"
    /\ call' = [call EXCEPT ![t][o] = [at |-> "sent", access |-> page[t].access, retry |-> TRUE]]
    /\ UNCHANGED <<tokens, aged, jar, page, refresh, signout, faults, excused, lost, logouts>>

\* The API answers a call whose access token it accepts.
CallAccepted(t, o) ==
    /\ call[t][o].at = "sent" /\ call[t][o].access = "valid"
    /\ call' = [call EXCEPT ![t][o] = NoCall]
    /\ page' = [page EXCEPT ![t] =
            IF o = "me" THEN [@ EXCEPT !.user = TRUE, !.loading = FALSE] ELSE @]
    /\ UNCHANGED <<tokens, aged, jar, refresh, signout, faults, excused, lost, logouts>>

\* 401, without an access token or because its 15 minutes are over, which may
\* be at any time, or the API has been restarted with another secret: the
\* first attempt asks onUnauthorized for a refresh, the second hands the error
\* to its caller.
CallUnauthorized(t, o) ==
    /\ call[t][o].at = "sent"
    /\ IF call[t][o].retry
       THEN /\ call' = [call EXCEPT ![t][o] = [NoCall EXCEPT !.at = "refreshing"]]
            /\ SendRefresh(t, o)
            /\ excused' = (excused \/ Contended)
            /\ UNCHANGED page
       ELSE /\ call' = [call EXCEPT ![t][o] = NoCall]
            /\ page' = [page EXCEPT ![t].loading = @ /\ o # "me"]
            /\ UNCHANGED <<refresh, excused>>
    /\ UNCHANGED <<tokens, aged, jar, signout, faults, lost, logouts>>

-----------------------------------------------------------------------------
(* Logout and login *)

Logout(t) ==
    /\ ~page[t].loading /\ page[t].user
    /\ signout[t].at = "idle"
    /\ signout' = [signout EXCEPT ![t] = [at |-> "sent", token |-> jar]]
    /\ excused' = TRUE
    /\ UNCHANGED <<tokens, aged, jar, page, refresh, call, faults, lost, logouts>>

\* The API revokes the token of the cookie; or the request is lost.
LogoutAnswered(t) ==
    /\ signout[t].at = "sent"
    /\ Live(tokens \ {signout[t].token})
    /\ signout' = [signout EXCEPT ![t].at = "answered"]
    /\ UNCHANGED <<jar, page, refresh, call, faults, excused, lost, logouts>>

LogoutLost(t) ==
    /\ faults < MaxFaults
    /\ signout[t].at = "sent"
    /\ signout' = [signout EXCEPT ![t].at = "failed"]
    /\ faults' = faults + 1
    /\ UNCHANGED <<tokens, aged, jar, page, refresh, call, lost, excused, logouts>>

\* The cookie is cleared by an answer only, the session in any case.
LogoutEnds(t) ==
    /\ signout[t].at \in {"answered", "failed"}
    /\ jar' = IF signout[t].at = "answered" THEN 0 ELSE jar
    /\ page' = [page EXCEPT ![t] = ClearSession(@)]
    /\ signout' = [signout EXCEPT ![t] = Idle]
    /\ signedOut' = [signedOut EXCEPT ![t] = ~Refreshing(t) /\ ~Calling(t)]
    /\ kept' = [kept EXCEPT ![t] = signedOut'[t] /\ signout[t].at = "failed"]
    /\ tried' = [tried EXCEPT ![t] = FALSE]
    /\ UNCHANGED <<refresh, call, faults, excused, lost>>
    /\ Remember(tokens)

\* The form of the login page, which ProtectedRoute shows to no user. Nothing
\* is under way by then: typing takes longer than any answer.
SubmitLogin(t) ==
    /\ ~page[t].loading /\ ~page[t].user
    /\ ~Refreshing(t) /\ ~SigningOut(t) /\ ~Calling(t)
    /\ call' = [call EXCEPT ![t]["login"] = [at |-> "sent", access |-> "none", retry |-> TRUE]]
    /\ UNCHANGED <<tokens, aged, jar, page, refresh, signout, faults, excused, lost, logouts>>

\* The password is right: a new cookie, and the tab is loaded again. Until
\* then it shows no user and starts nothing else.
LoginAccepted(t) ==
    /\ call[t]["login"].at = "sent" /\ call[t]["login"].retry
    /\ ~Refreshing(t) /\ ~SigningOut(t)
    /\ Free # {}
    /\ jar' = NewToken
    /\ page' = [page EXCEPT ![t] = Mounted]
    /\ refresh' = [refresh EXCEPT ![t]["boot"] = [at |-> "sent", token |-> NewToken]]
    /\ call' = [call EXCEPT ![t]["login"] = NoCall]
    /\ excused' = (excused \/ Contended)
    /\ ForgetLogout(t)
    /\ UNCHANGED <<signout, faults, lost>>
    /\ Remember(tokens \cup {NewToken})

\* 401 for a wrong password: request() takes it for an access token that has
\* expired, refreshes with the cookie that is there and sends the password a
\* second time, which is refused like the first.
PasswordRefused(t) ==
    /\ call[t]["login"].at = "sent" /\ call[t]["login"].retry
    /\ call' = [call EXCEPT ![t]["login"] = [NoCall EXCEPT !.at = "refreshing"]]
    /\ SendRefresh(t, "login")
    /\ excused' = (excused \/ Contended)
    /\ tried' = [tried EXCEPT ![t] = @ \/ (signedOut[t] /\ jar # 0)]
    /\ UNCHANGED <<tokens, aged, jar, page, signout, faults, lost, signedOut, kept>>

\* The second refusal, or an answer that is no 401: the form shows an error.
LoginFails(t) ==
    /\ call[t]["login"].at = "sent"
    /\ call' = [call EXCEPT ![t]["login"] = NoCall]
    /\ UNCHANGED <<tokens, aged, jar, page, refresh, signout, faults, excused, lost, logouts>>

-----------------------------------------------------------------------------
Answer(t) ==
    \/ \E o \in Owners : \/ CheckToken(t, o) \/ RotateToken(t, o)
                         \/ RefreshGranted(t, o) \/ RefreshRefused(t, o)
    \/ \E o \in Authorized : CallAccepted(t, o) \/ CallUnauthorized(t, o)
    \/ LoginAccepted(t) \/ PasswordRefused(t) \/ LoginFails(t)
    \/ LogoutAnswered(t) \/ LogoutEnds(t)

Next ==
    \/ CookieAges \/ ReuseElsewhere \/ TokenAges
    \/ \E t \in Tabs :
        \/ Answer(t)
        \/ TimerFires(t)
        \/ \E o \in Owners : LoseRefresh(t, o)
        \/ \E o \in Pages : StartCall(t, o)
        \/ Logout(t) \/ LogoutLost(t) \/ SubmitLogin(t)

\* fetch settles and its continuation runs; users, clocks and faults are free.
Fairness ==
    \A t \in Tabs :
        /\ \A o \in Owners :
            /\ WF_vars(CheckToken(t, o)) /\ WF_vars(RotateToken(t, o))
            /\ WF_vars(RefreshGranted(t, o)) /\ WF_vars(RefreshRefused(t, o))
        /\ \A o \in Authorized : WF_vars(CallAccepted(t, o) \/ CallUnauthorized(t, o))
        /\ WF_vars(LoginAccepted(t) \/ PasswordRefused(t) \/ LoginFails(t))
        /\ WF_vars(LogoutAnswered(t)) /\ WF_vars(LogoutEnds(t))

Spec == Init /\ [][Next]_vars /\ Fairness

-----------------------------------------------------------------------------
(* Properties *)

\* A user who never signs out keeps the session as long as refreshes follow
\* one another, none is left unanswered or fails and none is 30 days away: a
\* refused refresh takes the user away only after a contended cookie, a lost
\* answer, a logout, an aged token or a reuse that another browser caused (the
\* reuse detection of the API never meets a token this browser used in order).
SessionLossHasCause == ~lost

\* After a logout that ended with nothing under way, the tab shows no user
\* until someone signs in, with one way back: a wrong password, whose 401 is
\* answered by a refresh, meets a cookie that the logout left because its
\* request was lost, or that another tab has put there.
StaysSignedOut ==
    [][\A t \in Tabs : signedOut[t] /\ page'[t].user =>
            tried[t] /\ (kept[t] \/ \E u \in Tabs : u # t)]_vars

\* Every call settles: a 401 is answered by one refresh and one repetition,
\* never by a chain of them; and the bootstrap of a tab stops loading.
RequestsSettle ==
    \A t \in Tabs :
        /\ page[t].loading ~> ~page[t].loading
        /\ \A o \in Callers : call[t][o].at # "idle" ~> call[t][o].at = "idle"
=============================================================================
