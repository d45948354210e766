-------------------------- MODULE WebSessionProofs --------------------------
(***************************************************************************)
(* Proofs about WebSession for every number of tabs, calls, tokens and     *)
(* lost answers.  SignedOutInv says why nothing can bring a user back, and *)
(* CauseInv what holds of cookie, tokens and messages until something      *)
(* happens that may cost a session.                                        *)
(***************************************************************************)
EXTENDS WebSession, TLAPS

PageState == [user: BOOLEAN, access: Access, loading: BOOLEAN, timer: BOOLEAN]
RefreshState == [at: {"idle", "sent", "checked", "granted", "refused"}, token: 0..MaxToken]
CallState == [at: {"idle", "sent", "refreshing"}, access: Access, retry: BOOLEAN]
SignoutState == [at: {"idle", "sent", "answered", "failed"}, token: 0..MaxToken]

\* A tab whose logout has settled has nothing under way but a sign-in.  The
\* refresh that follows a refused one carries no cookie unless the tab is said
\* to have tried, which takes a cookie that the logout left or another tab.
SignedOutInv ==
    \A t \in Tabs : signedOut[t] =>
        /\ ~page[t].user
        /\ \A o \in Owners \ {"login"} : refresh[t][o].at = "idle"
        /\ \A o \in Authorized : call[t][o].at = "idle"
        /\ ~tried[t] => refresh[t]["login"].at \in {"idle", "sent", "refused"}
        /\ ~tried[t] /\ refresh[t]["login"].at = "sent" => refresh[t]["login"].token = 0
        /\ (\A u \in Tabs : u = t) /\ ~kept[t] => jar = 0 /\ ~tried[t]

\* The browser holds a good token, or one is on its way to the tab.
Held(t) == jar \in tokens \/ \E o \in Owners : refresh[t][o].at = "granted"

\* A tab that nothing disturbs: one refresh at most, which carries the cookie;
\* a refused one meets no user and no call; and a cookie, a user or a call
\* means that there is a good token.
Undisturbed(t) ==
    /\ signout[t].at = "idle"
    /\ \A o, p \in Owners :
            refresh[t][o].at # "idle" /\ refresh[t][p].at # "idle" => o = p
    /\ \A o \in Owners :
        /\ refresh[t][o].at = "sent" => refresh[t][o].token = jar
        /\ refresh[t][o].at = "checked" => refresh[t][o].token = jar /\ jar \in tokens
        /\ refresh[t][o].at = "granted" => refresh[t][o].token \in tokens
        /\ refresh[t][o].at = "refused" => ~page[t].user
        /\ refresh[t][o].at = "refused" => \A p \in Authorized : call[t][p].at = "idle"
    /\ jar # 0 => Held(t)
    /\ page[t].user => Held(t)
    /\ \A p \in Authorized : call[t][p].at # "idle" => Held(t)

\* As long as nothing excuses the loss of a session there is one tab, it is
\* undisturbed and no token is aged.
CauseInv ==
    /\ ~lost
    /\ ~excused => /\ \A t, u \in Tabs : t = u
                   /\ aged = {}
                   /\ \A t \in Tabs : Undisturbed(t)

-----------------------------------------------------------------------------
(* Types *)

LEMMA OwnersFacts ==
    /\ "boot" \in Owners /\ "timer" \in Owners /\ "login" \in Callers
    /\ Callers \subseteq Owners /\ Authorized \subseteq Callers /\ Pages \subseteq Authorized
    /\ "boot" \notin Callers /\ "timer" \notin Callers
    /\ "me" \in Authorized /\ "login" \notin Authorized
    /\ Callers = {"login"} \cup Authorized
  BY SessionAssumption DEF Owners, Callers, Authorized

LEMMA NewTokenFacts == Free # {} => NewToken \in Token /\ NewToken \notin Mentioned
  BY DEF NewToken, Free

LEMMA PageFacts ==
    ASSUME NEW p \in PageState
    PROVE  /\ ApplySession(p) \in PageState /\ ApplySession(p).user
           /\ ClearSession(p) \in PageState /\ ~ClearSession(p).timer /\ ~ClearSession(p).user
           /\ [p EXCEPT !.timer = FALSE] \in PageState
           /\ [p EXCEPT !.timer = FALSE].timer = FALSE
           /\ [p EXCEPT !.user = TRUE, !.loading = FALSE] \in PageState
           /\ [p EXCEPT !.user = TRUE, !.loading = FALSE].user
  BY DEF PageState, ApplySession, ClearSession, Access

\* The field of a page that is set, and those that stay.
LEMMA PageLoading ==
    ASSUME NEW p \in PageState, NEW b \in BOOLEAN
    PROVE  /\ [p EXCEPT !.loading = b] \in PageState
           /\ [p EXCEPT !.loading = b].timer = p.timer /\ [p EXCEPT !.loading = b].user = p.user
  BY DEF PageState

LEMMA AfterRefusalFacts ==
    ASSUME NEW p \in PageState, NEW o \in Owners
    PROVE  /\ AfterRefusal(p, o) \in PageState
           /\ ~AfterRefusal(p, o).timer /\ ~AfterRefusal(p, o).user
  <1> DEFINE b == p.loading /\ o \notin {"boot", "me"}
  <1>1. ClearSession(p) \in PageState /\ ~ClearSession(p).timer /\ ~ClearSession(p).user
    BY PageFacts
  <1>2. b \in BOOLEAN
    OBVIOUS
  <1>3. AfterRefusal(p, o) = [ClearSession(p) EXCEPT !.loading = b]
    BY DEF AfterRefusal
  <1> QED
    BY <1>1, <1>2, <1>3, PageLoading

LEMMA RequestFacts ==
    /\ \A r \in RefreshState : [r EXCEPT !.at = "checked"] \in RefreshState
    /\ \A x \in SignoutState : [x EXCEPT !.at = "answered"] \in SignoutState
                                /\ [x EXCEPT !.at = "failed"] \in SignoutState
  BY DEF RefreshState, SignoutState

LEMMA TypeInit == Init => TypeOK
  <1> SUFFICES ASSUME Init PROVE TypeOK
    OBVIOUS
  <1>1. jar \in 0..MaxToken /\ tokens \subseteq Token /\ aged \subseteq tokens
    BY SessionAssumption DEF Init, Token
  <1>2. page \in [Tabs -> PageState] /\ \A t \in Tabs : page[t].timer => page[t].user
    BY DEF Init, Mounted, PageState, Access
  <1>3. refresh \in [Tabs -> [Owners -> RefreshState]]
    BY <1>1, SessionAssumption DEF Init, Idle, RefreshState
  <1>4. call \in [Tabs -> [Callers -> CallState]]
    BY DEF Init, NoCall, CallState, Access
  <1>5. signout \in [Tabs -> SignoutState]
    BY SessionAssumption DEF Init, Idle, SignoutState
  <1>6. faults \in 0..MaxFaults
    BY SessionAssumption DEF Init
  <1>7. /\ lost \in BOOLEAN /\ excused \in BOOLEAN /\ signedOut \in [Tabs -> BOOLEAN]
        /\ kept \in [Tabs -> BOOLEAN] /\ tried \in [Tabs -> BOOLEAN]
    BY DEF Init
  <1> QED
    BY <1>1, <1>2, <1>3, <1>4, <1>5, <1>6, <1>7
       DEF TypeOK, PageState, RefreshState, CallState, SignoutState

\* The answer to a refresh leaves calls of the right shape.
LEMMA ResumeType ==
    ASSUME TypeOK, NEW t \in Tabs, NEW o \in Owners, NEW g \in BOOLEAN, NEW a \in Access
    PROVE  Resume(t, o, g, a) \in [Tabs -> [Callers -> CallState]]
  <1>1. call \in [Tabs -> [Callers -> CallState]]
    BY DEF TypeOK, CallState
  <1>2. NoCall \in CallState
    BY DEF NoCall, CallState, Access
  <1>3. ASSUME o \in Callers PROVE RetryOnce([call[t][o] EXCEPT !.access = a]) \in CallState
    BY <1>1, <1>3 DEF RetryOnce, CallState
  <1> QED
    BY <1>1, <1>2, <1>3 DEF Resume

\* TypeOK with the shapes named.
LEMMA Shapes ==
    TypeOK <=>
        /\ tokens \subseteq Token /\ aged \subseteq tokens /\ jar \in 0..MaxToken
        /\ page \in [Tabs -> PageState] /\ \A t \in Tabs : page[t].timer => page[t].user
        /\ refresh \in [Tabs -> [Owners -> RefreshState]]
        /\ call \in [Tabs -> [Callers -> CallState]]
        /\ signout \in [Tabs -> SignoutState]
        /\ faults \in 0..MaxFaults
        /\ lost \in BOOLEAN /\ excused \in BOOLEAN
        /\ signedOut \in [Tabs -> BOOLEAN] /\ kept \in [Tabs -> BOOLEAN] /\ tried \in [Tabs -> BOOLEAN]
  BY DEF TypeOK, PageState, RefreshState, CallState, SignoutState

LEMMA TypeStep == TypeOK /\ [Next]_vars => TypeOK'
  <1> SUFFICES ASSUME TypeOK, [Next]_vars PROVE TypeOK'
    OBVIOUS
  <1> USE OwnersFacts, SessionAssumption
  <1>s. /\ tokens \subseteq Token /\ aged \subseteq tokens /\ jar \in 0..MaxToken
        /\ page \in [Tabs -> PageState] /\ \A t \in Tabs : page[t].timer => page[t].user
        /\ refresh \in [Tabs -> [Owners -> RefreshState]]
        /\ call \in [Tabs -> [Callers -> CallState]]
        /\ signout \in [Tabs -> SignoutState]
        /\ faults \in 0..MaxFaults
        /\ lost \in BOOLEAN /\ excused \in BOOLEAN
        /\ signedOut \in [Tabs -> BOOLEAN] /\ kept \in [Tabs -> BOOLEAN] /\ tried \in [Tabs -> BOOLEAN]
    BY Shapes
  <1> DEFINE Goal ==
        /\ tokens' \subseteq Token /\ aged' \subseteq tokens' /\ jar' \in 0..MaxToken
        /\ page' \in [Tabs -> PageState] /\ \A t \in Tabs : page'[t].timer => page'[t].user
        /\ refresh' \in [Tabs -> [Owners -> RefreshState]]
        /\ call' \in [Tabs -> [Callers -> CallState]]
        /\ signout' \in [Tabs -> SignoutState]
        /\ faults' \in 0..MaxFaults
        /\ lost' \in BOOLEAN /\ excused' \in BOOLEAN
        /\ signedOut' \in [Tabs -> BOOLEAN] /\ kept' \in [Tabs -> BOOLEAN] /\ tried' \in [Tabs -> BOOLEAN]
  <1>g. SUFFICES Goal
    BY DEF TypeOK, PageState, RefreshState, CallState, SignoutState
  <1>r. /\ Idle \in RefreshState /\ Idle \in SignoutState /\ NoCall \in CallState
        /\ [at |-> "refused", token |-> 0] \in RefreshState
        /\ Mounted \in PageState /\ ~Mounted.timer
        /\ [at |-> "sent", token |-> jar] \in RefreshState
    BY <1>s DEF Idle, NoCall, Mounted, RefreshState, SignoutState, CallState, PageState, Access
  <1>v. \A S : Live(S) /\ S \subseteq Token => tokens' \subseteq Token /\ aged' \subseteq tokens'
    BY DEF Live
  <1>m. Remember(tokens) => tokens' \subseteq Token /\ aged' \subseteq tokens'
    BY <1>s DEF Remember, Live
  <1>1. ASSUME NEW t \in Tabs, TimerFires(t) PROVE Goal
    <2>1. page[t] \in PageState /\ page' = [page EXCEPT ![t] = [page[t] EXCEPT !.timer = FALSE]]
      BY <1>1, <1>s DEF TimerFires
    <2>2. page' \in [Tabs -> PageState] /\ \A u \in Tabs : page'[u].timer => page'[u].user
      BY <1>s, <2>1, PageFacts
    <2>3. refresh' \in [Tabs -> [Owners -> RefreshState]]
      BY <1>1, <1>s, <1>r DEF TimerFires, SendRefresh
    <2> QED
      BY <1>1, <1>s, <2>2, <2>3 DEF TimerFires, Contended, Refreshing, SigningOut, logouts
  <1>2. ASSUME TokenAges \/ CookieAges \/ ReuseElsewhere PROVE Goal
    <2>1. tokens' \subseteq Token /\ aged' \subseteq tokens' /\ jar' \in 0..MaxToken
      BY <1>2, <1>s, <1>v, <1>m DEF TokenAges, CookieAges, ReuseElsewhere
    <2>2. faults' \in 0..MaxFaults
      <3>1. CASE TokenAges \/ CookieAges
        BY <1>s, <3>1 DEF TokenAges, CookieAges
      <3>2. CASE ReuseElsewhere
        BY <1>s, <3>2 DEF ReuseElsewhere
      <3> QED
        BY <1>2, <3>1, <3>2
    <2>3. excused' \in BOOLEAN
      BY <1>2, <1>s DEF TokenAges, CookieAges, ReuseElsewhere
    <2> QED
      BY <1>2, <1>s, <2>1, <2>2, <2>3 DEF TokenAges, CookieAges, ReuseElsewhere, logouts
  <1>3. ASSUME NEW t \in Tabs, NEW o \in Owners, CheckToken(t, o) PROVE Goal
    <2>1. [refresh[t][o] EXCEPT !.at = "checked"] \in RefreshState
      BY <1>s, RequestFacts
    <2>2. refresh' \in [Tabs -> [Owners -> RefreshState]]
      BY <1>3, <1>s, <1>r, <2>1 DEF CheckToken
    <2>3. tokens' \subseteq Token /\ aged' \subseteq tokens'
      BY <1>3, <1>s, <1>v DEF CheckToken
    <2> QED
      BY <1>3, <1>s, <2>2, <2>3 DEF CheckToken, logouts
  <1>4. ASSUME NEW t \in Tabs, NEW o \in Owners, RotateToken(t, o) PROVE Goal
    <2>1. NewToken \in Token /\ [at |-> "granted", token |-> NewToken] \in RefreshState
      BY <1>4, NewTokenFacts DEF RotateToken, Token, RefreshState
    <2>2. refresh' \in [Tabs -> [Owners -> RefreshState]]
      BY <1>4, <1>s, <2>1 DEF RotateToken
    <2>3. tokens' \subseteq Token /\ aged' \subseteq tokens'
      BY <1>4, <1>s, <1>v, <2>1 DEF RotateToken
    <2> QED
      BY <1>4, <1>s, <2>2, <2>3 DEF RotateToken, logouts
  <1>5. ASSUME NEW t \in Tabs, NEW o \in Owners, LoseRefresh(t, o) PROVE Goal
    <2>1. refresh' \in [Tabs -> [Owners -> RefreshState]]
      BY <1>5, <1>s, <1>r DEF LoseRefresh
    <2>2. faults' \in 0..MaxFaults
      BY <1>5, <1>s DEF LoseRefresh
    <2> QED
      BY <1>5, <1>s, <1>m, <2>1, <2>2 DEF LoseRefresh, logouts
  <1>6. ASSUME NEW t \in Tabs, NEW o \in Owners, RefreshGranted(t, o) PROVE Goal
    <2>1. jar' \in 0..MaxToken
      BY <1>6, <1>s DEF RefreshGranted, StoreCookie, RefreshState
    <2>2. page' \in [Tabs -> PageState] /\ \A u \in Tabs : page'[u].timer => page'[u].user
      BY <1>6, <1>s, PageFacts DEF RefreshGranted
    <2>3. refresh' \in [Tabs -> [Owners -> RefreshState]]
      BY <1>6, <1>s, <1>r DEF RefreshGranted
    <2>4. [at |-> "sent", access |-> "valid", retry |-> TRUE] \in CallState /\ "valid" \in Access
      BY DEF CallState, Access
    <2>5. call' \in [Tabs -> [Callers -> CallState]]
      BY <1>6, <1>s, <2>4, ResumeType DEF RefreshGranted
    <2>6. /\ signedOut' \in [Tabs -> BOOLEAN] /\ kept' \in [Tabs -> BOOLEAN]
          /\ tried' \in [Tabs -> BOOLEAN]
      BY <1>6, <1>s DEF RefreshGranted, ForgetLogout
    <2> QED
      BY <1>6, <1>s, <1>m, <2>1, <2>2, <2>3, <2>5, <2>6 DEF RefreshGranted
  <1>7. ASSUME NEW t \in Tabs, NEW o \in Owners, RefreshRefused(t, o) PROVE Goal
    <2>1. page[t] \in PageState
      BY <1>s
    <2>2. page' \in [Tabs -> PageState] /\ \A u \in Tabs : page'[u].timer => page'[u].user
      BY <1>7, <1>s, <2>1, AfterRefusalFacts DEF RefreshRefused
    <2>3. refresh' \in [Tabs -> [Owners -> RefreshState]]
      BY <1>7, <1>s, <1>r DEF RefreshRefused
    <2>4. call' \in [Tabs -> [Callers -> CallState]]
      BY <1>7, ResumeType DEF RefreshRefused, Access
    <2>5. lost' \in BOOLEAN
      BY <1>7 DEF RefreshRefused
    <2> QED
      BY <1>7, <1>s, <2>2, <2>3, <2>4, <2>5 DEF RefreshRefused, logouts
  <1>8. ASSUME NEW t \in Tabs, NEW o \in Pages, StartCall(t, o) PROVE Goal
    <2>1. [at |-> "sent", access |-> page[t].access, retry |-> TRUE] \in CallState
      BY <1>s DEF CallState, PageState
    <2>2. call' \in [Tabs -> [Callers -> CallState]]
      BY <1>8, <1>s, <2>1 DEF StartCall
    <2> QED
      BY <1>8, <1>s, <2>2 DEF StartCall, logouts
  <1>9. ASSUME NEW t \in Tabs, NEW o \in Authorized, CallAccepted(t, o) PROVE Goal
    <2>1. /\ [page[t] EXCEPT !.user = TRUE, !.loading = FALSE] \in PageState
          /\ [page[t] EXCEPT !.user = TRUE, !.loading = FALSE].user
      BY <1>s, PageFacts
    <2>2. page' \in [Tabs -> PageState] /\ \A u \in Tabs : page'[u].timer => page'[u].user
      <3>1. CASE o = "me"
        <4>1. page' = [page EXCEPT ![t] = [page[t] EXCEPT !.user = TRUE, !.loading = FALSE]]
          BY <1>9, <3>1 DEF CallAccepted
        <4> QED
          BY <1>s, <2>1, <4>1
      <3>2. CASE o # "me"
        BY <1>9, <1>s, <3>2 DEF CallAccepted
      <3> QED
        BY <3>1, <3>2
    <2>3. call' \in [Tabs -> [Callers -> CallState]]
      BY <1>9, <1>s, <1>r DEF CallAccepted
    <2> QED
      BY <1>9, <1>s, <2>2, <2>3 DEF CallAccepted, logouts
  <1>10. ASSUME NEW t \in Tabs, NEW o \in Authorized, CallUnauthorized(t, o) PROVE Goal
    <2>1. [NoCall EXCEPT !.at = "refreshing"] \in CallState
      BY DEF NoCall, CallState, Access
    <2>2. CASE call[t][o].retry
      <3>1. /\ call' = [call EXCEPT ![t][o] = [NoCall EXCEPT !.at = "refreshing"]]
            /\ refresh' = [refresh EXCEPT ![t][o] = [at |-> "sent", token |-> jar]]
            /\ excused' = (excused \/ Contended)
            /\ UNCHANGED <<page, tokens, aged, jar, signout, faults, lost, signedOut, kept, tried>>
        BY <1>10, <2>2 DEF CallUnauthorized, SendRefresh, logouts
      <3>2. call' \in [Tabs -> [Callers -> CallState]]
        BY <1>s, <2>1, <3>1
      <3>3. refresh' \in [Tabs -> [Owners -> RefreshState]]
        BY <1>s, <1>r, <3>1
      <3>4. excused' \in BOOLEAN
        BY <3>1
      <3> QED
        BY <1>s, <3>1, <3>2, <3>3, <3>4
    <2>3. CASE ~call[t][o].retry
      <3> DEFINE b == page[t].loading /\ o # "me"
                 p == [page[t] EXCEPT !.loading = b]
      <3>1. /\ call' = [call EXCEPT ![t][o] = NoCall]
            /\ page' = [page EXCEPT ![t] = p]
            /\ UNCHANGED <<refresh, excused, tokens, aged, jar, signout, faults, lost, signedOut, kept, tried>>
        BY <1>10, <1>s, <2>3 DEF CallUnauthorized, logouts
      <3>2. p \in PageState /\ p.timer = page[t].timer /\ p.user = page[t].user
        BY <1>s, PageLoading
      <3> HIDE DEF p
      <3>3. page' \in [Tabs -> PageState] /\ \A u \in Tabs : page'[u].timer => page'[u].user
        BY <1>s, <3>1, <3>2
      <3>4. call' \in [Tabs -> [Callers -> CallState]]
        BY <1>s, <1>r, <3>1
      <3> QED
        BY <1>s, <3>1, <3>3, <3>4
    <2> QED
      BY <2>2, <2>3
  <1>11. ASSUME NEW t \in Tabs, SubmitLogin(t) \/ PasswordRefused(t) \/ LoginFails(t) PROVE Goal
    <2>1. /\ [at |-> "sent", access |-> "none", retry |-> TRUE] \in CallState
          /\ [NoCall EXCEPT !.at = "refreshing"] \in CallState
      BY DEF NoCall, CallState, Access
    <2>2. CASE SubmitLogin(t) \/ LoginFails(t)
      <3>1. call' \in [Tabs -> [Callers -> CallState]]
        <4>1. CASE SubmitLogin(t)
          BY <1>s, <2>1, <4>1 DEF SubmitLogin
        <4>2. CASE LoginFails(t)
          BY <1>s, <1>r, <4>2 DEF LoginFails
        <4> QED
          BY <2>2, <4>1, <4>2
      <3> QED
        BY <1>s, <2>2, <3>1 DEF SubmitLogin, LoginFails, logouts
    <2>3. CASE PasswordRefused(t)
      <3>1. call' \in [Tabs -> [Callers -> CallState]]
        BY <1>s, <2>1, <2>3 DEF PasswordRefused
      <3>2. refresh' \in [Tabs -> [Owners -> RefreshState]]
        BY <1>s, <1>r, <2>3 DEF PasswordRefused, SendRefresh
      <3>3. excused' \in BOOLEAN
        BY <2>3 DEF PasswordRefused
      <3>4. tried' \in [Tabs -> BOOLEAN]
        BY <1>s, <2>3 DEF PasswordRefused
      <3> QED
        BY <1>s, <2>3, <3>1, <3>2, <3>3, <3>4 DEF PasswordRefused
    <2> QED
      BY <1>11, <2>2, <2>3
  <1>12. ASSUME NEW t \in Tabs, Logout(t) PROVE Goal
    <2>1. signout' \in [Tabs -> SignoutState]
      BY <1>12, <1>s DEF Logout, SignoutState
    <2> QED
      BY <1>12, <1>s, <2>1 DEF Logout, logouts
  <1>13. ASSUME NEW t \in Tabs, LogoutAnswered(t) \/ LogoutLost(t) PROVE Goal
    <2>0. /\ signout[t] \in SignoutState
          /\ [signout[t] EXCEPT !.at = "answered"] \in SignoutState
          /\ [signout[t] EXCEPT !.at = "failed"] \in SignoutState
      BY <1>s, RequestFacts
    <2>0a. PICK x \in SignoutState : signout' = [signout EXCEPT ![t] = x]
      BY <1>13, <2>0 DEF LogoutAnswered, LogoutLost
    <2>1. signout' \in [Tabs -> SignoutState]
      BY <1>s, <2>0a
    <2>2. CASE LogoutAnswered(t)
      <3>1. tokens' \subseteq Token /\ aged' \subseteq tokens'
        BY <1>s, <1>v, <2>2 DEF LogoutAnswered
      <3> QED
        BY <1>s, <2>1, <2>2, <3>1 DEF LogoutAnswered, logouts
    <2>3. CASE LogoutLost(t)
      <3>1. faults' \in 0..MaxFaults
        BY <1>s, <2>3 DEF LogoutLost
      <3> QED
        BY <1>s, <2>1, <2>3, <3>1 DEF LogoutLost, logouts
    <2> QED
      BY <1>13, <2>2, <2>3
  <1>14. ASSUME NEW t \in Tabs, LogoutEnds(t) PROVE Goal
    <2>1. signout' \in [Tabs -> SignoutState] /\ jar' \in 0..MaxToken
      BY <1>14, <1>s, <1>r DEF LogoutEnds
    <2>2. page' \in [Tabs -> PageState] /\ \A u \in Tabs : page'[u].timer => page'[u].user
      BY <1>14, <1>s, PageFacts DEF LogoutEnds
    <2>3. signedOut' \in [Tabs -> BOOLEAN]
      BY <1>14, <1>s DEF LogoutEnds, Refreshing, Calling
    <2>4. kept' \in [Tabs -> BOOLEAN] /\ tried' \in [Tabs -> BOOLEAN]
      BY <1>14, <1>s, <2>3 DEF LogoutEnds
    <2> QED
      BY <1>14, <1>s, <1>m, <2>1, <2>2, <2>3, <2>4 DEF LogoutEnds
  <1>15. ASSUME NEW t \in Tabs, LoginAccepted(t) PROVE Goal
    <2>1. NewToken \in Token /\ [at |-> "sent", token |-> NewToken] \in RefreshState
      BY <1>15, NewTokenFacts DEF LoginAccepted, Token, RefreshState
    <2>2. refresh' \in [Tabs -> [Owners -> RefreshState]]
      BY <1>15, <1>s, <2>1 DEF LoginAccepted
    <2>3. page' \in [Tabs -> PageState] /\ \A u \in Tabs : page'[u].timer => page'[u].user
      BY <1>15, <1>s, <1>r DEF LoginAccepted
    <2>4. tokens' \subseteq Token /\ aged' \subseteq tokens' /\ jar' \in 0..MaxToken
      <3>1. tokens' \subseteq tokens \cup {NewToken} /\ aged' \subseteq tokens'
        BY <1>15 DEF LoginAccepted, Remember, Live
      <3>2. jar' = NewToken
        BY <1>15 DEF LoginAccepted
      <3>3. jar' \in 0..MaxToken
        BY <2>1, <3>2 DEF Token
      <3> QED
        BY <1>s, <2>1, <3>1, <3>3
    <2>5. /\ excused' \in BOOLEAN /\ signedOut' \in [Tabs -> BOOLEAN]
          /\ kept' \in [Tabs -> BOOLEAN] /\ tried' \in [Tabs -> BOOLEAN]
      BY <1>15, <1>s DEF LoginAccepted, ForgetLogout, Contended, Refreshing, SigningOut
    <2>6. call' \in [Tabs -> [Callers -> CallState]]
      BY <1>15, <1>s, <1>r DEF LoginAccepted
    <2> QED
      BY <1>15, <1>s, <2>2, <2>3, <2>4, <2>5, <2>6 DEF LoginAccepted
  <1>16. CASE UNCHANGED vars
    BY <1>16, <1>s DEF vars, logouts
  <1> QED
    BY <1>1, <1>2, <1>3, <1>4, <1>5, <1>6, <1>7, <1>8, <1>9, <1>10, <1>11, <1>12, <1>13, <1>14,
       <1>15, <1>16 DEF Next, Answer

\* The state of the session has its shape, and a refresh is scheduled only for
\* a tab that shows a user, however many tabs, calls and lost answers there are.
THEOREM SessionTypeCorrect == Spec => []TypeOK
  BY TypeInit, TypeStep, PTL DEF Spec

-----------------------------------------------------------------------------
(* A settled logout *)

\* What a step of tab t leaves alone in every other tab.
Others(t) ==
    \A u \in Tabs \ {t} : /\ page'[u] = page[u] /\ refresh'[u] = refresh[u]
                          /\ call'[u] = call[u] /\ signedOut'[u] = signedOut[u]
                          /\ kept'[u] = kept[u] /\ tried'[u] = tried[u]

\* What SignedOutInv says of a tab.
TabSignedOut(t) ==
    /\ ~page[t].user
    /\ \A o \in Owners \ {"login"} : refresh[t][o].at = "idle"
    /\ \A o \in Authorized : call[t][o].at = "idle"
    /\ ~tried[t] => refresh[t]["login"].at \in {"idle", "sent", "refused"}
    /\ ~tried[t] /\ refresh[t]["login"].at = "sent" => refresh[t]["login"].token = 0
    /\ (\A u \in Tabs : u = t) /\ ~kept[t] => jar = 0 /\ ~tried[t]

\* It is enough to look at the tab that took the step: what the jar holds
\* matters only to a tab that is alone.
LEMMA ElsewhereSignedOut ==
    ASSUME SignedOutInv, NEW t \in Tabs, Others(t), signedOut'[t] => TabSignedOut(t)'
    PROVE  SignedOutInv'
  <1>1. ASSUME NEW u \in Tabs, u # t, signedOut'[u] PROVE TabSignedOut(u)'
    <2>1. TabSignedOut(u)
      BY <1>1 DEF SignedOutInv, TabSignedOut, Others
    <2>2. ~(\A v \in Tabs : v = u)
      BY <1>1
    <2> QED
      BY <1>1, <2>1, <2>2 DEF TabSignedOut, Others
  <1> QED
    BY <1>1 DEF SignedOutInv, TabSignedOut

\* A tab with a user, a call or a refresh other than that of a sign-in has not
\* signed out.
LEMMA BusyTab ==
    ASSUME SignedOutInv, NEW t \in Tabs
    PROVE  /\ page[t].user => ~signedOut[t]
           /\ \A o \in Owners : refresh[t][o].at # "idle" /\ o # "login" => ~signedOut[t]
           /\ \A o \in Authorized : call[t][o].at # "idle" => ~signedOut[t]
  BY DEF SignedOutInv

LEMMA SignedOutStep == TypeOK /\ SignedOutInv /\ [Next]_vars => SignedOutInv'
  <1> SUFFICES ASSUME TypeOK, SignedOutInv, [Next]_vars PROVE SignedOutInv'
    OBVIOUS
  <1> USE OwnersFacts
  <1>s. /\ page \in [Tabs -> PageState] /\ \A t \in Tabs : page[t].timer => page[t].user
        /\ refresh \in [Tabs -> [Owners -> RefreshState]]
        /\ call \in [Tabs -> [Callers -> CallState]]
        /\ signedOut \in [Tabs -> BOOLEAN] /\ kept \in [Tabs -> BOOLEAN] /\ tried \in [Tabs -> BOOLEAN]
        /\ tokens \subseteq Token
    BY Shapes
  <1>i. \A t \in Tabs : signedOut[t] => TabSignedOut(t)
    BY DEF SignedOutInv, TabSignedOut
  <1>1. ASSUME NEW t \in Tabs, TimerFires(t) PROVE SignedOutInv'
    <2>1. Others(t)
      BY <1>1, <1>s DEF TimerFires, SendRefresh, Others, logouts
    <2>2. ~signedOut'[t]
      BY <1>1, <1>s, BusyTab DEF TimerFires, logouts
    <2> QED
      BY <2>1, <2>2, ElsewhereSignedOut
  <1>2. ASSUME TokenAges \/ CookieAges \/ ReuseElsewhere PROVE SignedOutInv'
    <2>1. UNCHANGED <<page, refresh, call, signedOut, kept, tried>> /\ jar' \in {jar, 0}
      BY <1>2 DEF TokenAges, CookieAges, ReuseElsewhere, logouts
    <2> QED
      BY <2>1 DEF SignedOutInv
  <1>3. ASSUME NEW t \in Tabs, NEW o \in Owners,
               CheckToken(t, o) \/ RotateToken(t, o) \/ LoseRefresh(t, o)
        PROVE  SignedOutInv'
    <2>1. Others(t)
      BY <1>3, <1>s DEF CheckToken, RotateToken, LoseRefresh, Others, logouts
    <2>2. UNCHANGED <<jar, page, call, signedOut, kept, tried>> /\ refresh[t][o].at # "idle"
      BY <1>3 DEF CheckToken, RotateToken, LoseRefresh, logouts
    <2>3. ASSUME signedOut'[t] PROVE TabSignedOut(t)'
      <3>1. TabSignedOut(t) /\ o = "login"
        BY <1>i, <2>2, <2>3, BusyTab
      <3>2. \A q \in Owners \ {"login"} : refresh'[t][q] = refresh[t][q]
        BY <1>3, <1>s, <3>1 DEF CheckToken, RotateToken, LoseRefresh
      <3>3. ~tried[t] => refresh'[t]["login"].at = "refused"
        <4>1. 0 \notin tokens
          BY <1>s DEF Token
        <4>2. CASE CheckToken(t, o)
          BY <1>s, <3>1, <4>1, <4>2 DEF CheckToken, TabSignedOut
        <4>3. CASE RotateToken(t, o)
          BY <3>1, <4>3 DEF RotateToken, TabSignedOut
        <4>4. CASE LoseRefresh(t, o)
          BY <1>s, <3>1, <4>4 DEF LoseRefresh
        <4> QED
          BY <1>3, <4>2, <4>3, <4>4
      <3> QED
        BY <2>2, <3>1, <3>2, <3>3 DEF TabSignedOut
    <2> QED
      BY <2>1, <2>3, ElsewhereSignedOut
  <1>4. ASSUME NEW t \in Tabs, NEW o \in Owners, RefreshGranted(t, o) PROVE SignedOutInv'
    <2>1. Others(t)
      BY <1>4, <1>s DEF RefreshGranted, ForgetLogout, Resume, Others
    <2>2. ~signedOut'[t]
      BY <1>4, <1>s DEF RefreshGranted, ForgetLogout
    <2> QED
      BY <2>1, <2>2, ElsewhereSignedOut
  <1>5. ASSUME NEW t \in Tabs, NEW o \in Owners, RefreshRefused(t, o) PROVE SignedOutInv'
    <2>1. Others(t)
      BY <1>5, <1>s DEF RefreshRefused, Resume, Others, logouts
    <2>2. UNCHANGED <<jar, signedOut, kept, tried>>
      BY <1>5 DEF RefreshRefused, logouts
    <2>3. ASSUME signedOut'[t] PROVE TabSignedOut(t)'
      <3>1. TabSignedOut(t)
        BY <1>i, <2>2, <2>3
      <3>2. ~page'[t].user
        BY <1>5, <1>s, AfterRefusalFacts DEF RefreshRefused
      <3>3. \A q \in Owners : refresh'[t][q] = refresh[t][q] \/ refresh'[t][q].at = "idle"
        BY <1>5, <1>s DEF RefreshRefused, Idle
      <3>4. \A q \in Authorized : call'[t][q] = call[t][q] \/ call'[t][q].at = "idle"
        BY <1>5, <1>s DEF RefreshRefused, Resume, NoCall
      <3> QED
        BY <2>2, <3>1, <3>2, <3>3, <3>4 DEF TabSignedOut
    <2> QED
      BY <2>1, <2>3, ElsewhereSignedOut
  <1>6. ASSUME NEW t \in Tabs, NEW o \in Pages, StartCall(t, o) PROVE SignedOutInv'
    <2>1. Others(t)
      BY <1>6, <1>s DEF StartCall, Others, logouts
    <2>2. ~signedOut'[t]
      BY <1>6, BusyTab DEF StartCall, logouts
    <2> QED
      BY <2>1, <2>2, ElsewhereSignedOut
  <1>7. ASSUME NEW t \in Tabs, NEW o \in Authorized, CallAccepted(t, o) \/ CallUnauthorized(t, o)
        PROVE  SignedOutInv'
    <2>1. Others(t)
      BY <1>7, <1>s DEF CallAccepted, CallUnauthorized, SendRefresh, Others, logouts
    <2>2. ~signedOut'[t]
      BY <1>7, BusyTab DEF CallAccepted, CallUnauthorized, logouts
    <2> QED
      BY <2>1, <2>2, ElsewhereSignedOut
  <1>8. ASSUME NEW t \in Tabs, Logout(t) \/ LogoutAnswered(t) \/ LogoutLost(t)
        PROVE  SignedOutInv'
    BY <1>8 DEF Logout, LogoutAnswered, LogoutLost, SignedOutInv, logouts
  <1>9. ASSUME NEW t \in Tabs, LogoutEnds(t) PROVE SignedOutInv'
    <2>1. Others(t)
      BY <1>9, <1>s DEF LogoutEnds, Others
    <2>2. ASSUME signedOut'[t] PROVE TabSignedOut(t)'
      <3>1. ~page'[t].user /\ refresh' = refresh /\ call' = call /\ ~tried'[t]
        BY <1>9, <1>s, PageFacts DEF LogoutEnds
      <3>2. /\ \A o \in Owners : refresh[t][o].at = "idle"
            /\ \A o \in Callers : call[t][o].at = "idle"
        BY <1>9, <1>s, <2>2 DEF LogoutEnds, Refreshing, Calling
      <3>3. ~kept'[t] => jar' = 0
        BY <1>9, <1>s, <2>2 DEF LogoutEnds
      <3> QED
        BY <3>1, <3>2, <3>3 DEF TabSignedOut
    <2> QED
      BY <2>1, <2>2, ElsewhereSignedOut
  <1>10. ASSUME NEW t \in Tabs, LoginAccepted(t) PROVE SignedOutInv'
    <2>1. Others(t)
      BY <1>10, <1>s DEF LoginAccepted, ForgetLogout, Others
    <2>2. ~signedOut'[t]
      BY <1>10, <1>s DEF LoginAccepted, ForgetLogout
    <2> QED
      BY <2>1, <2>2, ElsewhereSignedOut
  <1>11. ASSUME NEW t \in Tabs, SubmitLogin(t) \/ LoginFails(t) PROVE SignedOutInv'
    <2>1. UNCHANGED <<jar, page, refresh, signedOut, kept, tried>>
      BY <1>11 DEF SubmitLogin, LoginFails, logouts
    <2>2. Others(t) /\ \A o \in Authorized : call'[t][o] = call[t][o]
      BY <1>11, <1>s DEF SubmitLogin, LoginFails, Others, logouts
    <2>3. ASSUME signedOut'[t] PROVE TabSignedOut(t)'
      <3>1. TabSignedOut(t)
        BY <1>i, <2>1, <2>3
      <3> QED
        BY <2>1, <2>2, <3>1 DEF TabSignedOut
    <2> QED
      BY <2>2, <2>3, ElsewhereSignedOut
  <1>12. ASSUME NEW t \in Tabs, PasswordRefused(t) PROVE SignedOutInv'
    <2>1. Others(t)
      BY <1>12, <1>s DEF PasswordRefused, SendRefresh, Others
    <2>2. ASSUME signedOut'[t] PROVE TabSignedOut(t)'
      <3>1. TabSignedOut(t) /\ UNCHANGED <<jar, page, signedOut, kept>> /\ signedOut[t]
        BY <1>12, <1>i, <2>2 DEF PasswordRefused
      <3>2. \A q \in Owners : refresh'[t][q] =
                IF q = "login" THEN [at |-> "sent", token |-> jar] ELSE refresh[t][q]
        BY <1>12, <1>s DEF PasswordRefused, SendRefresh
      <3>3. \A q \in Authorized : call'[t][q] = call[t][q]
        BY <1>12, <1>s DEF PasswordRefused
      <3>4. tried'[t] <=> tried[t] \/ jar # 0
        BY <1>12, <1>s, <3>1 DEF PasswordRefused
      <3>5. /\ \A q \in Owners \ {"login"} : refresh'[t][q].at = "idle"
            /\ refresh'[t]["login"].at = "sent" /\ refresh'[t]["login"].token = jar
        BY <3>1, <3>2 DEF TabSignedOut
      <3>6. \A q \in Authorized : call'[t][q].at = "idle"
        BY <3>1, <3>3 DEF TabSignedOut
      <3>7. (\A u \in Tabs : u = t) /\ ~kept'[t] => jar' = 0 /\ ~tried'[t]
        BY <3>1, <3>4 DEF TabSignedOut
      <3> QED
        BY <3>1, <3>4, <3>5, <3>6, <3>7 DEF TabSignedOut
    <2> QED
      BY <2>1, <2>2, ElsewhereSignedOut
  <1>13. CASE UNCHANGED vars
    BY <1>13 DEF vars, logouts, SignedOutInv
  <1> QED
    BY <1>1, <1>2, <1>3, <1>4, <1>5, <1>6, <1>7, <1>8, <1>9, <1>10, <1>11, <1>12, <1>13
       DEF Next, Answer

\* A user appears only with a granted refresh or with the answer of me().
LEMMA UserAppears ==
    ASSUME TypeOK, [Next]_vars, NEW t \in Tabs, page'[t].user, ~page[t].user
    PROVE  \/ \E o \in Owners : refresh[t][o].at = "granted"
           \/ call[t]["me"].at = "sent"
  <1>s. page \in [Tabs -> PageState]
    BY Shapes
  <1>1. ASSUME NEW u \in Tabs, NEW o \in Owners, RefreshGranted(u, o)
        PROVE  u # t => page'[t] = page[t]
    BY <1>1, <1>s DEF RefreshGranted
  <1>2. ASSUME NEW u \in Tabs, NEW o \in Owners, RefreshRefused(u, o) PROVE FALSE
    BY <1>2, <1>s, AfterRefusalFacts DEF RefreshRefused
  <1>3. ASSUME NEW u \in Tabs, NEW o \in Authorized, CallAccepted(u, o), u # t \/ o # "me"
        PROVE  page'[t] = page[t]
    BY <1>3, <1>s DEF CallAccepted
  <1>4. ASSUME NEW u \in Tabs, NEW o \in Authorized, CallUnauthorized(u, o) PROVE FALSE
    <2>1. CASE UNCHANGED page
      BY <2>1
    <2>2. CASE page' = [page EXCEPT ![u].loading = @ /\ o # "me"]
      BY <2>2, <1>s, PageLoading
    <2> QED
      BY <1>4, <2>1, <2>2 DEF CallUnauthorized
  <1>5. ASSUME NEW u \in Tabs, TimerFires(u) \/ LogoutEnds(u) \/ LoginAccepted(u) PROVE FALSE
    <2>1. CASE TimerFires(u)
      BY <1>s, <2>1 DEF TimerFires, PageState
    <2>2. CASE LogoutEnds(u)
      BY <1>s, <2>2, PageFacts DEF LogoutEnds
    <2>3. CASE LoginAccepted(u)
      BY <1>s, <2>3 DEF LoginAccepted, Mounted
    <2> QED
      BY <1>5, <2>1, <2>2, <2>3
  <1>6. ASSUME \/ TokenAges \/ CookieAges \/ ReuseElsewhere
               \/ \E u \in Tabs :
                    \/ \E o \in Owners : CheckToken(u, o) \/ RotateToken(u, o) \/ LoseRefresh(u, o)
                    \/ \E o \in Pages : StartCall(u, o)
                    \/ PasswordRefused(u) \/ LoginFails(u) \/ SubmitLogin(u)
                    \/ Logout(u) \/ LogoutAnswered(u) \/ LogoutLost(u)
               \/ UNCHANGED vars
        PROVE  FALSE
    BY <1>6 DEF TokenAges, CookieAges, ReuseElsewhere, CheckToken, RotateToken, LoseRefresh, StartCall,
                PasswordRefused, LoginFails, SubmitLogin, Logout, LogoutAnswered, LogoutLost, vars
  <1>7. ASSUME NEW o \in Authorized, CallAccepted(t, o), o = "me" PROVE call[t]["me"].at = "sent"
    BY <1>7 DEF CallAccepted
  <1>8. ASSUME NEW o \in Owners, RefreshGranted(t, o) PROVE refresh[t][o].at = "granted"
    BY <1>8 DEF RefreshGranted
  <1> QED
    BY <1>1, <1>2, <1>3, <1>4, <1>5, <1>6, <1>7, <1>8 DEF Next, Answer

\* After a logout that ended with nothing under way no later answer, timer or
\* call shows a user again until someone signs in, in any number of tabs, but
\* for a refused sign-in that meets a cookie which the logout left or which
\* another tab has put there.
THEOREM SettledLogoutStays == Spec => StaysSignedOut
  <1> DEFINE Stays == \A t \in Tabs : signedOut[t] /\ page'[t].user =>
                          tried[t] /\ (kept[t] \/ \E u \in Tabs : u # t)
  <1>1. Init => SignedOutInv
    BY DEF Init, SignedOutInv
  <1>2. TypeOK /\ SignedOutInv /\ [Next]_vars => [Stays]_vars
    <2> SUFFICES ASSUME TypeOK, SignedOutInv, [Next]_vars, NEW t \in Tabs, signedOut[t], page'[t].user
                 PROVE  tried[t] /\ (kept[t] \/ \E u \in Tabs : u # t)
      OBVIOUS
    <2>1. TabSignedOut(t)
      BY DEF SignedOutInv, TabSignedOut
    <2>2. \E o \in Owners : refresh[t][o].at = "granted"
      BY <2>1, UserAppears, OwnersFacts DEF TabSignedOut
    <2> QED
      BY <2>1, <2>2, OwnersFacts DEF TabSignedOut
  <1> QED
    BY TypeInit, TypeStep, SignedOutStep, <1>1, <1>2, PTL DEF Spec, StaysSignedOut

-----------------------------------------------------------------------------
(* The loss of a session *)

\* It is enough to look at the tab that took the step: it is the only one.
LEMMA SoleTab ==
    ASSUME CauseInv, NEW t \in Tabs, ~lost',
           ~excused' => ~excused, ~excused' => Undisturbed(t)' /\ aged' = {}
    PROVE  CauseInv'
  <1>1. ASSUME ~excused'
        PROVE  (\A u, v \in Tabs : u = v) /\ aged' = {} /\ \A u \in Tabs : Undisturbed(u)'
    <2>1. \A u, v \in Tabs : u = v
      BY <1>1 DEF CauseInv
    <2>2. ASSUME NEW u \in Tabs PROVE Undisturbed(u)'
      <3>1. u = t
        BY <2>1
      <3> QED
        BY <1>1, <3>1
    <2> QED
      BY <1>1, <2>1, <2>2
  <1>2. SUFFICES ASSUME ~excused'
                 PROVE  (\A u, v \in Tabs : u = v) /\ aged' = {} /\ \A u \in Tabs : Undisturbed(u)'
    BY DEF CauseInv
  <1> QED
    BY <1>1, <1>2

LEMMA CauseInit == Init => CauseInv
  <1> SUFFICES ASSUME Init PROVE CauseInv
    OBVIOUS
  <1>1. ASSUME NEW t \in Tabs PROVE Undisturbed(t)
    <2>1. /\ signout[t].at = "idle" /\ ~page[t].user
          /\ \A o \in Callers : call[t][o].at = "idle"
      BY DEF Init, Idle, Mounted, NoCall
    <2>2. \A o \in Owners : refresh[t][o] = IF o = "boot" THEN [at |-> "sent", token |-> jar] ELSE Idle
      BY DEF Init
    <2>3. jar # 0 => jar \in tokens
      BY DEF Init
    <2> QED
      BY <2>1, <2>2, <2>3, OwnersFacts DEF Undisturbed, Held, Idle
  <1> QED
    BY <1>1 DEF Init, CauseInv

\* An uncontended tab has no refresh, so its good token is in the jar.
LEMMA Uncontended ==
    ASSUME NEW t \in Tabs, Undisturbed(t), ~Contended
    PROVE  /\ \A o \in Owners : refresh[t][o].at = "idle"
           /\ Held(t) => jar \in tokens
  BY DEF Contended, Refreshing, Held

\* The single refresh of an undisturbed tab: while it is under way, no other
\* is, and before it is granted the good token is in the jar.
LEMMA SingleRefresh ==
    ASSUME NEW t \in Tabs, NEW o \in Owners, Undisturbed(t), refresh[t][o].at # "idle"
    PROVE  /\ \A p \in Owners : p # o => refresh[t][p].at = "idle"
           /\ refresh[t][o].at # "granted" /\ Held(t) => jar \in tokens
  BY DEF Undisturbed, Held

LEMMA CauseStep == TypeOK /\ CauseInv /\ [Next]_vars => CauseInv'
  <1> SUFFICES ASSUME TypeOK, CauseInv, [Next]_vars PROVE CauseInv'
    OBVIOUS
  <1> USE OwnersFacts
  <1>s. /\ page \in [Tabs -> PageState] /\ \A t \in Tabs : page[t].timer => page[t].user
        /\ refresh \in [Tabs -> [Owners -> RefreshState]]
        /\ call \in [Tabs -> [Callers -> CallState]]
        /\ signout \in [Tabs -> SignoutState]
        /\ tokens \subseteq Token /\ jar \in 0..MaxToken
    BY Shapes
  <1>u. ASSUME NEW t \in Tabs, ~excused PROVE Undisturbed(t)
    BY <1>u DEF CauseInv
  <1>l. ~lost
    BY DEF CauseInv
  <1>a. ~excused => aged = {}
    BY DEF CauseInv
  <1>1. ASSUME NEW t \in Tabs, TimerFires(t) PROVE CauseInv'
    <2>1. ~lost' /\ (~excused' => ~excused /\ ~Contended)
      BY <1>1, <1>l DEF TimerFires
    <2>2. ASSUME ~excused' PROVE Undisturbed(t)' /\ aged' = {}
      <3>1. /\ Undisturbed(t) /\ \A o \in Owners : refresh[t][o].at = "idle"
            /\ Held(t) => jar \in tokens
        BY <1>u, <2>1, <2>2, Uncontended
      <3>2. /\ page'[t].user = page[t].user
            /\ \A o \in Owners : refresh'[t][o] =
                    IF o = "timer" THEN [at |-> "sent", token |-> jar] ELSE refresh[t][o]
            /\ UNCHANGED <<tokens, aged, jar, call, signout>>
        BY <1>1, <1>s DEF TimerFires, SendRefresh, PageState
      <3> QED
        BY <1>a, <2>1, <2>2, <3>1, <3>2 DEF Undisturbed, Held
    <2> QED
      BY <2>1, <2>2, SoleTab
  <1>2. ASSUME TokenAges \/ CookieAges \/ ReuseElsewhere PROVE CauseInv'
    <2>1. CASE TokenAges \/ ReuseElsewhere
      BY <1>l, <2>1 DEF TokenAges, ReuseElsewhere, CauseInv
    <2>2. CASE CookieAges
      BY <1>l, <1>a, <2>2 DEF CookieAges, CauseInv
    <2> QED
      BY <1>2, <2>1, <2>2
  <1>3. ASSUME NEW t \in Tabs, NEW o \in Owners, CheckToken(t, o) PROVE CauseInv'
    <2>1. UNCHANGED <<jar, page, call, signout, excused, lost>> /\ refresh[t][o].at = "sent"
      BY <1>3 DEF CheckToken
    <2>2. ASSUME ~excused' PROVE Undisturbed(t)' /\ aged' = {}
      <3>1. /\ Undisturbed(t) /\ \A p \in Owners : p # o => refresh[t][p].at = "idle"
            /\ Held(t) => jar \in tokens
        BY <1>u, <2>1, <2>2, SingleRefresh
      <3>1a. refresh[t][o].token = jar
        BY <2>1, <3>1 DEF Undisturbed
      <3>1b. aged = {} /\ aged' = {}
        BY <1>3, <1>a, <2>1, <2>2 DEF CheckToken, Live
      <3>2. CASE jar \in tokens
        <4>1. /\ tokens' = tokens
              /\ \A p \in Owners : refresh'[t][p] =
                    IF p = o THEN [refresh[t][o] EXCEPT !.at = "checked"] ELSE refresh[t][p]
          BY <1>3, <1>s, <3>1a, <3>1b, <3>2 DEF CheckToken, Live
        <4>2. refresh'[t][o].at = "checked" /\ refresh'[t][o].token = jar
          <5>1. refresh[t][o] \in RefreshState
            BY <1>s
          <5>2. refresh'[t][o] = [refresh[t][o] EXCEPT !.at = "checked"]
            BY <4>1
          <5> QED
            BY <3>1a, <5>1, <5>2 DEF RefreshState
        <4>3. Held(t)'
          BY <2>1, <3>2, <4>1 DEF Held
        <4>4. Undisturbed(t)'
          BY <2>1, <3>1, <3>2, <4>1, <4>2, <4>3 DEF Undisturbed
        <4> QED
          BY <3>1b, <4>4
      <3>3. CASE jar \notin tokens
        <4>1. ~Held(t)
          BY <3>1, <3>3
        <4>2. jar = 0 /\ ~page[t].user /\ \A p \in Authorized : call[t][p].at = "idle"
          BY <3>1, <4>1 DEF Undisturbed
        <4>3. \A p \in Owners : refresh'[t][p] =
                    IF p = o THEN [at |-> "refused", token |-> 0] ELSE refresh[t][p]
          BY <1>3, <1>s, <3>1a, <3>3 DEF CheckToken
        <4>4. tokens' = tokens
          BY <1>3, <3>1a, <4>2 DEF CheckToken, Live
        <4> QED
          BY <2>1, <3>1, <3>1b, <4>2, <4>3, <4>4 DEF Undisturbed, Held
      <3> QED
        BY <3>2, <3>3
    <2> QED
      BY <1>l, <2>1, <2>2, SoleTab
  <1>4. ASSUME NEW t \in Tabs, NEW o \in Owners, RotateToken(t, o) PROVE CauseInv'
    <2>1. UNCHANGED <<jar, page, call, signout, excused, lost>> /\ refresh[t][o].at = "checked"
      BY <1>4 DEF RotateToken
    <2>2. ASSUME ~excused' PROVE Undisturbed(t)' /\ aged' = {}
      <3>1. Undisturbed(t) /\ \A p \in Owners : p # o => refresh[t][p].at = "idle"
        BY <1>u, <2>1, <2>2, SingleRefresh
      <3>2. /\ NewToken \in tokens'
            /\ \A p \in Owners : refresh'[t][p] =
                    IF p = o THEN [at |-> "granted", token |-> NewToken] ELSE refresh[t][p]
        BY <1>4, <1>s DEF RotateToken, Live
      <3>3. Held(t)'
        BY <3>2 DEF Held
      <3>4. aged' = {}
        BY <1>4, <1>a, <2>1, <2>2 DEF RotateToken, Live
      <3> QED
        BY <2>1, <3>1, <3>2, <3>3, <3>4 DEF Undisturbed
    <2> QED
      BY <1>l, <2>1, <2>2, SoleTab
  <1>5. ASSUME NEW t \in Tabs, NEW o \in Owners, LoseRefresh(t, o) PROVE CauseInv'
    BY <1>5, <1>l DEF LoseRefresh, CauseInv
  <1>6. ASSUME NEW t \in Tabs, NEW o \in Owners, RefreshGranted(t, o) PROVE CauseInv'
    <2>1. /\ UNCHANGED <<signout, excused, lost>> /\ refresh[t][o].at = "granted"
          /\ jar' = refresh[t][o].token
      BY <1>6 DEF RefreshGranted, StoreCookie
    <2>2. ASSUME ~excused' PROVE Undisturbed(t)' /\ aged' = {}
      <3>1. Undisturbed(t) /\ \A p \in Owners : p # o => refresh[t][p].at = "idle"
        BY <1>u, <2>1, <2>2, SingleRefresh
      <3>2. jar' \in tokens'
        <4>1. jar' \in tokens
          BY <2>1, <3>1 DEF Undisturbed
        <4> QED
          BY <1>6, <4>1 DEF RefreshGranted, Remember, Live, Mentioned
      <3>3. \A p \in Owners : refresh'[t][p].at = "idle"
        BY <1>6, <1>s, <3>1 DEF RefreshGranted, Idle
      <3>4. aged' = {}
        BY <1>6, <1>a, <2>1, <2>2 DEF RefreshGranted, Remember, Live
      <3> QED
        BY <2>1, <3>1, <3>2, <3>3, <3>4 DEF Undisturbed, Held
    <2> QED
      BY <1>l, <2>1, <2>2, SoleTab
  <1>7. ASSUME NEW t \in Tabs, NEW o \in Owners, RefreshRefused(t, o) PROVE CauseInv'
    <2>1. UNCHANGED <<tokens, aged, jar, signout, excused>> /\ refresh[t][o].at = "refused"
      BY <1>7 DEF RefreshRefused
    <2>2. ~lost'
      <3>1. ~excused => ~page[t].user
        BY <1>u, <2>1 DEF Undisturbed
      <3> QED
        BY <1>7, <1>l, <3>1 DEF RefreshRefused
    <2>3. ASSUME ~excused' PROVE Undisturbed(t)' /\ aged' = {}
      <3>1. /\ Undisturbed(t) /\ \A p \in Owners : p # o => refresh[t][p].at = "idle"
            /\ Held(t) => jar \in tokens
        BY <1>u, <2>1, <2>3, SingleRefresh
      <3>2. \A p \in Owners : refresh'[t][p].at = "idle"
        BY <1>7, <1>s, <3>1 DEF RefreshRefused, Idle
      <3>3. ~page'[t].user
        BY <1>7, <1>s, AfterRefusalFacts DEF RefreshRefused
      <3>4. \A p \in Authorized : call'[t][p].at = "idle"
        <4>1. \A p \in Authorized : call[t][p].at = "idle"
          BY <2>1, <3>1 DEF Undisturbed
        <4> QED
          BY <1>7, <1>s, <4>1 DEF RefreshRefused, Resume, NoCall
      <3>5. jar # 0 => jar \in tokens
        BY <3>1 DEF Undisturbed
      <3>6. Undisturbed(t)'
        BY <2>1, <3>1, <3>2, <3>3, <3>4, <3>5 DEF Undisturbed, Held
      <3> QED
        BY <1>a, <2>1, <2>3, <3>6
    <2> QED
      BY <2>1, <2>2, <2>3, SoleTab
  <1>8. ASSUME NEW t \in Tabs, NEW o \in Pages, StartCall(t, o) PROVE CauseInv'
    <2>1. UNCHANGED <<tokens, aged, jar, page, refresh, signout, excused, lost>> /\ page[t].user
      BY <1>8 DEF StartCall
    <2>2. ASSUME ~excused' PROVE Undisturbed(t)' /\ aged' = {}
      <3>1. Undisturbed(t) /\ Held(t) /\ \A p \in Owners : refresh[t][p].at # "refused"
        BY <1>u, <2>1, <2>2 DEF Undisturbed
      <3>2. Held(t)'
        BY <2>1, <3>1 DEF Held
      <3>3. Undisturbed(t)'
        BY <2>1, <3>1, <3>2 DEF Undisturbed
      <3> QED
        BY <1>a, <2>1, <2>2, <3>3
    <2> QED
      BY <1>l, <2>1, <2>2, SoleTab
  <1>9. ASSUME NEW t \in Tabs, NEW o \in Authorized, CallAccepted(t, o) PROVE CauseInv'
    <2>1. /\ UNCHANGED <<tokens, aged, jar, refresh, signout, excused, lost>>
          /\ call[t][o].at = "sent"
      BY <1>9 DEF CallAccepted
    <2>2. ASSUME ~excused' PROVE Undisturbed(t)' /\ aged' = {}
      <3>1. Undisturbed(t) /\ Held(t) /\ \A p \in Owners : refresh[t][p].at # "refused"
        BY <1>u, <2>1, <2>2 DEF Undisturbed
      <3>2. Held(t)'
        BY <2>1, <3>1 DEF Held
      <3> QED
        BY <1>a, <2>1, <2>2, <3>1, <3>2 DEF Undisturbed
    <2> QED
      BY <1>l, <2>1, <2>2, SoleTab
  <1>10. ASSUME NEW t \in Tabs, NEW o \in Authorized, CallUnauthorized(t, o) PROVE CauseInv'
    <2>1. /\ UNCHANGED <<tokens, aged, jar, signout, lost>> /\ call[t][o].at = "sent"
          /\ ~excused' => ~excused
      BY <1>10 DEF CallUnauthorized
    <2>2. ASSUME ~excused' PROVE Undisturbed(t)' /\ aged' = {}
      <3>1. Undisturbed(t) /\ Held(t) /\ \A p \in Owners : refresh[t][p].at # "refused"
        BY <1>u, <2>1, <2>2 DEF Undisturbed
      <3>2. CASE call[t][o].retry
        <4>0. /\ ~Contended /\ UNCHANGED page
              /\ refresh' = [refresh EXCEPT ![t][o] = [at |-> "sent", token |-> jar]]
          BY <1>10, <2>2, <3>2 DEF CallUnauthorized, SendRefresh
        <4>1. \A p \in Owners : refresh'[t][p] =
                    IF p = o THEN [at |-> "sent", token |-> jar] ELSE refresh[t][p]
          BY <1>s, <4>0
        <4>2. jar \in tokens /\ \A p \in Owners : refresh[t][p].at = "idle"
          BY <3>1, <4>0, Uncontended
        <4> QED
          BY <1>a, <2>1, <2>2, <3>1, <4>0, <4>1, <4>2 DEF Undisturbed, Held
      <3>3. CASE ~call[t][o].retry
        <4>1. refresh' = refresh
          BY <1>10, <3>3 DEF CallUnauthorized
        <4>2. Held(t)'
          BY <2>1, <3>1, <4>1 DEF Held
        <4> QED
          BY <1>a, <2>1, <2>2, <3>1, <4>1, <4>2 DEF Undisturbed
      <3> QED
        BY <3>2, <3>3
    <2> QED
      BY <1>l, <2>1, <2>2, SoleTab
  <1>11. ASSUME NEW t \in Tabs, Logout(t) PROVE CauseInv'
    BY <1>11, <1>l DEF Logout, CauseInv
  <1>12. ASSUME NEW t \in Tabs, LogoutAnswered(t) \/ LogoutLost(t) \/ LogoutEnds(t)
         PROVE  CauseInv'
    <2>1. UNCHANGED <<excused, lost>> /\ signout[t].at # "idle"
      BY <1>12 DEF LogoutAnswered, LogoutLost, LogoutEnds
    <2>2. excused
      BY <1>u, <2>1 DEF Undisturbed
    <2> QED
      BY <1>l, <2>1, <2>2 DEF CauseInv
  <1>13. ASSUME NEW t \in Tabs, LoginAccepted(t) PROVE CauseInv'
    <2>1. /\ UNCHANGED <<signout, lost>> /\ jar' = NewToken
          /\ ~excused' => ~excused /\ ~Contended
      BY <1>13 DEF LoginAccepted
    <2>2. ASSUME ~excused' PROVE Undisturbed(t)' /\ aged' = {}
      <3>1. Undisturbed(t) /\ \A o \in Owners : refresh[t][o].at = "idle"
        BY <1>u, <2>1, <2>2, Uncontended
      <3>2. jar' \in tokens' /\ aged' = {}
        BY <1>13, <1>a, <2>1, <2>2 DEF LoginAccepted, Remember, Live, Mentioned
      <3>3. \A p \in Owners : refresh'[t][p] =
                IF p = "boot" THEN [at |-> "sent", token |-> jar'] ELSE refresh[t][p]
        BY <1>13, <1>s, <2>1 DEF LoginAccepted
      <3>4. ~page'[t].user
        BY <1>13, <1>s DEF LoginAccepted, Mounted
      <3> QED
        BY <2>1, <3>1, <3>2, <3>3, <3>4 DEF Undisturbed, Held
    <2> QED
      BY <1>l, <2>1, <2>2, SoleTab
  <1>14. ASSUME NEW t \in Tabs, PasswordRefused(t) PROVE CauseInv'
    <2>1. ~lost' /\ (~excused' => ~excused /\ ~Contended)
      BY <1>14, <1>l DEF PasswordRefused
    <2>2. ASSUME ~excused' PROVE Undisturbed(t)' /\ aged' = {}
      <3>1. /\ Undisturbed(t) /\ \A o \in Owners : refresh[t][o].at = "idle"
            /\ Held(t) => jar \in tokens
        BY <1>u, <2>1, <2>2, Uncontended
      <3>2. /\ \A o \in Owners : refresh'[t][o] =
                    IF o = "login" THEN [at |-> "sent", token |-> jar] ELSE refresh[t][o]
            /\ \A p \in Authorized : call'[t][p] = call[t][p]
            /\ UNCHANGED <<tokens, aged, jar, page, signout>>
        BY <1>14, <1>s DEF PasswordRefused, SendRefresh
      <3> QED
        BY <1>a, <2>1, <2>2, <3>1, <3>2 DEF Undisturbed, Held
    <2> QED
      BY <2>1, <2>2, SoleTab
  <1>15. ASSUME NEW t \in Tabs, SubmitLogin(t) \/ LoginFails(t) PROVE CauseInv'
    <2>1. /\ UNCHANGED <<tokens, aged, jar, page, refresh, signout, excused, lost>>
          /\ \A p \in Authorized : call'[t][p] = call[t][p]
      BY <1>15, <1>s DEF SubmitLogin, LoginFails
    <2>2. ASSUME ~excused' PROVE Undisturbed(t)' /\ aged' = {}
      BY <1>u, <1>a, <2>1, <2>2 DEF Undisturbed, Held
    <2> QED
      BY <1>l, <2>1, <2>2, SoleTab
  <1>16. CASE UNCHANGED vars
    BY <1>16 DEF vars, CauseInv, Undisturbed, Held
  <1> QED
    BY <1>1, <1>2, <1>3, <1>4, <1>5, <1>6, <1>7, <1>8, <1>9, <1>10, <1>11, <1>12, <1>13, <1>14, <1>15,
       <1>16 DEF Next, Answer

\* A refused refresh takes a user away only after a second user of the cookie,
\* an answer that was lost or failed, a logout, a token that aged or a reuse in
\* another browser: the reuse detection never meets a token that this browser
\* used in order, whatever calls, timers and sign-ins, wrong ones too, there were.
THEOREM LossHasCause == Spec => []SessionLossHasCause
  <1>1. CauseInv => SessionLossHasCause
    BY DEF CauseInv, SessionLossHasCause
  <1> QED
    BY TypeInit, TypeStep, CauseInit, CauseStep, <1>1, PTL DEF Spec
=============================================================================
