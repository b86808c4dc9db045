---------------------------- MODULE StaffSession ----------------------------
(***************************************************************************)
(* A staff or admin session in one browser (apps/web/src/lib/auth.ts,      *)
(* api-client.ts, download.ts, components/StaffGuard.tsx), with the        *)
(* renewals the API grants or refuses (modules/auth/service.ts).  The      *)
(* tabs share what the browser stores and its cookie; each has its own     *)
(* timer and its own renewals, which go on after the session they were     *)
(* asked for has ended, unless the page is loaded anew.                    *)
(*                                                                         *)
(* Time goes in steps of REFRESH_EVERY's unit (minutes); a request is      *)
(* answered, or has failed, before the next step.                          *)
(***************************************************************************)
EXTENDS Integers

CONSTANTS
    Tab,
    REFRESH_EVERY, ACCESS_LIFE,     \* the renewal timer, and an access token's life
    IDLE_LIMIT, COOKIE_LIFE,        \* nobody used a screen; the renewal cookie's life
    MaxActs,        \* bounds what people do
    None

ASSUME SessionAssumption ==
    /\ REFRESH_EVERY \in Nat \ {0} /\ ACCESS_LIFE \in Nat \ {0}
    /\ REFRESH_EVERY < ACCESS_LIFE /\ REFRESH_EVERY < COOKIE_LIFE
    /\ IDLE_LIMIT \in Nat /\ COOKIE_LIFE \in Nat \ {0} /\ MaxActs \in Nat
    /\ None \notin Nat

VARIABLES
    accessToken,    \* the stored token's age; the user is stored with it
    lastActive,     \* how long ago the stored note of activity was made
    cookie,         \* the renewal cookie's age
    leaving,        \* a sign-out request is under way
    isActive, suspendedFor,     \* the account, and how long it has been suspended
    view,           \* the page a tab shows
    refreshTimer,   \* steps until a tab renews
    renewal,        \* renewals under way, by the timer and shared by requests
    calling,        \* a tab's requests to the API
    told,           \* a download said that the sign-in has expired
    \* History: guards read only the bound.
    untouched,      \* how long nobody has used a staff screen
    restored,       \* the session came back after it had ended
    acts

sessionVars == <<accessToken, lastActive, cookie, leaving, isActive, suspendedFor, view,
                 refreshTimer, renewal, calling, told, untouched, restored, acts>>
stored  == <<accessToken, lastActive>>
account == <<isActive, suspendedFor>>
inTabs  == <<view, refreshTimer, renewal, calling, told>>

Renewers  == {"timer", "request"}
NoRenewal == [step |-> "none"]
Renewal   == {NoRenewal} \cup [step : {"sent", "granted"}, cookie : BOOLEAN, late : BOOLEAN]
Ages(n)   == {None} \cup 0 .. n
LongIdle  == IDLE_LIMIT + ACCESS_LIFE

SessionTypeOK ==
    /\ accessToken \in Ages(ACCESS_LIFE) /\ lastActive \in Ages(IDLE_LIMIT + 1)
    /\ cookie \in Ages(COOKIE_LIFE) /\ leaving \in BOOLEAN
    /\ isActive \in BOOLEAN /\ suspendedFor \in 0 .. ACCESS_LIFE
    /\ view \in [Tab -> {"login", "staff"}]
    /\ refreshTimer \in [Tab -> Ages(REFRESH_EVERY)]
    /\ renewal \in [Tab -> [Renewers -> Renewal]]
    /\ calling \in [Tab -> {"none", "fetch", "download"}] /\ told \in [Tab -> BOOLEAN]
    /\ untouched \in 0 .. LongIdle /\ restored \in BOOLEAN /\ acts \in 0 .. MaxActs
    \* A renewal shared by requests belongs to one.
    /\ \A t \in Tab : renewal[t]["request"] # NoRenewal => calling[t] # "none"

\* Nobody is signed in, or someone has just signed in and opened some tabs.
SessionInit ==
    /\ \E open \in SUBSET Tab :
         LET age == IF open = {} THEN None ELSE 0 IN
         /\ accessToken = age /\ lastActive = age /\ cookie = age
         /\ view = [t \in Tab |-> IF t \in open THEN "staff" ELSE "login"]
         /\ refreshTimer = [t \in Tab |-> IF t \in open THEN REFRESH_EVERY ELSE None]
    /\ leaving = FALSE /\ isActive = TRUE /\ suspendedFor = 0
    /\ renewal = [t \in Tab |-> [k \in Renewers |-> NoRenewal]]
    /\ calling = [t \in Tab |-> "none"] /\ told = [t \in Tab |-> FALSE]
    /\ untouched = 0 /\ restored = FALSE /\ acts = 0

-----------------------------------------------------------------------------
SignedIn == accessToken # None
Works    == SignedIn /\ accessToken < ACCESS_LIFE
IdleTooLong == lastActive # None /\ lastActive > IDLE_LIMIT

Act == acts < MaxActs /\ acts' = acts + 1
Used == untouched' = 0 /\ restored' = FALSE

\* What is stored goes; renewals under way don't know.
ClearStored ==
    /\ accessToken' = None /\ lastActive' = None
AllLate(r) == [t \in Tab |-> [k \in Renewers |->
                 IF r[t][k] = NoRenewal THEN NoRenewal ELSE [r[t][k] EXCEPT !.late = TRUE]]]

\* window.location.href: the page is loaded, and what it was doing is dropped.
LoadLogin(t, r) ==
    /\ view' = [view EXCEPT ![t] = "login"]
    /\ refreshTimer' = [refreshTimer EXCEPT ![t] = None]
    /\ renewal' = [r EXCEPT ![t] = [k \in Renewers |-> NoRenewal]]
    /\ calling' = [calling EXCEPT ![t] = "none"] /\ told' = [told EXCEPT ![t] = FALSE]

-----------------------------------------------------------------------------
(* People.                                                                 *)

\* The last step of signing in (SignInCodes): startSession, and the staff page.
SignIn(t) ==
    /\ view[t] = "login" /\ isActive /\ Act /\ Used
    /\ accessToken' = 0 /\ lastActive' = 0 /\ cookie' = 0
    /\ view' = [view EXCEPT ![t] = "staff"]
    /\ refreshTimer' = [refreshTimer EXCEPT ![t] = REFRESH_EVERY]
    /\ UNCHANGED <<leaving, account, renewal, calling, told>>

\* logout() and router.replace: the page goes on running.
LogOut(t) ==
    /\ view[t] = "staff" /\ Act
    /\ ClearStored /\ leaving' = TRUE
    /\ view' = [view EXCEPT ![t] = "login"]
    /\ refreshTimer' = [refreshTimer EXCEPT ![t] = None]
    /\ renewal' = AllLate(renewal)
    /\ UNCHANGED <<cookie, account, calling, told, untouched, restored>>

\* A staff page is opened or reloaded: StaffGuard.
OpenScreen(t) ==
    /\ Act
    /\ IF SignedIn /\ ~IdleTooLong
       THEN /\ view' = [view EXCEPT ![t] = "staff"]
            /\ refreshTimer' = [refreshTimer EXCEPT ![t] = REFRESH_EVERY]
            /\ renewal' = [renewal EXCEPT ![t] = [k \in Renewers |-> NoRenewal]]
            /\ calling' = [calling EXCEPT ![t] = "none"] /\ told' = [told EXCEPT ![t] = FALSE]
            /\ lastActive' = IF lastActive = None THEN 0 ELSE lastActive
            /\ UNCHANGED <<accessToken, leaving>>
       ELSE /\ LoadLogin(t, IF SignedIn THEN AllLate(renewal) ELSE renewal)
            /\ IF SignedIn THEN ClearStored /\ leaving' = TRUE ELSE UNCHANGED <<stored, leaving>>
    /\ UNCHANGED <<cookie, account, untouched, restored>>

\* pointerdown, keydown or wheel on a staff page.
UseScreen(t) ==
    /\ view[t] = "staff" /\ Act /\ Used /\ lastActive' = 0
    /\ UNCHANGED <<accessToken, cookie, leaving, account, inTabs>>

Suspend ==
    /\ isActive /\ Act /\ isActive' = FALSE
    /\ UNCHANGED <<stored, cookie, leaving, suspendedFor, inTabs, untouched, restored>>

\* StaffGuard is rendered again after another tab has signed out.
GuardRenders(t) ==
    /\ view[t] = "staff" /\ ~SignedIn
    /\ view' = [view EXCEPT ![t] = "login"]
    /\ UNCHANGED <<stored, cookie, leaving, account, refreshTimer, renewal, calling, told,
                   untouched, restored, acts>>

-----------------------------------------------------------------------------
(* Renewal.                                                                *)

\* A 401, or the renewal it needed failed: the session is cleared and the page
\* goes to the sign-in page; a download only says so.  A failed renewal by the
\* timer goes there, too.
GiveUp(t, k, r, clears) ==
    IF k = "request" /\ calling[t] = "download"
    THEN /\ calling' = [calling EXCEPT ![t] = "none"] /\ told' = [told EXCEPT ![t] = TRUE]
         /\ renewal' = [IF clears THEN AllLate(r) ELSE r EXCEPT ![t]["request"] = NoRenewal]
         /\ refreshTimer' = IF clears THEN [refreshTimer EXCEPT ![t] = None] ELSE refreshTimer
         /\ IF clears THEN ClearStored ELSE UNCHANGED stored
         /\ UNCHANGED view
    ELSE LET ends == clears \/ k = "request" IN
         /\ LoadLogin(t, IF ends THEN AllLate(r) ELSE r)
         /\ IF ends THEN ClearStored ELSE UNCHANGED stored

\* Without the check for a stored user.
CanRenew_SignedOut == TRUE
CanRenew == SignedIn

\* Renews whoever uses it.
TooIdleToRenew_Never == FALSE
TooIdleToRenew == IdleTooLong

\* refreshAccessToken until it waits for the API.
refreshAccessToken(t, k) ==
    IF ~CanRenew
    THEN GiveUp(t, k, renewal, FALSE) /\ UNCHANGED leaving
    ELSE IF TooIdleToRenew
    THEN GiveUp(t, k, renewal, TRUE) /\ leaving' = TRUE
    ELSE /\ renewal' = [renewal EXCEPT ![t][k] =
                [step |-> "sent", cookie |-> cookie # None /\ cookie < COOKIE_LIFE, late |-> FALSE]]
         /\ lastActive' = IF lastActive = None THEN 0 ELSE lastActive
         /\ refreshTimer' = IF k = "timer" THEN [refreshTimer EXCEPT ![t] = None] ELSE refreshTimer
         /\ UNCHANGED <<accessToken, leaving, view, calling, told>>

TimerFires(t) ==
    /\ refreshTimer[t] = 0 /\ renewal[t]["timer"] = NoRenewal
    /\ refreshAccessToken(t, "timer")
    /\ UNCHANGED <<cookie, account, untouched, restored, acts>>

\* A request of a screen or a download, whose token the API refuses: it renews,
\* or shares the renewal under way.
CallRefused(t, kind) ==
    /\ view[t] = "staff" /\ calling[t] = "none" /\ ~Works
    /\ calling' = [calling EXCEPT ![t] = kind]
    /\ UNCHANGED <<stored, cookie, leaving, account, view, refreshTimer, renewal, told,
                   untouched, restored, acts>>

ensureFreshToken(t) ==
    /\ calling[t] # "none" /\ renewal[t]["request"] = NoRenewal
    /\ refreshAccessToken(t, "request")
    /\ UNCHANGED <<cookie, account, untouched, restored, acts>>

\* Whoever asks.
Granted_Anyone(cookieSent) == cookieSent
Granted(cookieSent) == cookieSent /\ isActive

\* The API reads the account; a grant waits to reach the browser.
ApiRenews(t, k) ==
    /\ renewal[t][k].step = "sent" /\ Granted(renewal[t][k].cookie)
    /\ renewal' = [renewal EXCEPT ![t][k].step = "granted"]
    /\ UNCHANGED <<stored, cookie, leaving, account, view, refreshTimer, calling, told,
                   untouched, restored, acts>>

\* The answer is stored, whatever has become of the session meanwhile.
RenewalGranted(t, k) ==
    /\ renewal[t][k].step = "granted"
    /\ accessToken' = 0 /\ cookie' = 0
    /\ restored' = (restored \/ ~SignedIn)
    /\ renewal' = [renewal EXCEPT ![t][k] = NoRenewal]
    /\ IF k = "timer" THEN refreshTimer' = [refreshTimer EXCEPT ![t] = REFRESH_EVERY] /\ UNCHANGED calling
       ELSE calling' = [calling EXCEPT ![t] = "none"] /\ UNCHANGED refreshTimer
    /\ UNCHANGED <<lastActive, leaving, account, view, told, untouched, acts>>

\* Refused, or answered with another error, which clears the session like a
\* refusal; or never answered, which doesn't.
RenewalFails(t, k) ==
    /\ renewal[t][k].step = "sent"
    /\ \E clears \in BOOLEAN : GiveUp(t, k, [renewal EXCEPT ![t][k] = NoRenewal], clears)
    /\ UNCHANGED <<cookie, leaving, account, untouched, restored, acts>>

\* The sign-out request is answered, or lost.
SignOutAnswered ==
    /\ leaving /\ leaving' = FALSE
    /\ cookie' \in {None, cookie}
    /\ UNCHANGED <<stored, account, inTabs, untouched, restored, acts>>

-----------------------------------------------------------------------------
Older(age, n) == IF age = None THEN None ELSE IF age < n THEN age + 1 ELSE n

TimeGoesOn ==
    /\ ~leaving /\ \A t \in Tab : calling[t] = "none" /\ renewal[t]["timer"] = NoRenewal
    /\ accessToken' = Older(accessToken, ACCESS_LIFE) /\ cookie' = Older(cookie, COOKIE_LIFE)
    /\ lastActive' = Older(lastActive, IDLE_LIMIT + 1) /\ untouched' = Older(untouched, LongIdle)
    /\ suspendedFor' = IF isActive THEN 0 ELSE Older(suspendedFor, ACCESS_LIFE)
    /\ refreshTimer' = [t \in Tab |-> IF refreshTimer[t] \in {None, 0} THEN refreshTimer[t]
                                      ELSE refreshTimer[t] - 1]
    /\ UNCHANGED <<leaving, isActive, view, renewal, calling, told, restored, acts>>

RenewalStep(t, k) == ApiRenews(t, k) \/ RenewalGranted(t, k) \/ RenewalFails(t, k)

SessionNext ==
    \/ TimeGoesOn \/ Suspend \/ SignOutAnswered
    \/ \E t \in Tab :
          \/ SignIn(t) \/ LogOut(t) \/ OpenScreen(t) \/ UseScreen(t) \/ GuardRenders(t)
          \/ \E kind \in {"fetch", "download"} : CallRefused(t, kind)
          \/ TimerFires(t) \/ ensureFreshToken(t)
          \/ \E k \in Renewers : RenewalStep(t, k)

SessionSpec == SessionInit /\ [][SessionNext]_sessionVars

-----------------------------------------------------------------------------
(* Properties                                                              *)

\* A session that ended in this browser comes back only by signing in, or by
\* a renewal already asked for when it ended: a request still running when
\* the screen signed out does not start it again (auth.ts:155).
SignedOutStaysOut ==
    [][~SignedIn /\ accessToken' # None =>
          \/ \E t \in Tab : SignIn(t)
          \/ \E t \in Tab, k \in Renewers :
                renewal[t][k] # NoRenewal /\ renewal[t][k].late /\ RenewalGranted(t, k)]_sessionVars

\* A token's life after the account was suspended, or after IDLE_LIMIT with
\* nobody at any screen, no token of this browser works, whatever its tabs
\* renewed meanwhile, unless a late renewal brought an ended session back.
AccessEnds ==
    /\ suspendedFor = ACCESS_LIFE => ~Works
    /\ untouched = LongIdle /\ ~restored => ~Works

\* Screens nobody uses come to the sign-in page and don't sit there signed out,
\* except one whose last download was refused: that stops its timer.
ScreensComeToLogin == <>[](\A t \in Tab : view[t] = "login" \/ told[t])

=============================================================================
