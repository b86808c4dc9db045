----------------------------- MODULE SignInCodes -----------------------------
(***************************************************************************)
(* The second step of staff and admin sign-in                              *)
(* (apps/api/src/modules/auth/loginCodes.ts, auth/service.ts, and the      *)
(* changes of an account in users/service.ts that end its sign-ins).  A    *)
(* right password emails a code; the code starts the session.  Every       *)
(* database statement is a step: requests for one sign-in overlap.         *)
(***************************************************************************)
EXTENDS Integers, FiniteSets

CONSTANTS
    Account, SignIn,    \* users, and ids of rows of login_codes
    AuthRequest,        \* requests that may be in progress at the same time
    MAX_WRONG_CODES, MAX_SENDS, MAX_SENDS_PER_HOUR,
    RESEND_WAIT, CODE_LIFE, HOUR,   \* in the model's minutes
    LastMinute,         \* bounds the clock
    MaxEdits,           \* changes of accounts by an admin (bounds the model)
    NoRow

ASSUME SignInAssumption ==
    /\ IsFiniteSet(SignIn) /\ IsFiniteSet(AuthRequest)
    /\ NoRow \notin [user : Account, attempts : Nat, sends : Nat, sentAt : Nat,
                     expiresAt : Nat, used : BOOLEAN, revoked : BOOLEAN]
    /\ MAX_WRONG_CODES \in Nat /\ MAX_SENDS \in Nat \ {0} /\ MAX_SENDS_PER_HOUR \in Nat \ {0}
    /\ RESEND_WAIT \in Nat /\ CODE_LIFE \in Nat \ {0} /\ HOUR \in Nat
    /\ LastMinute \in Nat /\ MaxEdits \in Nat

VARIABLES
    minute,
    active,     \* users.is_active
    signIn,     \* login_codes
    auth,       \* the requests in progress
    \* History, read by no guard but the bound on edits.
    older,      \* the sign-ins there were when a sign-in's request revoked the older ones
    compared,   \* how many entries were compared with a sign-in's code
    sessions,   \* how many sessions a sign-in started
    ended,      \* sign-ins forgotten, or ended by a change of the account that has been answered
    mailed,     \* the codes emailed: which send of which row, to whom, and when it was asked for
    edits

signInVars == <<minute, active, signIn, auth, older, compared, sessions, ended, mailed, edits>>
signInHistory == <<older, compared, sessions, ended, mailed, edits>>

-----------------------------------------------------------------------------
\* A row of login_codes.  A resend replaces the code and counts one more send in
\* one statement, so the number of sends also names the code.
SignInRow == [user : Account, attempts : Nat, sends : Nat, sentAt : Nat, expiresAt : Nat,
              used : BOOLEAN, revoked : BOOLEAN]
NoRequest == [op |-> "idle"]
AuthCalls ==
    {NoRequest}
    \cup [op : {"countFirst", "revokeOlder", "revokeAll"}, user : Account, at : Nat]
    \cup [op : {"create"}, user : Account, at : Nat, older : SUBSET SignIn]
    \cup [op : {"email", "forget"}, row : SignIn, at : Nat]
    \cup [op : {"try"}, row : SignIn, right : BOOLEAN]
    \cup [op : {"use"}, row : SignIn]
    \cup [op : {"countAgain", "claim", "emailAgain"}, row : SignIn, at : Nat, sends : Nat]

\* A send is named by its row and how many there were with it.
Emails == [row : SignIn, send : Nat, to : Account, at : Nat]

\* Rows, requests and history hold values of their types.
SignInTypeOK ==
    /\ minute \in Nat /\ active \in [Account -> BOOLEAN]
    /\ signIn \in [SignIn -> SignInRow \cup {NoRow}]
    /\ auth \in [AuthRequest -> AuthCalls]
    /\ older \in [SignIn -> SUBSET SignIn]
    /\ compared \in [SignIn -> Nat] /\ sessions \in [SignIn -> Nat] /\ ended \subseteq SignIn
    /\ mailed \subseteq Emails /\ edits \in Nat

SignInInit ==
    /\ minute = 0
    /\ active = [a \in Account |-> TRUE]
    /\ signIn = [s \in SignIn |-> NoRow]
    /\ auth = [r \in AuthRequest |-> NoRequest]
    /\ older = [s \in SignIn |-> {}]
    /\ compared = [s \in SignIn |-> 0] /\ sessions = [s \in SignIn |-> 0]
    /\ ended = {}
    /\ mailed = {} /\ edits = 0

-----------------------------------------------------------------------------
Answer(r) == auth' = [auth EXCEPT ![r] = NoRequest]
GoOnAuth(r, c) == auth' = [auth EXCEPT ![r] = c]

Stored(s) == signIn[s] # NoRow
Pending(row) == ~row.used /\ ~row.revoked
Usable(row) == Pending(row) /\ row.expiresAt > minute

SentSince(a, time) == {s \in SignIn : Stored(s) /\ signIn[s].user = a /\ signIn[s].sentAt >= time}

\* The rows counted, and not the emails sent for each.
SendsInLastHour_Rows(a, at) == Cardinality(SentSince(a, at - HOUR))

\* The sum of the rows' sends, as the number of those sends.
SendsInLastHour(a, at) ==
    Cardinality(UNION {{s} \X (1 .. signIn[s].sends) : s \in SentSince(a, at - HOUR)})

\* The sign-ins of an account that are waiting for their code.
PendingOf(a) == {s \in SignIn : Stored(s) /\ signIn[s].user = a /\ Pending(signIn[s])}

RevokePendingCodes(a) ==
    signIn' = [s \in SignIn |-> IF s \in PendingOf(a) THEN [signIn[s] EXCEPT !.revoked = TRUE]
                                ELSE signIn[s]]

-----------------------------------------------------------------------------
(* startCodeChallenge, after a right password.                               *)

\* loginWithPassword: the account is read and the password compared.
LoginWithPassword(r, a) ==
    /\ auth[r] = NoRequest /\ active[a]
    /\ GoOnAuth(r, [op |-> "countFirst", user |-> a, at |-> minute])
    /\ UNCHANGED <<minute, active, signIn, signInHistory>>

CountFirst(r) ==
    LET c == auth[r] IN
    /\ c.op = "countFirst"
    /\ IF SendsInLastHour(c.user, c.at) >= MAX_SENDS_PER_HOUR THEN Answer(r)
       ELSE GoOnAuth(r, [c EXCEPT !.op = "revokeOlder"])
    /\ UNCHANGED <<minute, active, signIn, signInHistory>>

ToCreate(c) == [op |-> "create", user |-> c.user, at |-> c.at,
                older |-> {s \in SignIn : Stored(s) /\ signIn[s].user = c.user}]

\* Only the newest code of an account works.
RevokeOlder(r) ==
    /\ auth[r].op = "revokeOlder"
    /\ RevokePendingCodes(auth[r].user)
    /\ GoOnAuth(r, ToCreate(auth[r]))
    /\ UNCHANGED <<minute, active, signInHistory>>

\* Rows are alike: it doesn't matter which id a new one has.
NewRows == {s \in SignIn : ~Stored(s) /\ compared[s] = 0 /\ s \notin ended}

CreateSignIn(r) ==
    LET c == auth[r]
        s == CHOOSE n \in NewRows : TRUE
    IN
    /\ c.op = "create" /\ NewRows # {}
    /\ signIn' = [signIn EXCEPT ![s] =
         [user |-> c.user, attempts |-> 0, sends |-> 1, sentAt |-> c.at,
          expiresAt |-> c.at + CODE_LIFE, used |-> FALSE, revoked |-> FALSE]]
    /\ GoOnAuth(r, [op |-> "email", row |-> s, at |-> c.at])
    /\ older' = [older EXCEPT ![s] = c.older]
    /\ UNCHANGED <<minute, active, compared, sessions, ended, mailed, edits>>

Mail(s, send, at) ==
    mailed' = mailed \cup {[row |-> s, send |-> send, to |-> signIn[s].user, at |-> at]}

\* emailCode of a new sign-in: when nothing could be sent, the row is deleted.
EmailFirst(r) ==
    LET c == auth[r] IN
    /\ c.op = "email"
    /\ \/ Mail(c.row, 1, c.at) /\ Answer(r)
       \/ GoOnAuth(r, [c EXCEPT !.op = "forget"]) /\ UNCHANGED mailed
    /\ UNCHANGED <<minute, active, signIn, older, compared, sessions, ended, edits>>

ForgetSignIn(r) ==
    /\ auth[r].op = "forget"
    /\ signIn' = [signIn EXCEPT ![auth[r].row] = NoRow]
    /\ Answer(r)
    /\ ended' = ended \cup {auth[r].row}
    /\ UNCHANGED <<minute, active, older, compared, sessions, mailed, edits>>

-----------------------------------------------------------------------------
\* A sign-in's id reaches the browser when its first code has been emailed.
Answered(s) == Stored(s) /\ \A r \in AuthRequest : auth[r].op \in {"email", "forget"} => auth[r].row # s

\* pendingChallenge: the row and its account, as they are when they are read.
PendingChallenge(s) ==
    /\ Answered(s) /\ Usable(signIn[s])
    /\ signIn[s].attempts < MAX_WRONG_CODES
    /\ active[signIn[s].user]

\* verifyCode: the entry is the code the row has now, or any other.
VerifyCode(r, s) ==
    /\ auth[r] = NoRequest /\ PendingChallenge(s)
    /\ \E right \in BOOLEAN : GoOnAuth(r, [op |-> "try", row |-> s, right |-> right])
    /\ UNCHANGED <<minute, active, signIn, signInHistory>>

\* The tries were checked when the row was read.
CanTry_CheckedBefore(s) == Usable(signIn[s])

CanTry(s) == Usable(signIn[s]) /\ signIn[s].attempts < MAX_WRONG_CODES

\* A try is taken in one conditional statement, and the entry compared with the
\* code that was read before.
TakeTry(r) ==
    LET c == auth[r] IN
    /\ c.op = "try"
    /\ IF ~CanTry(c.row) THEN Answer(r) /\ UNCHANGED <<signIn, compared>>
       ELSE /\ signIn' = [signIn EXCEPT ![c.row].attempts = @ + 1]
            /\ compared' = [compared EXCEPT ![c.row] = @ + 1]
            /\ IF c.right THEN GoOnAuth(r, [op |-> "use", row |-> c.row])
               ELSE Answer(r)
    /\ UNCHANGED <<minute, active, older, sessions, ended, mailed, edits>>

\* Without revokedAt among the conditions.
CanUse_Revoked(s) == ~signIn[s].used /\ signIn[s].expiresAt > minute

CanUse(s) == Usable(signIn[s])

\* A right code starts the session, if the sign-in is still usable at that moment.
UseCode(r) ==
    LET s == auth[r].row IN
    /\ auth[r].op = "use"
    /\ IF CanUse(s)
       THEN /\ signIn' = [signIn EXCEPT ![s].used = TRUE]
            /\ sessions' = [sessions EXCEPT ![s] = @ + 1]
       ELSE UNCHANGED <<signIn, sessions>>
    /\ Answer(r)
    /\ UNCHANGED <<minute, active, older, compared, ended, mailed, edits>>

-----------------------------------------------------------------------------
(* resendCode.                                                               *)

ResendCode(r, s) ==
    /\ auth[r] = NoRequest /\ PendingChallenge(s)
    /\ minute - signIn[s].sentAt >= RESEND_WAIT
    /\ signIn[s].sends < MAX_SENDS
    /\ GoOnAuth(r, [op |-> "countAgain", row |-> s, at |-> minute, sends |-> signIn[s].sends])
    /\ UNCHANGED <<minute, active, signIn, signInHistory>>

CountAgain(r) ==
    LET c == auth[r] IN
    /\ c.op = "countAgain"
    /\ IF SendsInLastHour(signIn[c.row].user, c.at) >= MAX_SENDS_PER_HOUR
       THEN Answer(r) ELSE GoOnAuth(r, [c EXCEPT !.op = "claim"])
    /\ UNCHANGED <<minute, active, signIn, signInHistory>>

\* One more send, of a code that lives from now on.
Resent(row, at) == [row EXCEPT !.sends = @ + 1, !.sentAt = at, !.expiresAt = at + CODE_LIFE]

CanClaim(c) == CanTry(c.row) /\ signIn[c.row].sends = c.sends

\* The resend is claimed first, then emailed; a failure to email changes nothing.
ClaimResend(r) ==
    LET c == auth[r] IN
    /\ c.op = "claim"
    /\ IF CanClaim(c)
       THEN /\ signIn' = [signIn EXCEPT ![c.row] = Resent(signIn[c.row], c.at)]
            /\ GoOnAuth(r, [c EXCEPT !.op = "emailAgain"])
       ELSE Answer(r) /\ UNCHANGED signIn
    /\ UNCHANGED <<minute, active, signInHistory>>

EmailAgain(r) ==
    LET c == auth[r] IN
    /\ c.op = "emailAgain"
    /\ \/ Mail(c.row, c.sends + 1, c.at)
       \/ UNCHANGED mailed
    /\ Answer(r)
    /\ UNCHANGED <<minute, active, signIn, older, compared, sessions, ended, edits>>

-----------------------------------------------------------------------------
(* updateStaffUser: a new password or address, or a suspension.              *)

UpdateStaffUser(r, a) ==
    /\ auth[r] = NoRequest /\ edits < MaxEdits
    /\ edits' = edits + 1
    \* Suspended; or another password or address, of an account suspended or not.
    /\ \/ active' = [active EXCEPT ![a] = FALSE]
       \/ UNCHANGED active
    /\ GoOnAuth(r, [op |-> "revokeAll", user |-> a, at |-> minute])
    /\ UNCHANGED <<minute, signIn, older, compared, sessions, ended, mailed>>

\* Reinstating an account ends nothing.
Reinstate(a) ==
    /\ ~active[a]
    /\ active' = [active EXCEPT ![a] = TRUE]
    /\ UNCHANGED <<minute, signIn, auth, signInHistory>>

RevokeAll(r) ==
    LET c == auth[r] IN
    /\ c.op = "revokeAll"
    /\ RevokePendingCodes(c.user)
    /\ ended' = ended \cup {s \in SignIn : Stored(s) /\ signIn[s].user = c.user}
    /\ Answer(r)
    /\ UNCHANGED <<minute, active, older, compared, sessions, mailed, edits>>

PassMinute ==
    /\ minute < LastMinute
    /\ minute' = minute + 1
    /\ UNCHANGED <<active, signIn, auth, signInHistory>>

-----------------------------------------------------------------------------
SignInNext ==
    \/ PassMinute
    \/ \E a \in Account : Reinstate(a)
    \/ \E r \in AuthRequest :
          \/ \E a \in Account : LoginWithPassword(r, a) \/ UpdateStaffUser(r, a)
          \/ \E s \in SignIn : VerifyCode(r, s) \/ ResendCode(r, s)
          \/ CountFirst(r) \/ RevokeOlder(r) \/ CreateSignIn(r) \/ EmailFirst(r) \/ ForgetSignIn(r)
          \/ TakeTry(r) \/ UseCode(r)
          \/ CountAgain(r) \/ ClaimResend(r) \/ EmailAgain(r) \/ RevokeAll(r)

SignInSpec == SignInInit /\ [][SignInNext]_signInVars

-----------------------------------------------------------------------------
\* The emails to an account in the hour that begins at a moment.
MailedWithin(a, from) == {m \in mailed : m.to = a /\ from <= m.at /\ m.at <= from + HOUR}

\* Codes entered at the same moment get no more than MAX_WRONG_CODES tries
\* between them, resends included, and a sign-in starts one session, even when
\* the right code arrives twice at the same moment, or together with a resend
\* (loginCodes.ts:130).  An account gets no more emails in an hour than its limit
\* explains: requests that counted at the same moment can exceed it, by one fewer
\* than there are of them and never by more (loginCodes.ts:79, 159).
CodesAreLimited ==
    /\ \A s \in SignIn : compared[s] <= MAX_WRONG_CODES /\ sessions[s] <= 1
    /\ \A m \in mailed : Cardinality(MailedWithin(m.to, m.at))
                          <= MAX_SENDS_PER_HOUR - 1 + Cardinality(AuthRequest)

\* Only the newest code of an account works (loginCodes.ts:65): a sign-in that
\* was there when another one's request revoked the older codes never becomes
\* usable again, not by a resend under way either.  Two codes are usable only
\* when their requests ran at once.
OlderCodesEnd == \A s \in SignIn : \A t \in older[s] : Stored(t) => ~Usable(signIn[t])

\* When a change of an account has been answered, no sign-in begun before it
\* starts a session, not even by a request that was in progress, and a resend
\* doesn't bring it back; nor does one bring back a code that a newer one ended.
EndedStaysEnded ==
    /\ []OlderCodesEnd
    /\ [][\A s \in SignIn : s \in ended => sessions'[s] = sessions[s]]_signInVars
=============================================================================
