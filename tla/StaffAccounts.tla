---------------------------- MODULE StaffAccounts ----------------------------
(***************************************************************************)
(* Accounts of staff and admins: the admin's page                          *)
(* (apps/web/src/app/admin/users/page.tsx), open in several browsers, and  *)
(* the API behind it (apps/api/src/modules/users/service.ts).  The API     *)
(* believes a token until it is renewed, whatever becomes of the account   *)
(* (middleware/authenticate.ts, authorize.ts: its 15 minutes are not       *)
(* counted); a renewal reads the account again (auth/service.ts).  A page  *)
(* works on the list it loaded, and another tab of its browser may sign in *)
(* as someone else.                                                        *)
(***************************************************************************)
EXTENDS Integers

CONSTANTS
    Person, Address,    \* who may have an account, and email addresses
    Browser,
    FirstAddress,       \* each person's, to begin with
    MaxSaves,           \* bounds the changes of accounts
    NoAccount, Nobody

Role == {"admin", "staff"}
UserRow == [role : Role, isActive : BOOLEAN, email : Address]

ASSUME AccountsAssumption ==
    /\ MaxSaves \in Nat
    /\ FirstAddress \in [Person -> Address]
    /\ \A p, q \in Person : FirstAddress[p] = FirstAddress[q] => p = q
    /\ NoAccount \notin UserRow
    /\ Nobody \notin [who : Person, role : Role]

VARIABLES
    users,      \* the table
    token,      \* what each browser has stored
    usersPage,  \* the page in each browser, where it is open
    \* History: guards read only the bound.
    wished,     \* what admins last asked each account to be
    actedLate,  \* a change was made by someone who wasn't an active admin any more
    saves

accountVars == <<users, token, usersPage, wished, actedLate, saves>>

Accounts == [Person -> UserRow \cup {NoAccount}]
Token    == [who : Person, role : Role]
AccountChange == [role : Role] \cup [isActive : BOOLEAN] \cup [email : Address] \cup UserRow
NoDialog == [kind |-> "none"]
Dialog   == {NoDialog, [kind |-> "create"]} \cup [kind : {"edit"}, of : Person, opened : UserRow]
            \cup [kind : {"confirm"}, of : Person, change : AccountChange]
NoPage   == [open |-> FALSE]
Page     == [open : {TRUE}, listed : Accounts, loading : BOOLEAN, dialog : Dialog]

\* Addresses are unique (users.email).
AccountsTypeOK ==
    /\ users \in Accounts /\ wished \in Accounts
    /\ \A p, q \in Person : users[p] # NoAccount /\ users[q] # NoAccount /\ p # q
                               => users[p].email # users[q].email
    /\ token \in [Browser -> Token \cup {Nobody}]
    /\ usersPage \in [Browser -> Page \cup {NoPage}]
    /\ \A b \in Browser : usersPage[b].open => token[b] # Nobody /\ token[b].role = "admin"
    /\ actedLate \in BOOLEAN /\ saves \in 0 .. MaxSaves

ActiveAdmin(p) == users[p] # NoAccount /\ users[p].isActive /\ users[p].role = "admin"

\* One admin; the others are of either role, or still to be invited.
AccountsInit ==
    /\ users \in {u \in Accounts : \A p \in Person : u[p] # NoAccount => u[p].email = FirstAddress[p]}
    /\ \E p \in Person : ActiveAdmin(p)
    /\ token = [b \in Browser |-> Nobody] /\ usersPage = [b \in Browser |-> NoPage]
    /\ wished = users /\ actedLate = FALSE /\ saves = 0

-----------------------------------------------------------------------------
(* Sessions.                                                               *)

\* authenticate and authorize("admin").
Believed(b) == token[b] # Nobody /\ token[b].role = "admin"

OpenedPage == [open |-> TRUE, listed |-> [p \in Person |-> NoAccount], loading |-> TRUE,
               dialog |-> NoDialog]

\* issueSession, stored by the browser.  An open page stays as it is while its
\* browser is an admin's, and nobody else sees it.
StartSession(b, p) ==
    /\ token' = [token EXCEPT ![b] = [who |-> p, role |-> users[p].role]]
    /\ usersPage' = [usersPage EXCEPT ![b] =
                       IF users[p].role # "admin" THEN NoPage
                       ELSE IF @.open THEN @ ELSE OpenedPage]

SignInAs(b, p) ==
    /\ users[p] # NoAccount /\ users[p].isActive
    /\ StartSession(b, p)
    /\ UNCHANGED <<users, wished, actedLate, saves>>

\* By its timer, or because a request was refused.
RenewToken(b) ==
    /\ token[b] # Nobody
    /\ IF users[token[b].who].isActive THEN StartSession(b, token[b].who)
       ELSE /\ token' = [token EXCEPT ![b] = Nobody]
            /\ usersPage' = [usersPage EXCEPT ![b] = NoPage]
    /\ UNCHANGED <<users, wished, actedLate, saves>>

-----------------------------------------------------------------------------
(* The API.                                                                *)

\* Whoever it is about.
OwnAccess_Allowed(actor, p, change) == FALSE

\* "You can't deactivate or demote your own account"
OwnAccess(actor, p, change) ==
    /\ p = actor
    /\ \/ "isActive" \in DOMAIN change /\ ~change.isActive
       \/ "role" \in DOMAIN change /\ change.role = "staff"

AddressTaken(p, change) ==
    /\ "email" \in DOMAIN change
    /\ \E q \in Person \ {p} : users[q] # NoAccount /\ users[q].email = change.email

MaySave(actor, p, change) == ~OwnAccess(actor, p, change) /\ ~AddressTaken(p, change)

\* A field nothing was sent for keeps its value.
Updated(row, change) ==
    [f \in {"role", "isActive", "email"} |-> IF f \in DOMAIN change THEN change[f] ELSE row[f]]

\* updateStaffUser, and createStaffUser for someone without an account.
SaveUser(b, p, change, wanted) ==
    LET row == IF users[p] = NoAccount THEN change ELSE Updated(users[p], change) IN
    /\ saves < MaxSaves /\ saves' = saves + 1
    /\ users' = [users EXCEPT ![p] = row]
    /\ wished' = [wished EXCEPT ![p] = IF wished[p] = NoAccount THEN wanted
                                         ELSE Updated(wished[p], wanted)]
    /\ actedLate' = (actedLate \/ ~ActiveAdmin(token[b].who))
    /\ UNCHANGED token

-----------------------------------------------------------------------------
(* The page.                                                               *)

InPage(b, list, loading, dialog) == usersPage' = [usersPage EXCEPT ![b] =
    [open |-> TRUE, listed |-> list, loading |-> loading, dialog |-> dialog]]
SetDialog(b, dialog)   == InPage(b, usersPage[b].listed, usersPage[b].loading, dialog)
CloseDialog(b, loading) == InPage(b, usersPage[b].listed, loading, NoDialog)
Leave == UNCHANGED <<users, token, wished, actedLate, saves>>

ListAnswered(b) ==
    /\ usersPage[b].open /\ usersPage[b].loading /\ Believed(b)
    /\ InPage(b, users, FALSE, usersPage[b].dialog) /\ Leave

\* The list that was there is shown again, with a message.
ListFails(b) ==
    /\ usersPage[b].open /\ usersPage[b].loading
    /\ InPage(b, usersPage[b].listed, FALSE, usersPage[b].dialog) /\ Leave

\* A row whose buttons can be pressed.
OnList(b, p) ==
    /\ usersPage[b].open /\ ~usersPage[b].loading /\ usersPage[b].dialog = NoDialog
    /\ usersPage[b].listed[p] # NoAccount

ChangeRole(b, p) ==
    /\ OnList(b, p) /\ p # token[b].who
    /\ \E role \in Role \ {usersPage[b].listed[p].role} :
          SetDialog(b, [kind |-> "confirm", of |-> p, change |-> [role |-> role]])
    /\ Leave

AskToSuspend(b, p) ==
    /\ OnList(b, p) /\ p # token[b].who /\ usersPage[b].listed[p].isActive
    /\ SetDialog(b, [kind |-> "confirm", of |-> p, change |-> [isActive |-> FALSE]])
    /\ Leave

EditUser(b, p) ==
    /\ OnList(b, p)
    /\ SetDialog(b, [kind |-> "edit", of |-> p, opened |-> usersPage[b].listed[p]])
    /\ Leave

InviteUser(b) ==
    /\ usersPage[b].open /\ usersPage[b].dialog = NoDialog
    /\ SetDialog(b, [kind |-> "create"]) /\ Leave

CancelDialog(b) ==
    /\ usersPage[b].open /\ usersPage[b].dialog # NoDialog
    /\ SetDialog(b, NoDialog) /\ Leave

\* saveChange: the list is loaded again, unless the API refused or its answer
\* was lost.
saveChange(b, p, change) ==
    /\ Believed(b)
    /\ \/ /\ MaySave(token[b].who, p, change) /\ SaveUser(b, p, change, change)
          /\ \E answered \in BOOLEAN : CloseDialog(b, answered)
       \/ /\ ~MaySave(token[b].who, p, change)
          /\ SetDialog(b, NoDialog) /\ Leave

confirmPending(b) ==
    /\ usersPage[b].open /\ usersPage[b].dialog.kind = "confirm"
    /\ saveChange(b, usersPage[b].dialog.of, usersPage[b].dialog.change)

Reactivate(b, p) ==
    /\ OnList(b, p) /\ p # token[b].who /\ ~usersPage[b].listed[p].isActive
    /\ saveChange(b, p, [isActive |-> TRUE])

\* The whole row as it was when the form was opened.
EditSent_Whole(opened, typed) == [opened EXCEPT !.email = typed]

\* Only what changed is sent.
EditSent(opened, typed) == [email |-> typed]

\* A form stays open when the API refuses it, or its answer is lost.
FormSaved(b, p, change, wanted) ==
    /\ Believed(b) /\ MaySave(token[b].who, p, change) /\ SaveUser(b, p, change, wanted)
    /\ \/ CloseDialog(b, TRUE)
       \/ UNCHANGED usersPage

SaveEdit(b, typed) ==
    LET form == usersPage[b].dialog IN
    /\ usersPage[b].open /\ form.kind = "edit" /\ typed # form.opened.email
    /\ FormSaved(b, form.of, EditSent(form.opened, typed), [email |-> typed])

CreateUser(b, p, row) ==
    /\ usersPage[b].open /\ usersPage[b].dialog.kind = "create" /\ users[p] = NoAccount
    /\ row.isActive /\ FormSaved(b, p, row, row)

-----------------------------------------------------------------------------
AccountsNext ==
    \E b \in Browser :
          \/ RenewToken(b) \/ ListAnswered(b) \/ ListFails(b)
          \/ InviteUser(b) \/ CancelDialog(b) \/ confirmPending(b)
          \/ \E typed \in Address : SaveEdit(b, typed)
          \/ \E p \in Person :
                \/ SignInAs(b, p) \/ ChangeRole(b, p) \/ AskToSuspend(b, p) \/ EditUser(b, p)
                \/ Reactivate(b, p) \/ \E row \in UserRow : CreateUser(b, p, row)

AccountsSpec == AccountsInit /\ [][AccountsNext]_accountVars

-----------------------------------------------------------------------------
(* Properties                                                              *)

\* There is always an admin who can sign in, so that nobody is locked out for
\* good, unless a change was made with the token of someone who had lost that
\* right (users/service.ts:65): not through a list that is out of date, nor
\* through a dialog left open while its browser became another admin's.
SomeAdminRemains == (\E p \in Person : ActiveAdmin(p)) \/ actedLate

\* An account is what admins last asked of each of its fields: saving a form
\* opened on an older list doesn't undo what another admin changed meanwhile
\* (users/page.tsx:436).
EditsKeepOthers == users = wished
=============================================================================
