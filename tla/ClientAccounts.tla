--------------------------- MODULE ClientAccounts ---------------------------
(***************************************************************************)
(* The pages of the web client that show and change accounts: the list,    *)
(* one account and a new account of the administrator's application        *)
(* (features/accounts), and the profile of the user's (features/profile),  *)
(* on top of the login state of ClientSession.  A page keeps what the      *)
(* server answered when it was entered and sends it back, whole, when      *)
(* something on it is changed.                                             *)
(*                                                                         *)
(* An account is its rights; names, addresses and phone numbers are left   *)
(* out, and with them the validators of a form that was loaded.            *)
(***************************************************************************)
EXTENDS ClientSession

CONSTANTS
  NewAccount,   \* the form of an account to be created
  MaxChanges    \* bound on the requests that change accounts

ASSUME AccountsAssumption ==
  /\ NewAccount # Nobody
  /\ MaxChanges \in Nat

VARIABLES
  rows,     \* per tab, App.Account.all: per name, the rights shown, or Nobody
  form,     \* per tab, the account the page of one account, or the profile, has loaded
  fresh,    \* history, per tab: the rows were loaded, every request of the tab
            \* has succeeded since, with an administrator's session, and nobody
            \* else changed an account
  changes   \* how many requests have changed accounts

pageVars == <<rows, form, fresh, changes>>
vars     == <<sessionVars, pageVars>>

Form   == [name : Users, admin : BOOLEAN, suspended : BOOLEAN]
NoRows == [u \in Users |-> Nobody]

TypeOK ==
  /\ SessionTypeOK
  /\ rows \in [Tabs -> [Users -> Rights \cup {Nobody}]]
  /\ form \in [Tabs -> Form \cup {Nobody, NewAccount, ErrorObject}]
  /\ fresh \in [Tabs -> BOOLEAN]
  /\ changes \in 0 .. MaxChanges

Init ==
  /\ SessionInit
  /\ rows = [t \in Tabs |-> NoRows]
  /\ form = [t \in Tabs |-> Nobody]
  /\ fresh = [t \in Tabs |-> FALSE]
  /\ changes = 0

-----------------------------------------------------------------------------
(* The server.  An answer says whether the request was carried out, and    *)
(* with what result; any request may fail.                                 *)

Me(t) == Caller(Here(t).session)
MayFind(me, u) ==
  /\ me # Nobody /\ (me.admin \/ me.name = u)
  /\ accounts[u] # Nobody /\ (me.admin \/ ~accounts[u].suspended)
FormOf(u) == [name |-> u, admin |-> accounts[u].admin, suspended |-> accounts[u].suspended]
Loaded(me, u) == IF MayFind(me, u) THEN Answers(FormOf(u)) ELSE {ErrorObject}

\* A request that may not be carried out fails; another, only if requests may.
Carried(may, ok) == IF ok THEN may ELSE ~may \/ MayFail

\* AccountsResource.update
MayUpdate_Self(me, u, suspended) ==
  /\ me # Nobody /\ (me.admin \/ me.name = u)
  /\ accounts[u] # Nobody
MayUpdate(me, u, suspended) ==
  /\ me # Nobody /\ (me.admin \/ me.name = u)
  /\ ~(me.admin /\ me.name = u /\ suspended)
  /\ accounts[u] # Nobody
Update(me, u, rights, ok) ==
  /\ Carried(MayUpdate(me, u, rights.suspended), ok)
  /\ IF ok THEN SetAccount(u, [rights EXCEPT !.admin = @ /\ me.admin])
     ELSE UNCHANGED <<accounts, sessions>>
Create(me, u, admin, ok) ==
  /\ Carried(me # Nobody /\ me.admin /\ accounts[u] = Nobody, ok)
  /\ IF ok THEN SetAccount(u, [admin |-> admin, suspended |-> FALSE])
     ELSE UNCHANGED <<accounts, sessions>>
\* An account that is not there counts as deleted.
Delete(me, u, ok) ==
  /\ Carried(me # Nobody /\ me.admin /\ me.name # u, ok)
  /\ IF ok THEN SetAccount(u, Nobody) ELSE UNCHANGED <<accounts, sessions>>

-----------------------------------------------------------------------------
(* The pages.                                                              *)

\* A tab that leaves a page forgets what it showed.
Leaves(t) ==
  /\ rows' = [rows EXCEPT ![t] = IF tab'[t].page = "accounts" THEN @ ELSE NoRows]
  /\ form' = [form EXCEPT ![t] = IF tab'[t].page \in {"account", "profile", "start"} THEN @ ELSE Nobody]
  /\ fresh' = [fresh EXCEPT ![t] = tab'[t].page = "accounts" /\ @]
  /\ UNCHANGED changes

\* App.Account.findAll empties the list before it looks at the answer.
EnterAccounts_ShowsError(t) ==
  \E loaded \in BOOLEAN :
    /\ Enter(t, "accounts", loaded)
    /\ IF Me(t) # Nobody /\ Me(t).admin THEN loaded \/ MayFail ELSE ~loaded
    /\ rows' = [rows EXCEPT ![t] = IF loaded THEN accounts ELSE ErrorObject]
    /\ fresh' = [fresh EXCEPT ![t] = loaded]
    /\ form' = [form EXCEPT ![t] = IF loaded THEN Nobody ELSE @]
    /\ UNCHANGED changes
EnterAccounts(t) ==
  \E loaded \in BOOLEAN :
    /\ Enter(t, "accounts", loaded)
    /\ IF Me(t) # Nobody /\ Me(t).admin THEN loaded \/ MayFail ELSE ~loaded
    /\ rows' = [rows EXCEPT ![t] = IF loaded THEN accounts ELSE NoRows]
    /\ fresh' = [fresh EXCEPT ![t] = loaded]
    /\ form' = [form EXCEPT ![t] = IF loaded THEN Nobody ELSE @]
    /\ UNCHANGED changes
EnterAccount(t) ==
  /\ Enter(t, "account", TRUE)
  /\ \E found \in {NewAccount} \cup UNION {Loaded(Me(t), u) : u \in Users} :
       form' = [form EXCEPT ![t] = found]
  /\ rows' = [rows EXCEPT ![t] = NoRows] /\ fresh' = [fresh EXCEPT ![t] = FALSE]
  /\ UNCHANGED changes
\* The name is that of the stored account; an error object has none.
ProfileForm(t) ==
  \E found \in (IF Here(t).account \in Identity
                THEN Loaded(Me(t), Here(t).account.name) ELSE {ErrorObject}) :
    form' = [form EXCEPT ![t] = found]
EnterProfile(t) ==
  /\ Enter(t, "profile", TRUE) /\ ProfileForm(t)
  /\ UNCHANGED <<rows, fresh, changes>>
\* The profile page of a document being loaded is loaded before the token is checked.
AskTokenAndForm(t) ==
  /\ AskToken(t)
  /\ IF tab[t].goal = "profile" THEN ProfileForm(t) ELSE UNCHANGED form
  /\ UNCHANGED <<rows, fresh, changes>>

\* What a request of t to change accounts does to what is shown.
Alters(t, ok) ==
  /\ changes < MaxChanges /\ changes' = changes + 1
  /\ fresh' = [s \in Tabs |-> fresh[s] /\ IF s = t THEN ok /\ Me(t).admin
                                          ELSE accounts' = accounts]
  /\ UNCHANGED <<browserOf, stored, notices>>

\* Account.toggleStatus: the row is flipped, sent, and left as it is, since
\* an error object is true as well.  doBulkToggleStatus does this to each
\* selected row in turn.
Flipped(t, u) == [rows[t][u] EXCEPT !.suspended = ~@]
ToggleStatus_NotShown(t, u, ok) ==
  /\ AtRest(t) /\ tab[t].page = "accounts" /\ rows[t][u] # Nobody
  /\ Update(Me(t), u, Flipped(t, u), ok)
  /\ Alters(t, ok)
  /\ UNCHANGED <<rows, form, tab>>
ToggleStatus(t, u, ok) ==
  /\ AtRest(t) /\ tab[t].page = "accounts" /\ rows[t][u] # Nobody
  /\ rows' = [rows EXCEPT ![t][u] = Flipped(t, u)]
  /\ Update(Me(t), u, Flipped(t, u), ok)
  /\ Alters(t, ok)
  /\ UNCHANGED <<form, tab>>
\* Account.destroy, for one row or, in turn, for each selected row
DestroyRow(t, u, ok) ==
  /\ AtRest(t) /\ tab[t].page = "accounts" /\ rows[t][u] # Nobody
  /\ Delete(Me(t), u, ok)
  /\ rows' = [rows EXCEPT ![t][u] = IF ok THEN Nobody ELSE @]
  /\ Alters(t, ok)
  /\ UNCHANGED <<form, tab>>

\* ManageAccountController.doUpdateAccount: the account changed is the one
\* whose name is typed, and it is not suspended afterwards.  A form that was
\* not loaded does not pass the validator.
UpdateAccount(t, u, admin, ok) ==
  /\ AtRest(t) /\ tab[t].page = "account" /\ form[t] \in Form
  /\ Update(Me(t), u, [admin |-> admin, suspended |-> FALSE], ok)
  /\ GoesTo(t, "accounts")
  /\ Alters(t, ok)
  /\ UNCHANGED <<rows, form>>
DeleteAccount(t, ok) ==
  /\ AtRest(t) /\ tab[t].page = "account" /\ form[t] \in Form
  /\ Delete(Me(t), form[t].name, ok)
  /\ IF ok THEN GoesTo(t, "accounts") ELSE UNCHANGED tab
  /\ Alters(t, ok)
  /\ UNCHANGED <<rows, form>>
\* AddAccountController.doCreateAccount, for one account or for another as well
CreateAccount(t, u, admin, ok) ==
  /\ AtRest(t) /\ form[t] = NewAccount
  /\ Create(Me(t), u, admin, ok)
  /\ GoesTo(t, "accounts") \/ UNCHANGED tab
  /\ Alters(t, ok)
  /\ UNCHANGED <<rows, form>>
\* ProfileController.doEditProfile sends the rights as they were loaded.
EditProfile(t, ok) ==
  /\ AtRest(t) /\ tab[t].page = "profile" /\ form[t] \in Form
  /\ Update(Me(t), form[t].name,
            [admin |-> form[t].admin, suspended |-> form[t].suspended], ok)
  /\ Alters(t, ok)
  /\ UNCHANGED <<rows, form, tab>>

-----------------------------------------------------------------------------

\* What a tab does by itself.
Runs(t) ==
  \/ /\ \/ LoadFails(t) \/ StartAdmin(t) \/ StartLoggedOut(t)
        \/ TakeToken(t) \/ TakeLogin(t) \/ TakeCode(t)
        \/ TransitionFails(t) \/ NeedLogin(t) \/ Refuse(t) \/ EnterLogin(t) \/ TimerFires(t)
        \/ Enter(t, "index", TRUE)
     /\ Leaves(t)
  \/ AskTokenAndForm(t)
  \/ EnterAccounts(t) \/ EnterAccount(t) \/ EnterProfile(t)

\* What its user makes it do.
Acts(t) ==
  \/ /\ \/ \E page \in Pages(tab[t].app) : Visit(t, page)
        \/ \E app \in Apps : Load(t, app)
        \/ \E u \in Users : AskLogin(t, u)
        \/ AskCode(t) \/ CloseCode(t) \/ ResetPassword(t) \/ Logout(t)
     /\ Leaves(t)
  \/ \E ok \in BOOLEAN :
       \/ EditProfile(t, ok) \/ DeleteAccount(t, ok)
       \/ \E u \in Users :
            \/ ToggleStatus(t, u, ok) \/ DestroyRow(t, u, ok)
            \/ \E admin \in BOOLEAN : UpdateAccount(t, u, admin, ok)
                                      \/ CreateAccount(t, u, admin, ok)

Next == \E t \in Tabs : Runs(t) \/ Acts(t)

\* Scripts run and servers answer, if only with an error; users need do nothing.
Spec == Init /\ [][Next]_vars /\ \A t \in Tabs : WF_vars(Runs(t))

-----------------------------------------------------------------------------

\* The list an administrator sees is the server's, however rows are toggled
\* and removed (account_model.js), while his own requests succeed, under his
\* own session, and nobody else changes an account.  (Another tab may log in as
\* somebody else meanwhile: the page sends its rows with that session, and the
\* server keeps back the rights it does not give.)
ListTrue ==
  \A t \in Tabs : tab[t].page = "accounts" /\ fresh[t] => rows[t] = accounts

ActiveAdmins == {u \in Users : accounts[u] # Nobody /\ accounts[u].admin /\ ~accounts[u].suspended}
OutdatedRight == \E k \in DOMAIN sessions :
  sessions[k].live /\ sessions[k].admin # (sessions[k].name \in ActiveAdmins)

\* The last administrator is not suspended or deleted, only demoted, unless a
\* session has not the rights of its account: one that kept those of an account
\* that lost them, or one opened before its account became an administrator's
\* (AccountsResource.update, delete).
LastAdminStays ==
  [][\A u \in Users :
       ActiveAdmins = {u} /\ ActiveAdmins' = {} /\ ~OutdatedRight =>
         accounts'[u] # Nobody /\ ~accounts'[u].suspended]_vars
=============================================================================
