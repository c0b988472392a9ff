---------------------------- MODULE ClientSession ----------------------------
(***************************************************************************)
(* Login state of the web client: the user's application (cloudos-base.js, *)
(* common-base.js) and the administrator's (admin-base.js), opened in the  *)
(* tabs of several browsers.  The tabs of one browser share localStorage   *)
(* (common/cloud_os.js), which names the session and holds a copy of the   *)
(* account.  A tab is blocked while it waits for an answer, since every    *)
(* request of api.js is synchronous; other tabs and the server go on.  The *)
(* answer is fixed when the request is sent.  A request whose answer is    *)
(* written to the storage is two actions, Ask... and Take...; any other is *)
(* one.                                                                    *)
(*                                                                         *)
(* The server keeps the accounts and, per session, a copy of its account   *)
(* made at login, by which it knows the caller (AccountSessions).          *)
(*                                                                         *)
(* A definition whose name has a suffix (Logout_KeepsAccount) is the one   *)
(* that follows it with a plausible bug; the specification never uses it.  *)
(***************************************************************************)
EXTENDS Naturals, Sequences, FiniteSets

CONSTANTS
  Tabs, Browsers,
  Placements,   \* the ways the tabs are spread over the browsers
  UserPages,    \* the pages of the user's application ...
  AdminPages,   \* ... and of the administrator's
  Users,        \* account names
  FirstAdmins,  \* those that are administrators to begin with
  TwoFactor,    \* those that use two-factor authentication
  Changes,      \* what may become of accounts: pairs of a name and its rights, or Nobody
  MayFail,      \* whether requests may fail: no server, or a session that expired
  Nobody,       \* null: no account, session, page or request
  ErrorObject,  \* the object api.js returns for a request that failed
  CodeNeeded,   \* an answer with a session id and no account
  Undefined,    \* the text "undefined": no session, and not JSON
  MaxLogins     \* bound on the sessions ever opened

VARIABLES
  browserOf,  \* the browser a tab belongs to; it never changes
  accounts,   \* server: per name, the rights of the account, or Nobody
  sessions,   \* server: every session opened, with its copy of the account
  stored,     \* per browser, cloudos_session and cloudos_account
  notices,    \* per browser, how many messages are on the NotificationStack
  tab         \* per tab, its application, its page and what it waits for

sessionVars == <<browserOf, accounts, sessions, stored, notices, tab>>

Rights   == [admin : BOOLEAN, suspended : BOOLEAN]
Identity == [name : Users, admin : BOOLEAN]
\* "former": its account has been deleted since; one created again is another.
Session  == [name : Users, admin : BOOLEAN, live : BOOLEAN, former : BOOLEAN]
Token    == 1 .. MaxLogins

ASSUME ClientAssumption ==
  /\ IsFiniteSet(Tabs)
  /\ Placements \subseteq [Tabs -> Browsers]
  /\ {"index", "login"} \subseteq UserPages
  /\ {"login", "accounts"} \subseteq AdminPages
  /\ {"start", "blank", "dead", Nobody} \cap (UserPages \cup AdminPages) = {}
  /\ FirstAdmins \subseteq Users
  /\ TwoFactor \subseteq Users
  /\ Changes \subseteq Users \X (Rights \cup {Nobody})
  /\ MayFail \in BOOLEAN
  /\ Nobody \notin {ErrorObject, CodeNeeded, Undefined}
  /\ ErrorObject \notin {CodeNeeded, Undefined} /\ CodeNeeded # Undefined
  /\ {Nobody, ErrorObject, CodeNeeded, Undefined} \cap (Rights \cup Identity \cup Token) = {}
  /\ MaxLogins \in Nat

Stored == [session : Token \cup {Nobody, Undefined},
           account : Identity \cup {Nobody, ErrorObject, Undefined}]
Empty  == [session |-> Nobody, account |-> Nobody]

Apps       == {"user", "admin"}
Pages(app) == IF app = "user" THEN UserPages ELSE AdminPages
Protected  == (UserPages \cup AdminPages) \ {"index", "login"}
Home(app)  == IF app = "user" THEN "index" ELSE "accounts"

\* A request under way: the session it names or opens, or the account whose
\* code it needs, and the answer.
Request == [kind : {"token", "login", "code"},
            of : Token \cup Users \cup {Nobody, Undefined},
            answer : Identity \cup {ErrorObject, CodeNeeded}]

\* page "start" is a document being loaded, "blank" an application that has
\* entered no route, "dead" one whose scripts failed.
Tab == [app   : Apps,
        page  : UserPages \cup AdminPages \cup {"start", "blank", "dead"},
        goal  : UserPages \cup AdminPages \cup {Nobody},   \* the page it is going to
        after : Protected \cup {Nobody},                   \* LoginController.previousTransition
        modal : Users \cup {Nobody},                       \* whose code the dialog asks for
        timer : BOOLEAN,                                   \* it will go to login by itself
        asked : Request \cup {Nobody}]                     \* the request it waits for

SessionTypeOK ==
  /\ browserOf \in [Tabs -> Browsers]
  /\ accounts \in [Users -> Rights \cup {Nobody}]
  /\ sessions \in Seq(Session) /\ Len(sessions) <= MaxLogins
  /\ stored \in [Browsers -> Stored]
  /\ notices \in [Browsers -> Nat]
  /\ tab \in [Tabs -> Tab]

-----------------------------------------------------------------------------

Start(app, goal) ==
  [app |-> app, page |-> "start", goal |-> goal,
   after |-> Nobody, modal |-> Nobody, timer |-> FALSE, asked |-> Nobody]

SessionInit ==
  /\ browserOf \in Placements
  /\ accounts = [u \in Users |-> [admin |-> u \in FirstAdmins, suspended |-> FALSE]]
  /\ sessions = << >>
  /\ stored = [b \in Browsers |-> Empty]
  /\ notices = [b \in Browsers |-> 0]
  /\ tab = [t \in Tabs |-> Start("user", "index")]

Here(t)     == stored[browserOf[t]]
Starting(t) == tab[t].page = "start" /\ tab[t].asked = Nobody
Moving(t)   == tab[t].goal # Nobody /\ tab[t].page # "start" /\ tab[t].asked = Nobody
AtRest(t)   == tab[t].goal = Nobody /\ tab[t].page # "dead" /\ tab[t].asked = Nobody

\* The caller of a request that names session k.
Known(k)  == k \in DOMAIN sessions /\ sessions[k].live
Caller(k) == IF Known(k) THEN [name |-> sessions[k].name, admin |-> sessions[k].admin]
             ELSE Nobody

\* What the client receives when the server has this to answer.
Answers(value) == ({value} \ {Nobody})
                  \cup (IF value = Nobody \/ MayFail THEN {ErrorObject} ELSE {})

Becomes(t, new) == tab' = [tab EXCEPT ![t] = new]
Shows(t, page)  == Becomes(t, [tab[t] EXCEPT !.page = page, !.goal = Nobody])
GoesTo(t, page) == Becomes(t, [tab[t] EXCEPT !.goal = page])
Asks(t, kind, of, answer) ==
  Becomes(t, [tab[t] EXCEPT !.asked = [kind |-> kind, of |-> of, answer |-> answer]])
Store(t, value) == stored' = [stored EXCEPT ![browserOf[t]] = value]

\* NotificationStack.push and pop
Push(t) == notices' = [notices EXCEPT ![browserOf[t]] = @ + 1]
Pop_Unchecked(t) == notices' = [notices EXCEPT ![browserOf[t]] = @ - 1]
Pop(t) == notices' = [notices EXCEPT ![browserOf[t]] = IF @ = 0 THEN 0 ELSE @ - 1]

-----------------------------------------------------------------------------
(* Loading the document.                                                   *)

\* The class bodies call CloudOs.account(), which cannot parse the account.
LoadFails(t) ==
  /\ Starting(t) /\ Here(t).account = Undefined
  /\ Becomes(t, [Start(tab[t].app, Nobody) EXCEPT !.page = "dead"])
  /\ UNCHANGED <<browserOf, accounts, sessions, stored, notices>>

\* The administrator's ApplicationRoute checks nothing.
StartAdmin(t) ==
  /\ Starting(t) /\ Here(t).account # Undefined /\ tab[t].app = "admin"
  /\ Becomes(t, [tab[t] EXCEPT !.page = "blank"])
  /\ UNCHANGED <<browserOf, accounts, sessions, stored, notices>>

\* The user's shows a message left for it and, without a session, the login
\* page; a protected page has been remembered by then.
StartLoggedOut(t) ==
  /\ Starting(t) /\ tab[t].app = "user"
  /\ Here(t).account # Undefined /\ Here(t).session = Nobody
  /\ Pop(t)
  /\ Becomes(t, [tab[t] EXCEPT !.page = "blank", !.goal = "login",
                   !.after = IF tab[t].goal \in Protected THEN tab[t].goal ELSE Nobody])
  /\ UNCHANGED <<browserOf, accounts, sessions, stored>>

\* With a session it asks the server whose it is.
AskToken_KeepsNotice(t) ==
  /\ Starting(t) /\ tab[t].app = "user"
  /\ Here(t).account # Undefined /\ Here(t).session # Nobody
  /\ \E answer \in Answers(Caller(Here(t).session)) :
       Asks(t, "token", Here(t).session, answer)
  /\ UNCHANGED <<browserOf, accounts, sessions, stored, notices>>
AskToken(t) ==
  /\ Starting(t) /\ tab[t].app = "user"
  /\ Here(t).account # Undefined /\ Here(t).session # Nobody
  /\ Pop(t)
  /\ \E answer \in Answers(Caller(Here(t).session)) :
       Asks(t, "token", Here(t).session, answer)
  /\ UNCHANGED <<browserOf, accounts, sessions, stored>>

\* Any answer is an object, so what came is stored as the account.
TakeToken(t) ==
  /\ tab[t].asked # Nobody /\ tab[t].asked.kind = "token"
  /\ Store(t, [Here(t) EXCEPT !.account = tab[t].asked.answer])
  /\ Becomes(t, IF tab[t].goal = "login"
                THEN [tab[t] EXCEPT !.asked = Nobody, !.page = "login", !.goal = "index"]
                ELSE [tab[t] EXCEPT !.asked = Nobody, !.page = tab[t].goal, !.goal = Nobody])
  /\ UNCHANGED <<browserOf, accounts, sessions, notices>>

-----------------------------------------------------------------------------
(* Transitions of the router, one hook at a time.                          *)

\* CloudOs.account() throws in a hook of any route but login.
TransitionFails(t) ==
  /\ Moving(t) /\ Here(t).account = Undefined /\ tab[t].goal # "login"
  /\ GoesTo(t, Nobody)
  /\ UNCHANGED <<browserOf, accounts, sessions, stored, notices>>

\* CloudOSProtectedRoute.beforeModel without a session
NeedLogin(t) ==
  /\ Moving(t) /\ Here(t).account # Undefined
  /\ tab[t].goal \in Protected /\ Here(t).session = Nobody
  /\ Becomes(t, [tab[t] EXCEPT !.goal = "login", !.after = tab[t].goal])
  /\ UNCHANGED <<browserOf, accounts, sessions, stored, notices>>

\* The administrator's turns away an account that is not one.
NotAuthorized(t) ==
  /\ tab[t].app = "admin" /\ Here(t).account # Nobody
  /\ Here(t).account \in Identity => ~Here(t).account.admin
Refuse(t) ==
  /\ Moving(t) /\ Here(t).account # Undefined
  /\ tab[t].goal \in Protected /\ Here(t).session # Nobody /\ NotAuthorized(t)
  /\ Push(t)
  /\ Becomes(t, Start("user", "index"))
  /\ UNCHANGED <<browserOf, accounts, sessions, stored>>

\* The model hook of the accounts page throws when the list is refused.
Enter(t, page, loaded) ==
  /\ Moving(t) /\ Here(t).account # Undefined
  /\ tab[t].goal = page /\ page # "login"
  /\ page \in Protected => Here(t).session # Nobody /\ ~NotAuthorized(t)
  /\ loaded \/ page = "accounts"
  /\ IF loaded THEN Shows(t, page) ELSE GoesTo(t, Nobody)
  /\ UNCHANGED <<browserOf, accounts, sessions, stored, notices>>

\* LoginRoute.didTransition: whoever has an account is sent on.
EnterLogin(t) ==
  /\ Moving(t) /\ tab[t].goal = "login"
  /\ IF Here(t).account \in {Nobody, Undefined}
     THEN Shows(t, "login")
     ELSE Becomes(t, [tab[t] EXCEPT !.page = "login", !.goal = Home(tab[t].app)])
  /\ UNCHANGED <<browserOf, accounts, sessions, stored, notices>>

-----------------------------------------------------------------------------
(* What the user does.                                                     *)

\* follows a link of the application, unless the dialog covers the page
Visit(t, page) ==
  /\ AtRest(t) /\ tab[t].modal = Nobody
  /\ page \in Pages(tab[t].app) \ {tab[t].page}
  /\ GoesTo(t, page)
  /\ UNCHANGED <<browserOf, accounts, sessions, stored, notices>>

\* loads the page again, or the other application
Load(t, app) ==
  /\ AtRest(t) \/ tab[t].page = "dead"
  /\ Becomes(t, Start(app, IF app = tab[t].app /\ tab[t].page \in Pages(app)
                           THEN tab[t].page ELSE Home(app)))
  /\ UNCHANGED <<browserOf, accounts, sessions, stored, notices>>

\* A session is opened for an account that exists and is not suspended.
Opens(t, kind, u) ==
  /\ accounts[u] # Nobody /\ ~accounts[u].suspended
  /\ Len(sessions) < MaxLogins
  /\ sessions' = Append(sessions, [name |-> u, admin |-> accounts[u].admin, live |-> TRUE,
                                   former |-> FALSE])
  /\ Asks(t, kind, Len(sessions) + 1, [name |-> u, admin |-> accounts[u].admin])
NeedsCode(t, u) ==
  /\ u \in TwoFactor /\ accounts[u] # Nobody /\ ~accounts[u].suspended
  /\ Asks(t, "login", u, CodeNeeded)
  /\ UNCHANGED sessions
Rejected(t, kind) ==
  /\ Asks(t, kind, Nobody, ErrorObject)
  /\ UNCHANGED sessions

\* LoginController.doLogin; a known device needs no code
AskLogin(t, u) ==
  /\ AtRest(t) /\ tab[t].page = "login" /\ tab[t].modal = Nobody
  /\ Opens(t, "login", u) \/ NeedsCode(t, u) \/ Rejected(t, "login")
  /\ UNCHANGED <<browserOf, accounts, stored, notices>>

\* The dialog for the code exists in the user's application only.
TakeLogin(t) ==
  LET it == tab[t].asked IN
  /\ it # Nobody /\ it.kind = "login"
  /\ IF it.answer \in Identity
     THEN /\ Store(t, [session |-> it.of, account |-> it.answer])
          /\ Becomes(t, [tab[t] EXCEPT !.asked = Nobody, !.after = Nobody,
                           !.goal = IF tab[t].after = Nobody THEN Home(tab[t].app)
                                    ELSE tab[t].after])
     ELSE /\ UNCHANGED stored
          /\ Becomes(t, [tab[t] EXCEPT !.asked = Nobody,
                           !.modal = IF it.answer = CodeNeeded /\ tab[t].app = "user"
                                     THEN it.of ELSE @])
  /\ UNCHANGED <<browserOf, accounts, sessions, notices>>

\* TwoFactorVerificationController
AskCode(t) ==
  /\ AtRest(t) /\ tab[t].modal # Nobody
  /\ Opens(t, "code", tab[t].modal) \/ Rejected(t, "code")
  /\ UNCHANGED <<browserOf, accounts, stored, notices>>
\* An error object has neither a session nor an account, and passes the test.
TakeCode(t) ==
  LET it == tab[t].asked IN
  /\ it # Nobody /\ it.kind = "code"
  /\ Store(t, IF it.answer \in Identity THEN [session |-> it.of, account |-> it.answer]
              ELSE [session |-> Undefined, account |-> Undefined])
  /\ Becomes(t, Start("user", "index"))
  /\ UNCHANGED <<browserOf, accounts, sessions, notices>>
CloseCode(t) ==
  /\ AtRest(t) /\ tab[t].modal # Nobody
  /\ Becomes(t, [tab[t] EXCEPT !.modal = Nobody])
  /\ UNCHANGED <<browserOf, accounts, sessions, stored, notices>>

\* ResetPasswordController.doResetPassword: whatever the server answers, the
\* tab goes to the login page three seconds later, from wherever it is then.
ResetPassword(t) ==
  /\ AtRest(t) /\ tab[t].page = "resetPassword" /\ ~tab[t].timer
  /\ Becomes(t, [tab[t] EXCEPT !.timer = TRUE])
  /\ UNCHANGED <<browserOf, accounts, sessions, stored, notices>>
TimerFires(t) ==
  /\ tab[t].timer /\ tab[t].asked = Nobody
  /\ Becomes(t, [tab[t] EXCEPT !.timer = FALSE,
                   !.goal = IF tab[t].page = "login" THEN @ ELSE "login"])
  /\ UNCHANGED <<browserOf, accounts, sessions, stored, notices>>

\* The server is not told: the session lives on there.
Logout_KeepsAccount(t) ==
  /\ AtRest(t) /\ tab[t].modal = Nobody
  /\ Store(t, [Here(t) EXCEPT !.session = Nobody])
  /\ notices' = [notices EXCEPT ![browserOf[t]] = 0]
  /\ Becomes(t, Start("user", "index"))
  /\ UNCHANGED <<browserOf, accounts, sessions>>
Logout(t) ==
  /\ AtRest(t) /\ tab[t].modal = Nobody
  /\ Store(t, Empty)
  /\ notices' = [notices EXCEPT ![browserOf[t]] = 0]
  /\ Becomes(t, Start("user", "index"))
  /\ UNCHANGED <<browserOf, accounts, sessions>>

\* An account is created, changed or deleted; suspended, it loses its sessions,
\* deleted it does not.  Sessions name the account's uuid, not its name.
Ended(u) == [k \in DOMAIN sessions |->
              [sessions[k] EXCEPT !.live = @ /\ (sessions[k].name # u \/ sessions[k].former)]]
Left(u)  == [k \in DOMAIN sessions |->
              [sessions[k] EXCEPT !.former = @ \/ sessions[k].name = u]]
SetAccount(u, rights) ==
  /\ accounts' = [accounts EXCEPT ![u] = rights]
  /\ sessions' = IF rights = Nobody THEN Left(u)
                 ELSE IF rights.suspended THEN Ended(u) ELSE sessions
AccountChanges(u, rights) ==
  /\ accounts[u] # rights
  /\ SetAccount(u, rights)
  /\ UNCHANGED <<browserOf, stored, notices, tab>>

-----------------------------------------------------------------------------

\* What a tab does by itself ...
SessionRuns(t) ==
  \/ LoadFails(t) \/ StartAdmin(t) \/ StartLoggedOut(t)
  \/ AskToken(t) \/ TakeToken(t) \/ TakeLogin(t) \/ TakeCode(t)
  \/ TransitionFails(t) \/ NeedLogin(t) \/ Refuse(t) \/ EnterLogin(t) \/ TimerFires(t)
  \/ \E page \in Pages(tab[t].app) : \E loaded \in BOOLEAN : Enter(t, page, loaded)
\* ... and what its user makes it do.
SessionActs(t) ==
  \/ \E page \in Pages(tab[t].app) : Visit(t, page)
  \/ \E app \in Apps : Load(t, app)
  \/ \E u \in Users : AskLogin(t, u)
  \/ AskCode(t) \/ CloseCode(t) \/ ResetPassword(t) \/ Logout(t)

SessionNext ==
  \/ \E t \in Tabs : SessionRuns(t) \/ SessionActs(t)
  \/ \E change \in Changes : AccountChanges(change[1], change[2])

\* Scripts run and servers answer, if only with an error; users need do nothing.
SessionSafety == SessionInit /\ [][SessionNext]_sessionVars
SessionSpec   == SessionSafety /\ \A t \in Tabs : WF_sessionVars(SessionRuns(t))

-----------------------------------------------------------------------------

\* The storage of a browser contradicts itself: a session without an account,
\* an account without a session, or the account of another session.
Mixed(value) ==
  \/ (value.session = Nobody) # (value.account = Nobody)
  \/ (value.session = Undefined) # (value.account = Undefined)
  \/ /\ value.session \in DOMAIN sessions /\ value.account \in Identity
     /\ value.account.name # sessions[value.session].name

\* The answer t is about to store is about a session that the storage does
\* not name any more, or one that never was.
TakesLate(t) ==
  /\ tab[t].asked # Nobody /\ tab'[t].asked = Nobody
  /\ tab[t].asked.kind = "token"
  /\ tab[t].asked.of \in {Undefined, Here(t).session} => tab[t].asked.of = Undefined

\* The two keys of localStorage name one login, whichever tabs log in and out
\* (cloud_os.js, login and logout), until a tab stores the answer to a check
\* of a token that another tab has replaced or removed meanwhile.
MixedOnlyByLateAnswer ==
  [][\A b \in Browsers :
       ~Mixed(stored[b]) /\ Mixed(stored[b])' =>
         \E t \in Tabs : browserOf[t] = b /\ TakesLate(t)]_sessionVars

\* The documents of a browser that will show a message when they start, and
\* those that failed instead.
Awaiting(b) == {t \in Tabs : browserOf[t] = b /\ tab[t].app = "user"
                             /\ (Starting(t) \/ tab[t].page = "dead")}
Waited(b) == notices[b] <= Cardinality(Awaiting(b))

\* A message left by an application that turned its user away (admin-base.js)
\* waits for a document of the user's application that is being loaded: it does
\* not come up later, over another page, unless a document whose scripts failed
\* is given up for the administrator's application, which shows no message.
NoticesAwaited ==
  [][\A b \in Browsers :
       Waited(b) /\ ~Waited(b)' =>
         \E t \in Tabs : /\ browserOf[t] = b /\ tab[t].page = "dead"
                         /\ tab'[t].page = "start" /\ tab'[t].app = "admin"]_sessionVars

\* An account without a session makes the administrator's application go
\* from the login page to the accounts page and back for ever.
Orphaned(b) == stored[b].session = Nobody /\ stored[b].account # Nobody

\* A tab stores a login: a session and its account.
LogsIn(t) ==
  /\ tab[t].asked # Nobody /\ tab'[t].asked = Nobody
  /\ tab[t].asked.kind \in {"login", "code"} /\ tab[t].asked.answer \in Identity

=============================================================================
