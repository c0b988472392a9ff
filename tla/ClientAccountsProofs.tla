------------------------ MODULE ClientAccountsProofs ------------------------
(***************************************************************************)
(* Proofs about ClientSession and about ClientAccounts, which extends it, for*)
(* any tabs, browsers, pages, names and bounds: the type invariants, that the*)
(* two keys of localStorage come to contradict each other only by the late *)
(* answer to a check of a token, that a message is put up for a page that  *)
(* will show it, that the list an administrator sees stays the server's,   *)
(* and that requests of sessions with the rights of their account leave    *)
(* the last administrator one that can log in.                             *)
(*                                                                         *)
(* The login state rests on IInv.  An answer under way must be about the   *)
(* session it names or opens (RequestOK), or storing it would mix two logins;*)
(* a browser names sessions that were opened (StoredOK), or one opened later*)
(* could turn out to be another's; and a document being loaded knows where it*)
(* is going (TabOK).  The messages need Fallen, of tabs that have died.    *)
(* The accounts pages add the types of what they show and, for the list,   *)
(* that a page being loaded has nothing to show yet (PlacesOK).            *)
(***************************************************************************)
EXTENDS ClientAccounts, FiniteSetTheorems, TLAPS

-----------------------------------------------------------------------------
(* The login state: ClientSession.                                         *)

RequestOK(it, ss) ==
  /\ it.kind = "token" => it.of \in DOMAIN ss \cup {Undefined} /\ it.answer # CodeNeeded
  /\ it.answer \in Identity => it.of \in DOMAIN ss /\ ss[it.of].name = it.answer.name
  /\ it.answer = CodeNeeded => it.of \in Users

TabOK(x, ss) ==
  /\ x \in Tab
  /\ x.page = "start" => x.goal # Nobody
  /\ x.asked # Nobody => RequestOK(x.asked, ss) /\ (x.asked.kind = "token" => x.page = "start")

StoredOK(value, ss) == value \in Stored /\ value.session \in DOMAIN ss \cup {Nobody, Undefined}

SessionsOK(ss) == ss \in Seq(Session) /\ Len(ss) <= MaxLogins

TabsOK == tab \in [Tabs -> Tab] /\ \A t \in Tabs : TabOK(tab[t], sessions)
BrowsersOK == stored \in [Browsers -> Stored] /\ \A b \in Browsers : StoredOK(stored[b], sessions)

IInv ==
  /\ browserOf \in [Tabs -> Browsers]
  /\ accounts \in [Users -> Rights \cup {Nobody}]
  /\ notices \in [Browsers -> Nat]
  /\ SessionsOK(sessions) /\ BrowsersOK /\ TabsOK

\* The sessions of a step are those before it, some of them ended, and perhaps
\* one more.
Continue(ss, later) == \A k \in DOMAIN ss : k \in DOMAIN later /\ later[k].name = ss[k].name

-----------------------------------------------------------------------------
(* Facts about tabs, answers and sessions.                                 *)

LEMMA LaterTab ==
  ASSUME NEW x, NEW ss, NEW later, TabOK(x, ss), Continue(ss, later)
  PROVE  TabOK(x, later)
BY DEF TabOK, RequestOK, Continue

LEMMA LaterStored ==
  ASSUME NEW value, NEW ss, NEW later, StoredOK(value, ss), Continue(ss, later)
  PROVE  StoredOK(value, later)
BY DEF StoredOK, Continue

LEMMA TabIsOK ==
  ASSUME IInv, NEW t \in Tabs
  PROVE  /\ tab[t] \in Tab /\ TabOK(tab[t], sessions)
         /\ browserOf[t] \in Browsers /\ Here(t) \in Stored /\ StoredOK(Here(t), sessions)
BY DEF IInv, TabsOK, TabOK, BrowsersOK, StoredOK, Here

\* The sets of Tab, by name.
Shown      == UserPages \cup AdminPages \cup {"start", "blank", "dead"}
Goals      == UserPages \cup AdminPages \cup {Nobody}
Remembered == Protected \cup {Nobody}
Asked      == Users \cup {Nobody}
Waiting    == Request \cup {Nobody}

LEMMA TabSets ==
  Tab = [app : Apps, page : Shown, goal : Goals, after : Remembered, modal : Asked,
         timer : BOOLEAN, asked : Waiting]
BY DEF Tab, Shown, Goals, Remembered, Asked, Waiting

LEMMA HomeIsPage ==
  /\ \A app \in Apps : Home(app) \in UserPages \cup AdminPages
  /\ \A app \in Apps : Pages(app) \subseteq UserPages \cup AdminPages
  /\ {"index", "login"} \subseteq UserPages \cup AdminPages
  /\ Protected \subseteq UserPages \cup AdminPages
  /\ {"start", "blank", "dead", Nobody} \cap (UserPages \cup AdminPages) = {}
  /\ {"user", "admin"} = Apps
  /\ Nobody \in Goals /\ UserPages \cup AdminPages \subseteq Goals \cap Shown
  /\ Nobody \in Remembered /\ Nobody \in Asked /\ Nobody \in Waiting
  /\ {"start", "blank", "dead"} \subseteq Shown
  /\ Users \subseteq Asked /\ Protected \subseteq Remembered
<1>1. \A app \in Apps : Home(app) \in UserPages \cup AdminPages BY ClientAssumption DEF Home
<1>2. \A app \in Apps : Pages(app) \subseteq UserPages \cup AdminPages BY DEF Pages
<1> QED BY <1>1, <1>2, ClientAssumption
       DEF Protected, Apps, Goals, Shown, Remembered, Asked, Waiting

\* A document that begins to load is as it should be.
LEMMA StartIsOK ==
  ASSUME NEW app \in Apps, NEW goal \in UserPages \cup AdminPages, NEW ss
  PROVE  TabOK(Start(app, goal), ss)
<1> DEFINE new == Start(app, goal)
<1>1. new \in Tab BY HomeIsPage, TabSets DEF Start
<1>2. new.goal = goal /\ new.asked = Nobody BY DEF Start
<1>3. goal # Nobody BY ClientAssumption
<1> QED BY <1>1, <1>2, <1>3 DEF TabOK

\* So is one that is loaded and waits for nothing.
LEMMA RestingIsOK ==
  ASSUME NEW new \in Tab, NEW ss, new.asked = Nobody, new.page # "start" \/ new.goal # Nobody
  PROVE  TabOK(new, ss)
BY DEF TabOK

\* And one that begins to wait.
LEMMA AskingIsOK ==
  ASSUME NEW x \in Tab, NEW ss, NEW it \in Request, RequestOK(it, ss),
         it.kind = "token" => x.page = "start", TabOK(x, ss)
  PROVE  TabOK([x EXCEPT !.asked = it], ss)
<1> DEFINE new == [x EXCEPT !.asked = it]
<1>1. it \in Waiting BY DEF Waiting
<1>2. new \in Tab /\ new.page = x.page /\ new.goal = x.goal /\ new.asked = it BY <1>1, TabSets
<1> QED BY <1>2 DEF TabOK

-----------------------------------------------------------------------------
(* Steps that change one tab.                                              *)

LEMMA BecomesIsOK ==
  ASSUME TabsOK, NEW t \in Tabs, NEW new, TabOK(new, sessions'), Becomes(t, new),
         Continue(sessions, sessions')
  PROVE  TabsOK'
<1>1. new \in Tab BY DEF TabOK
<1>2. tab' \in [Tabs -> Tab] BY <1>1 DEF TabsOK, Becomes
<1>3. ASSUME NEW s \in Tabs PROVE TabOK(tab'[s], sessions')
  <2>1. CASE s = t BY <2>1 DEF TabsOK, Becomes
  <2>2. CASE s # t
    <3>1. tab'[s] = tab[s] BY <2>2 DEF TabsOK, Becomes
    <3>2. TabOK(tab[s], sessions) BY DEF TabsOK
    <3> QED BY <3>1, <3>2, LaterTab
  <2> QED BY <2>1, <2>2
<1> QED BY <1>2, <1>3 DEF TabsOK

\* ... and nothing else but the messages
LEMMA OnlyTabIsOK ==
  ASSUME IInv, NEW t \in Tabs, NEW new, TabOK(new, sessions), Becomes(t, new),
         notices' = notices \/ Pop(t) \/ Push(t), UNCHANGED <<browserOf, accounts, sessions, stored>>
  PROVE  IInv'
<1>1. Continue(sessions, sessions') BY DEF Continue
<1>2. TabsOK' BY <1>1, BecomesIsOK DEF IInv
<1>3. notices' \in [Browsers -> Nat]
  <2>1. notices \in [Browsers -> Nat] /\ browserOf[t] \in Browsers BY DEF IInv
  <2>2. CASE Pop(t)
    <3> DEFINE n == IF notices[browserOf[t]] = 0 THEN 0 ELSE notices[browserOf[t]] - 1
    <3>1. n \in Nat BY <2>1
    <3>2. notices' = [notices EXCEPT ![browserOf[t]] = n] BY <2>2 DEF Pop
    <3> HIDE DEF n
    <3> QED BY <2>1, <3>1, <3>2
  <2>3. CASE Push(t) BY <2>1, <2>3 DEF Push
  <2> QED BY <2>1, <2>2, <2>3
<1> QED BY <1>2, <1>3 DEF IInv, BrowsersOK, SessionsOK

\* ... or what is stored
LEMMA StoreIsOK ==
  ASSUME IInv, NEW t \in Tabs, NEW new, NEW value, TabOK(new, sessions), Becomes(t, new),
         StoredOK(value, sessions), Store(t, value) \/ stored' = stored,
         notices' \in [Browsers -> Nat], UNCHANGED <<browserOf, accounts, sessions>>
  PROVE  IInv'
<1>1. Continue(sessions, sessions') BY DEF Continue
<1>2. TabsOK' BY <1>1, BecomesIsOK DEF IInv
<1>3. BrowsersOK'
  <2>1. value \in Stored /\ browserOf[t] \in Browsers BY DEF StoredOK, IInv
  <2> QED BY <2>1 DEF IInv, BrowsersOK, Store
<1> QED BY <1>2, <1>3 DEF IInv, SessionsOK

-----------------------------------------------------------------------------
(* What a tab does with the stores of the server and of the browser as     *)
(* they are.                                                               *)

LEMMA LoadingStep ==
  ASSUME IInv, NEW t \in Tabs,
         LoadFails(t) \/ StartAdmin(t) \/ StartLoggedOut(t) \/ AskToken(t)
  PROVE  IInv'
<1> DEFINE x == tab[t]
<1>1. x \in Tab /\ TabOK(x, sessions) /\ StoredOK(Here(t), sessions) BY TabIsOK
<1>2. /\ x.app \in Apps /\ x.goal \in Goals /\ x.page = "start" /\ x.asked = Nobody
      /\ x.goal # Nobody
  BY <1>1, TabSets DEF TabOK, LoadFails, StartAdmin, StartLoggedOut, AskToken, Starting
<1> HIDE DEF x
<1>3. CASE LoadFails(t)
  <2> DEFINE was == Start(x.app, Nobody)
             new == [was EXCEPT !.page = "dead"]
  <2>1. was \in Tab /\ was.asked = Nobody BY <1>2, TabSets, HomeIsPage DEF Start
  <2> HIDE DEF was
  <2>2. new \in Tab /\ new.asked = Nobody /\ new.page # "start" BY <2>1, TabSets, HomeIsPage
  <2>3. TabOK(new, sessions) BY <2>2, RestingIsOK
  <2>4. Becomes(t, new) BY <1>3 DEF LoadFails, was, x
  <2> HIDE DEF new
  <2> QED BY <1>3, <2>3, <2>4, OnlyTabIsOK DEF LoadFails
<1>4. CASE StartAdmin(t)
  <2> DEFINE new == [x EXCEPT !.page = "blank"]
  <2>1. new \in Tab /\ new.asked = Nobody /\ new.page # "start" BY <1>1, <1>2, TabSets, HomeIsPage
  <2>2. TabOK(new, sessions) BY <2>1, RestingIsOK
  <2>3. Becomes(t, new) BY <1>4 DEF StartAdmin, x
  <2> HIDE DEF new
  <2> QED BY <1>4, <2>2, <2>3, OnlyTabIsOK DEF StartAdmin
<1>5. CASE StartLoggedOut(t)
  <2> DEFINE after == IF x.goal \in Protected THEN x.goal ELSE Nobody
             new   == [x EXCEPT !.page = "blank", !.goal = "login", !.after = after]
  <2>1. after \in Remembered BY HomeIsPage
  <2>2. Becomes(t, new) BY <1>5 DEF StartLoggedOut, x
  <2> HIDE DEF after
  <2>3. new \in Tab /\ new.asked = Nobody /\ new.page # "start"
    BY <1>1, <1>2, <2>1, TabSets, HomeIsPage
  <2>4. TabOK(new, sessions) BY <2>3, RestingIsOK
  <2> HIDE DEF new
  <2> QED BY <1>5, <2>2, <2>4, OnlyTabIsOK DEF StartLoggedOut
<1>6. CASE AskToken(t)
  <2> DEFINE k == Here(t).session
  <2>1. PICK answer \in Answers(Caller(k)) : Asks(t, "token", k, answer) BY <1>6 DEF AskToken
  <2> DEFINE it  == [kind |-> "token", of |-> k, answer |-> answer]
             new == [x EXCEPT !.asked = it]
  <2>2. k \in DOMAIN sessions \cup {Undefined} /\ k \in Token \cup {Undefined}
    <3>1. k # Nobody BY <1>6 DEF AskToken
    <3>2. k \in DOMAIN sessions \cup {Nobody, Undefined} BY <1>1 DEF StoredOK
    <3>3. k \in Token \cup {Nobody, Undefined} BY <1>1 DEF StoredOK, Stored
    <3> QED BY <3>1, <3>2, <3>3
  <2> HIDE DEF k
  <2>3. answer = ErrorObject \/ (k \in DOMAIN sessions
                             /\ answer = [name |-> sessions[k].name, admin |-> sessions[k].admin])
    BY <2>1 DEF Answers, Caller, Known
  <2>4. \A i \in DOMAIN sessions : sessions[i].name \in Users /\ sessions[i].admin \in BOOLEAN
    <3> SUFFICES ASSUME NEW i \in DOMAIN sessions
                 PROVE  sessions[i].name \in Users /\ sessions[i].admin \in BOOLEAN
      OBVIOUS
    <3>1. sessions[i] \in Session BY DEF IInv, SessionsOK
    <3> QED BY <3>1 DEF Session
  <2>5. answer \in Identity \cup {ErrorObject}
        /\ (answer \in Identity => k \in DOMAIN sessions /\ sessions[k].name = answer.name)
    BY <2>3, <2>4, ClientAssumption DEF Identity
  <2>6. it \in Request BY <2>2, <2>5 DEF Request
  <2>7. it.kind = "token" /\ it.of = k /\ it.answer = answer OBVIOUS
  <2>8. Becomes(t, new) BY <2>1 DEF Asks, x
  <2> HIDE DEF it
  <2>9. CodeNeeded \notin Identity \cup {ErrorObject} BY ClientAssumption
  <2>10. RequestOK(it, sessions) BY <2>2, <2>5, <2>7, <2>9 DEF RequestOK
  <2>11. TabOK(new, sessions) BY <1>1, <1>2, <2>6, <2>7, <2>10, AskingIsOK
  <2> HIDE DEF new
  <2> QED BY <1>6, <2>8, <2>11, OnlyTabIsOK DEF AskToken
<1> QED BY <1>3, <1>4, <1>5, <1>6

LEMMA MovingStep ==
  ASSUME IInv, NEW t \in Tabs,
         \/ TransitionFails(t) \/ NeedLogin(t) \/ Refuse(t) \/ EnterLogin(t) \/ TimerFires(t)
         \/ \E page : \E loaded \in BOOLEAN : Enter(t, page, loaded)
  PROVE  IInv'
<1> DEFINE x == tab[t]
<1>1. x \in Tab /\ TabOK(x, sessions) BY TabIsOK
<1>2. x.app \in Apps /\ x.goal \in Goals /\ x.page \in Shown /\ x.asked = Nobody
  BY <1>1, TabSets DEF TransitionFails, NeedLogin, Refuse, EnterLogin, TimerFires, Enter, Moving
<1>3. "user" \in Apps /\ "index" \in UserPages BY HomeIsPage, ClientAssumption
<1> HIDE DEF x
<1>4. CASE TransitionFails(t)
  <2> DEFINE new == [x EXCEPT !.goal = Nobody]
  <2>1. x.page # "start" /\ Becomes(t, new) BY <1>4 DEF TransitionFails, Moving, GoesTo, x
  <2>2. new \in Tab /\ new.asked = Nobody /\ new.page # "start"
    BY <1>1, <1>2, <2>1, TabSets, HomeIsPage
  <2>3. TabOK(new, sessions) BY <2>2, RestingIsOK
  <2> HIDE DEF new
  <2> QED BY <1>4, <2>1, <2>3, OnlyTabIsOK DEF TransitionFails
<1>5. CASE NeedLogin(t)
  <2> DEFINE new == [x EXCEPT !.goal = "login", !.after = x.goal]
  <2>1. x.page # "start" /\ x.goal \in Protected /\ Becomes(t, new)
    BY <1>5 DEF NeedLogin, Moving, x
  <2>2. new \in Tab /\ new.asked = Nobody /\ new.page # "start"
    BY <1>1, <1>2, <2>1, TabSets, HomeIsPage
  <2>3. TabOK(new, sessions) BY <2>2, RestingIsOK
  <2> HIDE DEF new
  <2> QED BY <1>5, <2>1, <2>3, OnlyTabIsOK DEF NeedLogin
<1>6. CASE Refuse(t)
  <2>1. TabOK(Start("user", "index"), sessions) BY <1>3, StartIsOK
  <2> QED BY <1>6, <2>1, OnlyTabIsOK DEF Refuse
<1>7. CASE EnterLogin(t)
  <2> DEFINE shown == [x EXCEPT !.page = "login", !.goal = Nobody]
             sent  == [x EXCEPT !.page = "login", !.goal = Home(x.app)]
  <2>1. shown \in Tab /\ shown.asked = Nobody /\ shown.page # "start"
    BY <1>1, <1>2, TabSets, HomeIsPage
  <2>2. sent \in Tab /\ sent.asked = Nobody /\ sent.page # "start"
    BY <1>1, <1>2, TabSets, HomeIsPage
  <2>3. TabOK(shown, sessions) /\ TabOK(sent, sessions) BY <2>1, <2>2, RestingIsOK
  <2>4. Becomes(t, shown) \/ Becomes(t, sent) BY <1>7 DEF EnterLogin, Shows, x
  <2> HIDE DEF shown, sent
  <2> QED BY <1>7, <2>3, <2>4, OnlyTabIsOK DEF EnterLogin
<1>8. CASE TimerFires(t)
  <2> DEFINE goal == IF x.page = "login" THEN x.goal ELSE "login"
             new  == [x EXCEPT !.timer = FALSE, !.goal = goal]
  <2>1. goal \in Goals BY <1>2, HomeIsPage
  <2>2. x.page = "start" => goal = "login" /\ goal # Nobody BY HomeIsPage
  <2>3. Becomes(t, new) BY <1>8 DEF TimerFires, x
  <2> HIDE DEF goal
  <2>4. new \in Tab /\ new.asked = Nobody /\ new.page = x.page /\ new.goal = goal
    BY <1>1, <1>2, <2>1, TabSets
  <2>5. TabOK(new, sessions) BY <2>2, <2>4, RestingIsOK
  <2> HIDE DEF new
  <2> QED BY <1>8, <2>3, <2>5, OnlyTabIsOK DEF TimerFires
<1>9. ASSUME NEW page, NEW loaded \in BOOLEAN, Enter(t, page, loaded) PROVE IInv'
  <2> DEFINE shown == [x EXCEPT !.page = page, !.goal = Nobody]
             still == [x EXCEPT !.goal = Nobody]
  <2>1. page \in Shown /\ page # "start"
    BY <1>2, <1>9, HomeIsPage DEF Enter, Moving, Goals, x
  <2>2. x.page # "start" /\ (Becomes(t, shown) \/ Becomes(t, still))
    BY <1>9 DEF Enter, Moving, Shows, GoesTo, x
  <2>3. shown \in Tab /\ shown.asked = Nobody /\ shown.page # "start"
    BY <1>1, <1>2, <2>1, TabSets, HomeIsPage
  <2>4. still \in Tab /\ still.asked = Nobody /\ still.page # "start"
    BY <1>1, <1>2, <2>2, TabSets, HomeIsPage
  <2>5. TabOK(shown, sessions) /\ TabOK(still, sessions) BY <2>3, <2>4, RestingIsOK
  <2> HIDE DEF shown, still
  <2> QED BY <1>9, <2>2, <2>5, OnlyTabIsOK DEF Enter
<1> QED BY <1>4, <1>5, <1>6, <1>7, <1>8, <1>9 DEF x

-----------------------------------------------------------------------------
(* What its user makes it do.                                              *)

LEMMA LeavingStep ==
  ASSUME IInv, NEW t \in Tabs,
         \/ \E page \in Pages(tab[t].app) : Visit(t, page)
         \/ \E app \in Apps : Load(t, app)
         \/ CloseCode(t) \/ ResetPassword(t)
  PROVE  IInv'
<1> DEFINE x == tab[t]
<1>1. x \in Tab /\ TabOK(x, sessions) BY TabIsOK
<1>2. x.app \in Apps /\ x.page \in Shown BY <1>1, TabSets
<1> HIDE DEF x
<1>3. ASSUME AtRest(t) PROVE x.asked = Nobody /\ x.page # "start" BY <1>1, <1>3 DEF AtRest, TabOK, x
<1>4. ASSUME NEW page \in Pages(x.app), Visit(t, page) PROVE IInv'
  <2> DEFINE new == [x EXCEPT !.goal = page]
  <2>1. page \in Goals BY <1>2, HomeIsPage
  <2>2. AtRest(t) /\ Becomes(t, new) BY <1>4 DEF Visit, GoesTo, x
  <2>3. new \in Tab /\ new.asked = Nobody /\ new.page # "start" BY <1>1, <1>3, <2>1, <2>2, TabSets
  <2>4. TabOK(new, sessions) BY <2>3, RestingIsOK
  <2> HIDE DEF new
  <2> QED BY <1>4, <2>2, <2>4, OnlyTabIsOK DEF Visit
<1>5. ASSUME NEW app \in Apps, Load(t, app) PROVE IInv'
  <2> DEFINE goal == IF app = x.app /\ x.page \in Pages(app) THEN x.page ELSE Home(app)
  <2>1. goal \in UserPages \cup AdminPages BY HomeIsPage
  <2>2. TabOK(Start(app, goal), sessions) BY <2>1, StartIsOK
  <2>3. Becomes(t, Start(app, goal)) BY <1>5 DEF Load, x
  <2> HIDE DEF goal
  <2> QED BY <1>5, <2>2, <2>3, OnlyTabIsOK DEF Load
<1>6. CASE CloseCode(t)
  <2> DEFINE new == [x EXCEPT !.modal = Nobody]
  <2>1. AtRest(t) /\ Becomes(t, new) BY <1>6 DEF CloseCode, x
  <2>2. new \in Tab /\ new.asked = Nobody /\ new.page # "start"
    BY <1>1, <1>3, <2>1, TabSets, HomeIsPage
  <2>3. TabOK(new, sessions) BY <2>2, RestingIsOK
  <2> HIDE DEF new
  <2> QED BY <1>6, <2>1, <2>3, OnlyTabIsOK DEF CloseCode
<1>7. CASE ResetPassword(t)
  <2> DEFINE new == [x EXCEPT !.timer = TRUE]
  <2>1. AtRest(t) /\ Becomes(t, new) BY <1>7 DEF ResetPassword, x
  <2>2. new \in Tab /\ new.asked = Nobody /\ new.page # "start" BY <1>1, <1>3, <2>1, TabSets
  <2>3. TabOK(new, sessions) BY <2>2, RestingIsOK
  <2> HIDE DEF new
  <2> QED BY <1>7, <2>1, <2>3, OnlyTabIsOK DEF ResetPassword
<1> QED BY <1>4, <1>5, <1>6, <1>7 DEF x

\* A request that may open a session.
LEMMA AskingStep ==
  ASSUME IInv, NEW t \in Tabs, NEW u \in Users, NEW kind \in {"login", "code"},
         Opens(t, kind, u) \/ (kind = "login" /\ NeedsCode(t, u)) \/ Rejected(t, kind),
         UNCHANGED <<browserOf, accounts, stored, notices>>
  PROVE  IInv'
<1> DEFINE x == tab[t]
<1>1. x \in Tab /\ TabOK(x, sessions) BY TabIsOK
<1> HIDE DEF x
<1>2. sessions \in Seq(Session) /\ Len(sessions) <= MaxLogins /\ MaxLogins \in Nat
  BY ClientAssumption DEF IInv, SessionsOK
<1>3. CodeNeeded \notin Identity \cup {ErrorObject} /\ ErrorObject \notin Identity
  BY ClientAssumption
<1>4. PICK it \in Request :
        /\ it.kind = kind /\ RequestOK(it, sessions') /\ Becomes(t, [x EXCEPT !.asked = it])
        /\ SessionsOK(sessions') /\ Continue(sessions, sessions')
  <2>1. CASE Opens(t, kind, u)
    <3> DEFINE new == [name |-> u, admin |-> accounts[u].admin, live |-> TRUE,
                       former |-> FALSE]
               me  == [name |-> u, admin |-> accounts[u].admin]
               k   == Len(sessions) + 1
               it  == [kind |-> kind, of |-> k, answer |-> me]
    <3>1. accounts[u] \in Rights BY <2>1 DEF Opens, IInv
    <3>2. new \in Session /\ me \in Identity BY <3>1 DEF Session, Identity, Rights
    <3>3. new.name = u /\ me.name = u OBVIOUS
    <3>4. Len(sessions) < MaxLogins /\ sessions' = Append(sessions, new)
          /\ Becomes(t, [x EXCEPT !.asked = it])
      BY <2>1 DEF Opens, Asks, x
    <3> HIDE DEF new, me
    <3>5. /\ sessions' \in Seq(Session) /\ Len(sessions') = k
          /\ \A i \in DOMAIN sessions : i \in DOMAIN sessions' /\ sessions'[i] = sessions[i]
          /\ k \in DOMAIN sessions' /\ sessions'[k] = new /\ k \in Token
      BY <1>2, <3>2, <3>4 DEF Token
    <3>6. SessionsOK(sessions') /\ Continue(sessions, sessions')
      BY <1>2, <3>4, <3>5 DEF SessionsOK, Continue
    <3>7. it \in Request BY <3>2, <3>5 DEF Request
    <3>8. it.kind = kind /\ it.of = k /\ it.answer = me OBVIOUS
    <3> HIDE DEF it, k
    <3>9. RequestOK(it, sessions') BY <1>3, <3>2, <3>3, <3>5, <3>8 DEF RequestOK
    <3> QED BY <3>4, <3>6, <3>7, <3>8, <3>9
  <2>2. CASE kind = "login" /\ NeedsCode(t, u)
    <3> DEFINE it == [kind |-> "login", of |-> u, answer |-> CodeNeeded]
    <3>1. it \in Request BY DEF Request
    <3>2. it.kind = "login" /\ it.of = u /\ it.answer = CodeNeeded OBVIOUS
    <3>3. Becomes(t, [x EXCEPT !.asked = it]) /\ sessions' = sessions
      BY <2>2 DEF NeedsCode, Asks, x
    <3> HIDE DEF it
    <3>4. RequestOK(it, sessions') BY <1>3, <3>2 DEF RequestOK
    <3> QED BY <2>2, <3>1, <3>2, <3>3, <3>4 DEF IInv, SessionsOK, Continue
  <2>3. CASE Rejected(t, kind)
    <3> DEFINE it == [kind |-> kind, of |-> Nobody, answer |-> ErrorObject]
    <3>1. it \in Request BY DEF Request
    <3>2. it.kind = kind /\ it.of = Nobody /\ it.answer = ErrorObject OBVIOUS
    <3>3. Becomes(t, [x EXCEPT !.asked = it]) /\ sessions' = sessions
      BY <2>3 DEF Rejected, Asks, x
    <3> HIDE DEF it
    <3>4. RequestOK(it, sessions') BY <1>3, <3>2 DEF RequestOK
    <3> QED BY <3>1, <3>2, <3>3, <3>4 DEF IInv, SessionsOK, Continue
  <2> QED BY <2>1, <2>2, <2>3
<1>5. TabOK(x, sessions') BY <1>1, <1>4, LaterTab
<1>6. TabOK([x EXCEPT !.asked = it], sessions') BY <1>1, <1>4, <1>5, AskingIsOK
<1>7. TabsOK' BY <1>4, <1>6, BecomesIsOK DEF IInv
<1>8. BrowsersOK' BY <1>4, LaterStored DEF IInv, BrowsersOK
<1> QED BY <1>4, <1>7, <1>8 DEF IInv

-----------------------------------------------------------------------------
(* What changes the storage.                                               *)

\* An answer is stored, and the tab goes on.
LEMMA StoringStep ==
  ASSUME IInv, NEW t \in Tabs, TakeToken(t) \/ TakeLogin(t) \/ TakeCode(t) \/ Logout(t)
  PROVE  IInv'
<1> DEFINE x == tab[t]
           it == x.asked
           here == Here(t)
<1>1. x \in Tab /\ TabOK(x, sessions) /\ here \in Stored /\ StoredOK(here, sessions) BY TabIsOK
<1>2. /\ x.app \in Apps /\ x.goal \in Goals /\ x.page \in Shown /\ x.after \in Remembered
      /\ x.modal \in Asked /\ it \in Waiting
  BY <1>1, TabSets
<1>3. "user" \in Apps /\ "index" \in UserPages \cup AdminPages /\ "login" \in Shown
  BY HomeIsPage
<1>4. TabOK(Start("user", "index"), sessions) BY <1>3, StartIsOK
<1>5. it # Nobody => it \in Request /\ RequestOK(it, sessions)
  BY <1>1, <1>2 DEF Waiting, TabOK
<1>6. \A k \in DOMAIN sessions : k \in Token
  BY ClientAssumption DEF IInv, SessionsOK, Token
<1>7. here.session \in DOMAIN sessions \cup {Nobody, Undefined}
      /\ here.account \in Identity \cup {Nobody, ErrorObject, Undefined}
  BY <1>1 DEF StoredOK, Stored
<1>8. CASE TakeToken(t)
  <2> DEFINE value == [here EXCEPT !.account = it.answer]
             first == [x EXCEPT !.asked = Nobody, !.page = "login", !.goal = "index"]
             there == [x EXCEPT !.asked = Nobody, !.page = x.goal, !.goal = Nobody]
  <2>1. it # Nobody /\ it.kind = "token" /\ it.answer \in Identity \cup {ErrorObject}
    BY <1>5, <1>8 DEF TakeToken, RequestOK, Request
  <2>2. x.goal # Nobody /\ x.goal \in Shown \ {"start"}
    BY <1>1, <1>2, <2>1, HomeIsPage DEF TabOK, Goals, Shown
  <2>3. value \in Stored /\ value.session = here.session BY <1>1, <2>1 DEF Stored
  <2>4. StoredOK(value, sessions) BY <1>7, <2>3 DEF StoredOK
  <2>5. first \in Tab /\ first.asked = Nobody /\ first.page # "start"
    BY <1>1, <1>2, TabSets, HomeIsPage
  <2>6. there \in Tab /\ there.asked = Nobody /\ there.page # "start"
    BY <1>1, <1>2, <2>2, TabSets, HomeIsPage
  <2>7. TabOK(first, sessions) /\ TabOK(there, sessions) BY <2>5, <2>6, RestingIsOK
  <2>8. Becomes(t, first) \/ Becomes(t, there) BY <1>8 DEF TakeToken
  <2>9. Store(t, value) BY <1>8 DEF TakeToken
  <2>10. notices' \in [Browsers -> Nat] /\ UNCHANGED <<browserOf, accounts, sessions>>
    BY <1>8 DEF TakeToken, IInv
  <2> HIDE DEF first, there, value
  <2> QED BY <2>4, <2>7, <2>8, <2>9, <2>10, StoreIsOK
<1>9. CASE TakeLogin(t)
  <2>1. it # Nobody /\ UNCHANGED <<browserOf, accounts, sessions>> /\ notices' \in [Browsers -> Nat]
    BY <1>9 DEF TakeLogin, IInv
  <2>2. x.page # "start" \/ x.goal # Nobody BY <1>1 DEF TabOK
  <2>3. CASE it.answer \in Identity
    <3> DEFINE value == [session |-> it.of, account |-> it.answer]
               goal  == IF x.after = Nobody THEN Home(x.app) ELSE x.after
               new   == [x EXCEPT !.asked = Nobody, !.after = Nobody, !.goal = goal]
    <3>1. it.of \in DOMAIN sessions BY <1>5, <2>1, <2>3 DEF RequestOK
    <3>2. value \in Stored /\ value.session = it.of BY <1>6, <2>3, <3>1 DEF Stored
    <3>3. StoredOK(value, sessions) BY <3>1, <3>2 DEF StoredOK
    <3>4. goal \in Goals /\ goal # Nobody BY <1>2, HomeIsPage DEF Remembered
    <3>5. Store(t, value) /\ Becomes(t, new) BY <1>9, <2>3 DEF TakeLogin
    <3> HIDE DEF value, goal
    <3>6. new \in Tab /\ new.asked = Nobody /\ new.goal = goal
      BY <1>1, <1>2, <3>4, TabSets, HomeIsPage
    <3>7. TabOK(new, sessions) BY <3>4, <3>6, RestingIsOK
    <3> HIDE DEF new
    <3> QED BY <2>1, <3>3, <3>5, <3>7, StoreIsOK
  <2>4. CASE it.answer \notin Identity
    <3> DEFINE modal == IF it.answer = CodeNeeded /\ x.app = "user" THEN it.of ELSE x.modal
               new   == [x EXCEPT !.asked = Nobody, !.modal = modal]
    <3>1. modal \in Asked BY <1>2, <1>5, <2>1, HomeIsPage DEF RequestOK
    <3>2. stored' = stored /\ Becomes(t, new) BY <1>9, <2>4 DEF TakeLogin
    <3> HIDE DEF modal
    <3>3. new \in Tab /\ new.asked = Nobody /\ new.page = x.page /\ new.goal = x.goal
      BY <1>1, <1>2, <3>1, TabSets, HomeIsPage
    <3>4. TabOK(new, sessions) BY <2>2, <3>3, RestingIsOK
    <3> HIDE DEF new
    <3> QED BY <1>1, <2>1, <3>2, <3>4, StoreIsOK
  <2> QED BY <2>3, <2>4
<1>10. CASE TakeCode(t)
  <2> DEFINE value == IF it.answer \in Identity THEN [session |-> it.of, account |-> it.answer]
                      ELSE [session |-> Undefined, account |-> Undefined]
  <2>1. it # Nobody /\ UNCHANGED <<browserOf, accounts, sessions>> /\ notices' \in [Browsers -> Nat]
    BY <1>10 DEF TakeCode, IInv
  <2>2. it.answer \in Identity => it.of \in DOMAIN sessions BY <1>5, <2>1 DEF RequestOK
  <2>3. value \in Stored /\ value.session \in DOMAIN sessions \cup {Undefined}
    BY <1>6, <2>2 DEF Stored
  <2>4. StoredOK(value, sessions) BY <2>3 DEF StoredOK
  <2>5. Store(t, value) /\ Becomes(t, Start("user", "index")) BY <1>10 DEF TakeCode
  <2> HIDE DEF value
  <2> QED BY <1>4, <2>1, <2>4, <2>5, StoreIsOK
<1>11. CASE Logout(t)
  <2>1. StoredOK(Empty, sessions) BY DEF StoredOK, Stored, Empty
  <2>2. notices' \in [Browsers -> Nat] BY <1>11 DEF Logout, IInv
  <2> QED BY <1>4, <1>11, <2>1, <2>2, StoreIsOK DEF Logout
<1> QED BY <1>8, <1>9, <1>10, <1>11

\* A suspension ends sessions, and a deletion parts them from the account that
\* comes next; both leave them those of their name.
LEMMA SetAccountContinues ==
  ASSUME SessionsOK(sessions), NEW u, NEW rights, SetAccount(u, rights)
  PROVE  SessionsOK(sessions') /\ Continue(sessions, sessions')
<1>1. sessions \in Seq(Session) BY DEF SessionsOK
<1>2. CASE sessions' = sessions BY <1>2 DEF Continue
<1>3. ASSUME DOMAIN sessions' = DOMAIN sessions,
             sessions' = [k \in DOMAIN sessions |-> sessions'[k]],
             \A k \in DOMAIN sessions :
               sessions'[k] \in Session /\ sessions'[k].name = sessions[k].name
      PROVE  SessionsOK(sessions') /\ Continue(sessions, sessions')
  <2>1. DOMAIN sessions = 1 .. Len(sessions) /\ Len(sessions) \in Nat BY <1>1
  <2>2. sessions' = [k \in 1 .. Len(sessions) |-> sessions'[k]] BY <1>3, <2>1
  <2>3. sessions' \in Seq(Session) /\ Len(sessions') = Len(sessions) BY <1>3, <2>1, <2>2
  <2> QED BY <1>3, <2>1, <2>3 DEF SessionsOK, Continue
<1>4. ASSUME NEW k \in DOMAIN sessions, NEW live \in BOOLEAN, NEW former \in BOOLEAN
      PROVE  /\ [sessions[k] EXCEPT !.live = live] \in Session
             /\ [sessions[k] EXCEPT !.live = live].name = sessions[k].name
             /\ [sessions[k] EXCEPT !.former = former] \in Session
             /\ [sessions[k] EXCEPT !.former = former].name = sessions[k].name
  <2>1. sessions[k] \in Session BY <1>1
  <2> QED BY <2>1 DEF Session
<1>5. CASE sessions' = Ended(u)
  <2>1. ASSUME NEW k \in DOMAIN sessions
        PROVE  sessions'[k] \in Session /\ sessions'[k].name = sessions[k].name
    <3> DEFINE live == sessions[k].live /\ (sessions[k].name # u \/ sessions[k].former)
    <3>1. live \in BOOLEAN OBVIOUS
    <3>2. sessions'[k] = [sessions[k] EXCEPT !.live = live] BY <1>5 DEF Ended
    <3> HIDE DEF live
    <3> QED BY <1>4, <3>1, <3>2
  <2> QED BY <1>3, <1>5, <2>1 DEF Ended
<1>6. CASE sessions' = Left(u)
  <2>1. ASSUME NEW k \in DOMAIN sessions
        PROVE  sessions'[k] \in Session /\ sessions'[k].name = sessions[k].name
    <3> DEFINE former == sessions[k].former \/ sessions[k].name = u
    <3>1. former \in BOOLEAN OBVIOUS
    <3>2. sessions'[k] = [sessions[k] EXCEPT !.former = former] BY <1>6 DEF Left
    <3> HIDE DEF former
    <3> QED BY <1>4, <3>1, <3>2
  <2> QED BY <1>3, <1>6, <2>1 DEF Left
<1> QED BY <1>2, <1>5, <1>6 DEF SetAccount

LEMMA AccountStep ==
  ASSUME IInv, NEW change \in Changes, AccountChanges(change[1], change[2])
  PROVE  IInv'
<1> DEFINE u == change[1]
           rights == change[2]
<1>1. u \in Users /\ rights \in Rights \cup {Nobody} BY ClientAssumption
<1> HIDE DEF u, rights
<1>2. SetAccount(u, rights) /\ UNCHANGED <<browserOf, stored, notices, tab>>
  BY DEF AccountChanges, u, rights
<1>3. accounts' \in [Users -> Rights \cup {Nobody}] BY <1>1, <1>2 DEF SetAccount, IInv
<1>4. SessionsOK(sessions') /\ Continue(sessions, sessions') BY <1>2, SetAccountContinues DEF IInv
<1>5. TabsOK' BY <1>2, <1>4, LaterTab DEF IInv, TabsOK
<1>6. BrowsersOK' BY <1>2, <1>4, LaterStored DEF IInv, BrowsersOK
<1> QED BY <1>2, <1>3, <1>4, <1>5, <1>6 DEF IInv

-----------------------------------------------------------------------------

LEMMA InitIsOK == SessionInit => IInv
<1> SUFFICES ASSUME SessionInit PROVE IInv OBVIOUS
<1>1. browserOf \in [Tabs -> Browsers] BY ClientAssumption DEF SessionInit
<1>2. accounts \in [Users -> Rights \cup {Nobody}] BY DEF SessionInit, Rights
<1>3. notices \in [Browsers -> Nat] BY DEF SessionInit
<1>4. SessionsOK(sessions)
  <2>1. << >> \in Seq(Session) /\ Len(<< >>) = 0 OBVIOUS
  <2> QED BY <2>1, ClientAssumption DEF SessionsOK, SessionInit
<1>5. BrowsersOK
  <2>1. StoredOK(Empty, sessions) /\ Empty \in Stored BY DEF StoredOK, Stored, Empty
  <2> QED BY <2>1 DEF BrowsersOK, SessionInit
<1>6. TabsOK
  <2>1. TabOK(Start("user", "index"), sessions) /\ Start("user", "index") \in Tab
    BY HomeIsPage, StartIsOK DEF TabOK
  <2> QED BY <2>1 DEF TabsOK, SessionInit
<1> QED BY <1>1, <1>2, <1>3, <1>4, <1>5, <1>6 DEF IInv

LEMMA NextIsOK == IInv /\ [SessionNext]_sessionVars => IInv'
<1> SUFFICES ASSUME IInv, [SessionNext]_sessionVars PROVE IInv' OBVIOUS
<1>1. CASE UNCHANGED sessionVars
  BY <1>1 DEF sessionVars, IInv, SessionsOK, BrowsersOK, TabsOK
<1>2. ASSUME NEW t \in Tabs, SessionRuns(t) PROVE IInv'
  BY <1>2, LoadingStep, MovingStep, StoringStep DEF SessionRuns
<1>3. ASSUME NEW t \in Tabs, SessionActs(t) PROVE IInv'
  <2>1. ASSUME NEW u \in Users, AskLogin(t, u) PROVE IInv'
    BY <2>1, AskingStep DEF AskLogin
  <2>2. CASE AskCode(t)
    <3>1. tab[t].modal \in Users
      <4>1. tab[t].modal \in Asked BY TabIsOK, TabSets
      <4> QED BY <2>2, <4>1 DEF AskCode, Asked
    <3> QED BY <2>2, <3>1, AskingStep DEF AskCode
  <2> QED BY <1>3, <2>1, <2>2, LeavingStep, StoringStep DEF SessionActs
<1>4. ASSUME NEW change \in Changes, AccountChanges(change[1], change[2]) PROVE IInv'
  BY <1>4, AccountStep
<1> QED BY <1>1, <1>2, <1>3, <1>4 DEF SessionNext

THEOREM Invariance == SessionSafety => []IInv
<1> QED BY InitIsOK, NextIsOK, PTL DEF SessionSafety

\* The types of the login state.
THEOREM TypeCorrect == SessionSafety => []SessionTypeOK
<1>1. IInv => SessionTypeOK
  BY DEF IInv, SessionsOK, BrowsersOK, TabsOK, SessionTypeOK
<1> QED BY <1>1, Invariance, PTL

-----------------------------------------------------------------------------
(* The two keys of localStorage.                                           *)

\* Sessions that begin or end mix nothing.
LEMMA StaysUnmixed ==
  ASSUME IInv, IInv', NEW b \in Browsers, ~Mixed(stored[b]), stored'[b] = stored[b],
         Continue(sessions, sessions')
  PROVE  ~Mixed(stored[b])'
<1> DEFINE v == stored[b]
<1>1. v.session \in DOMAIN sessions \cup {Nobody, Undefined} BY DEF IInv, BrowsersOK, StoredOK
<1>2. \A k \in DOMAIN sessions' : k \notin {Nobody, Undefined}
  <2>1. \A k \in DOMAIN sessions' : k \in Token
    BY ClientAssumption DEF IInv, SessionsOK, Token
  <2> QED BY <2>1, ClientAssumption
<1>3. CASE v.session \in DOMAIN sessions
  BY <1>3 DEF Mixed, Continue
<1>4. CASE v.session \in {Nobody, Undefined}
  BY <1>2, <1>4 DEF Mixed
<1> QED BY <1>1, <1>3, <1>4

\* A login that is stored as it was answered is not mixed, and neither is the
\* empty storage, nor the one a refused code leaves.
LEMMA LoginUnmixed ==
  ASSUME IInv, NEW value,
         \/ /\ value.session \in DOMAIN sessions
            /\ value.account \in Identity \cup {ErrorObject}
            /\ value.account \in Identity => sessions[value.session].name = value.account.name
         \/ value.session = Nobody /\ value.account = Nobody
         \/ value.session = Undefined /\ value.account = Undefined
  PROVE  ~Mixed(value)
<1>1. \A k \in DOMAIN sessions : k \in Token /\ k \notin {Nobody, Undefined}
  <2>1. \A k \in DOMAIN sessions : k \in Token
    BY ClientAssumption DEF IInv, SessionsOK, Token
  <2> QED BY <2>1, ClientAssumption
<1>2. Nobody # Undefined /\ {Nobody, Undefined} \cap (Identity \cup {ErrorObject}) = {}
  BY ClientAssumption
<1>3. CASE value.session \in DOMAIN sessions
  BY <1>1, <1>2, <1>3 DEF Mixed
<1>4. CASE value.session \notin DOMAIN sessions
  BY <1>2, <1>4 DEF Mixed
<1> QED BY <1>3, <1>4

LEMMA MixingStep ==
  ASSUME IInv, IInv', SessionNext, NEW b \in Browsers, ~Mixed(stored[b]), Mixed(stored[b])'
  PROVE  \E t \in Tabs : browserOf[t] = b /\ TakesLate(t)
<1> DEFINE Late == \E t \in Tabs : browserOf[t] = b /\ TakesLate(t)
<1>1. ASSUME Continue(sessions, sessions'), stored'[b] = stored[b] PROVE FALSE
  BY <1>1, StaysUnmixed
<1>2. ASSUME sessions' = sessions PROVE stored'[b] # stored[b]
  BY <1>1, <1>2 DEF Continue
<1>3. ASSUME NEW t \in Tabs, NEW value, Store(t, value), sessions' = sessions
      PROVE  browserOf[t] = b /\ stored'[b] = value /\ Mixed(value)
  <2>1. stored \in [Browsers -> Stored] BY DEF IInv, BrowsersOK
  <2>2. browserOf[t] = b BY <1>2, <1>3, <2>1 DEF Store
  <2>3. stored'[b] = value BY <1>3, <2>1, <2>2 DEF Store
  <2>4. Mixed(stored'[b]) BY <1>3 DEF Mixed
  <2> QED BY <2>2, <2>3, <2>4
<1>4. ASSUME NEW t \in Tabs, TakeToken(t) \/ TakeLogin(t) \/ TakeCode(t) \/ Logout(t) PROVE Late
  <2> DEFINE it   == tab[t].asked
             here == Here(t)
  <2>1. sessions' = sessions /\ TabOK(tab[t], sessions) /\ StoredOK(here, sessions)
    BY <1>4, TabIsOK DEF TakeToken, TakeLogin, TakeCode, Logout
  <2>2. it # Nobody => it \in Request /\ RequestOK(it, sessions)
    BY <2>1, TabSets DEF TabOK, Waiting
  <2>3. CASE TakeToken(t)
    <3> DEFINE value == [here EXCEPT !.account = it.answer]
    <3>1. it # Nobody /\ it.kind = "token" /\ Store(t, value) BY <2>3 DEF TakeToken
    <3>2. it.answer \in Identity \cup {ErrorObject} BY <2>2, <3>1 DEF RequestOK, Request
    <3>3. value.session = here.session /\ value.account = it.answer
      BY <2>1 DEF StoredOK, Stored
    <3> HIDE DEF value
    <3>4. browserOf[t] = b /\ Mixed(value) BY <1>3, <2>1, <3>1
    <3>5. CASE it.of \in {Undefined, here.session} => it.of = Undefined
      <4>1. tab'[t].asked = Nobody
        BY <2>3, TabIsOK, TabSets DEF TakeToken, Becomes, IInv, TabsOK
      <4> QED BY <3>1, <3>4, <3>5, <4>1 DEF TakesLate
    <3>6. CASE it.of = here.session /\ it.of # Undefined
      <4>1. it.of \in DOMAIN sessions BY <2>2, <3>1, <3>6 DEF RequestOK
      <4>2. it.answer \in Identity => sessions[it.of].name = it.answer.name
        BY <2>2, <3>1 DEF RequestOK
      <4>3. ~Mixed(value) BY <3>2, <3>3, <3>6, <4>1, <4>2, LoginUnmixed
      <4> QED BY <3>4, <4>3
    <3> QED BY <3>5, <3>6
  <2>4. CASE TakeLogin(t) \/ TakeCode(t)
    <3>1. it # Nobody BY <2>4 DEF TakeLogin, TakeCode
    <3>2. CASE it.answer \in Identity
      <4> DEFINE value == [session |-> it.of, account |-> it.answer]
      <4>1. Store(t, value) BY <2>4, <3>2 DEF TakeLogin, TakeCode
      <4>2. value.session = it.of /\ value.account = it.answer OBVIOUS
      <4> HIDE DEF value
      <4>3. Mixed(value) BY <1>3, <2>1, <4>1
      <4>4. it.of \in DOMAIN sessions /\ sessions[it.of].name = it.answer.name
        BY <2>2, <3>1, <3>2 DEF RequestOK
      <4> QED BY <3>2, <4>2, <4>3, <4>4, LoginUnmixed
    <3>3. CASE it.answer \notin Identity /\ TakeLogin(t)
      BY <1>2, <2>1, <3>3 DEF TakeLogin
    <3>4. CASE it.answer \notin Identity /\ TakeCode(t)
      <4> DEFINE value == [session |-> Undefined, account |-> Undefined]
      <4>1. Store(t, value) BY <3>4 DEF TakeCode
      <4>2. value.session = Undefined /\ value.account = Undefined OBVIOUS
      <4> HIDE DEF value
      <4> QED BY <1>3, <2>1, <4>1, <4>2, LoginUnmixed
    <3> QED BY <2>4, <3>2, <3>3, <3>4
  <2>5. CASE Logout(t)
    <3>1. Store(t, Empty) BY <2>5 DEF Logout
    <3>2. Empty.session = Nobody /\ Empty.account = Nobody BY DEF Empty
    <3> QED BY <1>3, <2>1, <3>1, <3>2, LoginUnmixed
  <2> QED BY <1>4, <2>3, <2>4, <2>5
<1>5. CASE UNCHANGED <<sessions, stored>> BY <1>2, <1>5
<1>6. ASSUME NEW t \in Tabs, (\E u \in Users : AskLogin(t, u)) \/ AskCode(t) PROVE Late
  <2>1. stored' = stored BY <1>6 DEF AskLogin, AskCode
  <2>2. Continue(sessions, sessions')
    <3>1. sessions \in Seq(Session) BY DEF IInv, SessionsOK
    <3>2. CASE sessions' = sessions BY <3>2 DEF Continue
    <3>3. ASSUME NEW new, sessions' = Append(sessions, new) PROVE Continue(sessions, sessions')
      BY <3>1, <3>3 DEF Continue
    <3>4. ASSUME NEW u, NEW kind, Opens(t, kind, u) \/ NeedsCode(t, u) \/ Rejected(t, kind)
          PROVE  Continue(sessions, sessions')
      BY <3>2, <3>3, <3>4 DEF Opens, NeedsCode, Rejected
    <3> QED BY <1>6, <3>4 DEF AskLogin, AskCode
  <2> QED BY <1>1, <2>1, <2>2
<1>7. ASSUME NEW change \in Changes, AccountChanges(change[1], change[2]) PROVE Late
  <2>1. Continue(sessions, sessions')
    BY <1>7, SetAccountContinues DEF AccountChanges, IInv
  <2> QED BY <1>1, <1>7, <2>1 DEF AccountChanges
<1>8. ASSUME NEW t \in Tabs, SessionRuns(t) PROVE Late
  BY <1>4, <1>5, <1>8 DEF SessionRuns, LoadFails, StartAdmin, StartLoggedOut, AskToken,
     TransitionFails, NeedLogin, Refuse, EnterLogin, TimerFires, Enter
<1>9. ASSUME NEW t \in Tabs, SessionActs(t) PROVE Late
  BY <1>4, <1>5, <1>6, <1>9 DEF SessionActs, Visit, Load, CloseCode, ResetPassword
<1> QED BY <1>7, <1>8, <1>9 DEF SessionNext

\* The session and the account a browser keeps name one login, whichever tabs
\* log in and out, until a tab stores the answer to a check of a token that
\* another tab has replaced or removed (cloudos-base.js, cloud_os.js).
THEOREM OnlyLateAnswersMix == SessionSafety => MixedOnlyByLateAnswer
<1> DEFINE Step == \A b \in Browsers :
                     ~Mixed(stored[b]) /\ Mixed(stored[b])' =>
                       \E t \in Tabs : browserOf[t] = b /\ TakesLate(t)
<1>1. ASSUME IInv, IInv', [SessionNext]_sessionVars PROVE [Step]_sessionVars
  BY <1>1, MixingStep
<1>2. MixedOnlyByLateAnswer <=> [][Step]_sessionVars BY DEF MixedOnlyByLateAnswer
<1> HIDE DEF Step
<1> QED BY <1>1, <1>2, Invariance, PTL DEF SessionSafety

-----------------------------------------------------------------------------
(* The messages.                                                           *)

\* A document that failed stays as it is until its user loads another.
Fallen == \A t \in Tabs :
  tab[t].page = "dead" => tab[t].goal = Nobody /\ tab[t].asked = Nobody /\ ~tab[t].timer

\* A tab that is to show a message.
Awaits(x) == x.app = "user" /\ ((x.page = "start" /\ x.asked = Nobody) \/ x.page = "dead")

LEMMA AwaitingMeans ==
  /\ \A b \in Browsers : Awaiting(b) = {t \in Tabs : browserOf[t] = b /\ Awaits(tab[t])}
  /\ \A b \in Browsers : Awaiting(b)' = {t \in Tabs : browserOf'[t] = b /\ Awaits(tab'[t])}
BY DEF Awaiting, Awaits, Starting

\* How a step of t that leaves the tab so treats the messages of its browser.
Gives(t, new) ==
  \/ notices' = notices /\ (Awaits(tab[t]) => Awaits(new))
  \/ Pop(t)
  \/ Push(t) /\ ~Awaits(tab[t]) /\ Awaits(new)
  \/ notices' = [notices EXCEPT ![browserOf[t]] = 0]
  \/ notices' = notices /\ tab[t].page = "dead" /\ new.page = "start" /\ new.app = "admin"

Becoming(t, new) ==
  /\ Becomes(t, new) /\ UNCHANGED browserOf
  /\ new.page = "dead" => new.goal = Nobody /\ new.asked = Nobody /\ ~new.timer
  /\ Gives(t, new)

LEMMA FallenKeeps ==
  ASSUME IInv, Fallen, NEW t \in Tabs, NEW new, Becoming(t, new)
  PROVE  Fallen'
<1>1. tab \in [Tabs -> Tab] /\ tab' = [tab EXCEPT ![t] = new] BY DEF IInv, TabsOK, Becoming, Becomes
<1>2. ASSUME NEW s \in Tabs, tab'[s].page = "dead"
      PROVE  tab'[s].goal = Nobody /\ tab'[s].asked = Nobody /\ ~tab'[s].timer
  <2>1. CASE s = t
    <3>1. tab'[s] = new BY <1>1, <2>1
    <3> QED BY <1>2, <3>1 DEF Becoming
  <2>2. CASE s # t
    <3>1. tab'[s] = tab[s] BY <1>1, <2>2
    <3> QED BY <1>2, <3>1 DEF Fallen
  <2> QED BY <2>1, <2>2
<1> QED BY <1>2 DEF Fallen

\* Every message is still waited for after such a step, or a document that
\* failed was given up.
LEMMA WaitedKeeps ==
  ASSUME IInv, NEW t \in Tabs, NEW new, Becoming(t, new), NEW b \in Browsers, Waited(b)
  PROVE  Waited(b)' \/ (browserOf[t] = b /\ tab[t].page = "dead"
                        /\ tab'[t].page = "start" /\ tab'[t].app = "admin")
<1> DEFINE A == Awaiting(b)
           Z == Awaiting(b)'
           n == notices[b]
<1>1. /\ tab \in [Tabs -> Tab] /\ tab' = [tab EXCEPT ![t] = new]
      /\ browserOf' = browserOf /\ browserOf[t] \in Browsers /\ notices \in [Browsers -> Nat]
  BY DEF IInv, TabsOK, Becoming, Becomes
<1>2. tab'[t] = new /\ \A s \in Tabs \ {t} : tab'[s] = tab[s] BY <1>1
<1>3. A = {s \in Tabs : browserOf[s] = b /\ Awaits(tab[s])}
      /\ Z = {s \in Tabs : browserOf[s] = b /\ Awaits(tab'[s])}
  BY <1>1, AwaitingMeans
<1>4. IsFiniteSet(A) /\ IsFiniteSet(Z)
  <2>1. A \in SUBSET Tabs /\ Z \in SUBSET Tabs BY <1>3
  <2> QED BY <2>1, ClientAssumption, FS_Subset
<1>5. Cardinality(A) \in Nat /\ Cardinality(Z) \in Nat /\ n \in Nat
  BY <1>1, <1>4, FS_CardinalityType
<1>6. n <= Cardinality(A) BY DEF Waited
<1>7. Waited(b)' <=> notices'[b] <= Cardinality(Z) BY DEF Waited
<1>8. A \ {t} \subseteq Z BY <1>2, <1>3
<1> HIDE DEF A, Z, n
<1>9. ASSUME NEW m \in Nat, notices'[b] = m, NEW B, B \subseteq Z, m <= Cardinality(B) PROVE Waited(b)'
  <2>1. B \in SUBSET Z BY <1>9
  <2>2. Cardinality(B) <= Cardinality(Z) /\ IsFiniteSet(B) BY <1>4, <2>1, FS_Subset
  <2>3. Cardinality(B) \in Nat BY <2>2, FS_CardinalityType
  <2> QED BY <1>5, <1>7, <1>9, <2>2, <2>3
<1>10. CASE browserOf[t] # b
  <2>1. notices'[b] = n BY <1>1, <1>10 DEF Becoming, Gives, Pop, Push, n
  <2>2. A \subseteq Z BY <1>3, <1>8, <1>10
  <2> QED BY <1>5, <1>6, <1>9, <2>1, <2>2
<1>11. CASE browserOf[t] = b /\ notices' = notices /\ (Awaits(tab[t]) => Awaits(new))
  <2>1. A \subseteq Z BY <1>2, <1>3, <1>8, <1>11
  <2>2. notices'[b] = n BY <1>11 DEF n
  <2> QED BY <1>5, <1>6, <1>9, <2>1, <2>2
<1>12. CASE browserOf[t] = b /\ Pop(t)
  <2> DEFINE m == IF n = 0 THEN 0 ELSE n - 1
  <2>1. notices'[b] = m BY <1>1, <1>12 DEF Pop, n
  <2>2. m \in Nat /\ m <= Cardinality(A \ {t})
    <3>1. Cardinality(A \ {t}) = IF t \in A THEN Cardinality(A) - 1 ELSE Cardinality(A)
      BY <1>4, FS_RemoveElement
    <3>2. IsFiniteSet(A \ {t}) BY <1>4, FS_RemoveElement
    <3>3. Cardinality(A \ {t}) \in Nat BY <3>2, FS_CardinalityType
    <3> QED BY <1>5, <1>6, <3>1, <3>3
  <2> HIDE DEF m
  <2> QED BY <1>8, <1>9, <2>1, <2>2
<1>13. CASE browserOf[t] = b /\ Push(t) /\ ~Awaits(tab[t]) /\ Awaits(new)
  <2>1. notices'[b] = n + 1 BY <1>1, <1>13 DEF Push, n
  <2>2. t \notin A /\ A \cup {t} \subseteq Z BY <1>1, <1>2, <1>3, <1>8, <1>13
  <2>3. Cardinality(A \cup {t}) = Cardinality(A) + 1 BY <1>4, <2>2, FS_AddElement
  <2>4. n + 1 \in Nat /\ n + 1 <= Cardinality(A \cup {t}) BY <1>5, <1>6, <2>3
  <2> QED BY <1>9, <2>1, <2>2, <2>4
<1>14. CASE browserOf[t] = b /\ notices' = [notices EXCEPT ![browserOf[t]] = 0]
  <2>1. notices'[b] = 0 BY <1>1, <1>14
  <2>2. 0 <= Cardinality(Z) BY <1>5
  <2> QED BY <1>9, <2>1, <2>2
<1> QED BY <1>2, <1>10, <1>11, <1>12, <1>13, <1>14 DEF Becoming, Gives

\* What a document being loaded does.
LEMMA LoadingGives ==
  ASSUME IInv, Fallen, NEW t \in Tabs,
         LoadFails(t) \/ StartAdmin(t) \/ StartLoggedOut(t) \/ AskToken(t)
  PROVE  \E new : Becoming(t, new)
<1> DEFINE x == tab[t]
<1>1. x \in Tab /\ x.page = "start" /\ x.asked = Nobody
  BY TabIsOK DEF LoadFails, StartAdmin, StartLoggedOut, AskToken, Starting
<1> HIDE DEF x
<1>2. CASE LoadFails(t)
  <2> DEFINE new == [Start(x.app, Nobody) EXCEPT !.page = "dead"]
  <2>1. Becomes(t, new) /\ notices' = notices /\ browserOf' = browserOf BY <1>2 DEF LoadFails, x
  <2>2. new.page = "dead" /\ new.goal = Nobody /\ new.asked = Nobody /\ ~new.timer
        /\ new.app = x.app
    BY DEF Start
  <2> HIDE DEF new
  <2>3. Awaits(x) => Awaits(new) BY <2>2 DEF Awaits
  <2> QED BY <2>1, <2>2, <2>3 DEF Becoming, Gives, x
<1>3. CASE StartAdmin(t)
  <2> DEFINE new == [x EXCEPT !.page = "blank"]
  <2>1. /\ Becomes(t, new) /\ notices' = notices /\ browserOf' = browserOf /\ x.app = "admin"
    BY <1>3 DEF StartAdmin, x
  <2>2. new.page = "blank" BY <1>1 DEF Tab
  <2> HIDE DEF new
  <2>3. ~Awaits(x) BY <2>1 DEF Awaits
  <2> QED BY <2>1, <2>2, <2>3 DEF Becoming, Gives, x
<1>4. CASE StartLoggedOut(t)
  <2> DEFINE after == IF x.goal \in Protected THEN x.goal ELSE Nobody
             new   == [x EXCEPT !.page = "blank", !.goal = "login", !.after = after]
  <2>1. Becomes(t, new) /\ Pop(t) /\ browserOf' = browserOf BY <1>4 DEF StartLoggedOut, x
  <2> HIDE DEF after
  <2>2. new.page = "blank" BY <1>1 DEF Tab
  <2> HIDE DEF new
  <2> QED BY <2>1, <2>2 DEF Becoming, Gives
<1>5. CASE AskToken(t)
  <2>1. PICK answer : Asks(t, "token", Here(t).session, answer) BY <1>5 DEF AskToken
  <2> DEFINE it  == [kind |-> "token", of |-> Here(t).session, answer |-> answer]
             new == [x EXCEPT !.asked = it]
  <2>2. Becomes(t, new) /\ Pop(t) /\ browserOf' = browserOf BY <1>5, <2>1 DEF AskToken, Asks, x
  <2> HIDE DEF it
  <2>3. new.page = "start" BY <1>1 DEF Tab
  <2> HIDE DEF new
  <2> QED BY <2>2, <2>3 DEF Becoming, Gives
<1> QED BY <1>2, <1>3, <1>4, <1>5

\* A tab that is not being loaded, or waits for an answer, awaits no message,
\* unless its document failed.
LEMMA MovingGives ==
  ASSUME IInv, Fallen, NEW t \in Tabs,
         \/ TransitionFails(t) \/ NeedLogin(t) \/ Refuse(t) \/ EnterLogin(t) \/ TimerFires(t)
         \/ \E page : \E loaded \in BOOLEAN : Enter(t, page, loaded)
  PROVE  \E new : Becoming(t, new)
<1> DEFINE x == tab[t]
<1>1. x \in Tab /\ x.asked = Nobody
  BY TabIsOK DEF TransitionFails, NeedLogin, Refuse, EnterLogin, TimerFires, Enter, Moving
<1>2. x.page = "dead" => x.goal = Nobody /\ ~x.timer BY DEF Fallen
<1>3. ASSUME Moving(t) PROVE ~Awaits(x) /\ x.page # "dead" BY <1>2, <1>3 DEF Moving, Awaits
<1> HIDE DEF x
<1>4. CASE TransitionFails(t)
  <2> DEFINE new == [x EXCEPT !.goal = Nobody]
  <2>1. Moving(t) /\ Becomes(t, new) /\ notices' = notices /\ browserOf' = browserOf
    BY <1>4 DEF TransitionFails, GoesTo, x
  <2>2. new.page = x.page BY <1>1 DEF Tab
  <2> HIDE DEF new
  <2> QED BY <1>3, <2>1, <2>2 DEF Becoming, Gives, x
<1>5. CASE NeedLogin(t)
  <2> DEFINE new == [x EXCEPT !.goal = "login", !.after = x.goal]
  <2>1. Moving(t) /\ Becomes(t, new) /\ notices' = notices /\ browserOf' = browserOf
    BY <1>5 DEF NeedLogin, x
  <2>2. new.page = x.page BY <1>1 DEF Tab
  <2> HIDE DEF new
  <2> QED BY <1>3, <2>1, <2>2 DEF Becoming, Gives, x
<1>6. CASE Refuse(t)
  <2> DEFINE new == Start("user", "index")
  <2>1. Moving(t) /\ Becomes(t, new) /\ Push(t) /\ browserOf' = browserOf BY <1>6 DEF Refuse
  <2>2. Awaits(new) /\ new.page = "start" BY DEF Start, Awaits
  <2> HIDE DEF new
  <2> QED BY <1>3, <2>1, <2>2 DEF Becoming, Gives, x
<1>7. CASE EnterLogin(t)
  <2> DEFINE shown == [x EXCEPT !.page = "login", !.goal = Nobody]
             sent  == [x EXCEPT !.page = "login", !.goal = Home(x.app)]
  <2>1. Moving(t) /\ (Becomes(t, shown) \/ Becomes(t, sent))
        /\ notices' = notices /\ browserOf' = browserOf
    BY <1>7 DEF EnterLogin, Shows, x
  <2>2. shown.page = "login" /\ sent.page = "login" BY <1>1 DEF Tab
  <2> HIDE DEF shown, sent
  <2> QED BY <1>3, <2>1, <2>2 DEF Becoming, Gives, x
<1>8. CASE TimerFires(t)
  <2> DEFINE goal == IF x.page = "login" THEN x.goal ELSE "login"
             new  == [x EXCEPT !.timer = FALSE, !.goal = goal]
  <2>1. Becomes(t, new) /\ x.timer /\ notices' = notices /\ browserOf' = browserOf
    BY <1>8 DEF TimerFires, x
  <2> HIDE DEF goal
  <2>2. new.page = x.page /\ new.app = x.app /\ new.asked = x.asked BY <1>1 DEF Tab
  <2> HIDE DEF new
  <2>3. x.page # "dead" BY <1>2, <2>1 DEF x
  <2>4. Awaits(x) => Awaits(new) BY <2>2 DEF Awaits
  <2> QED BY <2>1, <2>2, <2>3, <2>4 DEF Becoming, Gives, x
<1>9. ASSUME NEW page, NEW loaded \in BOOLEAN, Enter(t, page, loaded)
      PROVE  \E new : Becoming(t, new)
  <2> DEFINE shown == [x EXCEPT !.page = page, !.goal = Nobody]
             still == [x EXCEPT !.goal = Nobody]
  <2>1. Moving(t) /\ (Becomes(t, shown) \/ Becomes(t, still))
        /\ notices' = notices /\ browserOf' = browserOf
    BY <1>9 DEF Enter, Shows, GoesTo, x
  <2>2. page = x.goal /\ page # Nobody BY <1>9 DEF Enter, Moving, x
  <2>3. page # "dead" BY <1>1, <2>2, HomeIsPage, TabSets DEF Goals
  <2>4. shown.page = page /\ still.page = x.page BY <1>1 DEF Tab
  <2> HIDE DEF shown, still
  <2> QED BY <1>3, <2>1, <2>3, <2>4 DEF Becoming, Gives, x
<1> QED BY <1>4, <1>5, <1>6, <1>7, <1>8, <1>9

\* An answer that is taken.
LEMMA TakingGives ==
  ASSUME IInv, Fallen, NEW t \in Tabs, TakeToken(t) \/ TakeLogin(t) \/ TakeCode(t)
  PROVE  \E new : Becoming(t, new)
<1> DEFINE x == tab[t]
           it == x.asked
<1>1. x \in Tab /\ TabOK(x, sessions) BY TabIsOK
<1>2. it # Nobody /\ notices' = notices /\ browserOf' = browserOf
  BY DEF TakeToken, TakeLogin, TakeCode
<1>3. x.page # "dead" /\ ~Awaits(x) BY <1>2 DEF Fallen, Awaits
<1>4. CASE TakeToken(t)
  <2> DEFINE first == [x EXCEPT !.asked = Nobody, !.page = "login", !.goal = "index"]
             there == [x EXCEPT !.asked = Nobody, !.page = x.goal, !.goal = Nobody]
  <2>1. Becomes(t, first) \/ Becomes(t, there) BY <1>4 DEF TakeToken
  <2>2. x.goal # "dead" /\ x.goal \in Goals
    <3>1. x.page = "start" /\ x.goal # Nobody BY <1>1, <1>2, <1>4 DEF TakeToken, TabOK
    <3>2. x.goal \in Goals BY <1>1, TabSets
    <3> QED BY <3>1, <3>2, HomeIsPage DEF Goals
  <2>3. first.page = "login" /\ there.page = x.goal BY <1>1 DEF Tab
  <2> HIDE DEF first, there
  <2> QED BY <1>2, <1>3, <2>1, <2>2, <2>3 DEF Becoming, Gives
<1>5. CASE TakeLogin(t)
  <2> DEFINE goal  == IF x.after = Nobody THEN Home(x.app) ELSE x.after
             modal == IF it.answer = CodeNeeded /\ x.app = "user" THEN it.of ELSE x.modal
             in    == [x EXCEPT !.asked = Nobody, !.after = Nobody, !.goal = goal]
             out   == [x EXCEPT !.asked = Nobody, !.modal = modal]
  <2>1. Becomes(t, in) \/ Becomes(t, out) BY <1>5 DEF TakeLogin
  <2> HIDE DEF goal, modal
  <2>2. in.page = x.page /\ out.page = x.page BY <1>1 DEF Tab
  <2> HIDE DEF in, out
  <2> QED BY <1>2, <1>3, <2>1, <2>2 DEF Becoming, Gives
<1>6. CASE TakeCode(t)
  <2> DEFINE new == Start("user", "index")
  <2>1. Becomes(t, new) /\ new.page = "start" BY <1>6 DEF TakeCode, Start
  <2> HIDE DEF new
  <2> QED BY <1>2, <1>3, <2>1 DEF Becoming, Gives
<1> QED BY <1>4, <1>5, <1>6

\* What its user makes a tab at rest do, and another document for one that failed.
LEMMA ActingGives ==
  ASSUME IInv, Fallen, NEW t \in Tabs, SessionActs(t)
  PROVE  \E new : Becoming(t, new)
<1> DEFINE x == tab[t]
<1>1. x \in Tab /\ TabOK(x, sessions) BY TabIsOK
<1>2. ASSUME AtRest(t) PROVE ~Awaits(x) /\ x.page # "dead"
  BY <1>1, <1>2 DEF AtRest, TabOK, Awaits
<1> HIDE DEF x
\* Nothing changes that matters here.
<1>3. ASSUME AtRest(t), NEW new, Becomes(t, new), new.page = x.page, UNCHANGED <<notices, browserOf>>
      PROVE  \E z : Becoming(t, z)
  BY <1>2, <1>3 DEF Becoming, Gives, x
<1>4. ASSUME NEW page, Visit(t, page) PROVE \E z : Becoming(t, z)
  <2> DEFINE new == [x EXCEPT !.goal = page]
  <2>1. AtRest(t) /\ Becomes(t, new) /\ UNCHANGED <<notices, browserOf>> BY <1>4 DEF Visit, GoesTo, x
  <2>2. new.page = x.page BY <1>1 DEF Tab
  <2> HIDE DEF new
  <2> QED BY <1>3, <2>1, <2>2
<1>5. ASSUME NEW it, Becomes(t, [x EXCEPT !.asked = it]), AtRest(t), UNCHANGED <<notices, browserOf>>
      PROVE  \E z : Becoming(t, z)
  <2>1. [x EXCEPT !.asked = it].page = x.page BY <1>1 DEF Tab
  <2> QED BY <1>3, <1>5, <2>1
<1>6. ASSUME NEW u \in Users, AskLogin(t, u) PROVE \E z : Becoming(t, z)
  BY <1>5, <1>6 DEF AskLogin, Opens, NeedsCode, Rejected, Asks, x
<1>7. CASE AskCode(t) BY <1>5, <1>7 DEF AskCode, Opens, Rejected, Asks, x
<1>8. CASE CloseCode(t)
  <2> DEFINE new == [x EXCEPT !.modal = Nobody]
  <2>1. AtRest(t) /\ Becomes(t, new) /\ UNCHANGED <<notices, browserOf>> BY <1>8 DEF CloseCode, x
  <2>2. new.page = x.page BY <1>1 DEF Tab
  <2> HIDE DEF new
  <2> QED BY <1>3, <2>1, <2>2
<1>9. CASE ResetPassword(t)
  <2> DEFINE new == [x EXCEPT !.timer = TRUE]
  <2>1. AtRest(t) /\ Becomes(t, new) /\ UNCHANGED <<notices, browserOf>> BY <1>9 DEF ResetPassword, x
  <2>2. new.page = x.page BY <1>1 DEF Tab
  <2> HIDE DEF new
  <2> QED BY <1>3, <2>1, <2>2
<1>10. CASE Logout(t)
  <2> DEFINE new == Start("user", "index")
  <2>1. Becomes(t, new) /\ new.page = "start" /\ browserOf' = browserOf
        /\ notices' = [notices EXCEPT ![browserOf[t]] = 0]
    BY <1>10 DEF Logout, Start
  <2> HIDE DEF new
  <2> QED BY <2>1 DEF Becoming, Gives
<1>11. ASSUME NEW app \in Apps, Load(t, app) PROVE \E z : Becoming(t, z)
  <2> DEFINE goal == IF app = x.app /\ x.page \in Pages(app) THEN x.page ELSE Home(app)
             new  == Start(app, goal)
  <2>1. (AtRest(t) \/ x.page = "dead") /\ Becomes(t, new) /\ UNCHANGED <<notices, browserOf>>
    BY <1>11 DEF Load, x
  <2> HIDE DEF goal
  <2>2. new.app = app /\ new.page = "start" /\ new.asked = Nobody BY DEF Start
  <2> HIDE DEF new
  <2>3. CASE app = "user"
    <3>1. Awaits(new) BY <2>2, <2>3 DEF Awaits
    <3> QED BY <2>1, <2>2, <3>1 DEF Becoming, Gives
  <2>4. CASE app = "admin" BY <1>2, <2>1, <2>2, <2>4 DEF Becoming, Gives, x
  <2> QED BY <2>3, <2>4 DEF Apps
<1> QED BY <1>4, <1>6, <1>7, <1>8, <1>9, <1>10, <1>11 DEF SessionActs

LEMMA TabStep ==
  ASSUME IInv, Fallen, NEW t \in Tabs, SessionRuns(t) \/ SessionActs(t)
  PROVE  \E new : Becoming(t, new)
BY LoadingGives, MovingGives, TakingGives, ActingGives DEF SessionRuns

LEMMA FallenInvariant == SessionSafety => []Fallen
<1>1. SessionInit => Fallen
  <2>1. Start("user", "index").page = "start" BY DEF Start
  <2> QED BY <2>1 DEF SessionInit, Fallen
<1>2. ASSUME IInv, Fallen, [SessionNext]_sessionVars PROVE Fallen'
  <2>1. ASSUME NEW t \in Tabs, SessionRuns(t) \/ SessionActs(t) PROVE Fallen'
    BY <1>2, <2>1, TabStep, FallenKeeps
  <2>2. CASE UNCHANGED tab BY <1>2, <2>2 DEF Fallen
  <2> QED BY <1>2, <2>1, <2>2 DEF SessionNext, AccountChanges, sessionVars
<1> QED BY <1>1, <1>2, Invariance, PTL DEF SessionSafety

\* NotificationStack: a message the administrator's application left for the
\* user's is met by a document of the browser that is being loaded, whatever its
\* tabs do, unless one whose scripts failed is given up for another application.
THEOREM MessagesAreMet == SessionSafety => NoticesAwaited
<1> DEFINE Step == \A b \in Browsers :
                     Waited(b) /\ ~Waited(b)' =>
                       \E t \in Tabs : /\ browserOf[t] = b /\ tab[t].page = "dead"
                                       /\ tab'[t].page = "start" /\ tab'[t].app = "admin"
<1>1. ASSUME IInv, Fallen, [SessionNext]_sessionVars PROVE [Step]_sessionVars
  <2> SUFFICES ASSUME SessionNext PROVE Step BY <1>1
  <2>1. ASSUME NEW t \in Tabs, SessionRuns(t) \/ SessionActs(t) PROVE Step
    BY <1>1, <2>1, TabStep, WaitedKeeps
  <2>2. ASSUME NEW change \in Changes, AccountChanges(change[1], change[2]) PROVE Step
    BY <2>2 DEF AccountChanges, Waited, Awaiting, Starting
  <2> QED BY <2>1, <2>2 DEF SessionNext
<1>2. NoticesAwaited <=> [][Step]_sessionVars BY DEF NoticesAwaited
<1> HIDE DEF Step
<1> QED BY <1>1, <1>2, Invariance, FallenInvariant, PTL DEF SessionSafety

-----------------------------------------------------------------------------
(* The accounts pages: ClientAccounts.                                     *)

PagesOK ==
  /\ rows \in [Tabs -> [Users -> Rights \cup {Nobody}]]
  /\ form \in [Tabs -> Form \cup {Nobody, NewAccount, ErrorObject}]
  /\ fresh \in [Tabs -> BOOLEAN]
  /\ changes \in 0 .. MaxChanges

AInv == IInv /\ PagesOK

-----------------------------------------------------------------------------
(* The server.                                                             *)

\* The caller, if there is one, is the account of a live session.
LEMMA CallerIsOK ==
  ASSUME IInv, NEW t \in Tabs, Me(t) # Nobody
  PROVE  /\ Me(t) \in Identity
         /\ \E k \in DOMAIN sessions : sessions[k].live /\ sessions[k].name = Me(t).name
                                       /\ sessions[k].admin = Me(t).admin
<1> DEFINE k == Here(t).session
<1>1. k \in DOMAIN sessions /\ sessions[k].live
      /\ Me(t) = [name |-> sessions[k].name, admin |-> sessions[k].admin]
  BY DEF Me, Caller, Known
<1>2. sessions[k] \in Session BY <1>1 DEF IInv, SessionsOK
<1> HIDE DEF k
<1> QED BY <1>1, <1>2 DEF Session, Identity

\* What a request of t does to accounts and sessions.
Changed(t, u, rights) ==
  \/ UNCHANGED <<accounts, sessions>>
  \/ rights \in Rights \cup {Nobody} /\ SetAccount(u, rights)

LEMMA UpdateChanges ==
  ASSUME IInv, NEW t \in Tabs, NEW u \in Users, NEW rights \in Rights, NEW ok \in BOOLEAN,
         Update(Me(t), u, rights, ok)
  PROVE  \E r \in Rights : Changed(t, u, r)
<1>1. CASE ok
  <2> DEFINE r == [rights EXCEPT !.admin = @ /\ Me(t).admin]
  <2>1. Me(t) # Nobody /\ SetAccount(u, r) BY <1>1 DEF Update, Carried, MayUpdate
  <2>2. r \in Rights BY DEF Rights
  <2> HIDE DEF r
  <2> QED BY <2>1, <2>2 DEF Changed
<1>2. CASE ~ok
  <2>1. UNCHANGED <<accounts, sessions>> BY <1>2 DEF Update
  <2> QED BY <2>1 DEF Changed
<1> QED BY <1>1, <1>2

\* Such a request keeps the invariant of ClientSession, whether the page stays
\* or goes to the list.
LEMMA ChangeIsOK ==
  ASSUME IInv, NEW t \in Tabs, NEW u \in Users, NEW rights, Changed(t, u, rights), AtRest(t),
         tab' = tab \/ GoesTo(t, "accounts"), UNCHANGED <<browserOf, stored, notices>>
  PROVE  IInv'
<1>1. accounts' \in [Users -> Rights \cup {Nobody}] BY DEF IInv, Changed, SetAccount
<1>2. SessionsOK(sessions') /\ Continue(sessions, sessions')
  <2>1. SessionsOK(sessions) BY DEF IInv
  <2>2. CASE sessions' = sessions BY <2>1, <2>2 DEF Continue
  <2>3. CASE SetAccount(u, rights) BY <2>1, <2>3, SetAccountContinues
  <2> QED BY <2>2, <2>3 DEF Changed
<1>3. TabsOK'
  <2>1. CASE tab' = tab BY <1>2, <2>1, LaterTab DEF IInv, TabsOK
  <2>2. CASE GoesTo(t, "accounts")
    <3> DEFINE x   == tab[t]
               new == [x EXCEPT !.goal = "accounts"]
    <3>1. x \in Tab /\ TabOK(x, sessions) BY TabIsOK
    <3>2. x.asked = Nobody /\ x.page # "start" BY <3>1 DEF AtRest, TabOK
    <3>3. "accounts" \in Goals BY ClientAssumption DEF Goals
    <3>4. Becomes(t, new) BY <2>2 DEF GoesTo
    <3> HIDE DEF x
    <3>5. new \in Tab /\ new.asked = Nobody /\ new.page # "start" BY <3>1, <3>2, <3>3, TabSets
    <3>6. TabOK(new, sessions') BY <3>5, RestingIsOK
    <3> HIDE DEF new
    <3> QED BY <1>2, <3>4, <3>6, BecomesIsOK DEF IInv
  <2> QED BY <2>1, <2>2
<1>4. BrowsersOK' BY <1>2, LaterStored DEF IInv, BrowsersOK
<1> QED BY <1>1, <1>2, <1>3, <1>4 DEF IInv

\* A request about the account v.
Requested(t, v) ==
  \/ \E rights \in Rights, ok \in BOOLEAN : Update(Me(t), v, rights, ok)
  \/ \E admin \in BOOLEAN, ok \in BOOLEAN : Create(Me(t), v, admin, ok)
  \/ \E ok \in BOOLEAN : Delete(Me(t), v, ok)

LEMMA RequestIsOK ==
  ASSUME IInv, NEW t \in Tabs, NEW v \in Users, Requested(t, v), AtRest(t),
         tab' = tab \/ GoesTo(t, "accounts"), UNCHANGED <<browserOf, stored, notices>>
  PROVE  IInv'
<1>1. \E r : Changed(t, v, r)
  <2>1. ASSUME NEW rights \in Rights, NEW ok \in BOOLEAN, Update(Me(t), v, rights, ok)
        PROVE  \E r : Changed(t, v, r)
    BY <2>1, UpdateChanges
  <2>2. ASSUME NEW admin \in BOOLEAN, NEW ok \in BOOLEAN, Create(Me(t), v, admin, ok)
        PROVE  \E r : Changed(t, v, r)
    <3> DEFINE r == [admin |-> admin, suspended |-> FALSE]
    <3>1. r \in Rights BY DEF Rights
    <3>2. UNCHANGED <<accounts, sessions>> \/ SetAccount(v, r) BY <2>2 DEF Create
    <3> QED BY <3>1, <3>2 DEF Changed
  <2>3. ASSUME NEW ok \in BOOLEAN, Delete(Me(t), v, ok) PROVE \E r : Changed(t, v, r)
    BY <2>3 DEF Delete, Changed
  <2> QED BY <2>1, <2>2, <2>3 DEF Requested
<1> QED BY <1>1, ChangeIsOK

\* What a request can do to the last administrator.
LEMMA LastAdminKept ==
  ASSUME IInv, NEW t \in Tabs, NEW v \in Users, Requested(t, v), NEW u \in Users,
         ActiveAdmins = {u}, ActiveAdmins' = {}, ~OutdatedRight
  PROVE  accounts'[u] # Nobody /\ ~accounts'[u].suspended
<1>1. accounts \in [Users -> Rights \cup {Nobody}] BY DEF IInv
<1>2. accounts[u] # Nobody /\ accounts'[u] # accounts[u] BY DEF ActiveAdmins
<1>3. ASSUME NEW rights, SetAccount(v, rights) PROVE v = u /\ accounts'[u] = rights
  BY <1>1, <1>2, <1>3 DEF SetAccount
<1>4. Nobody \notin Rights BY ClientAssumption
<1>5. ASSUME Me(t) # Nobody PROVE Me(t).admin <=> Me(t).name = u
  <2>1. PICK k \in DOMAIN sessions : sessions[k].live /\ sessions[k].name = Me(t).name
                                     /\ sessions[k].admin = Me(t).admin
    BY <1>5, CallerIsOK
  <2>2. sessions[k].admin = (sessions[k].name \in {u}) BY <2>1 DEF OutdatedRight
  <2> QED BY <2>1, <2>2
<1>6. ASSUME NEW rights \in Rights, NEW ok \in BOOLEAN, Update(Me(t), v, rights, ok)
      PROVE  accounts'[u] # Nobody /\ ~accounts'[u].suspended
  <2> DEFINE r == [rights EXCEPT !.admin = @ /\ Me(t).admin]
  <2>1. ok BY <1>2, <1>6 DEF Update
  <2>2. /\ Me(t) # Nobody /\ (Me(t).admin \/ Me(t).name = v)
        /\ ~(Me(t).admin /\ Me(t).name = v /\ rights.suspended) /\ SetAccount(v, r)
    BY <1>6, <2>1 DEF Update, Carried, MayUpdate
  <2>3. r \in Rights /\ r.suspended = rights.suspended BY DEF Rights
  <2> HIDE DEF r
  <2>4. v = u /\ accounts'[u] = r BY <1>3, <2>2
  <2>5. ~rights.suspended BY <1>5, <2>2, <2>4
  <2> QED BY <1>4, <2>3, <2>4, <2>5
<1>7. ASSUME NEW admin \in BOOLEAN, NEW ok \in BOOLEAN, Create(Me(t), v, admin, ok) PROVE FALSE
  <2>1. ok BY <1>2, <1>7 DEF Create
  <2>2. accounts[v] = Nobody /\ SetAccount(v, [admin |-> admin, suspended |-> FALSE])
    BY <1>7, <2>1 DEF Create, Carried
  <2>3. v = u BY <1>3, <2>2
  <2> QED BY <1>2, <2>2, <2>3
<1>8. ASSUME NEW ok \in BOOLEAN, Delete(Me(t), v, ok) PROVE FALSE
  <2>1. ok BY <1>2, <1>8 DEF Delete
  <2>2. Me(t) # Nobody /\ Me(t).admin /\ Me(t).name # v /\ SetAccount(v, Nobody)
    BY <1>8, <2>1 DEF Delete, Carried
  <2>3. v = u BY <1>3, <2>2
  <2> QED BY <1>5, <2>2, <2>3
<1> QED BY <1>6, <1>7, <1>8 DEF Requested

-----------------------------------------------------------------------------
(* The pages.                                                              *)

LEMMA LeavesIsOK ==
  ASSUME PagesOK, NEW t \in Tabs, Leaves(t)
  PROVE  PagesOK'
<1> DEFINE r == IF tab'[t].page = "accounts" THEN rows[t] ELSE NoRows
           f == IF tab'[t].page \in {"account", "profile", "start"} THEN form[t] ELSE Nobody
           n == tab'[t].page = "accounts" /\ fresh[t]
<1>1. r \in [Users -> Rights \cup {Nobody}] /\ f \in Form \cup {Nobody, NewAccount, ErrorObject}
      /\ n \in BOOLEAN
  BY DEF PagesOK, NoRows
<1>2. /\ rows' = [rows EXCEPT ![t] = r] /\ form' = [form EXCEPT ![t] = f]
      /\ fresh' = [fresh EXCEPT ![t] = n] /\ changes' = changes
  BY DEF Leaves
<1> HIDE DEF r, f, n
<1> QED BY <1>1, <1>2 DEF PagesOK

LEMMA LoadedIsOK ==
  ASSUME IInv, NEW t \in Tabs, NEW u \in Users
  PROVE  Loaded(Me(t), u) \subseteq Form \cup {ErrorObject}
<1>1. CASE MayFind(Me(t), u)
  <2>1. accounts[u] \in Rights BY <1>1 DEF MayFind, IInv
  <2>2. FormOf(u) \in Form BY <2>1 DEF FormOf, Form, Rights
  <2> QED BY <1>1, <2>2 DEF Loaded, Answers
<1>2. CASE ~MayFind(Me(t), u) BY <1>2 DEF Loaded
<1> QED BY <1>1, <1>2

LEMMA ProfileIsOK ==
  ASSUME IInv, PagesOK, NEW t \in Tabs, ProfileForm(t)
  PROVE  form' \in [Tabs -> Form \cup {Nobody, NewAccount, ErrorObject}]
<1>1. PICK found \in (IF Here(t).account \in Identity
                      THEN Loaded(Me(t), Here(t).account.name) ELSE {ErrorObject}) :
        form' = [form EXCEPT ![t] = found]
  BY DEF ProfileForm
<1>2. found \in Form \cup {ErrorObject}
  <2>1. CASE Here(t).account \in Identity
    <3>1. Here(t).account.name \in Users BY <2>1 DEF Identity
    <3> QED BY <1>1, <2>1, <3>1, LoadedIsOK
  <2> QED BY <1>1, <2>1
<1> QED BY <1>1, <1>2 DEF PagesOK

LEMMA RunsStep ==
  ASSUME AInv, NEW t \in Tabs, Runs(t)
  PROVE  AInv' /\ accounts' = accounts
<1> USE DEF AInv
<1>1. CASE /\ \/ LoadFails(t) \/ StartAdmin(t) \/ StartLoggedOut(t)
              \/ TakeToken(t) \/ TakeLogin(t) \/ TakeCode(t)
              \/ TransitionFails(t) \/ NeedLogin(t) \/ Refuse(t) \/ EnterLogin(t) \/ TimerFires(t)
              \/ Enter(t, "index", TRUE)
           /\ Leaves(t)
  <2>1. PagesOK' BY <1>1, LeavesIsOK
  <2>2. IInv' BY <1>1, LoadingStep, MovingStep, StoringStep
  <2>3. accounts' = accounts
    BY <1>1 DEF LoadFails, StartAdmin, StartLoggedOut, TakeToken, TakeLogin, TakeCode,
       TransitionFails, NeedLogin, Refuse, EnterLogin, TimerFires, Enter
  <2> QED BY <2>1, <2>2, <2>3
<1>2. CASE AskTokenAndForm(t)
  <2>1. IInv' /\ accounts' = accounts BY <1>2, LoadingStep DEF AskTokenAndForm, AskToken
  <2>2. form' \in [Tabs -> Form \cup {Nobody, NewAccount, ErrorObject}]
    BY <1>2, ProfileIsOK DEF AskTokenAndForm, PagesOK
  <2> QED BY <1>2, <2>1, <2>2 DEF AskTokenAndForm, PagesOK
<1>3. CASE EnterAccounts(t)
  <2>1. PICK loaded \in BOOLEAN :
          /\ Enter(t, "accounts", loaded)
          /\ rows' = [rows EXCEPT ![t] = IF loaded THEN accounts ELSE NoRows]
          /\ fresh' = [fresh EXCEPT ![t] = loaded]
          /\ form' = [form EXCEPT ![t] = IF loaded THEN Nobody ELSE @]
          /\ changes' = changes
    BY <1>3 DEF EnterAccounts
  <2>2. IInv' BY <2>1, MovingStep
  <2>3. accounts' = accounts BY <2>1 DEF Enter
  <2>4. /\ (IF loaded THEN accounts ELSE NoRows) \in [Users -> Rights \cup {Nobody}]
        /\ (IF loaded THEN Nobody ELSE form[t]) \in Form \cup {Nobody, NewAccount, ErrorObject}
    BY DEF IInv, NoRows, PagesOK
  <2>5. PagesOK' BY <2>1, <2>4 DEF PagesOK
  <2> QED BY <2>2, <2>3, <2>5
<1>4. CASE EnterAccount(t)
  <2>1. PICK found \in {NewAccount} \cup UNION {Loaded(Me(t), u) : u \in Users} :
          form' = [form EXCEPT ![t] = found]
    BY <1>4 DEF EnterAccount
  <2>2. found \in Form \cup {NewAccount, ErrorObject} BY <2>1, LoadedIsOK
  <2>3. IInv' BY <1>4, MovingStep DEF EnterAccount
  <2>4. accounts' = accounts BY <1>4 DEF EnterAccount, Enter
  <2>5. PagesOK' BY <1>4, <2>1, <2>2 DEF EnterAccount, PagesOK, NoRows
  <2> QED BY <2>3, <2>4, <2>5
<1>5. CASE EnterProfile(t)
  <2>1. IInv' BY <1>5, MovingStep DEF EnterProfile
  <2>2. accounts' = accounts BY <1>5 DEF EnterProfile, Enter
  <2>3. form' \in [Tabs -> Form \cup {Nobody, NewAccount, ErrorObject}]
    BY <1>5, ProfileIsOK DEF EnterProfile
  <2> QED BY <1>5, <2>1, <2>2, <2>3 DEF EnterProfile, PagesOK
<1> QED BY <1>1, <1>2, <1>3, <1>4, <1>5 DEF Runs

\* A request is sent by a page at rest, and is about one account.
Sends(t) ==
  \E ok \in BOOLEAN :
    \/ EditProfile(t, ok) \/ DeleteAccount(t, ok)
    \/ \E u \in Users :
         \/ ToggleStatus(t, u, ok) \/ DestroyRow(t, u, ok)
         \/ \E admin \in BOOLEAN : UpdateAccount(t, u, admin, ok) \/ CreateAccount(t, u, admin, ok)

LEMMA AltersIsOK ==
  ASSUME PagesOK, NEW t \in Tabs, NEW ok \in BOOLEAN, Alters(t, ok), form' = form,
         rows' \in [Tabs -> [Users -> Rights \cup {Nobody}]]
  PROVE  PagesOK' /\ UNCHANGED <<browserOf, stored, notices>>
<1> DEFINE n(s) == fresh[s] /\ IF s = t THEN ok /\ Me(t).admin ELSE accounts' = accounts
<1>1. \A s \in Tabs : n(s) \in BOOLEAN OBVIOUS
<1>2. fresh' = [s \in Tabs |-> n(s)] BY DEF Alters
<1> HIDE DEF n
<1>3. fresh' \in [Tabs -> BOOLEAN] BY <1>1, <1>2
<1>4. changes' \in 0 .. MaxChanges
  <2>1. changes \in 0 .. MaxChanges /\ MaxChanges \in Nat BY AccountsAssumption DEF PagesOK
  <2>2. changes < MaxChanges /\ changes' = changes + 1 BY DEF Alters
  <2> QED BY <2>1, <2>2
<1> QED BY <1>3, <1>4 DEF PagesOK, Alters

LEMMA SendsStep ==
  ASSUME AInv, NEW t \in Tabs, Sends(t)
  PROVE  AInv' /\ \E v \in Users : Requested(t, v)
<1> USE DEF AInv
<1>1. PICK ok \in BOOLEAN :
        \/ EditProfile(t, ok) \/ DeleteAccount(t, ok)
        \/ \E u \in Users :
             \/ ToggleStatus(t, u, ok) \/ DestroyRow(t, u, ok)
             \/ \E admin \in BOOLEAN : UpdateAccount(t, u, admin, ok)
                                       \/ CreateAccount(t, u, admin, ok)
  BY DEF Sends
<1>2. /\ AtRest(t) /\ Alters(t, ok) /\ form' = form
      /\ tab' = tab \/ GoesTo(t, "accounts")
  BY <1>1 DEF EditProfile, DeleteAccount, ToggleStatus, DestroyRow, UpdateAccount, CreateAccount
<1>3. form[t] \in Form => form[t].name \in Users
                          /\ [admin |-> form[t].admin, suspended |-> form[t].suspended] \in Rights
  BY DEF Form, Rights
<1> DEFINE Sent == /\ rows' \in [Tabs -> [Users -> Rights \cup {Nobody}]]
                   /\ \E v \in Users : Requested(t, v)
<1>4. Sent
  <2>1. CASE EditProfile(t, ok)
    BY <1>3, <2>1 DEF EditProfile, Requested, PagesOK
  <2>2. CASE DeleteAccount(t, ok)
    BY <1>3, <2>2 DEF DeleteAccount, Requested, PagesOK
  <2>3. ASSUME NEW u \in Users, ToggleStatus(t, u, ok) PROVE Sent
    <3> DEFINE r == Flipped(t, u)
    <3>1. rows[t] \in [Users -> Rights \cup {Nobody}] /\ rows[t][u] # Nobody
      BY <2>3 DEF ToggleStatus, PagesOK
    <3>2. r \in Rights BY <3>1 DEF Flipped, Rights
    <3>3. rows' = [rows EXCEPT ![t] = [@ EXCEPT ![u] = r]] /\ Update(Me(t), u, r, ok)
      BY <2>3 DEF ToggleStatus
    <3> HIDE DEF r
    <3>4. [rows[t] EXCEPT ![u] = r] \in [Users -> Rights \cup {Nobody}] BY <3>1, <3>2
    <3> QED BY <3>2, <3>3, <3>4 DEF Requested, PagesOK
  <2>4. ASSUME NEW u \in Users, DestroyRow(t, u, ok) PROVE Sent
    <3> DEFINE r == IF ok THEN Nobody ELSE rows[t][u]
    <3>1. rows[t] \in [Users -> Rights \cup {Nobody}] BY DEF PagesOK
    <3>2. r \in Rights \cup {Nobody} BY <3>1
    <3>3. rows' = [rows EXCEPT ![t] = [@ EXCEPT ![u] = r]] /\ Delete(Me(t), u, ok)
      BY <2>4 DEF DestroyRow
    <3> HIDE DEF r
    <3>4. [rows[t] EXCEPT ![u] = r] \in [Users -> Rights \cup {Nobody}] BY <3>1, <3>2
    <3> QED BY <3>3, <3>4 DEF Requested, PagesOK
  <2>5. ASSUME NEW u \in Users, NEW admin \in BOOLEAN, UpdateAccount(t, u, admin, ok) PROVE Sent
    <3>1. [admin |-> admin, suspended |-> FALSE] \in Rights BY DEF Rights
    <3> QED BY <2>5, <3>1 DEF UpdateAccount, Requested, PagesOK
  <2>6. ASSUME NEW u \in Users, NEW admin \in BOOLEAN, CreateAccount(t, u, admin, ok) PROVE Sent
    BY <2>6 DEF CreateAccount, Requested, PagesOK
  <2> QED BY <1>1, <2>1, <2>2, <2>3, <2>4, <2>5, <2>6
<1>5. PagesOK' /\ UNCHANGED <<browserOf, stored, notices>> BY <1>2, <1>4, AltersIsOK
<1>6. IInv' BY <1>2, <1>4, <1>5, RequestIsOK
<1> QED BY <1>4, <1>5, <1>6

LEMMA ActsStep ==
  ASSUME AInv, NEW t \in Tabs, Acts(t)
  PROVE  AInv' /\ (accounts' = accounts \/ \E v \in Users : Requested(t, v))
<1> USE DEF AInv
<1>1. CASE Sends(t) BY <1>1, SendsStep
<1>2. CASE /\ \/ \E page \in Pages(tab[t].app) : Visit(t, page)
              \/ \E app \in Apps : Load(t, app)
              \/ CloseCode(t) \/ ResetPassword(t)
           /\ Leaves(t)
  BY <1>2, LeavesIsOK, LeavingStep DEF Visit, Load, CloseCode, ResetPassword
<1>3. ASSUME NEW u \in Users, AskLogin(t, u), Leaves(t) PROVE AInv' /\ accounts' = accounts
  BY <1>3, LeavesIsOK, AskingStep DEF AskLogin
<1>4. CASE AskCode(t) /\ Leaves(t)
  <2>1. tab[t].modal \in Users
    <3>1. tab[t].modal \in Asked BY TabIsOK, TabSets
    <3> QED BY <1>4, <3>1 DEF AskCode, Asked
  <2> QED BY <1>4, <2>1, LeavesIsOK, AskingStep DEF AskCode
<1>5. CASE Logout(t) /\ Leaves(t)
  BY <1>5, LeavesIsOK, StoringStep DEF Logout
<1> QED BY <1>1, <1>2, <1>3, <1>4, <1>5 DEF Acts, Sends

-----------------------------------------------------------------------------

LEMMA AccountsInit == Init => AInv
<1> SUFFICES ASSUME Init PROVE AInv OBVIOUS
<1>1. IInv BY InitIsOK DEF Init
<1>2. NoRows \in [Users -> Rights \cup {Nobody}] BY DEF NoRows
<1>3. PagesOK BY <1>2, AccountsAssumption DEF Init, PagesOK
<1> QED BY <1>1, <1>3 DEF AInv

LEMMA AccountsNext == AInv /\ [Next]_vars => AInv'
<1> SUFFICES ASSUME AInv, [Next]_vars PROVE AInv' OBVIOUS
<1>1. CASE UNCHANGED vars
  BY <1>1 DEF vars, sessionVars, pageVars, AInv, IInv, SessionsOK, BrowsersOK, TabsOK, PagesOK
<1>2. CASE Next BY <1>2, RunsStep, ActsStep DEF Next
<1> QED BY <1>1, <1>2

THEOREM AccountsInvariance == Spec => []AInv
<1> QED BY AccountsInit, AccountsNext, PTL DEF Spec

\* The types of the login state and of what the pages show.
THEOREM AccountsTypeCorrect == Spec => []TypeOK
<1>1. AInv => TypeOK
  BY DEF AInv, PagesOK, IInv, SessionsOK, BrowsersOK, TabsOK, SessionTypeOK, TypeOK
<1> QED BY <1>1, AccountsInvariance, PTL

\* No sequence of requests of sessions that have the rights of their accounts
\* suspends or deletes the last administrator (AccountsResource.update, delete).
THEOREM LastAdminAlwaysStays == Spec => LastAdminStays
<1> DEFINE Step == \A u \in Users :
                     ActiveAdmins = {u} /\ ActiveAdmins' = {} /\ ~OutdatedRight =>
                       accounts'[u] # Nobody /\ ~accounts'[u].suspended
<1>1. ASSUME AInv, Next PROVE Step
  <2> SUFFICES ASSUME NEW u \in Users, ActiveAdmins = {u}, ActiveAdmins' = {}, ~OutdatedRight
               PROVE  accounts'[u] # Nobody /\ ~accounts'[u].suspended
    OBVIOUS
  <2>1. accounts' # accounts BY DEF ActiveAdmins
  <2>2. PICK t \in Tabs, v \in Users : Requested(t, v)
    BY <1>1, <2>1, RunsStep, ActsStep DEF Next
  <2> QED BY <1>1, <2>2, LastAdminKept DEF AInv
<1>2. ASSUME AInv, [Next]_vars PROVE [Step]_vars BY <1>1, <1>2
<1>3. LastAdminStays <=> [][Step]_vars BY DEF LastAdminStays
<1> HIDE DEF Step
<1> QED BY <1>2, <1>3, AccountsInvariance, PTL DEF Spec

-----------------------------------------------------------------------------
(* The list.                                                               *)

\* A document being loaded shows no list, and the page that has one no form.
PlacesOK == \A t \in Tabs : /\ tab[t].page = "start" => ~fresh[t]
                            /\ tab[t].page = "accounts" => form[t] = Nobody

\* What a step of t changes of the tabs.
OnlyTab(t) == \A s \in Tabs \ {t} : tab'[s] = tab[s]

\* A tab comes to the list by entering its page, or from the document it loaded.
LEMMA ListReached ==
  ASSUME IInv, NEW t \in Tabs,
         \/ LoadFails(t) \/ StartAdmin(t) \/ StartLoggedOut(t)
         \/ TakeToken(t) \/ TakeLogin(t) \/ TakeCode(t)
         \/ TransitionFails(t) \/ NeedLogin(t) \/ Refuse(t) \/ EnterLogin(t) \/ TimerFires(t)
         \/ Enter(t, "index", TRUE)
         \/ \E page \in Pages(tab[t].app) : Visit(t, page)
         \/ \E app \in Apps : Load(t, app)
         \/ \E u \in Users : AskLogin(t, u)
         \/ AskCode(t) \/ CloseCode(t) \/ ResetPassword(t) \/ Logout(t)
  PROVE  /\ OnlyTab(t) /\ accounts' = accounts
         /\ tab'[t].page = "accounts" => tab[t].page \in {"accounts", "start"}
<1> DEFINE x == tab[t]
<1>1. x \in Tab /\ tab \in [Tabs -> Tab] BY TabIsOK DEF IInv, TabsOK
<1>2. ASSUME NEW new, Becomes(t, new) PROVE OnlyTab(t) /\ tab'[t] = new
  BY <1>1, <1>2 DEF Becomes, OnlyTab
<1>5. CASE LoadFails(t) BY <1>1, <1>5 DEF LoadFails, Becomes, OnlyTab, Tab, Start
<1>6. CASE StartAdmin(t) BY <1>1, <1>6 DEF StartAdmin, Becomes, OnlyTab, Tab
<1>7. CASE StartLoggedOut(t) BY <1>1, <1>7 DEF StartLoggedOut, Becomes, OnlyTab, Tab
<1>8. CASE TakeToken(t)
  <2>1. x.page = "start" BY <1>8, TabIsOK DEF TakeToken, TabOK
  <2>2. accounts' = accounts /\ \E new : Becomes(t, new) BY <1>8 DEF TakeToken
  <2> QED BY <1>2, <2>1, <2>2
<1>9. CASE TakeLogin(t)
  <2>1. accounts' = accounts BY <1>9 DEF TakeLogin
  <2> DEFINE it    == x.asked
             goal  == IF x.after = Nobody THEN Home(x.app) ELSE x.after
             modal == IF it.answer = CodeNeeded /\ x.app = "user" THEN it.of ELSE x.modal
             in    == [x EXCEPT !.asked = Nobody, !.after = Nobody, !.goal = goal]
             out   == [x EXCEPT !.asked = Nobody, !.modal = modal]
  <2>2. Becomes(t, in) \/ Becomes(t, out) BY <1>9 DEF TakeLogin
  <2> HIDE DEF goal, modal
  <2>3. in.page = x.page /\ out.page = x.page BY <1>1 DEF Tab
  <2> HIDE DEF in, out
  <2> QED BY <1>2, <2>1, <2>2, <2>3
<1>10. CASE TakeCode(t) BY <1>1, <1>10 DEF TakeCode, Becomes, OnlyTab, Tab, Start
<1>11. CASE TransitionFails(t) BY <1>1, <1>11 DEF TransitionFails, Becomes, OnlyTab, Tab, GoesTo
<1>12. CASE NeedLogin(t) BY <1>1, <1>12 DEF NeedLogin, Becomes, OnlyTab, Tab
<1>13. CASE Refuse(t) BY <1>1, <1>13 DEF Refuse, Becomes, OnlyTab, Tab, Start
<1>14. CASE EnterLogin(t)
  <2> DEFINE shown == [x EXCEPT !.page = "login", !.goal = Nobody]
             sent  == [x EXCEPT !.page = "login", !.goal = Home(x.app)]
  <2>1. (Becomes(t, shown) \/ Becomes(t, sent)) /\ accounts' = accounts
    BY <1>14 DEF EnterLogin, Shows
  <2>2. shown.page = "login" /\ sent.page = "login" BY <1>1 DEF Tab
  <2> HIDE DEF shown, sent
  <2> QED BY <1>2, <2>1, <2>2
<1>15. CASE TimerFires(t) BY <1>1, <1>15 DEF TimerFires, Becomes, OnlyTab, Tab
<1>16. CASE Enter(t, "index", TRUE) BY <1>1, <1>16 DEF Enter, Shows, Becomes, OnlyTab, Tab
<1>17. ASSUME NEW page, Visit(t, page)
       PROVE  OnlyTab(t) /\ accounts' = accounts /\ tab'[t].page = x.page
  BY <1>1, <1>17 DEF Visit, GoesTo, Becomes, OnlyTab, Tab
<1>18. ASSUME NEW app, Load(t, app)
       PROVE  OnlyTab(t) /\ accounts' = accounts /\ tab'[t].page = "start"
  BY <1>1, <1>18 DEF Load, Start, Becomes, OnlyTab
\* A request that is sent leaves the page as it is.
<1>3. ASSUME NEW kind, NEW of, NEW answer, Asks(t, kind, of, answer)
      PROVE  OnlyTab(t) /\ tab'[t].page = x.page
  BY <1>1, <1>3 DEF Asks, Becomes, OnlyTab, Tab
<1>4. ASSUME NEW kind, NEW u, Opens(t, kind, u) \/ NeedsCode(t, u) \/ Rejected(t, kind)
      PROVE  OnlyTab(t) /\ tab'[t].page = x.page
  BY <1>3, <1>4 DEF Opens, NeedsCode, Rejected
<1>19. ASSUME NEW u, AskLogin(t, u)
       PROVE  OnlyTab(t) /\ accounts' = accounts /\ tab'[t].page = x.page
  BY <1>4, <1>19 DEF AskLogin
<1>20. CASE AskCode(t) BY <1>4, <1>20 DEF AskCode
<1>21. CASE CloseCode(t) BY <1>1, <1>21 DEF CloseCode, Becomes, OnlyTab, Tab
<1>22. CASE ResetPassword(t) BY <1>1, <1>22 DEF ResetPassword, Becomes, OnlyTab, Tab
<1>23. CASE Logout(t) BY <1>1, <1>23 DEF Logout, Becomes, OnlyTab, Tab, Start
<1> HIDE DEF x
<1> QED BY <1>5, <1>6, <1>7, <1>8, <1>9, <1>10, <1>11, <1>12, <1>13, <1>14, <1>15, <1>16,
           <1>17, <1>18, <1>19, <1>20, <1>21, <1>22, <1>23 DEF x

\* What is to be shown of t, the other tabs being as they were.
LEMMA ListLater ==
  ASSUME PagesOK, PlacesOK, ListTrue, NEW t \in Tabs, OnlyTab(t),
         \A s \in Tabs \ {t} : /\ rows'[s] = rows[s] /\ form'[s] = form[s]
                               /\ fresh'[s] => fresh[s] /\ accounts' = accounts,
         tab'[t].page = "start" => ~fresh'[t],
         tab'[t].page = "accounts" => form'[t] = Nobody,
         tab'[t].page = "accounts" /\ fresh'[t] => rows'[t] = accounts'
  PROVE  PlacesOK' /\ ListTrue'
BY DEF PlacesOK, ListTrue, OnlyTab

LEMMA RunsShows ==
  ASSUME AInv, PlacesOK, ListTrue, NEW t \in Tabs, Runs(t) \/ (Acts(t) /\ ~Sends(t))
  PROVE  PlacesOK' /\ ListTrue'
<1>1. /\ rows \in [Tabs -> [Users -> Rights \cup {Nobody}]] /\ fresh \in [Tabs -> BOOLEAN]
      /\ form \in [Tabs -> Form \cup {Nobody, NewAccount, ErrorObject}]
      /\ tab \in [Tabs -> Tab] /\ tab[t] \in Tab
  BY TabIsOK DEF AInv, PagesOK, IInv, TabsOK
<1>2. ASSUME NEW page, NEW loaded \in BOOLEAN, Enter(t, page, loaded)
      PROVE  /\ OnlyTab(t) /\ accounts' = accounts
             /\ tab'[t].page = IF loaded THEN page ELSE tab[t].page
             /\ tab[t].page # "start"
  <2> DEFINE shown == [tab[t] EXCEPT !.page = page, !.goal = Nobody]
             still == [tab[t] EXCEPT !.goal = Nobody]
  <2>1. Moving(t) /\ accounts' = accounts BY <1>2 DEF Enter
  <2>2. tab' = [tab EXCEPT ![t] = IF loaded THEN shown ELSE still]
    BY <1>2 DEF Enter, Shows, GoesTo, Becomes
  <2>3. shown.page = page /\ still.page = tab[t].page BY <1>1 DEF Tab
  <2> HIDE DEF shown, still
  <2>4. OnlyTab(t) /\ tab'[t] = IF loaded THEN shown ELSE still
    BY <1>1, <2>2 DEF OnlyTab
  <2> QED BY <2>1, <2>3, <2>4 DEF Moving
<1>3. CASE Leaves(t) /\ OnlyTab(t) /\ accounts' = accounts
           /\ (tab'[t].page = "accounts" => tab[t].page \in {"accounts", "start"})
  <2>1. /\ \A s \in Tabs \ {t} : rows'[s] = rows[s] /\ form'[s] = form[s] /\ fresh'[s] = fresh[s]
        /\ fresh'[t] <=> tab'[t].page = "accounts" /\ fresh[t]
        /\ tab'[t].page = "accounts" => rows'[t] = rows[t] /\ form'[t] = Nobody
    BY <1>1, <1>3 DEF Leaves
  <2>2. tab'[t].page = "accounts" /\ fresh'[t] => rows'[t] = accounts'
    BY <1>3, <2>1 DEF PlacesOK, ListTrue
  <2> QED BY <1>3, <2>1, <2>2, ListLater DEF AInv
<1>4. CASE AskTokenAndForm(t)
  <2>1. tab'[t].page = "start" /\ tab[t].page = "start" /\ OnlyTab(t) /\ accounts' = accounts
    BY <1>1, <1>4 DEF AskTokenAndForm, AskToken, Starting, Asks, Becomes, OnlyTab, Tab
  <2>2. UNCHANGED <<rows, fresh>> /\ \A s \in Tabs \ {t} : form'[s] = form[s]
    BY <1>1, <1>4 DEF AskTokenAndForm, ProfileForm
  <2> QED BY <2>1, <2>2, ListLater DEF AInv, PlacesOK
<1>5. CASE EnterAccounts(t)
  <2>1. PICK loaded \in BOOLEAN :
          /\ Enter(t, "accounts", loaded)
          /\ rows' = [rows EXCEPT ![t] = IF loaded THEN accounts ELSE NoRows]
          /\ fresh' = [fresh EXCEPT ![t] = loaded]
          /\ form' = [form EXCEPT ![t] = IF loaded THEN Nobody ELSE @]
    BY <1>5 DEF EnterAccounts
  <2>2. /\ OnlyTab(t) /\ accounts' = accounts /\ tab[t].page # "start"
        /\ tab'[t].page = IF loaded THEN "accounts" ELSE tab[t].page
    BY <1>2, <2>1
  <2>3. /\ \A s \in Tabs \ {t} : rows'[s] = rows[s] /\ form'[s] = form[s] /\ fresh'[s] = fresh[s]
        /\ fresh'[t] = loaded
        /\ loaded => rows'[t] = accounts /\ form'[t] = Nobody
        /\ ~loaded => form'[t] = form[t]
    BY <1>1, <2>1
  <2> QED BY <2>2, <2>3, ListLater DEF AInv, PlacesOK
<1>6. CASE EnterAccount(t) \/ EnterProfile(t)
  <2>1. OnlyTab(t) /\ accounts' = accounts /\ tab'[t].page \in {"account", "profile"}
    BY <1>2, <1>6 DEF EnterAccount, EnterProfile
  <2>2. \A s \in Tabs \ {t} : rows'[s] = rows[s] /\ form'[s] = form[s] /\ fresh'[s] = fresh[s]
    BY <1>1, <1>6 DEF EnterAccount, EnterProfile, ProfileForm
  <2> QED BY <2>1, <2>2, ListLater DEF AInv
<1> QED BY <1>3, <1>4, <1>5, <1>6, ListReached DEF AInv, Runs, Acts, Sends

\* A request that was carried out shows in the row as it does in the account.
LEMMA SendsShows ==
  ASSUME AInv, PlacesOK, ListTrue, NEW t \in Tabs, Sends(t)
  PROVE  PlacesOK' /\ ListTrue'
<1>1. PICK ok \in BOOLEAN :
        \/ EditProfile(t, ok) \/ DeleteAccount(t, ok)
        \/ \E u \in Users :
             \/ ToggleStatus(t, u, ok) \/ DestroyRow(t, u, ok)
             \/ \E admin \in BOOLEAN : UpdateAccount(t, u, admin, ok)
                                       \/ CreateAccount(t, u, admin, ok)
  BY DEF Sends
<1>2. /\ rows \in [Tabs -> [Users -> Rights \cup {Nobody}]] /\ fresh \in [Tabs -> BOOLEAN]
      /\ tab \in [Tabs -> Tab] /\ tab[t] \in Tab
      /\ accounts \in [Users -> Rights \cup {Nobody}]
  BY TabIsOK DEF AInv, PagesOK, IInv, TabsOK
<1>3. /\ AtRest(t) /\ Alters(t, ok) /\ form' = form
      /\ tab' = tab \/ GoesTo(t, "accounts")
      /\ \A s \in Tabs \ {t} : rows'[s] = rows[s]
  BY <1>1, <1>2 DEF EditProfile, DeleteAccount, ToggleStatus, DestroyRow, UpdateAccount, CreateAccount
<1>4. OnlyTab(t) /\ tab'[t].page = tab[t].page
  BY <1>2, <1>3 DEF GoesTo, Becomes, OnlyTab, Tab
<1>5. /\ \A s \in Tabs \ {t} : fresh'[s] => fresh[s] /\ accounts' = accounts
      /\ fresh'[t] => fresh[t] /\ ok /\ Me(t).admin
  BY <1>3 DEF Alters
<1>6. ASSUME tab[t].page = "accounts", fresh'[t] PROVE rows'[t] = accounts'
  <2>1. rows[t] = accounts /\ ok /\ Me(t).admin BY <1>5, <1>6 DEF ListTrue
  <2>2. form[t] = Nobody BY <1>6 DEF PlacesOK
  <2>3. PICK u \in Users : ToggleStatus(t, u, ok) \/ DestroyRow(t, u, ok)
    BY <1>1, <1>6, <2>2, AccountsAssumption
       DEF EditProfile, DeleteAccount, UpdateAccount, CreateAccount
  <2>4. CASE ToggleStatus(t, u, ok)
    <3> DEFINE r == Flipped(t, u)
    <3>1. rows[t][u] \in Rights BY <1>2, <2>4 DEF ToggleStatus
    <3>2. r \in Rights BY <3>1 DEF Flipped, Rights
    <3>3. rows' = [rows EXCEPT ![t] = [@ EXCEPT ![u] = r]] /\ Update(Me(t), u, r, ok)
      BY <2>4 DEF ToggleStatus
    <3> HIDE DEF r
    <3>4. accounts' = [accounts EXCEPT ![u] = [r EXCEPT !.admin = @ /\ Me(t).admin]]
      BY <2>1, <3>3 DEF Update, SetAccount
    <3>5. [r EXCEPT !.admin = @ /\ Me(t).admin] = r BY <2>1, <3>2 DEF Rights
    <3> QED BY <1>2, <2>1, <3>3, <3>4, <3>5
  <2>5. CASE DestroyRow(t, u, ok)
    <3>1. rows' = [rows EXCEPT ![t] = [@ EXCEPT ![u] = Nobody]] BY <2>1, <2>5 DEF DestroyRow
    <3>2. accounts' = [accounts EXCEPT ![u] = Nobody]
      BY <2>1, <2>5 DEF DestroyRow, Delete, SetAccount
    <3> QED BY <1>2, <2>1, <3>1, <3>2
  <2> QED BY <2>3, <2>4, <2>5
<1>7. tab[t].page = "start" => ~fresh'[t] BY <1>5 DEF PlacesOK
<1> QED BY <1>3, <1>4, <1>5, <1>6, <1>7, ListLater DEF AInv, PlacesOK

\* The list of an administrator stays the server's while his own requests succeed
\* and nobody else changes an account (account_model.js).
THEOREM ListStaysTrue == Spec => []ListTrue
<1>1. Init => PlacesOK /\ ListTrue
  BY DEF Init, SessionInit, PlacesOK, ListTrue, Start
<1>2. ASSUME AInv, PlacesOK, ListTrue, [Next]_vars PROVE PlacesOK' /\ ListTrue'
  <2>1. CASE UNCHANGED vars
    BY <1>2, <2>1 DEF vars, sessionVars, pageVars, PlacesOK, ListTrue
  <2>2. CASE Next BY <1>2, <2>2, RunsShows, SendsShows DEF Next
  <2> QED BY <1>2, <2>1, <2>2
<1> QED BY <1>1, <1>2, AccountsInvariance, PTL DEF Spec
=============================================================================
