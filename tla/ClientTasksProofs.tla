-------------------------- MODULE ClientTasksProofs --------------------------
(***************************************************************************)
(* Proofs about ClientTasks, for any documents, apps, versions and bounds: *)
(* its type invariant, and that the dialog of a download or a restore is   *)
(* never left without a way out.                                           *)
(*                                                                         *)
(* Neither is inductive.  A download that succeeded is put into            *)
(* ConfigAppInfo.all, so the task it names must be a download, which has a *)
(* version; and a download that succeeds elsewhere than in the app store   *)
(* shows no Close, so its dialog must not be there any more.  Both are     *)
(* facts about one page and the tasks, collected in PageOK.                *)
(***************************************************************************)
EXTENDS ClientTasks, TLAPS

TasksOK(ts) ==
  /\ ts \in Seq(Task) /\ Len(ts) <= MaxTasks
  /\ \A i \in DOMAIN ts : ts[i].kind = "download" => ts[i].bundle \in Bundles

\* What is true of a page whatever its dialog: its type, and each of its timers
\* asks for a task of its kind.
Sane(page, ts) ==
  /\ page \in Doc
  /\ IF page.route \in ConfigRoutes THEN OfApp(page, page.app) # {} ELSE page.app = Nothing
  /\ \A w \in page.watches : w.task \in DOMAIN ts /\ ts[w.task].kind = w.kind

\* The dialog of a download is rendered by the app store only.
WayOut(page) ==
  /\ page.dialog = "download" =>
       /\ page.route = "appstore"
       /\ page.way["download"] \/ \E w \in page.watches : w.kind = "download" /\ w.shown
  /\ page.dialog = "restore" =>
       \/ page.way["restore"] \/ page.told
       \/ \E w \in page.watches : w.kind = "restore"

PageOK(page, ts) == Sane(page, ts) /\ WayOut(page)

PagesOK == doc \in [Docs -> Doc] /\ \A d \in Docs : PageOK(doc[d], tasks)

IInv ==
  /\ TasksOK(tasks)
  /\ up \in BOOLEAN /\ restarts \in 0 .. MaxRestarts
  /\ PagesOK

-----------------------------------------------------------------------------
(* Pages.                                                                  *)

\* A page stays as it should be while tasks are added and change their state.
LEMMA LaterTasks ==
  ASSUME NEW page, NEW ts, NEW us, Sane(page, ts),
         \A i \in DOMAIN ts : i \in DOMAIN us /\ us[i].kind = ts[i].kind
  PROVE  Sane(page, us)
BY DEF Sane

\* So does one whose dialog is taken away.
LEMMA ClosedIsOK ==
  ASSUME NEW page, NEW ts, Sane(page, ts)
  PROVE  /\ PageOK(Closed(page), ts)
         /\ Closed(page).dialog = Nothing /\ Closed(page).route = page.route
         /\ Closed(page).infos = page.infos
<1> DEFINE new  == Closed(page)
           left == {[w EXCEPT !.shown = FALSE] : w \in page.watches}
<1>1. page \in Doc BY DEF Sane
<1>2. /\ left \in SUBSET Watch
      /\ \A v \in left : \E w \in page.watches : v.task = w.task /\ v.kind = w.kind
  <2> SUFFICES ASSUME NEW w \in page.watches
               PROVE  LET v == [w EXCEPT !.shown = FALSE] IN
                      v \in Watch /\ v.task = w.task /\ v.kind = w.kind
    OBVIOUS
  <2> w \in Watch BY <1>1 DEF Doc
  <2> QED BY DEF Watch
<1>3. new = [page EXCEPT !.dialog = Nothing, !.watches = left] BY DEF Closed
<1> HIDE DEF new, left
<1>4. /\ new \in Doc /\ new.dialog = Nothing /\ new.route = page.route /\ new.app = page.app
      /\ new.infos = page.infos /\ new.watches = left
  BY <1>1, <1>2, <1>3 DEF Doc
<1>5. OfApp(new, new.app) = OfApp(page, page.app) BY <1>4 DEF OfApp
<1>6. Nothing \notin {"download", "restore"} BY TasksAssumption
<1>7. Sane(new, ts) BY <1>2, <1>4, <1>5 DEF Sane
<1> QED BY <1>4, <1>6, <1>7 DEF PageOK, WayOut, new

LEMMA EnteredIsOK ==
  ASSUME NEW page, NEW ts, Sane(page, ts),
         NEW route \in AdminRoutes \cup SetupRoutes, NEW app \in Apps \cup {Nothing},
         IF route \in ConfigRoutes THEN OfApp(page, app) # {} ELSE app = Nothing
  PROVE  /\ PageOK(Entered(page, route, app), ts)
         /\ Entered(page, route, app).route = route /\ Entered(page, route, app).app = app
         /\ Entered(page, route, app).infos = page.infos
<1> DEFINE new == Closed(page)
           at  == Entered(page, route, app)
<1>1. PageOK(new, ts) /\ new.dialog = Nothing /\ new.infos = page.infos BY ClosedIsOK
<1>2. new \in Doc BY <1>1 DEF PageOK, Sane
<1>3. at = [new EXCEPT !.route = route, !.app = app] BY DEF Entered
<1> HIDE DEF new, at
<1>4. /\ at \in Doc /\ at.route = route /\ at.app = app /\ at.dialog = new.dialog
      /\ at.infos = new.infos /\ at.watches = new.watches
  BY <1>2, <1>3 DEF Doc
<1>5. OfApp(at, app) = OfApp(page, app) BY <1>1, <1>4 DEF OfApp
<1>6. Sane(at, ts) BY <1>1, <1>4, <1>5 DEF Sane, PageOK
<1>7. Nothing \notin {"download", "restore"} BY TasksAssumption
<1> QED BY <1>1, <1>4, <1>6, <1>7 DEF PageOK, WayOut, at

\* A page that shows or hides Close for one kind of dialog is the same otherwise.
LEMMA WayIsOK ==
  ASSUME NEW page, NEW ts, Sane(page, ts), NEW kind \in Kinds, NEW there \in BOOLEAN
  PROVE  LET new == [page EXCEPT !.way[kind] = there] IN
         /\ Sane(new, ts) /\ new.way = [page.way EXCEPT ![kind] = there]
         /\ new.dialog = page.dialog /\ new.route = page.route /\ new.app = page.app
         /\ new.told = page.told /\ new.infos = page.infos /\ new.watches = page.watches
<1> DEFINE way == [page.way EXCEPT ![kind] = there]
           new == [page EXCEPT !.way = way]
<1>1. page \in Doc BY DEF Sane
<1>2. page.way \in [Kinds -> BOOLEAN] BY <1>1 DEF Doc
<1>3. way \in [Kinds -> BOOLEAN] BY <1>2
<1>4. new = [page EXCEPT !.way[kind] = there] BY <1>1 DEF Doc
<1> HIDE DEF way
<1>5. /\ new \in Doc /\ new.way = way /\ new.dialog = page.dialog /\ new.route = page.route
      /\ new.app = page.app /\ new.told = page.told /\ new.infos = page.infos
      /\ new.watches = page.watches
  BY <1>1, <1>3 DEF Doc
<1>6. OfApp(new, new.app) = OfApp(page, page.app) BY <1>5 DEF OfApp
<1>7. Sane(new, ts) BY <1>5, <1>6 DEF Sane
<1> QED BY <1>4, <1>5, <1>7 DEF way

-----------------------------------------------------------------------------
(* Steps that put one page in the place of another, and begin a task.      *)

LEMMA BecomesIsOK ==
  ASSUME PagesOK, TasksOK(tasks), NEW d \in Docs, NEW new, PageOK(new, tasks'),
         Becomes(d, new),
         \A i \in DOMAIN tasks : i \in DOMAIN tasks' /\ tasks'[i].kind = tasks[i].kind
  PROVE  PagesOK'
<1>1. new \in Doc BY DEF PageOK, Sane
<1>2. doc' \in [Docs -> Doc] BY <1>1 DEF PagesOK, Becomes
<1>3. ASSUME NEW e \in Docs PROVE PageOK(doc'[e], tasks')
  <2>1. CASE e = d BY <2>1 DEF PagesOK, Becomes
  <2>2. CASE e # d
    <3>1. doc'[e] = doc[e] BY <2>2 DEF PagesOK, Becomes
    <3>2. Sane(doc[e], tasks) /\ WayOut(doc[e]) BY DEF PagesOK, PageOK
    <3>3. Sane(doc[e], tasks') BY <3>2, LaterTasks
    <3> QED BY <3>1, <3>2, <3>3 DEF PageOK
  <2> QED BY <2>1, <2>2
<1> QED BY <1>2, <1>3 DEF PagesOK

\* A page that begins a task watches it, and its dialog has a way out for it.
LEMMA StartsIsOK ==
  ASSUME TasksOK(tasks), PagesOK, NEW d \in Docs, NEW page, Sane(page, tasks),
         NEW kind \in Kinds, NEW bundle \in Bundles \cup {Nothing}, NEW accepted \in BOOLEAN,
         kind = "download" => bundle \in Bundles /\ page.route = "appstore",
         Starts(d, page, kind, bundle, accepted)
  PROVE  TasksOK(tasks') /\ PagesOK'
<1> DEFINE id    == Len(tasks) + 1
           watch == [kind |-> kind, shown |-> TRUE, task |-> id]
           was   == Closed(page)
           new   == Watching(page, kind)
<1>1. /\ TasksOK(tasks') /\ id \in TaskId
      /\ \A i \in DOMAIN tasks : i \in DOMAIN tasks' /\ tasks'[i].kind = tasks[i].kind
      /\ id \in DOMAIN tasks' /\ tasks'[id].kind = kind
  <2> DEFINE task == [kind |-> kind, bundle |-> bundle, state |-> "running", known |-> accepted]
  <2>1. task \in Task BY DEF Task
  <2>2. tasks' = Append(tasks, task) /\ Len(tasks) < MaxTasks BY DEF Starts, Begins
  <2>3. tasks \in Seq(Task) BY DEF TasksOK
  <2>4. /\ tasks' \in Seq(Task) /\ Len(tasks') = Len(tasks) + 1
        /\ \A i \in 1 .. Len(tasks) : tasks'[i] = tasks[i]
        /\ tasks'[Len(tasks) + 1] = task
    BY <2>1, <2>2, <2>3
  <2>5. task.kind = kind /\ task.bundle = bundle OBVIOUS
  <2> HIDE DEF task
  <2>6. DOMAIN tasks = 1 .. Len(tasks) /\ DOMAIN tasks' = 1 .. Len(tasks) + 1
        /\ Len(tasks) \in Nat
    BY <2>3, <2>4
  <2>7. \A i \in DOMAIN tasks' : i \in DOMAIN tasks \/ i = Len(tasks) + 1 BY <2>6
  <2>8. TasksOK(tasks')
    BY <2>2, <2>4, <2>5, <2>6, <2>7, TasksAssumption DEF TasksOK
  <2> QED BY <2>2, <2>4, <2>5, <2>6, <2>8, TasksAssumption DEF TaskId
<1>2. PageOK(was, tasks) /\ was.route = page.route BY ClosedIsOK
<1>3. was \in Doc /\ Sane(was, tasks) BY <1>2 DEF PageOK, Sane
<1>4. watch \in Watch BY <1>1 DEF Watch
<1>5. new = [was EXCEPT !.dialog = kind, !.watches = @ \cup {watch}] BY DEF Watching
<1>6. watch.kind = kind /\ watch.task = id /\ watch.shown OBVIOUS
<1> HIDE DEF id, watch, was, new
<1>7. /\ new \in Doc /\ new.dialog = kind /\ new.watches = was.watches \cup {watch}
      /\ new.route = was.route /\ new.app = was.app /\ new.infos = was.infos
  BY <1>3, <1>4, <1>5 DEF Doc
<1>8. OfApp(new, new.app) = OfApp(was, was.app) BY <1>7 DEF OfApp
<1>9. Sane(was, tasks') BY <1>1, <1>3, LaterTasks
<1>10. Sane(new, tasks') BY <1>1, <1>6, <1>7, <1>8, <1>9 DEF Sane
<1>11. WayOut(new) BY <1>2, <1>6, <1>7 DEF WayOut
<1>12. Becomes(d, new) BY DEF Starts, new
<1> QED BY <1>1, <1>10, <1>11, <1>12, BecomesIsOK DEF PageOK

LEMMA StartsInstallIsOK ==
  ASSUME TasksOK(tasks), PagesOK, NEW d \in Docs, NEW page, Sane(page, tasks),
         NEW accepted \in BOOLEAN, StartsInstall(d, page, accepted)
  PROVE  TasksOK(tasks') /\ PagesOK'
<1> DEFINE new == [page EXCEPT !.way["install"] = FALSE]
<1>1. PICK n \in DOMAIN page.infos : Starts(d, new, "install", page.infos[n], accepted)
  BY DEF StartsInstall
<1>2. page.infos[n] \in Bundles
  <2>1. page.infos \in Seq(Bundles) BY DEF Sane, Doc
  <2> QED BY <2>1
<1>3. "install" \in Kinds BY DEF Kinds
<1>4. Sane(new, tasks) BY <1>3, WayIsOK
<1> HIDE DEF new
<1> QED BY <1>1, <1>2, <1>3, <1>4, StartsIsOK

LEMMA ConfiguresIsOK ==
  ASSUME TasksOK(tasks), PagesOK, NEW d \in Docs, NEW page, Sane(page, tasks),
         NEW app \in Apps, OfApp(page, app) # {}, Configures(d, page, app)
  PROVE  TasksOK(tasks') /\ PagesOK'
<1> DEFINE new == Entered(page, "config_app", app)
<1>1. "config_app" \in ConfigRoutes /\ "config_app" \in AdminRoutes \cup SetupRoutes
  BY DEF ConfigRoutes, AdminRoutes
<1>2. PageOK(new, tasks) BY <1>1, EnteredIsOK
<1> HIDE DEF new
<1>3. CASE Becomes(d, new) /\ tasks' = tasks
  <2>1. PageOK(new, tasks') BY <1>2, <1>3
  <2> QED BY <1>3, <2>1, BecomesIsOK
<1>4. CASE \E accepted \in BOOLEAN : StartsInstall(d, new, accepted)
  BY <1>2, <1>4, StartsInstallIsOK DEF PageOK
<1> QED BY <1>3, <1>4 DEF Configures, new

\* A page that is replaced while no task begins or ends.
LEMMA SameTasksIsOK ==
  ASSUME TasksOK(tasks), PagesOK, NEW d \in Docs, NEW new, PageOK(new, tasks),
         Becomes(d, new), tasks' = tasks
  PROVE  TasksOK(tasks') /\ PagesOK'
<1>1. PageOK(new, tasks') OBVIOUS
<1> QED BY <1>1, BecomesIsOK

LEMMA OpenedIsOK ==
  ASSUME NEW route \in {"appstore", "restore"}, NEW ts
  PROVE  PageOK(Opened(route), ts)
<1> DEFINE new == Opened(route)
<1>1. << >> \in Seq(Bundles) /\ [k \in Kinds |-> FALSE] \in [Kinds -> BOOLEAN] OBVIOUS
<1>2. /\ new \in Doc /\ new.route = route /\ new.app = Nothing /\ new.dialog = Nothing
      /\ new.watches = {}
  BY <1>1 DEF Opened, Doc, AdminRoutes, SetupRoutes
<1> HIDE DEF new
<1>3. route \notin ConfigRoutes BY DEF ConfigRoutes
<1>4. Nothing \notin {"download", "restore"} BY TasksAssumption
<1> QED BY <1>2, <1>3, <1>4 DEF PageOK, Sane, WayOut, new

\* A timer of another kind than the dialogs of WayOut ends.
LEMMA OtherDoneIsOK ==
  ASSUME NEW page, NEW done, NEW ts, NEW w, NEW kind \in {"install", "uninstall"}, WayOut(page),
         Sane(done, ts), w.kind = kind, done.watches = page.watches \ {w},
         done.route = page.route, done.dialog = page.dialog, done.way = page.way,
         done.told = page.told
  PROVE  PageOK([done EXCEPT !.way[kind] = TRUE], ts)
<1> DEFINE new == [done EXCEPT !.way[kind] = TRUE]
<1>1. kind \in Kinds BY DEF Kinds
<1>2. /\ Sane(new, ts) /\ new.way = [done.way EXCEPT ![kind] = TRUE]
      /\ new.dialog = done.dialog /\ new.route = done.route
      /\ new.told = done.told /\ new.watches = done.watches
  BY <1>1, WayIsOK
<1>3. done.way \in [Kinds -> BOOLEAN] BY DEF Sane, Doc
<1>4. {"download", "restore"} \subseteq Kinds BY DEF Kinds
<1> HIDE DEF new
<1>5. \A k \in {"download", "restore"} : new.way[k] = page.way[k] BY <1>2, <1>3, <1>4
<1>6. \A k \in {"download", "restore"}, v \in page.watches :
        v.kind = k => v \in new.watches
  BY <1>2
<1>7. WayOut(new) BY <1>2, <1>5, <1>6 DEF WayOut
<1> QED BY <1>2, <1>7 DEF PageOK, new

\* The message that a restore is done, and the end of its timer.
LEMMA ToldIsOK ==
  ASSUME NEW page, NEW done, NEW ts, NEW w, WayOut(page),
         Sane(done, ts), w.kind = "restore", done.watches = page.watches \ {w},
         done.route = page.route, done.dialog = page.dialog, done.way = page.way
  PROVE  PageOK([done EXCEPT !.told = TRUE], ts)
<1> DEFINE new == [done EXCEPT !.told = TRUE]
<1>1. done \in Doc BY DEF Sane
<1>2. /\ new \in Doc /\ new.route = done.route /\ new.app = done.app /\ new.dialog = done.dialog
      /\ new.infos = done.infos /\ new.watches = done.watches /\ new.way = done.way
      /\ new.told = TRUE
  BY <1>1 DEF Doc
<1> HIDE DEF new
<1>3. OfApp(new, new.app) = OfApp(done, done.app) BY <1>2 DEF OfApp
<1>4. Sane(new, ts) BY <1>2, <1>3 DEF Sane
<1>5. WayOut(new) BY <1>2 DEF WayOut
<1> QED BY <1>4, <1>5 DEF PageOK, new

\* Any other message, while the timer of a restore goes on.
LEMMA UntoldIsOK ==
  ASSUME NEW page, NEW ts, NEW w \in page.watches, w.kind = "restore",
         Sane(page, ts), page.dialog = "download" => WayOut(page),
         page.dialog = "download" => page.route = "appstore"
  PROVE  PageOK([page EXCEPT !.told = FALSE], ts)
<1> DEFINE new == [page EXCEPT !.told = FALSE]
<1>1. page \in Doc BY DEF Sane
<1>2. /\ new \in Doc /\ new.route = page.route /\ new.app = page.app /\ new.dialog = page.dialog
      /\ new.infos = page.infos /\ new.watches = page.watches /\ new.way = page.way
  BY <1>1 DEF Doc
<1> HIDE DEF new
<1>3. OfApp(new, new.app) = OfApp(page, page.app) BY <1>2 DEF OfApp
<1>4. Sane(new, ts) BY <1>2, <1>3 DEF Sane
<1>5. WayOut(new) BY <1>2 DEF WayOut
<1> QED BY <1>4, <1>5 DEF PageOK, new

-----------------------------------------------------------------------------
(* The steps.                                                              *)

LEMMA ServerStep ==
  ASSUME IInv, (\E i \in TaskId : \E state \in {"succeeded", "failed"} : TaskEnds(i, state))
               \/ Stop \/ Return
  PROVE  IInv'
<1> USE DEF IInv
<1> DEFINE Kept == /\ TasksOK(tasks')
                   /\ \A i \in DOMAIN tasks : i \in DOMAIN tasks' /\ tasks'[i].kind = tasks[i].kind
<1>1. Kept
  <2>0. tasks \in Seq(Task) BY DEF TasksOK
  <2>1. ASSUME NEW i \in TaskId, NEW state \in {"succeeded", "failed"}, TaskEnds(i, state)
        PROVE  Kept
    <3>1. i \in DOMAIN tasks /\ tasks' = [tasks EXCEPT ![i].state = state] BY <2>1 DEF TaskEnds
    <3>2. tasks[i] \in Task BY <2>0, <3>1
    <3> DEFINE new == [tasks[i] EXCEPT !.state = state]
    <3>3. new \in Task /\ new.kind = tasks[i].kind /\ new.bundle = tasks[i].bundle
      BY <3>2 DEF Task
    <3>4. tasks' = [tasks EXCEPT ![i] = new] BY <3>1
    <3> HIDE DEF new
    <3>5. tasks' \in Seq(Task) /\ Len(tasks') = Len(tasks) /\ DOMAIN tasks' = DOMAIN tasks
      BY <2>0, <3>1, <3>3, <3>4
    <3>6. \A j \in DOMAIN tasks : tasks'[j].kind = tasks[j].kind /\ tasks'[j].bundle = tasks[j].bundle
      BY <3>1, <3>3, <3>4
    <3> QED BY <3>5, <3>6 DEF TasksOK
  <2>2. CASE Stop
    <3>1. tasks' = [i \in DOMAIN tasks |-> [tasks[i] EXCEPT !.known = FALSE]] BY <2>2 DEF Stop
    <3>2. ASSUME NEW i \in DOMAIN tasks
          PROVE  /\ [tasks[i] EXCEPT !.known = FALSE] \in Task
                 /\ [tasks[i] EXCEPT !.known = FALSE].kind = tasks[i].kind
                 /\ [tasks[i] EXCEPT !.known = FALSE].bundle = tasks[i].bundle
      <4>1. tasks[i] \in Task BY <2>0
      <4> QED BY <4>1 DEF Task
    <3>3. DOMAIN tasks' = DOMAIN tasks /\ DOMAIN tasks = 1 .. Len(tasks) /\ Len(tasks) \in Nat
      BY <2>0, <3>1
    <3>4. \A i \in DOMAIN tasks : tasks'[i] \in Task /\ tasks'[i].kind = tasks[i].kind
                                  /\ tasks'[i].bundle = tasks[i].bundle
      BY <3>1, <3>2
    <3>5. tasks' \in Seq(Task) /\ Len(tasks') = Len(tasks)
      BY <3>1, <3>3, <3>4
    <3> QED BY <3>3, <3>4, <3>5 DEF TasksOK
  <2>3. CASE Return BY <2>3 DEF Return
  <2> QED BY <2>1, <2>2, <2>3
<1>2. doc' = doc BY DEF TaskEnds, Stop, Return
<1>3. PagesOK'
  <2>1. ASSUME NEW e \in Docs PROVE PageOK(doc[e], tasks')
    <3>1. Sane(doc[e], tasks) /\ WayOut(doc[e]) BY DEF PagesOK, PageOK
    <3> QED BY <1>1, <3>1, LaterTasks DEF PageOK
  <2> QED BY <1>2, <2>1 DEF PagesOK
<1>4. up' \in BOOLEAN /\ restarts' \in 0 .. MaxRestarts
  <2>1. CASE Stop
    <3>1. up' = FALSE /\ restarts' = restarts + 1 /\ restarts < MaxRestarts BY <2>1 DEF Stop
    <3>2. restarts \in 0 .. MaxRestarts /\ MaxRestarts \in Nat BY TasksAssumption
    <3>3. restarts' \in 0 .. MaxRestarts BY <3>1, <3>2
    <3> QED BY <3>1, <3>3
  <2>2. CASE Return BY <2>2 DEF Return
  <2>3. CASE \E i \in TaskId : \E state \in {"succeeded", "failed"} : TaskEnds(i, state)
    BY <2>3 DEF TaskEnds
  <2> QED BY <2>1, <2>2, <2>3
<1> QED BY <1>1, <1>3, <1>4

LEMMA PageStep ==
  ASSUME IInv, NEW d \in Docs, Asks(d)
  PROVE  TasksOK(tasks') /\ PagesOK'
<1> DEFINE page == doc[d]
<1>1. TasksOK(tasks) /\ PagesOK /\ PageOK(page, tasks) /\ Sane(page, tasks)
  BY DEF IInv, PagesOK, PageOK
<1>2. page \in Doc BY <1>1 DEF Sane
<1>3. {"download", "install", "uninstall", "restore"} = Kinds BY DEF Kinds
<1>4. ASSUME NEW accepted \in BOOLEAN, NEW b \in Bundles, Download(d, b, accepted)
      PROVE  TasksOK(tasks') /\ PagesOK'
  BY <1>1, <1>3, <1>4, StartsIsOK DEF Download
<1>5. ASSUME NEW accepted \in BOOLEAN, Install(d, accepted) PROVE TasksOK(tasks') /\ PagesOK'
  BY <1>1, <1>5, StartsInstallIsOK DEF Install
<1>6. ASSUME NEW accepted \in BOOLEAN, Restore(d, accepted) PROVE TasksOK(tasks') /\ PagesOK'
  BY <1>1, <1>3, <1>6, StartsIsOK DEF Restore
<1>7. ASSUME NEW b \in Bundles, Uninstall(d, b) PROVE TasksOK(tasks') /\ PagesOK'
  BY <1>1, <1>3, <1>7, StartsIsOK DEF Uninstall
<1>8. ASSUME NEW route \in AdminRoutes \cup SetupRoutes, Visit(d, route)
      PROVE  TasksOK(tasks') /\ PagesOK'
  <2> DEFINE new == Entered(page, route, Nothing)
  <2>1. PageOK(new, tasks) BY <1>1, <1>8, EnteredIsOK DEF Visit
  <2> HIDE DEF new
  <2>2. Becomes(d, new) /\ tasks' = tasks BY <1>8 DEF Visit, new
  <2> QED BY <1>1, <2>1, <2>2, SameTasksIsOK
<1>9. ASSUME NEW route \in ConfigRoutes, NEW app \in Apps, VisitConfig(d, route, app)
      PROVE  TasksOK(tasks') /\ PagesOK'
  <2> DEFINE store == Entered(page, "appstore", Nothing)
             new   == Entered(page, route, app)
  <2>1. "appstore" \in (AdminRoutes \cup SetupRoutes) \ ConfigRoutes
        /\ route \in AdminRoutes \cup SetupRoutes
    BY DEF AdminRoutes, SetupRoutes, ConfigRoutes
  <2>2. PageOK(store, tasks) BY <1>1, <2>1, EnteredIsOK
  <2>3. ASSUME OfApp(page, app) # {} PROVE PageOK(new, tasks)
    BY <1>1, <2>1, <2>3, EnteredIsOK
  <2> HIDE DEF store, new
  <2>4. CASE Becomes(d, store) /\ tasks' = tasks BY <1>1, <2>2, <2>4, SameTasksIsOK
  <2>5. CASE OfApp(page, app) # {} /\ Configures(d, page, app)
    BY <1>1, <2>5, ConfiguresIsOK
  <2>6. CASE OfApp(page, app) # {} /\ Becomes(d, new) /\ tasks' = tasks
    BY <1>1, <2>3, <2>6, SameTasksIsOK
  <2> QED BY <1>9, <2>4, <2>5, <2>6 DEF VisitConfig, store, new
<1>10. CASE Reload(d)
  <2> DEFINE new == Opened(IF page.route \in SetupRoutes THEN "restore" ELSE "appstore")
  <2>1. PageOK(new, tasks) BY OpenedIsOK
  <2> HIDE DEF new
  <2>2. Becomes(d, new) /\ tasks' = tasks BY <1>10 DEF Reload, new
  <2> QED BY <1>1, <2>1, <2>2, SameTasksIsOK
<1>11. CASE Close(d)
  <2> DEFINE was == Closed(page)
             new == [was EXCEPT !.way[page.dialog] = FALSE]
  <2>1. page.dialog \in Kinds BY <1>3, <1>11 DEF Close
  <2>2. PageOK(was, tasks) BY <1>1, ClosedIsOK
  <2>3. was.dialog = Nothing BY <1>1, ClosedIsOK
  <2>4. Sane(new, tasks) /\ new.dialog = was.dialog BY <2>1, <2>2, WayIsOK DEF PageOK
  <2>5. Nothing \notin {"download", "restore"} BY TasksAssumption
  <2>6. Becomes(d, new) /\ tasks' = tasks BY <1>11 DEF Close
  <2> HIDE DEF new, was
  <2>7. PageOK(new, tasks) BY <2>3, <2>4, <2>5 DEF PageOK, WayOut
  <2> QED BY <1>1, <2>6, <2>7, SameTasksIsOK
<1> QED BY <1>4, <1>5, <1>6, <1>7, <1>8, <1>9, <1>10, <1>11 DEF Asks

\* The answers that name a state are about a task the server has.
LEMMA AnsweredTask ==
  ASSUME NEW i, NEW answer \in Answers(i), answer \in {"succeeded", "failed"}
  PROVE  i \in DOMAIN tasks
BY DEF Answers, Status

LEMMA PollStep ==
  ASSUME IInv, NEW d \in Docs, NEW w \in doc[d].watches, Poll(d, w)
  PROVE  TasksOK(tasks') /\ PagesOK'
<1> DEFINE page == doc[d]
           done == Done(page, w)
<1>1. TasksOK(tasks) /\ PagesOK /\ Sane(page, tasks) /\ WayOut(page)
  BY DEF IInv, PagesOK, PageOK
<1>2. page \in Doc BY <1>1 DEF Sane
<1>3. {"download", "install", "uninstall", "restore"} = Kinds BY DEF Kinds
<1>4. PICK answer \in Answers(w.task) :
        \/ PollDownload(d, w, answer) \/ PollInstall(d, w, answer)
        \/ PollUninstall(d, w, answer) \/ PollRestore(d, w, answer)
  BY DEF Poll
<1>5. /\ done \in Doc /\ done.watches = page.watches \ {w} /\ done.route = page.route
      /\ done.app = page.app /\ done.infos = page.infos /\ done.dialog = page.dialog
      /\ done.way = page.way /\ done.told = page.told
  BY <1>2 DEF Doc, Done
<1>6. Sane(done, tasks)
  <2>1. OfApp(done, done.app) = OfApp(page, page.app) BY <1>5 DEF OfApp
  <2> QED BY <1>1, <1>5, <2>1 DEF Sane
<1> HIDE DEF done
<1>7. CASE PollDownload(d, w, answer)
  <2> DEFINE b     == tasks[w.task].bundle
             known == [done EXCEPT !.infos = Append(@, b)]
             shown == [done EXCEPT !.way["download"] = TRUE]
  <2>1. w.kind = "download" /\ answer \in {"succeeded", "failed"} BY <1>7 DEF PollDownload
  <2>2. w.task \in DOMAIN tasks BY <2>1, AnsweredTask
  <2>3. b \in Bundles
    <3>1. tasks \in Seq(Task) BY <1>1 DEF TasksOK
    <3> QED BY <1>1, <2>1, <2>2, <3>1 DEF Sane, TasksOK
  <2>4. CASE answer = "succeeded"
    <3>0. done.infos \in Seq(Bundles) BY <1>5 DEF Doc
    <3> HIDE DEF b
    <3> DEFINE infos == Append(done.infos, b)
    <3>1. /\ infos \in Seq(Bundles) /\ Len(infos) \in DOMAIN infos /\ infos[Len(infos)] = b
          /\ \A n \in DOMAIN done.infos : n \in DOMAIN infos /\ infos[n] = done.infos[n]
      BY <2>3, <3>0
    <3>2. known = [done EXCEPT !.infos = infos] OBVIOUS
    <3> HIDE DEF infos, known
    <3>3. /\ known \in Doc /\ known.watches = done.watches /\ known.route = done.route
          /\ known.app = done.app /\ known.infos = infos /\ known.dialog = done.dialog
          /\ known.way = done.way /\ known.told = done.told
      BY <1>5, <3>1, <3>2 DEF Doc
    <3>4. OfApp(done, done.app) \subseteq OfApp(known, known.app) BY <3>1, <3>3 DEF OfApp
    <3>5. Sane(known, tasks) BY <1>6, <3>3, <3>4 DEF Sane
    <3>6. CASE done.route = "appstore"
      <4>1. Configures(d, known, AppOf[b])
        BY <1>7, <2>4, <3>6 DEF PollDownload, known, done, b
      <4>2. AppOf[b] \in Apps BY <2>3, TasksAssumption
      <4>3. Len(infos) \in OfApp(known, AppOf[b]) BY <3>1, <3>3 DEF OfApp
      <4> QED BY <1>1, <3>5, <4>1, <4>2, <4>3, ConfiguresIsOK
    <3>7. CASE done.route # "appstore"
      <4>1. Becomes(d, known) /\ tasks' = tasks
        BY <1>7, <2>4, <3>7 DEF PollDownload, known, done, b
      <4>2. WayOut(known)
        BY <1>1, <1>5, <2>1, <3>3, <3>7 DEF WayOut
      <4> QED BY <1>1, <3>5, <4>1, <4>2, SameTasksIsOK DEF PageOK
    <3> QED BY <3>6, <3>7
  <2>5. CASE answer = "failed"
    <3>1. Becomes(d, shown) /\ tasks' = tasks BY <1>7, <2>5 DEF PollDownload, done
    <3>2. /\ Sane(shown, tasks) /\ shown.way = [done.way EXCEPT !["download"] = TRUE]
          /\ shown.dialog = done.dialog /\ shown.route = done.route
          /\ shown.told = done.told /\ shown.watches = done.watches
      BY <1>3, <1>6, WayIsOK
    <3>3. done.way \in [Kinds -> BOOLEAN] BY <1>5 DEF Doc
    <3> HIDE DEF shown
    <3>4. WayOut(shown) BY <1>1, <1>3, <1>5, <2>1, <3>2, <3>3 DEF WayOut
    <3> QED BY <1>1, <3>1, <3>2, <3>4, SameTasksIsOK DEF PageOK
  <2> QED BY <2>1, <2>4, <2>5
<1>8. CASE PollInstall(d, w, answer)
  <2> DEFINE new == [done EXCEPT !.way["install"] = TRUE]
  <2>1. Becomes(d, new) /\ tasks' = tasks /\ w.kind = "install" BY <1>8 DEF PollInstall, done
  <2>2. PageOK(new, tasks) BY <1>1, <1>3, <1>5, <1>6, <2>1, OtherDoneIsOK
  <2> HIDE DEF new
  <2> QED BY <1>1, <2>1, <2>2, SameTasksIsOK
<1>9. CASE PollUninstall(d, w, answer)
  <2> DEFINE new == [done EXCEPT !.way["uninstall"] = TRUE]
  <2>1. Becomes(d, new) /\ tasks' = tasks /\ w.kind = "uninstall" BY <1>9 DEF PollUninstall, done
  <2>2. PageOK(new, tasks) BY <1>1, <1>3, <1>5, <1>6, <2>1, OtherDoneIsOK
  <2> HIDE DEF new
  <2> QED BY <1>1, <2>1, <2>2, SameTasksIsOK
<1>10. CASE PollRestore(d, w, answer)
  <2>1. w.kind = "restore" /\ tasks' = tasks BY <1>10 DEF PollRestore
  <2>2. CASE answer = "notFound"
    <3> DEFINE new == [done EXCEPT !.told = TRUE]
    <3>1. Becomes(d, new) BY <1>10, <2>2 DEF PollRestore, done
    <3>2. PageOK(new, tasks) BY <1>1, <1>5, <1>6, <2>1, ToldIsOK
    <3> HIDE DEF new
    <3> QED BY <1>1, <2>1, <3>1, <3>2, SameTasksIsOK
  <2>3. CASE answer = "failed"
    <3> DEFINE was == [page EXCEPT !.way["restore"] = TRUE]
               new == [was EXCEPT !.told = FALSE]
    <3>1. Becomes(d, new) BY <1>2, <1>10, <2>3 DEF PollRestore, Doc
    <3>2. /\ Sane(was, tasks) /\ was.way = [page.way EXCEPT !["restore"] = TRUE]
          /\ was.dialog = page.dialog /\ was.route = page.route /\ was.watches = page.watches
      BY <1>1, <1>3, WayIsOK
    <3>3. page.way \in [Kinds -> BOOLEAN] BY <1>2 DEF Doc
    <3> HIDE DEF was
    <3>4. was.dialog = "download" => WayOut(was) /\ was.route = "appstore"
      BY <1>1, <1>3, <3>2, <3>3 DEF WayOut
    <3>5. PageOK(new, tasks) BY <2>1, <3>2, <3>4, UntoldIsOK
    <3> HIDE DEF new
    <3> QED BY <1>1, <2>1, <3>1, <3>5, SameTasksIsOK
  <2>4. CASE answer \notin {"notFound", "failed"}
    <3> DEFINE new == [page EXCEPT !.told = FALSE]
    <3>1. Becomes(d, new) BY <1>10, <2>4 DEF PollRestore
    <3>2. PageOK(new, tasks) BY <1>1, <2>1, UntoldIsOK DEF WayOut
    <3> HIDE DEF new
    <3> QED BY <1>1, <2>1, <3>1, <3>2, SameTasksIsOK
  <2> QED BY <2>2, <2>3, <2>4
<1> QED BY <1>4, <1>7, <1>8, <1>9, <1>10

-----------------------------------------------------------------------------

THEOREM InitIsOK == Init => IInv
<1> SUFFICES ASSUME Init PROVE IInv OBVIOUS
<1>1. TasksOK(tasks)
  <2>1. << >> \in Seq(Task) /\ Len(<< >>) = 0 /\ DOMAIN << >> = {} OBVIOUS
  <2> QED BY <2>1, TasksAssumption DEF Init, TasksOK
<1>2. up \in BOOLEAN /\ restarts \in 0 .. MaxRestarts BY TasksAssumption DEF Init
<1>3. ASSUME NEW d \in Docs PROVE PageOK(doc[d], tasks) BY OpenedIsOK DEF Init
<1>4. doc \in [Docs -> Doc]
  <2>1. Opened("appstore") \in Doc /\ Opened("restore") \in Doc
    BY OpenedIsOK DEF PageOK, Sane
  <2> QED BY <2>1 DEF Init
<1> QED BY <1>1, <1>2, <1>3, <1>4 DEF IInv, PagesOK

LEMMA NextIsOK == IInv /\ [Next]_vars => IInv'
<1> SUFFICES ASSUME IInv, [Next]_vars PROVE IInv' OBVIOUS
<1>1. CASE UNCHANGED vars BY <1>1 DEF vars, IInv, PagesOK
<1>2. CASE (\E i \in TaskId : \E state \in {"succeeded", "failed"} : TaskEnds(i, state))
           \/ Stop \/ Return
  BY <1>2, ServerStep
<1>3. ASSUME NEW d \in Docs, Asks(d) PROVE IInv'
  <2>1. UNCHANGED <<up, restarts>>
    BY <1>3 DEF Asks, Download, Install, Restore, Uninstall, Visit, VisitConfig, Reload, Close
  <2> QED BY <1>3, <2>1, PageStep DEF IInv
<1>4. ASSUME NEW d \in Docs, NEW w \in doc[d].watches, Poll(d, w) PROVE IInv'
  BY <1>4, PollStep DEF IInv, Poll
<1> QED BY <1>1, <1>2, <1>3, <1>4 DEF Next

THEOREM Invariance == Spec => []IInv
<1> QED BY InitIsOK, NextIsOK, PTL DEF Spec

\* The types, and a configuration page is about an app that was downloaded
\* (_app_store_config_basic_route.js, model).
THEOREM TypeCorrect == Spec => []TypeOK
<1>1. IInv => TypeOK BY DEF IInv, TasksOK, PagesOK, PageOK, Sane, TypeOK
<1> QED BY <1>1, Invariance, PTL

\* The dialog of a download or a restore is never left behind without Close
\* and without its own timer asking for a task that the server has, except for
\* a download that was refused or forgotten, whose dialog then stays, and for a
\* restore that was told to be done (app_store_controller.js,
\* restore_controller.js).
THEOREM AlwaysAWayOut == Spec => []DialogHasWayOut
<1>1. IInv => DialogHasWayOut
  <2> SUFFICES ASSUME IInv, NEW d \in Docs PROVE
        /\ Shows(d, "download") /\ ~LostDownload(d) =>
             \/ doc[d].way["download"]
             \/ \E w \in OwnTimers(d) : ~Lost(w.task)
        /\ Shows(d, "restore") =>
             \/ doc[d].way["restore"] \/ doc[d].told
             \/ \E w \in doc[d].watches : w.kind = "restore"
    BY DEF DialogHasWayOut
  <2>1. WayOut(doc[d]) BY DEF IInv, PagesOK, PageOK
  <2> QED BY <2>1 DEF WayOut, Shows, OwnTimers, LostDownload
<1> QED BY <1>1, Invariance, PTL
=============================================================================
