----------------------------- MODULE ClientTasks -----------------------------
(***************************************************************************)
(* How the web client follows the tasks of the server: downloads, installs *)
(* and uninstalls of apps in the administrator's application               *)
(* (features/app_store, features/task_progress), and the restore of the    *)
(* setup application (features/cloudos_restore).  A page asks every five   *)
(* seconds how its task is getting on.  The timer belongs to the document: *)
(* it goes on when its page has been left, so several may run at once, and *)
(* they share the dialog and the flags of the controllers.                 *)
(*                                                                         *)
(* The server keeps tasks in memory only.  A restore that succeeds         *)
(* restarts it.  What tasks do is the subject of AppLifecycle; here a task *)
(* runs and then succeeds or fails.  The progress meter and the words of   *)
(* the messages are left out.                                              *)
(*                                                                         *)
(* A definition whose name has a suffix is the one that follows it with a  *)
(* plausible bug; the specification never uses it.                         *)
(***************************************************************************)
EXTENDS Naturals, Sequences

CONSTANTS
  Docs,         \* documents: tabs with one of the two applications
  Apps,
  Bundles,      \* versions of apps in the app store
  AppOf,        \* the app a bundle is a version of
  Nothing,      \* null: no bundle, no dialog
  MaxTasks,     \* bound on the tasks ever asked for
  MaxRestarts   \* bound on the times the server stops

ASSUME TasksAssumption ==
  /\ AppOf \in [Bundles -> Apps]
  /\ Nothing \notin Bundles \cup Apps \cup {"download", "install", "uninstall", "restore"}
  /\ MaxTasks \in Nat /\ MaxRestarts \in Nat

VARIABLES
  tasks,     \* every task asked for; "known" is whether the server has it
  up,        \* whether the server answers
  restarts,  \* how often it has stopped
  doc        \* the documents

vars == <<tasks, up, restarts, doc>>

Kinds  == {"download", "install", "uninstall", "restore"}
Task   == [kind : Kinds, bundle : Bundles \cup {Nothing},
           state : {"running", "succeeded", "failed"}, known : BOOLEAN]

\* A request that was refused has no task: its timer asks for "undefined",
\* which the server never knows.
TaskId == 1 .. MaxTasks

\* A timer; "shown" is whether the dialog it was started by is still there.
Watch == [kind : Kinds, task : TaskId, shown : BOOLEAN]

ConfigRoutes == {"config_app", "confirm_config_app"}
AdminRoutes  == {"appstore", "installedapps", "elsewhere"} \cup ConfigRoutes
SetupRoutes  == {"restore", "index"}
Doc == [route   : AdminRoutes \cup SetupRoutes,
        app     : Apps \cup {Nothing},           \* the app a configuration page is about
        dialog  : Kinds \cup {Nothing},          \* the dialog rendered, if any
        way     : [Kinds -> BOOLEAN],            \* whether that kind of dialog shows Close
        told    : BOOLEAN,                       \* the last message was that a restore is done
        infos   : Seq(Bundles),                  \* App.ConfigAppInfo.all
        watches : SUBSET Watch]

\* The downloads of an app the document knows of.
OfApp(page, app) == {n \in DOMAIN page.infos : AppOf[page.infos[n]] = app}

\* A configuration page is about an app that was downloaded.
TypeOK ==
  /\ tasks \in Seq(Task) /\ Len(tasks) <= MaxTasks
  /\ up \in BOOLEAN
  /\ restarts \in 0 .. MaxRestarts
  /\ doc \in [Docs -> Doc]
  /\ \A d \in Docs : IF doc[d].route \in ConfigRoutes THEN OfApp(doc[d], doc[d].app) # {}
                     ELSE doc[d].app = Nothing

Opened(route) == [route |-> route, app |-> Nothing, dialog |-> Nothing,
                  way |-> [k \in Kinds |-> FALSE], told |-> FALSE,
                  infos |-> << >>, watches |-> {}]

Init ==
  /\ tasks = << >> /\ up = TRUE /\ restarts = 0
  /\ doc \in [Docs -> {Opened("appstore"), Opened("restore")}]

-----------------------------------------------------------------------------
(* The server.                                                             *)

\* A restore does not succeed: it ends the server (Stop) or fails.
TaskEnds(i, state) ==
  /\ i \in DOMAIN tasks /\ tasks[i].known /\ tasks[i].state = "running"
  /\ state = "failed" \/ tasks[i].kind # "restore"
  /\ tasks' = [tasks EXCEPT ![i].state = state]
  /\ UNCHANGED <<up, restarts, doc>>

\* It stops, for a restore or otherwise, and forgets its tasks.
Stop ==
  /\ up /\ restarts < MaxRestarts
  /\ up' = FALSE /\ restarts' = restarts + 1
  /\ tasks' = [i \in DOMAIN tasks |-> [tasks[i] EXCEPT !.known = FALSE]]
  /\ UNCHANGED doc
Return ==
  /\ ~up /\ up' = TRUE
  /\ UNCHANGED <<tasks, restarts, doc>>

\* TasksResource.getHistory: a task the server does not know is not found.
Status(i) == IF i \in DOMAIN tasks /\ tasks[i].known THEN tasks[i].state ELSE "notFound"
\* While it is down the proxy answers for it, or nobody does.
Answers(i) == IF up THEN {Status(i)} ELSE {"unavailable", "noAnswer"}

-----------------------------------------------------------------------------
(* The pages.                                                              *)

Becomes(d, new)   == doc' = [doc EXCEPT ![d] = new]
Shows(d, kind)    == doc[d].dialog = kind
Closed(page)      == [page EXCEPT !.dialog = Nothing,
                                  !.watches = {[w EXCEPT !.shown = FALSE] : w \in @}]
\* Leaving a route takes away the dialog it rendered.
Entered(page, route, app) == [Closed(page) EXCEPT !.route = route, !.app = app]

\* ConfigAppInfo.all.findBy: the first of that name.
IsFirstInfo(page, n) ==
  n \in OfApp(page, page.app) /\ \A k \in OfApp(page, page.app) : n <= k

\* The server starts a task, unless it refuses or is down.
Begins(kind, bundle, accepted) ==
  /\ Len(tasks) < MaxTasks /\ (accepted => up)
  /\ tasks' = Append(tasks, [kind |-> kind, bundle |-> bundle,
                             state |-> "running", known |-> accepted])
\* The page opens the dialog of that kind and begins to watch, whatever the
\* answer was.
Watching(page, kind) ==
  [Closed(page) EXCEPT !.dialog = kind,
     !.watches = @ \cup {[kind |-> kind, shown |-> TRUE, task |-> Len(tasks) + 1]}]
Starts(d, page, kind, bundle, accepted) ==
  /\ Begins(kind, bundle, accepted)
  /\ Becomes(d, Watching(page, kind))

\* goToInstall
StartsInstall(d, page, accepted) ==
  \E n \in DOMAIN page.infos :
    /\ IsFirstInfo(page, n)
    /\ Starts(d, [page EXCEPT !.way["install"] = FALSE], "install", page.infos[n], accepted)
\* The configuration page of an app for which the server returns no settings,
\* be it that it has none or that the request failed, installs it at once.
Configures(d, page, app) ==
  \/ Becomes(d, Entered(page, "config_app", app)) /\ UNCHANGED tasks
  \/ \E accepted \in BOOLEAN : StartsInstall(d, Entered(page, "config_app", app), accepted)

\* A dialog covers the page, except that of an install: the page of the
\* administrator is built without the template of its content.
Free(d) == doc[d].dialog \in {Nothing, "install"}

\* AppstoreController.doConfigApp
Download(d, b, accepted) ==
  /\ doc[d].route = "appstore" /\ Free(d)
  /\ Starts(d, doc[d], "download", b, accepted)
  /\ UNCHANGED <<up, restarts>>
\* ConfirmConfigAppController.doInstall
Install(d, accepted) ==
  /\ doc[d].route = "confirm_config_app"
  /\ StartsInstall(d, doc[d], accepted)
  /\ UNCHANGED <<up, restarts>>
\* InstalledappsController.doUninstallApp; a refusal is not watched.
Uninstall(d, b) ==
  /\ doc[d].route = "installedapps" /\ Free(d)
  /\ Starts(d, doc[d], "uninstall", b, TRUE)
  /\ UNCHANGED <<up, restarts>>
\* RestoreController.doRestore
Restore(d, accepted) ==
  /\ doc[d].route = "restore" /\ Free(d)
  /\ Starts(d, doc[d], "restore", Nothing, accepted)
  /\ UNCHANGED <<up, restarts>>

\* The user goes to another page, by a link, with the browser's buttons, or by
\* saving a configuration, whatever becomes of that.  A configuration page of
\* an app that was not downloaded goes to the app store.
Visit(d, route) ==
  /\ {route, doc[d].route} \subseteq AdminRoutes \/ {route, doc[d].route} \subseteq SetupRoutes
  /\ route \notin {doc[d].route} \cup ConfigRoutes
  /\ Becomes(d, Entered(doc[d], route, Nothing))
  /\ UNCHANGED <<tasks, up, restarts>>
VisitConfig_Unknown(d, route, app) ==
  /\ doc[d].route \in AdminRoutes /\ route \in ConfigRoutes
  /\ <<route, app>> # <<doc[d].route, doc[d].app>>
  /\ OfApp(doc[d], app) = {} => doc[d].route # "appstore"
  /\ IF OfApp(doc[d], app) = {} /\ route = "config_app"
     THEN Becomes(d, Entered(doc[d], "appstore", Nothing)) /\ UNCHANGED tasks
     ELSE IF route = "config_app" THEN Configures(d, doc[d], app)
     ELSE Becomes(d, Entered(doc[d], route, app)) /\ UNCHANGED tasks
  /\ UNCHANGED <<up, restarts>>
VisitConfig(d, route, app) ==
  /\ doc[d].route \in AdminRoutes /\ route \in ConfigRoutes
  /\ <<route, app>> # <<doc[d].route, doc[d].app>>
  /\ OfApp(doc[d], app) = {} => doc[d].route # "appstore"
  /\ IF OfApp(doc[d], app) = {}
     THEN Becomes(d, Entered(doc[d], "appstore", Nothing)) /\ UNCHANGED tasks
     ELSE IF route = "config_app" THEN Configures(d, doc[d], app)
     ELSE Becomes(d, Entered(doc[d], route, app)) /\ UNCHANGED tasks
  /\ UNCHANGED <<up, restarts>>

\* He loads the document again.
Reload(d) ==
  /\ Becomes(d, Opened(IF doc[d].route \in SetupRoutes THEN "restore" ELSE "appstore"))
  /\ UNCHANGED <<tasks, up, restarts>>

\* closeModal hides Close again.  That of the uninstall dialog looks for a
\* controller this application does not have, and fails.
Close(d) ==
  /\ doc[d].dialog \in {"download", "restore"} /\ doc[d].way[doc[d].dialog]
  /\ Becomes(d, [Closed(doc[d]) EXCEPT !.way[doc[d].dialog] = FALSE])
  /\ UNCHANGED <<tasks, up, restarts>>

-----------------------------------------------------------------------------
(* The timers.                                                             *)

Done(page, w) == [page EXCEPT !.watches = @ \ {w}]

\* A download that succeeded is remembered, and configured if the app store
\* is still the page.
PollDownload_NoClose(d, w, answer) ==
  /\ w.kind = "download" /\ answer \in {"succeeded", "failed"}
  /\ LET page  == Done(doc[d], w)
         b     == tasks[w.task].bundle
         known == [page EXCEPT !.infos = Append(@, b)]
     IN IF answer = "succeeded" /\ page.route = "appstore"
        THEN Configures(d, known, AppOf[b])
        ELSE /\ Becomes(d, IF answer = "succeeded" THEN known ELSE page)
             /\ UNCHANGED tasks
PollDownload(d, w, answer) ==
  /\ w.kind = "download" /\ answer \in {"succeeded", "failed"}
  /\ LET page  == Done(doc[d], w)
         b     == tasks[w.task].bundle
         known == [page EXCEPT !.infos = Append(@, b)]
     IN IF answer = "succeeded" /\ page.route = "appstore"
        THEN Configures(d, known, AppOf[b])
        ELSE /\ Becomes(d, IF answer = "succeeded" THEN known ELSE [page EXCEPT !.way["download"] = TRUE])
             /\ UNCHANGED tasks

\* Without its component the callback fails before it stops the timer.
PollInstall(d, w, answer) ==
  /\ w.kind = "install" /\ answer \in {"succeeded", "failed"} /\ w.shown
  /\ Becomes(d, [Done(doc[d], w) EXCEPT !.way["install"] = TRUE])
  /\ UNCHANGED tasks

\* A failure is shown, if at all, as one more message.
PollUninstall(d, w, answer) ==
  /\ w.kind = "uninstall" /\ answer = "succeeded"
  /\ Becomes(d, [Done(doc[d], w) EXCEPT !.way["uninstall"] = TRUE])
  /\ UNCHANGED tasks

\* A failure is shown each time; a task not found is a restore that is done.
PollRestore_NeverDone(d, w, answer) ==
  /\ w.kind = "restore"
  /\ Becomes(d, CASE answer = "failed"   -> [doc[d] EXCEPT !.way["restore"] = TRUE, !.told = FALSE]
                  [] answer = "succeeded" -> [Done(doc[d], w) EXCEPT !.told = TRUE]
                  [] OTHER               -> [doc[d] EXCEPT !.told = FALSE])
  /\ UNCHANGED tasks
PollRestore(d, w, answer) ==
  /\ w.kind = "restore"
  /\ Becomes(d, CASE answer = "failed"   -> [doc[d] EXCEPT !.way["restore"] = TRUE, !.told = FALSE]
                  [] answer = "notFound" -> [Done(doc[d], w) EXCEPT !.told = TRUE]
                  [] OTHER               -> [doc[d] EXCEPT !.told = FALSE])
  /\ UNCHANGED tasks

Poll(d, w) ==
  /\ w \in doc[d].watches
  /\ \E answer \in Answers(w.task) :
       \/ PollDownload(d, w, answer) \/ PollInstall(d, w, answer)
       \/ PollUninstall(d, w, answer) \/ PollRestore(d, w, answer)
  /\ UNCHANGED <<up, restarts>>

-----------------------------------------------------------------------------

Asks(d) ==
  \/ \E accepted \in BOOLEAN :
       \/ \E b \in Bundles : Download(d, b, accepted)
       \/ Install(d, accepted) \/ Restore(d, accepted)
  \/ \E b \in Bundles : Uninstall(d, b)
  \/ \E route \in AdminRoutes \cup SetupRoutes : Visit(d, route)
  \/ \E route \in ConfigRoutes, app \in Apps : VisitConfig(d, route, app)
  \/ Reload(d) \/ Close(d)

Next ==
  \/ \E i \in TaskId : \E state \in {"succeeded", "failed"} : TaskEnds(i, state)
  \/ Stop \/ Return
  \/ \E d \in Docs : Asks(d) \/ \E w \in doc[d].watches : Poll(d, w)

\* Timers fire, and the server is started again.  Its tasks need not end: a
\* fetch has no limit of time and AppDAO.resetApps can wait for ever.  Users
\* need do nothing.
Fairness ==
  /\ \A d \in Docs, i \in TaskId : WF_vars(\E w \in doc[d].watches : w.task = i /\ Poll(d, w))
  /\ WF_vars(Return)

Spec == Init /\ [][Next]_vars /\ Fairness

-----------------------------------------------------------------------------

\* A task the server does not have: its request was refused, or the server
\* forgot it when it stopped.
Lost(i) == Status(i) = "notFound"

\* The timers that the dialog on the page was opened with.
OwnTimers(d) == {w \in doc[d].watches : w.shown /\ Shows(d, w.kind)}
LostDownload(d) == Shows(d, "download") /\ \E w \in OwnTimers(d) : Lost(w.task)

\* The dialog of a download that the server has is not left behind without
\* Close, whichever of several timers shares its flag: it shows Close, or its
\* own timer still asks for the task (app_store_controller.js).  A download
\* that was refused or forgotten is the exception: it is asked for in vain, and
\* its dialog never shows Close unless the timer of another one does.  The
\* dialog of a restore shows Close, is watched still, or has told that the
\* restore is done, as it also does of one that was refused
\* (restore_controller.js).
DialogHasWayOut ==
  \A d \in Docs :
    /\ Shows(d, "download") /\ ~LostDownload(d) =>
         \/ doc[d].way["download"]
         \/ \E w \in OwnTimers(d) : ~Lost(w.task)
    /\ Shows(d, "restore") =>
         \/ doc[d].way["restore"] \/ doc[d].told
         \/ \E w \in doc[d].watches : w.kind = "restore"

Watched(d, kind, i) == \E w \in doc[d].watches : w.kind = kind /\ w.task = i
Ended(i) == Status(i) \in {"succeeded", "failed"}

\* A page stops asking for a task that has ended: for a download unless the
\* server forgets it first, for an install unless it does or the page is left,
\* for an uninstall if it succeeded, and for a restore, which ends the server,
\* once the server does not have it.  A page goes on asking for a task that
\* never ends, for a download, install or uninstall that is lost, and for an
\* uninstall or a restore that failed.
WatchingEnds ==
  \A d \in Docs, i \in TaskId :
    /\ Watched(d, "download", i) /\ Ended(i) ~> ~Watched(d, "download", i) \/ Lost(i)
    /\ Watched(d, "install", i) /\ Ended(i) ~>
         \/ ~Watched(d, "install", i) \/ Lost(i)
         \/ [kind |-> "install", task |-> i, shown |-> FALSE] \in doc[d].watches
    /\ Watched(d, "uninstall", i) /\ Status(i) = "succeeded" ~>
         ~Watched(d, "uninstall", i) \/ Lost(i)
    /\ Watched(d, "restore", i) /\ Lost(i) ~> ~Watched(d, "restore", i)
=============================================================================
