--------------------------- MODULE AppRuntimeCache ---------------------------
(***************************************************************************)
(* The two lazily built caches of AppDAO: `apps` (name -> AppRuntime) and  *)
(* `appDetails` (name -> AppRuntimeDetails, derived from `apps`).  Each is *)
(* an AtomicReference filled under double-checked locking on itself;       *)
(* resetApps clears both while holding both monitors.  Request threads     *)
(* read the caches, app tasks change the app repository and then reset.    *)
(*                                                                         *)
(* The repository itself is reduced to one entry per app: whether it is    *)
(* active, and a revision that counts the changes made to it, so that "how *)
(* old is this cached map" can be said.  A build reads the entries one by  *)
(* one, as the directory walk does.                                        *)
(*                                                                         *)
(* A definition whose name has a suffix (LockApps_NoMonitor) is the one    *)
(* that follows it with a plausible bug; the specification never uses it.  *)
(***************************************************************************)
EXTENDS Naturals

CONSTANTS
  Threads,          \* the server's request and task threads
  DetailsCallers,   \* those that call getAvailableAppDetails
  RuntimesCallers,  \* those that call getAvailableRuntimes / findAppRuntime
  Resetters,        \* those that change the repository or refresh
  Apps,             \* app names
  Parent,           \* the parent named in each app's manifest
  NoApp,            \* "no parent"
  NoThread,         \* a monitor nobody owns
  Null,             \* the null reference
  Failed,           \* the outcome of a call that threw
  MaxRev            \* bound on the number of changes made to one app

ASSUME CallersAssumption ==
  /\ DetailsCallers \subseteq Threads
  /\ RuntimesCallers \subseteq Threads
  /\ Resetters \subseteq Threads
  /\ NoThread \notin Threads

ASSUME ParentAssumption ==
  /\ Parent \in [Apps -> Apps \cup {NoApp}]
  /\ NoApp \notin Apps

ASSUME MaxRevAssumption == MaxRev \in Nat

Entry  == [rev : Nat, active : BOOLEAN]
AppMap == [Apps -> Entry]

ASSUME OutcomeAssumption ==
  /\ Null \notin AppMap
  /\ Failed \notin AppMap
  /\ Null # Failed

VARIABLES
  repo,         \* the app repository on disk: App -> Entry
  apps,         \* AppDAO.apps
  appDetails,   \* AppDAO.appDetails
  appsLock,     \* owner of the monitor of `apps`
  detailsLock,  \* owner of the monitor of `appDetails`
  pc,           \* where each thread is
  nested,       \* TRUE while getAvailableRuntimes runs on behalf of getAvailableAppDetails
  todo,         \* apps a build has still to read
  built,        \* the map a build has read so far, or the detailsMap being filled
  result,       \* what a thread's last call returned, Null while it is in one
  floor,        \* history: the repository's revisions when both caches were last cleared
  asked,        \* history: floor when the thread's current or last call began
  cleared       \* history: threads whose current or last call a reset has cleared
                \* a cache in the middle of

vars == <<repo, apps, appDetails, appsLock, detailsLock, pc, nested, todo,
          built, result, floor, asked, cleared>>

caches  == <<apps, appDetails>>
monitors   == <<appsLock, detailsLock>>
locals  == <<nested, todo, built>>
history == <<floor, asked, cleared>>

-----------------------------------------------------------------------------
(* Helpers *)

NeverChanged == [a \in Apps |-> [rev |-> 0, active |-> FALSE]]

Goto(t, from, to) == pc[t] = from /\ pc' = [pc EXCEPT ![t] = to]

Return(t, from, r) == Goto(t, from, "idle") /\ result' = [result EXCEPT ![t] = r]

\* Without the parent of an active app among the active ones initAvailableRuntimes
\* throws: mergeParent dereferences runtimes.get(parent).
ParentsPresent(m) ==
  \A a \in Apps : m[a].active /\ Parent[a] # NoApp => m[Parent[a]].active

InCall == {t \in Threads : pc[t] # "idle"}

NotOlder(m, revs) == \A a \in Apps : m[a].rev >= revs[a]

Init ==
  /\ repo \in [Apps -> [rev : {0}, active : BOOLEAN]]
  /\ apps = Null
  /\ appDetails = Null
  /\ appsLock = NoThread
  /\ detailsLock = NoThread
  /\ pc = [t \in Threads |-> "idle"]
  /\ nested = [t \in Threads |-> FALSE]
  /\ todo = [t \in Threads |-> {}]
  /\ built = [t \in Threads |-> NeverChanged]
  /\ result = [t \in Threads |-> Null]
  /\ floor = [a \in Apps |-> 0]
  /\ asked = [t \in Threads |-> [a \in Apps |-> 0]]
  /\ cleared = {}

-----------------------------------------------------------------------------
(* getAvailableAppDetails *)

CallDetails(t) ==
  /\ t \in DetailsCallers
  /\ Goto(t, "idle", "checkDetails")
  /\ asked' = [asked EXCEPT ![t] = floor]
  /\ cleared' = cleared \ {t}
  /\ result' = [result EXCEPT ![t] = Null]
  /\ UNCHANGED <<repo, caches, monitors, locals, floor>>

CheckDetails(t) ==
  /\ \/ appDetails = Null /\ Goto(t, "checkDetails", "lockDetails")
     \/ appDetails # Null /\ Goto(t, "checkDetails", "readDetails")
  /\ UNCHANGED <<repo, caches, monitors, locals, result, history>>

LockDetails_NoMonitor(t) ==
  /\ Goto(t, "lockDetails", "recheckDetails")
  /\ UNCHANGED <<repo, caches, monitors, locals, result, history>>

LockDetails(t) ==
  /\ detailsLock = NoThread
  /\ Goto(t, "lockDetails", "recheckDetails")
  /\ detailsLock' = t
  /\ UNCHANGED <<repo, caches, appsLock, locals, result, history>>

\* The second check, now under the monitor.
MissDetails(t) ==
  /\ appDetails = Null
  /\ Goto(t, "recheckDetails", "checkApps")
  /\ nested' = [nested EXCEPT ![t] = TRUE]
  /\ UNCHANGED <<repo, caches, monitors, todo, built, result, history>>

HitDetails(t) ==
  /\ appDetails # Null
  /\ Goto(t, "recheckDetails", "unlockDetails")
  /\ UNCHANGED <<repo, caches, monitors, locals, result, history>>

PublishDetails(t) ==
  /\ Goto(t, "publishDetails", "unlockDetails")
  /\ appDetails' = built[t]
  /\ built' = [built EXCEPT ![t] = NeverChanged]
  /\ UNCHANGED <<repo, apps, monitors, nested, todo, result, history>>

UnlockDetails(t) ==
  /\ Goto(t, "unlockDetails", "readDetails")
  /\ detailsLock' = NoThread
  /\ UNCHANGED <<repo, caches, appsLock, locals, result, history>>

\* An exception inside the synchronized block releases the monitor.
UnwindDetails(t) ==
  /\ Return(t, "unwindDetails", Failed)
  /\ detailsLock' = NoThread
  /\ UNCHANGED <<repo, caches, appsLock, locals, history>>

\* The reference is read once more for the return value, outside the monitor.
ReadDetails(t) ==
  /\ Return(t, "readDetails", appDetails)
  /\ UNCHANGED <<repo, caches, monitors, locals, history>>

-----------------------------------------------------------------------------
(* getAvailableRuntimes and initAvailableRuntimes *)

CallRuntimes(t) ==
  /\ t \in RuntimesCallers
  /\ Goto(t, "idle", "checkApps")
  /\ asked' = [asked EXCEPT ![t] = floor]
  /\ cleared' = cleared \ {t}
  /\ result' = [result EXCEPT ![t] = Null]
  /\ UNCHANGED <<repo, caches, monitors, locals, floor>>

CheckApps(t) ==
  /\ \/ apps = Null /\ Goto(t, "checkApps", "lockApps")
     \/ apps # Null /\ Goto(t, "checkApps", "readApps")
  /\ UNCHANGED <<repo, caches, monitors, locals, result, history>>

LockApps_NoMonitor(t) ==
  /\ Goto(t, "lockApps", "recheckApps")
  /\ UNCHANGED <<repo, caches, monitors, locals, result, history>>

LockApps(t) ==
  /\ appsLock = NoThread
  /\ Goto(t, "lockApps", "recheckApps")
  /\ appsLock' = t
  /\ UNCHANGED <<repo, caches, detailsLock, locals, result, history>>

MissApps(t) ==
  /\ apps = Null
  /\ Goto(t, "recheckApps", "build")
  /\ todo' = [todo EXCEPT ![t] = Apps]
  /\ UNCHANGED <<repo, caches, monitors, nested, built, result, history>>

HitApps(t) ==
  /\ apps # Null
  /\ Goto(t, "recheckApps", "unlockApps")
  /\ UNCHANGED <<repo, caches, monitors, locals, result, history>>

\* findActive: one iteration of the walk over the app directories.
LoadApp(t) ==
  /\ pc[t] = "build"
  /\ \E a \in todo[t] :
       /\ built' = [built EXCEPT ![t] = [@ EXCEPT ![a] = repo[a]]]
       /\ todo' = [todo EXCEPT ![t] = @ \ {a}]
  /\ UNCHANGED <<repo, caches, monitors, pc, nested, result, history>>

BuildDone(t) ==
  /\ todo[t] = {}
  /\ ParentsPresent(built[t])
  /\ Goto(t, "build", "unlockApps")
  /\ apps' = built[t]
  /\ built' = [built EXCEPT ![t] = NeverChanged]
  /\ UNCHANGED <<repo, appDetails, monitors, nested, todo, result, history>>

BuildFails_FailureCached(t) ==
  /\ Goto(t, "build", "unlockApps")
  /\ apps' = Failed
  /\ UNCHANGED <<repo, appDetails, monitors, locals, result, history>>

BuildFails_KeepsMonitor(t) ==
  /\ ~nested[t]
  /\ Return(t, "build", Failed)
  /\ todo' = [todo EXCEPT ![t] = {}]
  /\ built' = [built EXCEPT ![t] = NeverChanged]
  /\ UNCHANGED <<repo, caches, monitors, nested, history>>

BuildFails_OnlyLogged(t) ==
  /\ Goto(t, "build", "unlockApps")
  /\ todo' = [todo EXCEPT ![t] = {}]
  /\ built' = [built EXCEPT ![t] = NeverChanged]
  /\ UNCHANGED <<repo, caches, monitors, nested, result, history>>

\* An exception anywhere in the build (a manifest, a plugin class that does not
\* load, no parent) and die(): the monitor of `apps` is released; a nested call
\* unwinds further.
BuildFails(t) ==
  /\ \/ /\ nested[t]
        /\ Goto(t, "build", "unwindDetails")
        /\ UNCHANGED result
     \/ /\ ~nested[t]
        /\ Return(t, "build", Failed)
  /\ appsLock' = NoThread
  /\ nested' = [nested EXCEPT ![t] = FALSE]
  /\ todo' = [todo EXCEPT ![t] = {}]
  /\ built' = [built EXCEPT ![t] = NeverChanged]
  /\ UNCHANGED <<repo, caches, detailsLock, history>>

UnlockApps(t) ==
  /\ Goto(t, "unlockApps", "readApps")
  /\ appsLock' = NoThread
  /\ UNCHANGED <<repo, caches, detailsLock, locals, result, history>>

\* Again a last read of the reference, outside the monitor.
ReadApps(t) ==
  /\ ~nested[t]
  /\ Return(t, "readApps", apps)
  /\ UNCHANGED <<repo, caches, monitors, locals, history>>

\* In a nested call its entries are copied into detailsMap; were it null, the
\* for statement would throw.
CopyRuntimes(t) ==
  /\ nested[t]
  /\ Goto(t, "readApps", IF apps = Null THEN "unwindDetails" ELSE "publishDetails")
  /\ built' = [built EXCEPT ![t] = IF apps = Null THEN NeverChanged ELSE apps]
  /\ nested' = [nested EXCEPT ![t] = FALSE]
  /\ UNCHANGED <<repo, caches, monitors, todo, result, history>>

-----------------------------------------------------------------------------
(* resetApps, called by an app task after it changed the repository, and by *)
(* GET /apps/refresh                                                        *)

ChangeApp(t) ==
  /\ t \in Resetters
  /\ Goto(t, "idle", "resetLockApps")
  /\ \E a \in Apps, active \in BOOLEAN :
       /\ repo[a].rev < MaxRev
       /\ repo' = [repo EXCEPT ![a] = [rev |-> repo[a].rev + 1, active |-> active]]
  /\ UNCHANGED <<caches, monitors, locals, result, history>>

Refresh(t) ==
  /\ t \in Resetters
  /\ Goto(t, "idle", "resetLockApps")
  /\ UNCHANGED <<repo, caches, monitors, locals, result, history>>

ResetLockApps(t) ==
  /\ appsLock = NoThread
  /\ Goto(t, "resetLockApps", "resetLockDetails")
  /\ appsLock' = t
  /\ UNCHANGED <<repo, caches, detailsLock, locals, result, history>>

ResetLockDetails_NoMonitor(t) ==
  /\ Goto(t, "resetLockDetails", "clearApps")
  /\ UNCHANGED <<repo, caches, monitors, locals, result, history>>

ResetLockDetails(t) ==
  /\ detailsLock = NoThread
  /\ Goto(t, "resetLockDetails", "clearApps")
  /\ detailsLock' = t
  /\ UNCHANGED <<repo, caches, appsLock, locals, result, history>>

ClearApps(t) ==
  /\ Goto(t, "clearApps", "clearDetails")
  /\ apps' = Null
  /\ cleared' = cleared \cup InCall
  /\ UNCHANGED <<repo, appDetails, monitors, locals, result, floor, asked>>

ClearDetails(t) ==
  /\ Goto(t, "clearDetails", "resetUnlockDetails")
  /\ appDetails' = Null
  /\ floor' = [a \in Apps |-> repo[a].rev]
  /\ cleared' = cleared \cup InCall
  /\ UNCHANGED <<repo, apps, monitors, locals, result, asked>>

ResetUnlockDetails(t) ==
  /\ Goto(t, "resetUnlockDetails", "resetUnlockApps")
  /\ detailsLock' = NoThread
  /\ UNCHANGED <<repo, caches, appsLock, locals, result, history>>

ResetUnlockApps(t) ==
  /\ Goto(t, "resetUnlockApps", "idle")
  /\ appsLock' = NoThread
  /\ UNCHANGED <<repo, caches, detailsLock, locals, result, history>>

-----------------------------------------------------------------------------
DetailsStep(t) ==
  \/ CheckDetails(t) \/ LockDetails(t) \/ MissDetails(t) \/ HitDetails(t)
  \/ CopyRuntimes(t) \/ PublishDetails(t) \/ UnlockDetails(t) \/ UnwindDetails(t) \/ ReadDetails(t)

RuntimesStep(t) ==
  \/ CheckApps(t) \/ LockApps(t) \/ MissApps(t) \/ HitApps(t) \/ LoadApp(t)
  \/ BuildDone(t) \/ BuildFails(t) \/ UnlockApps(t) \/ ReadApps(t)

ResetStep(t) ==
  \/ ResetLockApps(t) \/ ResetLockDetails(t) \/ ClearApps(t) \/ ClearDetails(t)
  \/ ResetUnlockDetails(t) \/ ResetUnlockApps(t)

\* The steps of a call already under way.
Proceed(t) == DetailsStep(t) \/ RuntimesStep(t) \/ ResetStep(t)

Call(t) == CallDetails(t) \/ CallRuntimes(t) \/ ChangeApp(t) \/ Refresh(t)

Next == \E t \in Threads : Call(t) \/ Proceed(t)

Spec == Init /\ [][Next]_vars

-----------------------------------------------------------------------------
(* Properties *)

DetailsPCs  == {"checkDetails", "lockDetails", "recheckDetails", "publishDetails",
                "unlockDetails", "unwindDetails", "readDetails"}
RuntimesPCs == {"checkApps", "lockApps", "recheckApps", "build", "unlockApps", "readApps"}
ResetPCs    == {"resetLockApps", "resetLockDetails", "clearApps", "clearDetails",
                "resetUnlockDetails", "resetUnlockApps"}

\* Every variable keeps its type.
TypeOK ==
  /\ repo \in AppMap
  /\ apps \in AppMap \cup {Null}
  /\ appDetails \in AppMap \cup {Null}
  /\ appsLock \in Threads \cup {NoThread}
  /\ detailsLock \in Threads \cup {NoThread}
  /\ pc \in [Threads -> {"idle"} \cup DetailsPCs \cup RuntimesPCs \cup ResetPCs]
  /\ nested \in [Threads -> BOOLEAN]
  /\ todo \in [Threads -> SUBSET Apps]
  /\ built \in [Threads -> AppMap]
  /\ result \in [Threads -> AppMap \cup {Null, Failed}]
  /\ floor \in [Apps -> Nat]
  /\ asked \in [Threads -> [Apps -> Nat]]
  /\ cleared \subseteq Threads

\* A call that begins after a resetApps took effect never returns a map read
\* from a repository older than the one that reset saw: a build that raced the
\* reset cannot leave its stale map in either cache (AppDAO.resetApps against
\* the two double-checked getters).
NoStaleResult ==
  \A t \in Threads :
    result[t] \in AppMap /\ pc[t] = "idle" => NotOlder(result[t], asked[t])

\* While appDetails is being built getAvailableRuntimes never hands it null, so
\* the for statement of getAvailableAppDetails cannot throw: the reset that
\* would clear `apps` needs the monitor of `appDetails` first.
NestedRuntimesPresent ==
  \A t \in Threads : nested[t] /\ pc[t] = "readApps" => apps # Null

\* Outside resetApps's critical section there are no details without runtimes,
\* and the details are those of the very runtimes that are cached: the two
\* caches never describe two different repositories.
CachesAgree ==
  (\A t \in Threads : pc[t] # "clearDetails") =>
    (appDetails # Null => apps = appDetails)

\* A getter returns null only when a resetApps cleared the cache in the middle of
\* that very call, between its last look at the reference under the monitor and
\* the read for the return statement outside it; never because a build failed, or
\* because of a reset that was over before it was called.
NullOnlyByReset ==
  [][\A t \in Threads :
       (ReadApps(t) \/ ReadDetails(t)) /\ result'[t] = Null => t \in cleared]_vars

\* Threads that are all waiting for a monitor wait because of the one cycle the
\* lock order allows: a getAvailableAppDetails that owns `appDetails` and wants
\* `apps`, against a resetApps that owns `apps` and wants `appDetails`.  No
\* exception path leaves a monitor behind.
AppsWaiter(t)    == pc[t] \in {"lockApps", "resetLockApps"} /\ appsLock # NoThread
DetailsWaiter(t) == pc[t] \in {"lockDetails", "resetLockDetails"} /\ detailsLock # NoThread

StuckOnlyByLockOrder ==
  InCall # {} /\ (\A t \in InCall : AppsWaiter(t) \/ DetailsWaiter(t)) =>
    /\ appsLock \in Threads /\ pc[appsLock] = "resetLockDetails"
    /\ detailsLock \in Threads /\ pc[detailsLock] = "lockApps"
=============================================================================
