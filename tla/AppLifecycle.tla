---------------------------- MODULE AppLifecycle ----------------------------
(***************************************************************************)
(* The background tasks that download, install and uninstall one app:      *)
(* AppDownloadTask, AppInstallTask, AppUninstallTask, with the app's part  *)
(* of the app repository on disk and the rooty daemon, a separate process  *)
(* that applies ChefMessages to the chef-solo run list one at a time.      *)
(*                                                                         *)
(* Each task runs on its own thread and nothing serialises them: a step    *)
(* here is a stretch of the code between two accesses to the repository    *)
(* another task can come between.  The server may crash and lose its tasks *)
(* (rooty, its queue and the disk survive); a task may give up waiting for *)
(* rooty, which then applies the message all the same.                     *)
(*                                                                         *)
(* A definition whose name has a suffix (MoveFile_StopsEarly) is the one   *)
(* that follows it with a plausible bug; the specification never uses it.  *)
(***************************************************************************)
EXTENDS Naturals, Sequences, FiniteSetsExt

CONSTANTS
  Tasks,        \* task threads
  Versions,     \* version numbers of the app
  Published,    \* those the app store lists
  NeedsConfig,  \* those whose manifest has configuration
  Files,        \* what an unrolled bundle holds
  Settings,     \* settings such a version must be given before it validates
  Requestable,  \* what an install may ask for: versions, or Latest
  Latest,       \* "latest", which the resource turns into a null version
  NoVersion,    \* null
  Nobody,       \* the sender of a message whose task is gone
  MayTimeOut,   \* whether INSTALL_TIMEOUT and UNINSTALL_TIMEOUT may expire
  Flags,        \* the flags that downloads are asked for with
  MaxCrashes,   \* bound on server crashes
  MaxQueue      \* bound on tasks running and messages rooty has not handled

ASSUME VersionsAssumption ==
  /\ Versions \subseteq Nat
  /\ Published \subseteq Versions
  /\ NeedsConfig \subseteq Versions
  /\ Requestable \subseteq Versions \cup {Latest}
  /\ Latest \notin Versions
  /\ Nobody \notin Tasks
  /\ NoVersion \notin Versions

ASSUME BoundsAssumption == MaxCrashes \in Nat /\ MaxQueue \in Nat
ASSUME FlagsAssumption == Flags \subseteq [overwrite : BOOLEAN, auto : BOOLEAN]

\* The manifest (a file), the chef directory (cookbooks, and the databags that
\* settings are written to), and perhaps the rest.
ASSUME FilesAssumption ==
  /\ {"manifest", "chef"} \subseteq Files
  /\ Files \subseteq {"manifest", "chef", "other"}
Directories == Files \ {"manifest"}

VARIABLES
  \* the app repository
  appDir,     \* the app's directory exists
  dirs,       \* version directories that exist
  bundles,    \* versions whose bundle tarball is in place
  placed,     \* per version, what has been moved into its directory
  settings,   \* per version, the settings in its databags
  active,     \* metadata.json: active_version
  \* rooty and chef
  queue,      \* ChefMessages not handled yet
  chef,       \* the version chef-solo has on its run list, and its settings
  answer,     \* per task, the status of the message it waits for
  \* the tasks
  pc, job, todo,
  \* bounds and history
  crashes,
  cutShort,   \* a task gave up waiting for rooty, or the server stopped under it
  abandoned,  \* a chef run has been applied, or may be, that nobody recorded
  applied,    \* versions that have at some time been on the run list
  unfinished  \* versions of which only a part may be there: their files are being
              \* moved or deleted, or were when that failed or the server stopped,
              \* or they were registered from what chef has; until a download of
              \* them gets to its last file, or all is deleted

disk    == <<appDir, dirs, bundles, placed, settings, active>>
rooty   == <<queue, chef, answer>>
history == <<crashes, cutShort, abandoned, applied, unfinished>>
vars    == <<disk, rooty, pc, job, todo, history>>

Job == [version : Versions \cup {NoVersion}, byVersion : BOOLEAN, overwrite : BOOLEAN,
        auto : BOOLEAN, nested : BOOLEAN, file : Files \cup {"none"}]

NoJob == [version |-> NoVersion, byVersion |-> TRUE, overwrite |-> FALSE,
          auto |-> FALSE, nested |-> FALSE, file |-> "none"]

NotInstalled == [version |-> NoVersion, settings |-> {}]

-----------------------------------------------------------------------------
(* Helpers *)

Goto(t, from, to) == pc[t] = from /\ pc' = [pc EXCEPT ![t] = to]

\* The task is over; the temporary files it leaves are deleted.
Finish(t, from) ==
  /\ pc[t] = from
  /\ pc' = [pc EXCEPT ![t] = "idle"]
  /\ job' = [job EXCEPT ![t] = NoJob]
  /\ todo' = [todo EXCEPT ![t] = {}]

\* Ending with an error, with nothing more done to the repository.
Fail(t, from) == Finish(t, from)

\* What a version's manifest defines; its databags have settings for nothing else.
Required(v) == IF v \in NeedsConfig THEN Settings ELSE {}

\* The layout of the app without a version is that of its active version.
ActiveLoads  == \E v \in dirs \cap {active} : "manifest" \in placed[v]

\* Answers are matched by the message's uuid: what a task that gave up sent
\* before is answered to nobody.
Disowned(gone) ==
  [i \in DOMAIN queue |-> IF queue[i].task \in gone
                         THEN [queue[i] EXCEPT !.task = Nobody] ELSE queue[i]]

\* Bounds the queue: a task sends at most one message.
Room == Len(queue) + Cardinality({t \in Tasks : pc[t] # "idle"}) < MaxQueue

Init ==
  /\ appDir = FALSE
  /\ dirs = {}
  /\ bundles = {}
  /\ placed = [v \in Versions |-> {}]
  /\ settings = [v \in Versions |-> {}]
  /\ active = NoVersion
  /\ queue = <<>>
  /\ chef = NotInstalled
  /\ answer = [t \in Tasks |-> "none"]
  /\ pc = [t \in Tasks |-> "idle"]
  /\ job = [t \in Tasks |-> NoJob]
  /\ todo = [t \in Tasks |-> {}]
  /\ crashes = 0
  /\ cutShort = FALSE
  /\ abandoned = FALSE
  /\ applied = {}
  /\ unfinished = {}

-----------------------------------------------------------------------------
(* AppDownloadTask *)

SubmitDownload(t) ==
  /\ Room
  /\ Goto(t, "idle", "fetch")
  /\ \E v \in Versions, flags \in Flags :
       job' = [job EXCEPT ![t] = [NoJob EXCEPT !.version = v,
                                               !.overwrite = flags.overwrite,
                                               !.auto = flags.auto]]
  /\ UNCHANGED <<disk, rooty, todo, history>>

\* Fetching, the SHA check, unrolling or the manifest went wrong, or one of the
\* two directories cannot be made.
FetchFails(t) ==
  /\ Fail(t, "fetch")
  /\ appDir' \in {appDir, TRUE}
  /\ UNCHANGED <<dirs, bundles, placed, settings, active, rooty, history>>

\* The bundle is in a temporary directory; both target directories are made.
MakeDirs(t) ==
  /\ Goto(t, "fetch", "checkBundle")
  /\ appDir' = TRUE
  /\ dirs' = dirs \cup {job[t].version}
  /\ UNCHANGED <<bundles, placed, settings, active, rooty, job, todo, history>>

BundleExists(t) ==
  /\ job[t].version \in bundles
  /\ ~job[t].overwrite
  /\ Fail(t, "checkBundle")
  /\ UNCHANGED <<disk, rooty, history>>

BundleAbsent(t) ==
  /\ job[t].version \in bundles => job[t].overwrite
  /\ Goto(t, "checkBundle", "moveBundle")
  /\ UNCHANGED <<disk, rooty, job, todo, history>>

\* renameTo replaces a file that appeared since, and fails without the directory.
MoveBundle(t) ==
  /\ job[t].version \in dirs
  /\ Goto(t, "moveBundle", "checkFile")
  /\ bundles' = bundles \cup {job[t].version}
  /\ todo' = [todo EXCEPT ![t] = Files]
  /\ UNCHANGED <<appDir, dirs, placed, settings, active, rooty, job, history>>

\* It may fail with the directory, too (another file system, permissions).
MoveBundleFails(t) ==
  /\ Fail(t, "moveBundle")
  /\ UNCHANGED <<disk, rooty, history>>

\* listFiles has no files to give.
NoFiles(t) ==
  /\ todo[t] = Files
  /\ Fail(t, "checkFile")
  /\ UNCHANGED <<disk, rooty, history>>

\* One round of the loop over the unrolled files; listFiles has no order.  With
\* the overwrite flag what is there is deleted, a directory with all it holds.
CheckFile(t) ==
  /\ pc[t] = "checkFile"
  /\ \E f \in todo[t] :
       /\ f \in placed[job[t].version] => job[t].overwrite
       /\ pc' = [pc EXCEPT ![t] = "moveFile"]
       /\ job' = [job EXCEPT ![t].file = f]
       /\ todo' = [todo EXCEPT ![t] = @ \ {f}]
       /\ placed' = [placed EXCEPT ![job[t].version] = @ \ {f}]
       /\ settings' = [settings EXCEPT ![job[t].version] =
                         IF f = "chef" THEN {} ELSE @]
  /\ unfinished' = unfinished \cup {job[t].version}
  /\ UNCHANGED <<appDir, dirs, bundles, active, rooty, crashes, cutShort, abandoned, applied>>

\* What is there cannot be deleted; of a directory a part may be gone, and of
\* the chef directory some of the settings with it.
OverwriteFails(t) ==
  LET v == job[t].version IN
  /\ Fail(t, "checkFile")
  /\ job[t].overwrite
  /\ \E f \in todo[t] \cap placed[v] :
       \E left \in SUBSET settings[v] :
         /\ f # "chef" => left = settings[v]
         /\ settings' = [settings EXCEPT ![v] = left]
  /\ unfinished' = unfinished \cup {v}
  /\ UNCHANGED <<appDir, dirs, bundles, placed, active, rooty, crashes, cutShort, abandoned,
                 applied>>

FileExists(t) ==
  /\ ~job[t].overwrite
  /\ \E f \in todo[t] : f \in placed[job[t].version]
  /\ Fail(t, "checkFile")
  /\ UNCHANGED <<disk, rooty, history>>

\* renameTo fails without the version directory, and onto a directory that
\* appeared since it was checked; a file that appeared since is replaced.
MoveBlocked(t) ==
  \/ job[t].version \notin dirs
  \/ \E v \in dirs : v = job[t].version /\ job[t].file \in placed[v] \cap Directories

MoveFile_StopsEarly(t) ==
  /\ Goto(t, "moveFile", IF Cardinality(todo[t]) <= 1 THEN "assets" ELSE "checkFile")
  /\ ~MoveBlocked(t)
  /\ LET v == job[t].version IN
       /\ placed' = [placed EXCEPT ![v] = @ \cup {job[t].file}]
       /\ settings' = [settings EXCEPT ![v] = IF job[t].file = "chef" THEN {} ELSE @]
       /\ unfinished' = IF Cardinality(todo[t]) <= 1 THEN unfinished \ {v} ELSE unfinished
  /\ job' = [job EXCEPT ![t].file = "none"]
  /\ UNCHANGED <<appDir, dirs, bundles, active, rooty, todo, crashes, cutShort, abandoned,
                 applied>>

MoveFile(t) ==
  /\ Goto(t, "moveFile", IF todo[t] = {} THEN "assets" ELSE "checkFile")
  /\ ~MoveBlocked(t)
  /\ LET v == job[t].version IN
       /\ placed' = [placed EXCEPT ![v] = @ \cup {job[t].file}]
       /\ settings' = [settings EXCEPT ![v] = IF job[t].file = "chef" THEN {} ELSE @]
       /\ unfinished' = IF todo[t] = {} THEN unfinished \ {v} ELSE unfinished
  /\ job' = [job EXCEPT ![t].file = "none"]
  /\ UNCHANGED <<appDir, dirs, bundles, active, rooty, todo, crashes, cutShort, abandoned,
                 applied>>

\* It may fail at any file, with the ones before it in place.
MoveFileFails(t) ==
  /\ Fail(t, "moveFile")
  /\ UNCHANGED <<disk, rooty, history>>

AssetsFail(t) ==
  /\ Fail(t, "assets")
  /\ UNCHANGED <<disk, rooty, history>>

\* The end of a download on its own...
DownloadDone(t) ==
  /\ ~job[t].nested
  /\ job[t].auto => job[t].version \in NeedsConfig
  /\ Finish(t, "assets")
  /\ UNCHANGED <<disk, rooty, history>>

\* ...of one that goes on to install, and of one an install asked for.  An auto
\* install looks its version up again, with the overwrite flag as its force; the
\* install task that called does not.
DownloadThenInstall(t) ==
  LET auto == job[t].auto /\ job[t].version \notin NeedsConfig IN
  /\ job[t].nested \/ auto
  /\ job[t].nested => job[t].version \in dirs
  /\ Goto(t, "assets", IF job[t].nested THEN "prepare" ELSE "find")
  /\ job' = [job EXCEPT ![t].auto = FALSE, ![t].nested = FALSE]
  /\ UNCHANGED <<disk, rooty, todo, history>>

\* The nested download worked, but its directory is gone when the caller looks.
NestedDownloadLost(t) ==
  /\ job[t].nested
  /\ job[t].version \notin dirs
  /\ Fail(t, "assets")
  /\ UNCHANGED <<disk, rooty, history>>

-----------------------------------------------------------------------------
(* AppInstallTask *)

SubmitInstall(t) ==
  /\ Room
  /\ Goto(t, "idle", "find")
  /\ \E r \in Requestable, force \in BOOLEAN :
       job' = [job EXCEPT ![t] =
                 [NoJob EXCEPT !.version = IF r = Latest THEN NoVersion ELSE r,
                               !.byVersion = r # Latest, !.overwrite = force]]
  /\ UNCHANGED <<disk, rooty, todo, history>>

\* The version asked for, or the latest one that is there.  The force flag has
\* no use any more but to be passed on to chef.
FindVersion(t) ==
  /\ \E v \in dirs :
       /\ IF job[t].byVersion THEN v = job[t].version ELSE v = Max(dirs)
       /\ job' = [job EXCEPT ![t].version = v, ![t].overwrite = FALSE]
  /\ Goto(t, "find", "prepare")
  /\ UNCHANGED <<disk, rooty, todo, history>>

\* Not there: the app store is asked, and the listed version downloaded first.
FindInStore(t) ==
  /\ IF job[t].byVersion THEN job[t].version \notin dirs ELSE dirs = {}
  /\ \E v \in Published :
       /\ IF job[t].byVersion THEN v = job[t].version ELSE v = Max(Published)
       /\ job' = [job EXCEPT ![t].version = v, ![t].nested = TRUE]
  /\ Goto(t, "find", "fetch")
  /\ UNCHANGED <<disk, rooty, todo, history>>

VersionNotFound(t) ==
  /\ IF job[t].byVersion THEN job[t].version \notin dirs \cup Published
                         ELSE dirs \cup Published = {}
  /\ Fail(t, "find")
  /\ UNCHANGED <<disk, rooty, history>>

\* Settings of the active version are merged in and written back, then the
\* whole is validated and the manifest's databag written.  AppManifest.load
\* throws without a manifest.
Merged(v) == Required(v) \cap UNION {settings[w] : w \in {v, active} \cap dirs}

Manifests(v) == \A w \in {v, active} \cap dirs : "manifest" \in placed[w]

\* The databags live in the chef directory, which is made if it is missing.
WritesDatabags(v, values) ==
  /\ settings' = [settings EXCEPT ![v] = values]
  /\ placed' = [placed EXCEPT ![v] = @ \cup {"chef"}]

Prepare_NotValidated(t) ==
  LET v == job[t].version IN
  /\ v \in dirs
  /\ Manifests(v)
  /\ Goto(t, "prepare", "send")
  /\ WritesDatabags(v, Merged(v))
  /\ UNCHANGED <<appDir, dirs, bundles, active, rooty, job, todo, history>>

Prepare(t) ==
  LET v == job[t].version IN
  /\ v \in dirs
  /\ Manifests(v)
  /\ Required(v) \subseteq Merged(v)
  /\ Goto(t, "prepare", "send")
  /\ WritesDatabags(v, Merged(v))
  /\ UNCHANGED <<appDir, dirs, bundles, active, rooty, job, todo, history>>

\* Nothing to read, not valid, or a databag cannot be written: the merged
\* settings may have been.
PrepareFails(t) ==
  LET v == job[t].version IN
  /\ Fail(t, "prepare")
  /\ \/ UNCHANGED <<placed, settings>>
     \/ v \in dirs /\ Manifests(v) /\ WritesDatabags(v, Merged(v))
  /\ UNCHANGED <<appDir, dirs, bundles, active, rooty, history>>

SendAdd_RequestVersion(t) ==
  /\ Goto(t, "send", "awaitAdd")
  /\ "chef" \in placed[job[t].version]
  /\ queue' = Append(queue, [op |-> "ADD", task |-> t, version |-> IF job[t].byVersion THEN job[t].version ELSE NoVersion])
  /\ answer' = [answer EXCEPT ![t] = "pending"]
  /\ UNCHANGED <<disk, chef, job, todo, history>>

SendAdd(t) ==
  /\ Goto(t, "send", "awaitAdd")
  /\ "chef" \in placed[job[t].version]
  /\ queue' = Append(queue, [op |-> "ADD", task |-> t, version |-> job[t].version])
  /\ answer' = [answer EXCEPT ![t] = "pending"]
  /\ UNCHANGED <<disk, chef, job, todo, history>>

\* No chef directory any more, or the ports or permissions could not be written.
SendFails(t) ==
  /\ Fail(t, "send")
  /\ UNCHANGED <<disk, rooty, history>>

AddRefused(t) ==
  /\ answer[t] = "error"
  /\ Fail(t, "awaitAdd")
  /\ answer' = [answer EXCEPT ![t] = "none"]
  /\ UNCHANGED <<disk, queue, chef, history>>

RecordInstall_NotAwaited(t) ==
  /\ appDir
  /\ Goto(t, "awaitAdd", "reset")
  /\ active' = IF job[t].byVersion THEN job[t].version ELSE NoVersion
  /\ abandoned' = ~job[t].byVersion
  /\ answer' = [answer EXCEPT ![t] = "none"]
  /\ UNCHANGED <<appDir, dirs, bundles, placed, settings, queue, chef, job, todo, crashes, cutShort,
                 applied, unfinished>>

\* metadata.write; the version recorded is the request's, which is null when the
\* latest was asked for.
RecordInstall(t) ==
  /\ answer[t] = "ok"
  /\ appDir
  /\ Goto(t, "awaitAdd", "reset")
  /\ active' = IF job[t].byVersion THEN job[t].version ELSE NoVersion
  /\ abandoned' = ~job[t].byVersion
  /\ answer' = [answer EXCEPT ![t] = "none"]
  /\ UNCHANGED <<appDir, dirs, bundles, placed, settings, queue, chef, job, todo, crashes, cutShort,
                 applied, unfinished>>

\* The last thing a task does that changed the repository: resetApps, whose
\* monitors AppRuntimeCache models.
Reset(t) ==
  /\ Finish(t, "reset")
  /\ UNCHANGED <<disk, rooty, history>>

\* write throws: the app's directory is gone, or the file cannot be written.
RecordFails(t) ==
  /\ answer[t] = "ok"
  /\ Fail(t, "awaitAdd")
  /\ abandoned' = TRUE
  /\ answer' = [answer EXCEPT ![t] = "none"]
  /\ UNCHANGED <<disk, queue, chef, crashes, cutShort, applied, unfinished>>

-----------------------------------------------------------------------------
(* AppUninstallTask *)

SubmitUninstall(t) ==
  /\ Room
  /\ Goto(t, "idle", "findActive")
  /\ UNCHANGED <<disk, rooty, job, todo, history>>

SendRemove(t) ==
  /\ ActiveLoads
  /\ Goto(t, "findActive", "awaitRemove")
  /\ job' = [job EXCEPT ![t].version = active]
  /\ queue' = Append(queue, [op |-> "REMOVE", task |-> t, version |-> active])
  /\ answer' = [answer EXCEPT ![t] = "pending"]
  /\ UNCHANGED <<disk, chef, todo, history>>

NothingToRemove(t) ==
  /\ ~ActiveLoads
  /\ Fail(t, "findActive")
  /\ UNCHANGED <<disk, rooty, history>>

RemoveRefused(t) ==
  /\ answer[t] = "error"
  /\ Fail(t, "awaitRemove")
  /\ answer' = [answer EXCEPT ![t] = "none"]
  /\ UNCHANGED <<disk, queue, chef, history>>

DeleteApp_AnyStatus(t) ==
  /\ answer[t] \in {"ok", "error"}
  /\ Goto(t, "awaitRemove", "deleting")
  /\ abandoned' = (answer[t] = "ok")
  /\ answer' = [answer EXCEPT ![t] = "none"]
  /\ unfinished' = unfinished \cup dirs
  /\ UNCHANGED <<disk, queue, chef, job, todo, crashes, cutShort, applied>>

\* deleteQuietly(appDir) whatever the mode: it begins...
DeleteApp(t) ==
  /\ answer[t] = "ok"
  /\ Goto(t, "awaitRemove", "deleting")
  /\ abandoned' = TRUE
  /\ answer' = [answer EXCEPT ![t] = "none"]
  /\ unfinished' = unfinished \cup dirs
  /\ UNCHANGED <<disk, queue, chef, job, todo, crashes, cutShort, applied>>

\* ...deletes one thing after another, in no order: metadata.json,
DeleteMetadata ==
  /\ active # NoVersion
  /\ active' = NoVersion
  /\ abandoned' = FALSE
  /\ UNCHANGED <<appDir, dirs, bundles, placed, settings>>

\* a bundle,
DeleteBundle ==
  /\ \E v \in bundles : bundles' = bundles \ {v}
  /\ UNCHANGED <<appDir, dirs, placed, settings, active, abandoned>>

\* a file or directory of a version, or settings of the chef directory,
DeleteContents ==
  /\ \E v \in dirs :
       \/ \E f \in placed[v] :
            /\ placed' = [placed EXCEPT ![v] = @ \ {f}]
            /\ settings' = [settings EXCEPT ![v] = IF f = "chef" THEN {} ELSE @]
       \/ \E x \in settings[v] :
            /\ settings' = [settings EXCEPT ![v] = @ \ {x}]
            /\ UNCHANGED placed
  /\ UNCHANGED <<appDir, dirs, bundles, active, abandoned>>

\* and each directory once it is empty...
DeleteDirectory ==
  /\ \/ \E v \in dirs \ bundles :
          placed[v] = {} /\ dirs' = dirs \ {v} /\ UNCHANGED appDir
     \/ appDir /\ dirs = {} /\ active = NoVersion /\ appDir' = FALSE /\ UNCHANGED dirs
  /\ UNCHANGED <<bundles, placed, settings, active, abandoned>>

DeleteOne(t) ==
  /\ pc[t] = "deleting"
  /\ DeleteMetadata \/ DeleteBundle \/ DeleteContents \/ DeleteDirectory
  /\ UNCHANGED <<rooty, pc, job, todo, crashes, cutShort, applied, unfinished>>

\* ...and ends when all is gone, or with something that cannot be deleted.  The
\* result is an error if anything is left; resetApps is called either way.
DeleteEnds(t) ==
  /\ Goto(t, "deleting", "reset")
  /\ unfinished' = IF appDir THEN unfinished ELSE {}
  /\ UNCHANGED <<disk, rooty, job, todo, crashes, cutShort, abandoned, applied>>

-----------------------------------------------------------------------------
(* RootyService.request and the rooty daemon (external) *)

TimeOut_InstallOnly(t) ==
  /\ MayTimeOut
  /\ Fail(t, "awaitAdd")
  /\ answer' = [answer EXCEPT ![t] = "none"]
  /\ abandoned' = TRUE
  /\ cutShort' = TRUE
  /\ queue' = Disowned({t})
  /\ UNCHANGED <<disk, chef, crashes, applied, unfinished>>

\* The request gives up: the task ends, its message stays where it is.
TimeOut(t) ==
  /\ MayTimeOut
  /\ pc[t] \in {"awaitAdd", "awaitRemove"}
  /\ Fail(t, pc[t])
  /\ answer' = [answer EXCEPT ![t] = "none"]
  /\ abandoned' = TRUE
  /\ cutShort' = TRUE
  /\ queue' = Disowned({t})
  /\ UNCHANGED <<disk, chef, crashes, applied, unfinished>>

Answered(m, status) == answer' = [t \in Tasks |-> IF t = m.task THEN status ELSE answer[t]]

\* The messages are handled in order.  An ADD copies the version's chef
\* directory; a run that fails may have got as far as the run list.
RootyApplies ==
  /\ queue # <<>>
  /\ LET m == Head(queue)
         new == IF m.op = "ADD"
                THEN [version |-> m.version, settings |-> settings[m.version]]
                ELSE NotInstalled
     IN /\ m.op = "ADD" => "chef" \in placed[m.version]
        /\ chef' = new
        /\ Answered(m, "ok")
        /\ applied' = IF m.op = "ADD" THEN applied \cup {m.version} ELSE applied
  /\ queue' = Tail(queue)
  /\ UNCHANGED <<disk, pc, job, todo, crashes, cutShort, abandoned, unfinished>>

RootyFails ==
  /\ queue # <<>>
  /\ LET m == Head(queue) IN
       /\ chef' \in {chef} \cup
            (IF m.op = "REMOVE" THEN {NotInstalled}
             ELSE IF "chef" \in placed[m.version]
             THEN {[version |-> m.version, settings |-> settings[m.version]]} ELSE {})
       /\ Answered(m, "error")
  /\ abandoned' = (abandoned \/ chef' # chef)
  /\ applied' = IF chef'.version = NoVersion THEN applied ELSE applied \cup {chef'.version}
  /\ queue' = Tail(queue)
  /\ UNCHANGED <<disk, pc, job, todo, crashes, cutShort, unfinished>>

-----------------------------------------------------------------------------
(* Configuration, the command line tool, and crashes *)

\* AppDAO.setConfiguration: POST .../config writes the settings it is given for
\* a version that has its manifest.
SetConfiguration(v) ==
  /\ "manifest" \in placed[v]
  /\ \E x \in Required(v) \ settings[v] : WritesDatabags(v, settings[v] \cup {x})
  /\ UNCHANGED <<appDir, dirs, bundles, active, rooty, pc, job, todo, history>>

\* SyncAppRepositoryMain: register what the run list has.
Synchronize ==
  LET v == chef.version IN
  /\ v # NoVersion
  /\ appDir' = TRUE
  /\ dirs' = dirs \cup {v}
  /\ placed' = [placed EXCEPT ![v] = @ \cup {"manifest", "chef"}]
  /\ settings' = [settings EXCEPT ![v] = @ \cup chef.settings]
  /\ active' = v
  /\ abandoned' = (abandoned /\ queue # <<>>)
  /\ unfinished' = IF placed[v] = {} THEN unfinished \cup {v} ELSE unfinished
  /\ UNCHANGED <<bundles, rooty, pc, job, todo, crashes, cutShort, applied>>

\* The server stops and comes back without its tasks.
Crash ==
  /\ crashes < MaxCrashes
  /\ \E t \in Tasks : pc[t] # "idle"
  /\ crashes' = crashes + 1
  /\ cutShort' = TRUE
  /\ abandoned' = (abandoned \/ \E t \in Tasks : pc[t] \in {"awaitAdd", "awaitRemove"})
  /\ pc' = [t \in Tasks |-> "idle"]
  /\ job' = [t \in Tasks |-> NoJob]
  /\ todo' = [t \in Tasks |-> {}]
  /\ answer' = [t \in Tasks |-> "none"]
  /\ queue' = Disowned(Tasks)
  /\ UNCHANGED <<disk, chef, applied, unfinished>>

-----------------------------------------------------------------------------
Download(t) ==
  \/ FetchFails(t) \/ MakeDirs(t) \/ BundleExists(t) \/ BundleAbsent(t) \/ MoveBundle(t)
  \/ MoveBundleFails(t) \/ NoFiles(t) \/ CheckFile(t) \/ OverwriteFails(t) \/ FileExists(t)
  \/ MoveFile(t) \/ MoveFileFails(t) \/ AssetsFail(t) \/ DownloadDone(t)
  \/ DownloadThenInstall(t) \/ NestedDownloadLost(t)

Install(t) ==
  \/ FindVersion(t) \/ FindInStore(t) \/ VersionNotFound(t) \/ Prepare(t) \/ PrepareFails(t)
  \/ SendAdd(t) \/ SendFails(t) \/ AddRefused(t) \/ RecordInstall(t)
  \/ RecordFails(t)

Uninstall(t) ==
  \/ SendRemove(t) \/ NothingToRemove(t) \/ RemoveRefused(t) \/ DeleteApp(t) \/ DeleteOne(t)
  \/ DeleteEnds(t)

Submit(t) == SubmitDownload(t) \/ SubmitInstall(t) \/ SubmitUninstall(t)

Proceed(t) == Download(t) \/ Install(t) \/ Uninstall(t) \/ Reset(t)

Rooty == RootyApplies \/ RootyFails

Next ==
  \/ \E t \in Tasks : Submit(t) \/ Proceed(t) \/ TimeOut(t)
  \/ Rooty
  \/ \E v \in Versions : SetConfiguration(v)
  \/ Synchronize
  \/ Crash

Spec == Init /\ [][Next]_vars

\* Where a task may wait for ever: the fetch has no limit, and resetApps may wait
\* for a monitor in the cycle that AppRuntimeCache shows.
NoLimit == {"fetch", "reset"}

\* Elsewhere a task thread keeps running, and the wait for rooty has a limit.
\* A deletion ends whatever other tasks add meanwhile: deleteQuietly lists each
\* directory once.  Nothing is assumed of rooty, the app store or resetApps.
FairSpec ==
  /\ Spec
  /\ \A t \in Tasks : /\ WF_vars((pc[t] \notin NoLimit /\ Proceed(t)) \/ TimeOut(t))
                      /\ WF_vars(DeleteEnds(t))

-----------------------------------------------------------------------------
(* Properties *)

\* Every variable keeps its type.
TypeOK ==
  /\ appDir \in BOOLEAN
  /\ dirs \subseteq Versions
  /\ bundles \subseteq Versions
  /\ placed \in [Versions -> SUBSET Files]
  /\ settings \in [Versions -> SUBSET Settings]
  /\ active \in Versions \cup {NoVersion}
  /\ queue \in Seq([op : {"ADD", "REMOVE"}, task : Tasks \cup {Nobody}, version : Versions])
  /\ chef \in [version : Versions \cup {NoVersion}, settings : SUBSET Settings]
  /\ answer \in [Tasks -> {"none", "pending", "ok", "error"}]
  /\ pc \in [Tasks -> {"idle", "fetch", "checkBundle", "moveBundle", "checkFile", "moveFile",
                      "assets", "find", "prepare", "send", "awaitAdd", "findActive",
                      "awaitRemove", "deleting", "reset"}]
  /\ job \in [Tasks -> Job]
  /\ todo \in [Tasks -> SUBSET Files]
  /\ crashes \in 0..MaxCrashes
  /\ cutShort \in BOOLEAN
  /\ abandoned \in BOOLEAN
  /\ applied \subseteq Versions
  /\ unfinished \subseteq Versions

\* Whatever tasks, timeouts, crashes and repairs are interleaved, metadata.json
\* never claims a version that chef has not had on its run list, and there is no
\* active version, bundle or file without the directories they live in.
ActiveWasInstalled ==
  /\ active # NoVersion => active \in applied
  /\ \A v \in Versions : v \in bundles \/ placed[v] # {} => v \in dirs
  /\ dirs # {} \/ active # NoVersion => appDir

\* One task at a time: when nothing is running or queued, and since the last
\* chef run that nobody recorded (a timeout, a crash, a run that failed half-way,
\* an install of 'latest') something was recorded or the repository was
\* synchronized, the repository's active version is the one on the run list.
AgreesWithChef ==
  (\A t \in Tasks : pc[t] = "idle") /\ queue = <<>> /\ ~abandoned => active = chef.version

Undisturbed == ~cutShort

\* One task at a time, and as long as no task was cut short: what is on the run
\* list has every setting its manifest requires, and the chef run used them.
InstalledIsConfigured ==
  Undisturbed /\ chef.version # NoVersion => Required(chef.version) \subseteq chef.settings

\* One task at a time: a version is only sent to chef with all its files in
\* place, unless a step broke off in the middle of them (a file that could not be
\* deleted or moved, a deletion that left something, a crash), or all there was
\* of it came from chef's own run list; and until a later download of it reaches
\* the last file.  AppInstallTask itself looks at the manifest and the chef
\* directory only, so it depends on the two tasks that fill and empty them.
OnlyCompleteInstalled ==
  [][\A t \in Tasks :
       SendAdd(t) /\ job[t].version \notin unfinished => placed[job[t].version] = Files]_vars

\* A task that was submitted ends, even if rooty never answers, unless it stays
\* for ever in the fetch or in resetApps.
TasksEnd ==
  \A t \in Tasks : []<>(pc[t] = "idle") \/ <>[](pc[t] = "fetch") \/ <>[](pc[t] = "reset")
=============================================================================
