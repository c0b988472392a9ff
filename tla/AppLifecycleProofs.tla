------------------------- MODULE AppLifecycleProofs -------------------------
(***************************************************************************)
(* Proofs about AppLifecycle, for any versions, files, settings and        *)
(* bounds.                                                                 *)
(*                                                                         *)
(* For any number of tasks: the type invariant and ActiveWasInstalled.     *)
(* They rest on Safe, which ties what a task waits for to the message that *)
(* is to answer it, so that an answer "ok" is about the version the task   *)
(* goes on to record.                                                      *)
(*                                                                         *)
(* For one task at a time: the active version is the one chef runs, what   *)
(* chef runs is configured, and only complete versions are sent to it.     *)
(* They rest on InTurn: a message is the last of the queue, what chef has  *)
(* when a task is answered is what it asked for, and a version that is not *)
(* unfinished has an empty or a complete directory, whatever failed and    *)
(* wherever the server stopped.                                            *)
(***************************************************************************)
EXTENDS AppLifecycle, SequenceTheorems, TLAPS

Awaits == {"awaitAdd", "awaitRemove"}

\* A task that works on a version knows it; one that moves a file knows which.
WorkOK(at, x) ==
  /\ at \notin {"idle", "find", "findActive"} => x.version \in Versions
  /\ at = "moveFile" => x.file \in Files

\* A task is only answered while it waits, and what chef was given is known.
AnswerOK(at, x, a, ran) ==
  /\ at \notin Awaits => a = "none"
  /\ at = "awaitAdd" /\ a = "ok" => x.version \in ran

TasksOK ==
  \A t \in Tasks : WorkOK(pc[t], job[t]) /\ AnswerOK(pc[t], job[t], answer[t], applied)

\* A message is what a task at this point, with this work, has sent.
SentOK(m, at, x, a) ==
  /\ a = "pending"
  /\ at = IF m.op = "ADD" THEN "awaitAdd" ELSE "awaitRemove"
  /\ m.version = x.version

\* Each message has a task that waits for it, unless its task is gone.
QueueOK(q, at, x, a) ==
  \A i \in DOMAIN q : q[i].task # Nobody =>
    /\ SentOK(q[i], at[q[i].task], x[q[i].task], a[q[i].task])
    /\ \A k \in DOMAIN q : q[k].task = q[i].task => k = i

RepositoryOK ==
  /\ \A v \in Versions : v \in bundles \/ placed[v] # {} => v \in dirs
  /\ dirs # {} \/ active # NoVersion => appDir

RanOK == {active, chef.version} \subseteq applied \cup {NoVersion}

Safe == TypeOK /\ TasksOK /\ QueueOK(queue, pc, job, answer) /\ RepositoryOK /\ RanOK

-----------------------------------------------------------------------------
\* One task at a time.
Alone == \A t, u \in Tasks : t = u

LastOfQueue == \A i \in DOMAIN queue : queue[i].task # Nobody => i = Len(queue)

AnsweredLast ==
  \A t \in Tasks : answer[t] = "ok" =>
    /\ queue = <<>>
    /\ chef.version = IF pc[t] = "awaitAdd" THEN job[t].version ELSE NoVersion

AllAwaited == ~abandoned \/ Undisturbed => \A i \in DOMAIN queue : queue[i].task # Nobody

Agrees == ~abandoned /\ (\A t \in Tasks : answer[t] # "ok") => active = chef.version

Configured ==
  /\ chef.version # NoVersion => Required(chef.version) \subseteq chef.settings
  /\ \A t \in Tasks : pc[t] \in {"send", "awaitAdd"} =>
       Required(job[t].version) \subseteq settings[job[t].version]

FilePoints == {"checkFile", "moveFile"}

\* The file a task that moves one has taken on.
InHand(t) == IF pc[t] = "moveFile" THEN {job[t].file} ELSE {}

\* A version is empty, complete or unfinished; a task in the loop over the files
\* has put in place all those it has no longer to do.
Whole ==
  /\ \A v \in Versions \ unfinished : placed[v] \in {{}, Files}
  /\ \A t \in Tasks : pc[t] \in FilePoints =>
       Files \ (todo[t] \cup InHand(t)) \subseteq placed[job[t].version]
  /\ \A t \in Tasks : pc[t] = "moveFile" => job[t].version \in unfinished

\* The app is deleted after chef has it off its run list.
Emptying ==
  \A t \in Tasks : pc[t] = "deleting" =>
    queue = <<>> /\ chef.version = NoVersion /\ dirs \subseteq unfinished

InTurn ==
  /\ LastOfQueue /\ AnsweredLast /\ AllAwaited /\ Agrees /\ Whole /\ Emptying
  /\ Undisturbed => Configured

-----------------------------------------------------------------------------
(* The parts of the type invariant.                                        *)

Point == {"idle", "fetch", "checkBundle", "moveBundle", "checkFile", "moveFile", "assets",
          "find", "prepare", "send", "awaitAdd", "findActive", "awaitRemove", "deleting",
          "reset"}

Message == [op : {"ADD", "REMOVE"}, task : Tasks \cup {Nobody}, version : Versions]
OnRunList == [version : Versions \cup {NoVersion}, settings : SUBSET Settings]

TaskTypes ==
  /\ pc \in [Tasks -> Point]
  /\ job \in [Tasks -> Job]
  /\ todo \in [Tasks -> SUBSET Files]

RootyTypes ==
  /\ queue \in Seq(Message)
  /\ chef \in OnRunList
  /\ answer \in [Tasks -> {"none", "pending", "ok", "error"}]

HistoryTypes ==
  /\ crashes \in 0..MaxCrashes /\ cutShort \in BOOLEAN /\ abandoned \in BOOLEAN
  /\ applied \subseteq Versions /\ unfinished \subseteq Versions

\* The repository: its types, and what Safe says of it.
DiskOK ==
  /\ appDir \in BOOLEAN
  /\ dirs \subseteq Versions /\ bundles \subseteq Versions
  /\ placed \in [Versions -> SUBSET Files]
  /\ settings \in [Versions -> SUBSET Settings]
  /\ active \in Versions \cup {NoVersion} /\ active \in applied \cup {NoVersion}
  /\ RepositoryOK

LEMMA SafeParts ==
  Safe <=> /\ TaskTypes /\ RootyTypes /\ HistoryTypes /\ DiskOK
           /\ chef.version \in applied \cup {NoVersion}
           /\ TasksOK /\ QueueOK(queue, pc, job, answer)
BY DEF Safe, TypeOK, TaskTypes, RootyTypes, HistoryTypes, DiskOK, RanOK, Point, Message, OnRunList

LEMMA NoJobIsJob == NoJob \in Job /\ NoJob.version = NoVersion
BY DEF NoJob, Job

LEMMA SetVersion ==
  ASSUME NEW x \in Job, NEW v \in Versions
  PROVE  /\ [x EXCEPT !.version = v] \in Job
         /\ [x EXCEPT !.version = v].version = v
BY DEF Job

LEMMA SetFile ==
  ASSUME NEW x \in Job, NEW f \in Files \cup {"none"}
  PROVE  /\ [x EXCEPT !.file = f] \in Job
         /\ [x EXCEPT !.file = f].version = x.version /\ [x EXCEPT !.file = f].file = f
         /\ [x EXCEPT !.file = f].overwrite = x.overwrite
BY DEF Job

-----------------------------------------------------------------------------
(* One task moves.                                                         *)

\* Task t, and no other, goes from one point to the next.
Moves(t, from, to) ==
  /\ TaskTypes'
  /\ pc[t] = from /\ pc'[t] = to
  /\ WorkOK(to, job'[t])
  /\ \A u \in Tasks \ {t} : pc'[u] = pc[u] /\ job'[u] = job[u] /\ todo'[u] = todo[u]

LEMMA FinishMoves ==
  ASSUME TaskTypes, NEW t \in Tasks, NEW from, Finish(t, from)
  PROVE  Moves(t, from, "idle") /\ job'[t] = NoJob /\ todo'[t] = {}
BY NoJobIsJob DEF TaskTypes, Finish, Moves, WorkOK, Point

\* A task goes on with what it was doing.
LEMMA GotoMoves ==
  ASSUME TaskTypes, NEW t \in Tasks, NEW from, NEW to \in Point, Goto(t, from, to),
         UNCHANGED <<job, todo>>, WorkOK(to, job[t])
  PROVE  Moves(t, from, to)
BY DEF TaskTypes, Goto, Moves

\* It goes on with other work.
LEMMA GotoWith ==
  ASSUME TaskTypes, NEW t \in Tasks, NEW from, NEW to \in Point, Goto(t, from, to),
         NEW x \in Job, job' = [job EXCEPT ![t] = x], UNCHANGED todo, WorkOK(to, x)
  PROVE  Moves(t, from, to) /\ job'[t] = x
BY DEF TaskTypes, Goto, Moves

LEMMA SubmitMoves ==
  ASSUME TaskTypes, NEW t \in Tasks, Submit(t)
  PROVE  \E to \in {"fetch", "find", "findActive"} : Moves(t, "idle", to)
<1>1. CASE SubmitDownload(t)
  <2>1. PICK v \in Versions, flags \in Flags :
          job' = [job EXCEPT ![t] = [NoJob EXCEPT !.version = v,
                                                  !.overwrite = flags.overwrite,
                                                  !.auto = flags.auto]]
    BY <1>1 DEF SubmitDownload
  <2> DEFINE x == [NoJob EXCEPT !.version = v, !.overwrite = flags.overwrite,
                                !.auto = flags.auto]
  <2>2. x \in Job /\ x.version = v BY FlagsAssumption DEF NoJob, Job
  <2> HIDE DEF x
  <2>3. WorkOK("fetch", x) BY <2>2 DEF WorkOK
  <2>4. job' = [job EXCEPT ![t] = x] /\ Goto(t, "idle", "fetch") /\ UNCHANGED todo
    BY <1>1, <2>1 DEF SubmitDownload, x
  <2> QED BY <2>2, <2>3, <2>4, GotoWith DEF Point
<1>2. CASE SubmitInstall(t)
  <2>1. PICK r \in Requestable, force \in BOOLEAN :
          job' = [job EXCEPT ![t] = [NoJob EXCEPT !.version = IF r = Latest THEN NoVersion ELSE r,
                                       !.byVersion = r # Latest, !.overwrite = force]]
    BY <1>2 DEF SubmitInstall
  <2> DEFINE x == [NoJob EXCEPT !.version = IF r = Latest THEN NoVersion ELSE r,
                                !.byVersion = r # Latest, !.overwrite = force]
  <2>2. x \in Job BY VersionsAssumption DEF NoJob, Job
  <2> HIDE DEF x
  <2>3. WorkOK("find", x) BY <2>2 DEF WorkOK
  <2>4. job' = [job EXCEPT ![t] = x] /\ Goto(t, "idle", "find") /\ UNCHANGED todo
    BY <1>2, <2>1 DEF SubmitInstall, x
  <2> QED BY <2>2, <2>3, <2>4, GotoWith DEF Point
<1>3. CASE SubmitUninstall(t)
  BY <1>3, GotoMoves DEF SubmitUninstall, WorkOK, Point
<1> QED BY <1>1, <1>2, <1>3 DEF Submit

LEMMA CheckFileMoves ==
  ASSUME TaskTypes, NEW t \in Tasks, WorkOK(pc[t], job[t]), CheckFile(t)
  PROVE  /\ Moves(t, "checkFile", "moveFile")
         /\ job'[t].version = job[t].version /\ job[t].version \in Versions
         /\ job'[t].file \in todo[t] /\ todo'[t] = todo[t] \ {job'[t].file}
         /\ placed' = [placed EXCEPT ![job[t].version] = @ \ {job'[t].file}]
         /\ settings' = [settings EXCEPT ![job[t].version] =
                           IF job'[t].file = "chef" THEN {} ELSE @]
         /\ unfinished' = unfinished \cup {job[t].version}
<1>1. PICK f \in todo[t] :
        /\ pc[t] = "checkFile"
        /\ pc' = [pc EXCEPT ![t] = "moveFile"]
        /\ job' = [job EXCEPT ![t].file = f]
        /\ todo' = [todo EXCEPT ![t] = @ \ {f}]
        /\ placed' = [placed EXCEPT ![job[t].version] = @ \ {f}]
        /\ settings' = [settings EXCEPT ![job[t].version] = IF f = "chef" THEN {} ELSE @]
  BY DEF CheckFile
<1> DEFINE x == [job[t] EXCEPT !.file = f]
<1>2. f \in Files /\ job[t] \in Job /\ job[t].version \in Versions
  BY <1>1 DEF TaskTypes, WorkOK
<1>3. x \in Job /\ x.version = job[t].version /\ x.file = f BY <1>2, SetFile
<1>4. job' = [job EXCEPT ![t] = x] BY <1>1
<1> HIDE DEF x
<1>5. job'[t] = x BY <1>4 DEF TaskTypes
<1>6. Moves(t, "checkFile", "moveFile")
  BY <1>1, <1>2, <1>3, <1>4 DEF Moves, TaskTypes, WorkOK, Point
<1>7. todo'[t] = todo[t] \ {f} BY <1>1 DEF TaskTypes
<1>8. unfinished' = unfinished \cup {job[t].version} BY DEF CheckFile
<1> QED BY <1>1, <1>2, <1>3, <1>5, <1>6, <1>7, <1>8

LEMMA MoveFileMoves ==
  ASSUME TaskTypes, NEW t \in Tasks, WorkOK(pc[t], job[t]), MoveFile(t)
  PROVE  /\ Moves(t, "moveFile", IF todo[t] = {} THEN "assets" ELSE "checkFile")
         /\ UNCHANGED todo /\ job'[t].version = job[t].version
         /\ job[t].version \in Versions /\ job[t].file \in Files /\ job[t].version \in dirs
<1> DEFINE to == IF todo[t] = {} THEN "assets" ELSE "checkFile"
           x == [job[t] EXCEPT !.file = "none"]
<1>1. Goto(t, "moveFile", IF todo[t] = {} THEN "assets" ELSE "checkFile")
  BY DEF MoveFile
<1>2. pc[t] = "moveFile" /\ job[t].version \in Versions /\ job[t].file \in Files
  BY <1>1 DEF Goto, WorkOK
<1>3. x \in Job /\ x.version = job[t].version BY SetFile DEF TaskTypes
<1>4. /\ job' = [job EXCEPT ![t] = x] /\ UNCHANGED todo
      /\ job[t].version \in dirs
  BY DEF MoveFile, MoveBlocked
<1> HIDE DEF x
<1>5. WorkOK(to, x) BY <1>2, <1>3 DEF WorkOK
<1>6. Moves(t, "moveFile", to) /\ job'[t] = x BY <1>1, <1>3, <1>4, <1>5, GotoWith DEF Point
<1> QED BY <1>2, <1>3, <1>4, <1>6

LEMMA ThenInstallMoves ==
  ASSUME TaskTypes, NEW t \in Tasks, WorkOK(pc[t], job[t]), DownloadThenInstall(t)
  PROVE  /\ \E to \in {"prepare", "find"} : Moves(t, "assets", to)
         /\ UNCHANGED todo /\ job'[t].version = job[t].version
<1> DEFINE x == [job[t] EXCEPT !.auto = FALSE]
           y == [x EXCEPT !.nested = FALSE]
<1>1. job[t] \in Job /\ job[t].version \in Versions /\ pc[t] = "assets"
  BY DEF DownloadThenInstall, Goto, WorkOK, TaskTypes
<1>2. x \in Job /\ x.version = job[t].version BY <1>1 DEF Job
<1>3. y \in Job /\ y.version = x.version
  <2> HIDE DEF x
  <2> QED BY <1>2 DEF Job
<1>5. job' = [job EXCEPT ![t] = y]
  BY <1>1 DEF DownloadThenInstall, TaskTypes
<1> HIDE DEF x, y
<1> DEFINE to == IF job[t].nested THEN "prepare" ELSE "find"
<1>6. WorkOK(to, y) BY <1>1, <1>2, <1>3 DEF WorkOK
<1>7. Goto(t, "assets", to) /\ UNCHANGED todo BY DEF DownloadThenInstall
<1>8. to \in Point BY DEF Point
<1>9. Moves(t, "assets", to) /\ job'[t] = y BY <1>3, <1>5, <1>6, <1>7, <1>8, GotoWith
<1> QED BY <1>2, <1>3, <1>7, <1>9

LEMMA FindMoves ==
  ASSUME TaskTypes, NEW t \in Tasks, dirs \subseteq Versions, FindVersion(t) \/ FindInStore(t)
  PROVE  \E to \in {"prepare", "fetch"} : Moves(t, "find", to)
<1>1. CASE FindVersion(t)
  <2>1. PICK v \in dirs : job' = [job EXCEPT ![t].version = v, ![t].overwrite = FALSE]
    BY <1>1 DEF FindVersion
  <2> DEFINE w == [job[t] EXCEPT !.version = v]
             x == [w EXCEPT !.overwrite = FALSE]
  <2>2. job[t] \in Job /\ w \in Job /\ w.version = v BY SetVersion DEF TaskTypes
  <2>3. x \in Job /\ x.version = v
    <3> HIDE DEF w
    <3> QED BY <2>2 DEF Job
  <2>4. job' = [job EXCEPT ![t] = x] BY <2>1 DEF TaskTypes
  <2> HIDE DEF x
  <2>5. WorkOK("prepare", x) BY <2>3 DEF WorkOK
  <2>6. Goto(t, "find", "prepare") /\ UNCHANGED todo BY <1>1 DEF FindVersion
  <2> QED BY <2>3, <2>4, <2>5, <2>6, GotoWith DEF Point
<1>2. CASE FindInStore(t)
  <2>1. PICK v \in Published : job' = [job EXCEPT ![t].version = v, ![t].nested = TRUE]
    BY <1>2 DEF FindInStore
  <2> DEFINE x == [job[t] EXCEPT !.version = v]
             y == [x EXCEPT !.nested = TRUE]
  <2>2. job[t] \in Job BY DEF TaskTypes
  <2>3. x \in Job /\ x.version = v BY <2>2, SetVersion, VersionsAssumption
  <2>4. y \in Job /\ y.version = v
    <3> HIDE DEF x
    <3> QED BY <2>3 DEF Job
  <2>5. job' = [job EXCEPT ![t] = y] BY <2>1 DEF TaskTypes
  <2> HIDE DEF x, y
  <2>6. WorkOK("fetch", y) BY <2>4, VersionsAssumption DEF WorkOK
  <2>7. Goto(t, "find", "fetch") /\ UNCHANGED todo BY <1>2 DEF FindInStore
  <2> QED BY <2>4, <2>5, <2>6, <2>7, GotoWith DEF Point
<1> QED BY <1>1, <1>2

\* What SendRemove does to its task; what SendAdd does is GotoMoves.
LEMMA RemoveMoves ==
  ASSUME TaskTypes, NEW t \in Tasks, dirs \subseteq Versions, SendRemove(t)
  PROVE  /\ Moves(t, "findActive", "awaitRemove")
         /\ active \in Versions /\ job'[t].version = active
<1> DEFINE x == [job[t] EXCEPT !.version = active]
<1>1. active \in Versions BY DEF SendRemove, ActiveLoads
<1>2. job[t] \in Job BY DEF TaskTypes
<1>3. x \in Job /\ x.version = active BY <1>1, <1>2, SetVersion
<1>4. job' = [job EXCEPT ![t] = x] BY DEF SendRemove
<1> HIDE DEF x
<1>5. WorkOK("awaitRemove", x) BY <1>1, <1>3 DEF WorkOK
<1>6. Goto(t, "findActive", "awaitRemove") /\ UNCHANGED todo BY DEF SendRemove
<1> QED BY <1>1, <1>3, <1>4, <1>5, <1>6, GotoWith DEF Point

LEMMA QueueHolds ==
  ASSUME RootyTypes, NEW i \in DOMAIN queue
  PROVE  queue[i] \in Message /\ (queue[i].task # Nobody => queue[i].task \in Tasks)
<1>1. DOMAIN queue = 1 .. Len(queue) /\ queue[i] \in Message BY DEF RootyTypes
<1> QED BY <1>1 DEF Message

-----------------------------------------------------------------------------
(* What a step of one task leaves true of tasks and messages.              *)

\* A step away from the queue.
LEMMA WorkKeeps ==
  ASSUME TasksOK, QueueOK(queue, pc, job, answer), RootyTypes, NEW t \in Tasks, NEW from, NEW to,
         Moves(t, from, to), from \notin Awaits, to \notin Awaits,
         UNCHANGED <<queue, answer>>, applied \subseteq applied'
  PROVE  TasksOK' /\ QueueOK(queue, pc, job, answer)'
<1>1. ASSUME NEW u \in Tasks
      PROVE  WorkOK(pc'[u], job'[u]) /\ AnswerOK(pc'[u], job'[u], answer'[u], applied')
  <2>1. CASE u = t BY <2>1 DEF TasksOK, Moves, AnswerOK
  <2>2. CASE u # t BY <2>2 DEF TasksOK, Moves, AnswerOK
  <2> QED BY <2>1, <2>2
<1>2. ASSUME NEW i \in DOMAIN queue, queue[i].task # Nobody
      PROVE  SentOK(queue[i], pc'[queue[i].task], job'[queue[i].task], answer'[queue[i].task])
  <2>1. queue[i].task \in Tasks BY <1>2, QueueHolds
  <2>2. SentOK(queue[i], pc[queue[i].task], job[queue[i].task], answer[queue[i].task])
    BY <1>2 DEF QueueOK
  <2>3. queue[i].task # t BY <2>2 DEF SentOK, Moves, Awaits
  <2> QED BY <2>1, <2>2, <2>3 DEF Moves
<1>3. \A i, k \in DOMAIN queue : queue[i].task # Nobody /\ queue[k].task = queue[i].task => k = i
  BY DEF QueueOK
<1> QED BY <1>1, <1>2, <1>3 DEF TasksOK, QueueOK

\* A message is sent.
LEMMA SendKeeps ==
  ASSUME TasksOK, QueueOK(queue, pc, job, answer), RootyTypes, NEW t \in Tasks, NEW from,
         NEW m \in Message, m.task = t,
         NEW to, to = IF m.op = "ADD" THEN "awaitAdd" ELSE "awaitRemove",
         Moves(t, from, to), from \notin Awaits,
         m.version = job'[t].version, queue' = Append(queue, m),
         answer' = [answer EXCEPT ![t] = "pending"], UNCHANGED <<chef, applied>>
  PROVE  RootyTypes' /\ TasksOK' /\ QueueOK(queue, pc, job, answer)'
<1>1. RootyTypes' BY DEF RootyTypes
<1>2. answer'[t] = "pending" /\ \A u \in Tasks \ {t} : answer'[u] = answer[u]
  BY DEF RootyTypes
<1>3. ASSUME NEW u \in Tasks
      PROVE  WorkOK(pc'[u], job'[u]) /\ AnswerOK(pc'[u], job'[u], answer'[u], applied')
  <2>1. CASE u = t BY <1>2, <2>1 DEF TasksOK, Moves, AnswerOK, Awaits
  <2>2. CASE u # t BY <1>2, <2>2 DEF TasksOK, Moves, AnswerOK
  <2> QED BY <2>1, <2>2
<1>4. /\ DOMAIN queue' = DOMAIN queue \cup {Len(queue) + 1} /\ queue'[Len(queue) + 1] = m
      /\ \A i \in DOMAIN queue : queue'[i] = queue[i] /\ i # Len(queue) + 1
  BY DEF RootyTypes
<1>5. ASSUME NEW i \in DOMAIN queue, queue[i].task # Nobody
      PROVE  /\ SentOK(queue[i], pc'[queue[i].task], job'[queue[i].task], answer'[queue[i].task])
             /\ queue[i].task # t
  <2>1. queue[i].task \in Tasks BY <1>5, QueueHolds
  <2>2. SentOK(queue[i], pc[queue[i].task], job[queue[i].task], answer[queue[i].task])
    BY <1>5 DEF QueueOK
  <2>3. queue[i].task # t BY <2>2 DEF SentOK, Moves, Awaits
  <2> QED BY <1>2, <2>1, <2>2, <2>3 DEF Moves
<1>6. SentOK(m, pc'[t], job'[t], answer'[t]) BY <1>2 DEF SentOK, Moves
<1>7. \A i \in DOMAIN queue' : queue'[i].task # Nobody =>
        SentOK(queue'[i], pc'[queue'[i].task], job'[queue'[i].task], answer'[queue'[i].task])
  BY <1>4, <1>5, <1>6
<1>8. \A i, k \in DOMAIN queue : queue[i].task # Nobody /\ queue[k].task = queue[i].task => k = i
  BY DEF QueueOK
<1>9. t # Nobody BY VersionsAssumption
<1>10. \A i, k \in DOMAIN queue' :
         queue'[i].task # Nobody /\ queue'[k].task = queue'[i].task => k = i
  BY <1>4, <1>5, <1>8, <1>9
<1> QED BY <1>1, <1>3, <1>7, <1>10 DEF TasksOK, QueueOK

\* Nobody waits any longer for the messages of some tasks.
LEMMA DisownedIs ==
  ASSUME queue \in Seq(Message), NEW gone \in SUBSET Tasks
  PROVE  /\ Disowned(gone) \in Seq(Message) /\ DOMAIN Disowned(gone) = DOMAIN queue
         /\ Len(Disowned(gone)) = Len(queue)
         /\ \A i \in DOMAIN queue :
              /\ queue[i].task \in gone => Disowned(gone)[i].task = Nobody
              /\ queue[i].task \notin gone => Disowned(gone)[i] = queue[i]
<1> DEFINE q == Disowned(gone)
<1>1. \A m \in Message : /\ [m EXCEPT !.task = Nobody] \in Message
                         /\ [m EXCEPT !.task = Nobody].task = Nobody
  BY DEF Message
<1>2. DOMAIN queue = 1 .. Len(queue) /\ \A i \in DOMAIN queue : queue[i] \in Message
  OBVIOUS
<1>3. \A i \in DOMAIN queue :
        /\ queue[i].task \in gone => q[i].task = Nobody
        /\ queue[i].task \notin gone => q[i] = queue[i]
        /\ q[i] \in Message
  BY <1>1, <1>2 DEF Disowned
<1>4. DOMAIN q = 1 .. Len(queue) BY <1>2 DEF Disowned
<1>5. q = [i \in 1 .. Len(queue) |-> q[i]] BY <1>4 DEF Disowned
<1> HIDE DEF q
<1>6. q \in [1 .. Len(queue) -> Message] BY <1>2, <1>3, <1>5
<1>7. q \in Seq(Message) /\ Len(q) = Len(queue) BY <1>6
<1> QED BY <1>2, <1>3, <1>4, <1>7 DEF q

\* A task that waited stops waiting, answered or not.
LEMMA EndKeeps ==
  ASSUME TasksOK, QueueOK(queue, pc, job, answer), RootyTypes, NEW t \in Tasks, NEW from, NEW to,
         Moves(t, from, to), to \notin Awaits, answer' = [answer EXCEPT ![t] = "none"],
         \/ answer[t] # "pending" /\ queue' = queue
         \/ queue' = Disowned({t}),
         UNCHANGED <<chef, applied>>
  PROVE  RootyTypes' /\ TasksOK' /\ QueueOK(queue, pc, job, answer)'
<1>1. /\ queue' \in Seq(Message) /\ DOMAIN queue' = DOMAIN queue
      /\ \A i \in DOMAIN queue : queue'[i].task # Nobody => queue'[i] = queue[i] /\ queue[i].task # t
  <2>1. CASE answer[t] # "pending" /\ queue' = queue
    BY <2>1 DEF QueueOK, SentOK, RootyTypes
  <2>2. CASE queue' = Disowned({t}) BY <2>2, DisownedIs DEF RootyTypes
  <2> QED BY <2>1, <2>2
<1>2. answer' \in [Tasks -> {"none", "pending", "ok", "error"}] BY DEF RootyTypes
<1>3. answer'[t] = "none" /\ \A u \in Tasks \ {t} : answer'[u] = answer[u]
  BY DEF RootyTypes
<1>4. ASSUME NEW u \in Tasks
      PROVE  WorkOK(pc'[u], job'[u]) /\ AnswerOK(pc'[u], job'[u], answer'[u], applied')
  <2>1. CASE u = t BY <1>3, <2>1 DEF TasksOK, Moves, AnswerOK
  <2>2. CASE u # t BY <1>3, <2>2 DEF TasksOK, Moves, AnswerOK
  <2> QED BY <2>1, <2>2
<1>5. ASSUME NEW i \in DOMAIN queue, queue'[i].task # Nobody
      PROVE  SentOK(queue'[i], pc'[queue'[i].task], job'[queue'[i].task], answer'[queue'[i].task])
  <2>1. queue'[i] = queue[i] /\ queue[i].task # t BY <1>1, <1>5
  <2>2. queue[i].task \in Tasks BY <1>5, <2>1, QueueHolds
  <2>3. SentOK(queue[i], pc[queue[i].task], job[queue[i].task], answer[queue[i].task])
    BY <1>5, <2>1 DEF QueueOK
  <2> QED BY <1>3, <2>1, <2>2, <2>3 DEF Moves
<1>6. ASSUME NEW i \in DOMAIN queue, NEW k \in DOMAIN queue, queue'[i].task # Nobody,
             queue'[k].task = queue'[i].task
      PROVE  k = i
  <2>1. queue'[i] = queue[i] /\ queue'[k] = queue[k] BY <1>1, <1>6
  <2> QED BY <1>6, <2>1 DEF QueueOK
<1> QED BY <1>1, <1>2, <1>4, <1>5, <1>6 DEF TasksOK, QueueOK, RootyTypes

-----------------------------------------------------------------------------
(* The repository.                                                         *)

LEMMA DiskUntouched ==
  ASSUME DiskOK, UNCHANGED disk, applied \subseteq applied'
  PROVE  DiskOK'
BY DEF DiskOK, RepositoryOK, disk

LEMMA DownloadDisk ==
  ASSUME DiskOK, TaskTypes, NEW t \in Tasks, WorkOK(pc[t], job[t]),
         \/ FetchFails(t) \/ MakeDirs(t) \/ MoveBundle(t) \/ CheckFile(t)
         \/ OverwriteFails(t) \/ MoveFile(t)
  PROVE  DiskOK'
<1> DEFINE v == job[t].version
<1>1. CASE MakeDirs(t)
  <2>1. v \in Versions BY <1>1 DEF MakeDirs, Goto, WorkOK
  <2> QED BY <1>1, <2>1 DEF MakeDirs, DiskOK, RepositoryOK, history
<1>2. CASE MoveBundle(t) BY <1>2 DEF MoveBundle, DiskOK, RepositoryOK, history
<1>3. CASE CheckFile(t)
  <2>1. /\ v \in Versions /\ placed' = [placed EXCEPT ![v] = @ \ {job'[t].file}]
        /\ settings' = [settings EXCEPT ![v] = IF job'[t].file = "chef" THEN {} ELSE @]
    BY <1>3, CheckFileMoves
  <2>2. UNCHANGED <<appDir, dirs, bundles, active, applied>> BY <1>3 DEF CheckFile, history
  <2> QED BY <2>1, <2>2 DEF DiskOK, RepositoryOK
<1>4. CASE MoveFile(t)
  <2>1. v \in Versions /\ job[t].file \in Files /\ v \in dirs BY <1>4, MoveFileMoves
  <2>2. /\ placed' = [placed EXCEPT ![v] = @ \cup {job[t].file}]
        /\ settings' = [settings EXCEPT ![v] = IF job[t].file = "chef" THEN {} ELSE @]
        /\ UNCHANGED <<appDir, dirs, bundles, active, applied>>
    BY <1>4 DEF MoveFile, history
  <2> QED BY <2>1, <2>2 DEF DiskOK, RepositoryOK
<1>5. CASE FetchFails(t)
  <2>1. UNCHANGED <<dirs, bundles, placed, settings, active, applied>>
    BY <1>5 DEF FetchFails, history
  <2>2. CASE appDir' = appDir BY <2>1, <2>2 DEF DiskOK, RepositoryOK
  <2>3. CASE appDir' = TRUE BY <2>1, <2>3 DEF DiskOK, RepositoryOK
  <2>4. appDir' = appDir \/ appDir' = TRUE BY <1>5, Zenon DEF FetchFails
  <2> QED BY <2>2, <2>3, <2>4
<1>6. CASE OverwriteFails(t)
  <2>1. PICK left \in SUBSET settings[v] : settings' = [settings EXCEPT ![v] = left]
    BY <1>6 DEF OverwriteFails
  <2>2. v \in Versions BY <1>6 DEF OverwriteFails, Fail, Finish, WorkOK
  <2>3. UNCHANGED <<appDir, dirs, bundles, placed, active, applied>> BY <1>6 DEF OverwriteFails
  <2> QED BY <2>1, <2>2, <2>3 DEF DiskOK, RepositoryOK
<1> QED BY <1>1, <1>2, <1>3, <1>4, <1>5, <1>6

LEMMA WriteDisk ==
  ASSUME DiskOK, NEW v \in dirs, NEW values \in SUBSET Settings, WritesDatabags(v, values),
         UNCHANGED <<appDir, dirs, bundles, active, applied>>
  PROVE  DiskOK'
BY FilesAssumption DEF WritesDatabags, DiskOK, RepositoryOK

LEMMA PrepareDisk ==
  ASSUME DiskOK, NEW t \in Tasks, Prepare(t) \/ PrepareFails(t)
  PROVE  DiskOK'
<1> DEFINE v == job[t].version
<1>1. UNCHANGED <<appDir, dirs, bundles, active, applied>>
  BY DEF Prepare, PrepareFails, history
<1>2. UNCHANGED <<placed, settings>> \/ (v \in dirs /\ WritesDatabags(v, Merged(v)))
  BY DEF Prepare, PrepareFails
<1>3. v \in dirs => Merged(v) \subseteq Settings
  <2>1. Required(v) \subseteq Settings BY DEF Required
  <2> QED BY <2>1, Zenon DEF Merged
<1> HIDE DEF v
<1>4. CASE UNCHANGED <<placed, settings>> BY <1>1, <1>4 DEF DiskOK, RepositoryOK
<1>5. CASE v \in dirs /\ WritesDatabags(v, Merged(v)) BY <1>1, <1>3, <1>5, WriteDisk
<1> QED BY <1>2, <1>4, <1>5

LEMMA RecordDisk ==
  ASSUME DiskOK, NEW t \in Tasks, WorkOK(pc[t], job[t]),
         AnswerOK(pc[t], job[t], answer[t], applied), RecordInstall(t)
  PROVE  DiskOK'
<1>1. job[t].version \in Versions /\ job[t].version \in applied
  BY DEF RecordInstall, Goto, WorkOK, AnswerOK
<1> QED BY <1>1 DEF RecordInstall, DiskOK, RepositoryOK

\* Each thing a deletion takes away, it takes away before the directory it is in.
LEMMA DeleteDisk ==
  ASSUME DiskOK, UNCHANGED applied,
         DeleteMetadata \/ DeleteBundle \/ DeleteContents \/ DeleteDirectory
  PROVE  DiskOK'
<1>1. CASE DeleteMetadata BY <1>1 DEF DeleteMetadata, DiskOK, RepositoryOK
<1>2. CASE DeleteBundle BY <1>2 DEF DeleteBundle, DiskOK, RepositoryOK
<1>3. CASE DeleteContents
  <2>1. UNCHANGED <<appDir, dirs, bundles, active>> BY <1>3 DEF DeleteContents
  <2>2. PICK v \in dirs :
          \/ \E f \in placed[v] :
               /\ placed' = [placed EXCEPT ![v] = @ \ {f}]
               /\ settings' = [settings EXCEPT ![v] = IF f = "chef" THEN {} ELSE @]
          \/ \E x \in settings[v] :
               settings' = [settings EXCEPT ![v] = @ \ {x}] /\ UNCHANGED placed
    BY <1>3 DEF DeleteContents
  <2>3. v \in Versions BY DEF DiskOK
  <2>4. placed' \in [Versions -> SUBSET Files] /\ \A w \in Versions : placed'[w] \subseteq placed[w]
    BY <2>2, <2>3 DEF DiskOK
  <2>5. settings' \in [Versions -> SUBSET Settings] BY <2>2, <2>3 DEF DiskOK
  <2>6. \A w \in Versions : w \in bundles' \/ placed'[w] # {} => w \in dirs'
    BY <2>1, <2>4 DEF DiskOK, RepositoryOK
  <2> QED BY <2>1, <2>4, <2>5, <2>6 DEF DiskOK, RepositoryOK
<1>4. CASE DeleteDirectory BY <1>4 DEF DeleteDirectory, DiskOK, RepositoryOK
<1> QED BY <1>1, <1>2, <1>3, <1>4

LEMMA RepairDisk ==
  ASSUME DiskOK, HistoryTypes, RootyTypes, chef.version \in applied \cup {NoVersion},
         Synchronize \/ \E v \in Versions : SetConfiguration(v)
  PROVE  DiskOK'
<1>1. CASE Synchronize
  <2> DEFINE v == chef.version
  <2>1. v \in Versions /\ v \in applied /\ chef.settings \subseteq Settings
    BY <1>1 DEF Synchronize, RootyTypes, OnRunList
  <2>2. /\ appDir' = TRUE /\ dirs' = dirs \cup {v} /\ active' = v
        /\ placed' = [placed EXCEPT ![v] = @ \cup {"manifest", "chef"}]
        /\ settings' = [settings EXCEPT ![v] = @ \cup chef.settings]
        /\ UNCHANGED <<bundles, applied>>
    BY <1>1 DEF Synchronize
  <2> HIDE DEF v
  <2> QED BY <2>1, <2>2, FilesAssumption DEF DiskOK, RepositoryOK
<1>2. CASE \E v \in Versions : SetConfiguration(v)
  <2>1. PICK v \in Versions : SetConfiguration(v) BY <1>2
  <2>2. PICK x \in Required(v) : WritesDatabags(v, settings[v] \cup {x})
    BY <2>1 DEF SetConfiguration
  <2>3. v \in dirs /\ settings[v] \cup {x} \in SUBSET Settings
    BY <2>1, <2>2 DEF SetConfiguration, DiskOK, RepositoryOK, Required
  <2> QED BY <2>1, <2>2, <2>3, WriteDisk DEF SetConfiguration, history
<1> QED BY <1>1, <1>2

-----------------------------------------------------------------------------
(* Every step keeps Safe.                                                  *)

LEMMA SafeLater ==
  ASSUME TaskTypes', RootyTypes', HistoryTypes', DiskOK',
         (chef.version \in applied \cup {NoVersion})', TasksOK',
         QueueOK(queue, pc, job, answer)'
  PROVE  Safe'
BY DEF Safe, TypeOK, TaskTypes, RootyTypes, HistoryTypes, DiskOK, RanOK, Point, Message, OnRunList

\* The steps at which a task that is not waiting for rooty ends...
GivesUp(t) ==
  \/ BundleExists(t) \/ MoveBundleFails(t) \/ NoFiles(t) \/ FileExists(t) \/ MoveFileFails(t)
  \/ AssetsFail(t) \/ DownloadDone(t) \/ NestedDownloadLost(t) \/ VersionNotFound(t)
  \/ SendFails(t) \/ NothingToRemove(t) \/ Reset(t)

LEMMA GivesUpMoves ==
  ASSUME TaskTypes, NEW t \in Tasks, GivesUp(t)
  PROVE  /\ UNCHANGED <<disk, rooty, history>>
         /\ \E from \in Point \ Awaits : Moves(t, from, "idle")
BY FinishMoves DEF GivesUp, BundleExists, MoveBundleFails, NoFiles, FileExists, MoveFileFails,
   AssetsFail, DownloadDone, NestedDownloadLost, VersionNotFound, SendFails, NothingToRemove,
   Reset, Fail, Point, Awaits

\* ...those at which it deletes...
Deletes(t) == DeleteOne(t) \/ DeleteEnds(t)

LEMMA DeletesMoves ==
  ASSUME Safe, NEW t \in Tasks, Deletes(t)
  PROVE  /\ UNCHANGED <<rooty, job, todo, crashes, cutShort, applied>> /\ DiskOK'
         /\ abandoned' \in BOOLEAN /\ unfinished' \subseteq Versions
         /\ \E to \in {"deleting", "reset"} : Moves(t, "deleting", to)
<1> USE SafeParts
<1>1. WorkOK(pc[t], job[t]) BY DEF TasksOK
<1>2. CASE DeleteOne(t)
  <2>1. /\ pc[t] = "deleting" /\ UNCHANGED <<rooty, pc, job, todo, crashes, cutShort, applied, unfinished>>
        /\ DeleteMetadata \/ DeleteBundle \/ DeleteContents \/ DeleteDirectory
    BY <1>2 DEF DeleteOne
  <2>2. Moves(t, "deleting", "deleting") BY <1>1, <2>1 DEF Moves, TaskTypes
  <2>3. abandoned' \in BOOLEAN
    BY <2>1 DEF HistoryTypes, DeleteMetadata, DeleteBundle, DeleteContents, DeleteDirectory
  <2> QED BY <2>1, <2>2, <2>3, DeleteDisk DEF HistoryTypes
<1>3. CASE DeleteEnds(t)
  <2>1. Goto(t, "deleting", "reset") /\ UNCHANGED <<disk, rooty, job, todo, crashes, cutShort, abandoned, applied>>
    BY <1>3 DEF DeleteEnds
  <2>2. Moves(t, "deleting", "reset") BY <1>1, <2>1, GotoMoves DEF Goto, WorkOK, Point
  <2>3. unfinished' \subseteq Versions BY <1>3 DEF DeleteEnds, HistoryTypes
  <2> QED BY <2>1, <2>2, <2>3, DiskUntouched DEF HistoryTypes
<1> QED BY <1>2, <1>3 DEF Deletes

\* ...and those at which it goes on, rooty and the record of the runs unchanged.
GoesOn(t) ==
  \/ Submit(t) \/ FetchFails(t) \/ MakeDirs(t) \/ BundleAbsent(t) \/ MoveBundle(t)
  \/ CheckFile(t) \/ OverwriteFails(t) \/ MoveFile(t) \/ DownloadThenInstall(t)
  \/ FindVersion(t) \/ FindInStore(t) \/ Prepare(t) \/ PrepareFails(t)

LEMMA GoesOnMoves ==
  ASSUME Safe, NEW t \in Tasks, GoesOn(t)
  PROVE  /\ UNCHANGED <<rooty, crashes, cutShort, abandoned, applied, active>>
         /\ DiskOK' /\ unfinished' \subseteq Versions
         /\ \E from, to \in Point \ Awaits : Moves(t, from, to)
<1> USE SafeParts DEF history, HistoryTypes
<1>1. WorkOK(pc[t], job[t]) /\ dirs \subseteq Versions BY DEF TasksOK, DiskOK
<1>2. CASE Submit(t)
  <2>1. \E to \in {"fetch", "find", "findActive"} : Moves(t, "idle", to) BY <1>2, SubmitMoves
  <2>2. UNCHANGED <<disk, rooty, history>>
    BY <1>2 DEF Submit, SubmitDownload, SubmitInstall, SubmitUninstall
  <2> QED BY <2>1, <2>2, DiskUntouched DEF history, disk, Point, Awaits
<1>3. CASE MakeDirs(t)
  <2>1. Moves(t, "fetch", "checkBundle")
    BY <1>1, <1>3, GotoMoves DEF MakeDirs, Goto, WorkOK, Point
  <2> QED BY <1>1, <1>3, <2>1, DownloadDisk DEF MakeDirs, Point, Awaits
<1>4. CASE BundleAbsent(t)
  <2>1. Moves(t, "checkBundle", "moveBundle")
    BY <1>1, <1>4, GotoMoves DEF BundleAbsent, Goto, WorkOK, Point
  <2> QED BY <1>4, <2>1, DiskUntouched DEF BundleAbsent, history, disk, Point, Awaits
<1>5. CASE MoveBundle(t)
  <2>1. Goto(t, "moveBundle", "checkFile") /\ UNCHANGED <<job, rooty, history, active>>
        /\ todo' = [todo EXCEPT ![t] = Files]
    BY <1>5 DEF MoveBundle
  <2>2. Moves(t, "moveBundle", "checkFile")
    BY <1>1, <2>1 DEF Moves, Goto, TaskTypes, WorkOK, Point
  <2> QED BY <1>1, <1>5, <2>1, <2>2, DownloadDisk DEF Point, Awaits
<1>6. CASE CheckFile(t)
  <2>1. job[t].version \in Versions BY <1>1, <1>6, CheckFileMoves
  <2> QED BY <1>1, <1>6, <2>1, CheckFileMoves, DownloadDisk DEF CheckFile, Point, Awaits
<1>7. CASE MoveFile(t)
  BY <1>1, <1>7, MoveFileMoves, DownloadDisk DEF MoveFile, Point, Awaits
<1>8. CASE DownloadThenInstall(t)
  BY <1>1, <1>8, ThenInstallMoves, DiskUntouched DEF DownloadThenInstall, history, disk, Point, Awaits
<1>9. CASE FindVersion(t) \/ FindInStore(t)
  <2>1. UNCHANGED <<disk, rooty, history>> BY <1>9 DEF FindVersion, FindInStore
  <2> QED BY <1>1, <1>9, <2>1, FindMoves, DiskUntouched DEF history, disk, Point, Awaits
<1>10. CASE Prepare(t)
  <2>1. Moves(t, "prepare", "send")
    BY <1>1, <1>10, GotoMoves DEF Prepare, Goto, WorkOK, Point
  <2> QED BY <1>10, <2>1, PrepareDisk DEF Prepare, Point, Awaits
<1>11. CASE PrepareFails(t)
  BY <1>11, FinishMoves, PrepareDisk DEF PrepareFails, Fail, Point, Awaits
<1>12. CASE FetchFails(t)
  BY <1>1, <1>12, FinishMoves, DownloadDisk DEF FetchFails, Fail, Point, Awaits
<1>13. CASE OverwriteFails(t)
  <2>1. Moves(t, "checkFile", "idle") /\ job[t].version \in Versions
    BY <1>1, <1>13, FinishMoves DEF OverwriteFails, Fail, Finish, WorkOK
  <2> QED BY <1>1, <1>13, <2>1, DownloadDisk DEF OverwriteFails, Point, Awaits
<1> QED BY <1>2, <1>3, <1>4, <1>5, <1>6, <1>7, <1>8, <1>9, <1>10, <1>11, <1>12, <1>13 DEF GoesOn

LEMMA WorkSafe ==
  ASSUME Safe, NEW t \in Tasks, GivesUp(t) \/ GoesOn(t) \/ Deletes(t)
  PROVE  Safe'
<1> USE SafeParts
<1>1. /\ UNCHANGED <<rooty, crashes, cutShort, applied>> /\ DiskOK'
      /\ abandoned' \in BOOLEAN /\ unfinished' \subseteq Versions
      /\ \E from, to \in Point \ Awaits : Moves(t, from, to)
  <2>1. CASE GivesUp(t)
    BY <2>1, GivesUpMoves, DiskUntouched DEF history, HistoryTypes, Point, Awaits
  <2>2. CASE GoesOn(t) BY <2>2, GoesOnMoves DEF HistoryTypes
  <2>3. CASE Deletes(t) BY <2>3, DeletesMoves DEF Point, Awaits
  <2> QED BY <2>1, <2>2, <2>3
<1>2. PICK from, to \in Point \ Awaits : Moves(t, from, to) BY <1>1
<1>3. TasksOK' /\ QueueOK(queue, pc, job, answer)'
  BY <1>1, <1>2, WorkKeeps DEF rooty
<1>4. TaskTypes' BY <1>2 DEF Moves
<1>5. RootyTypes' /\ HistoryTypes' /\ (chef.version \in applied \cup {NoVersion})'
  BY <1>1 DEF RootyTypes, HistoryTypes, rooty
<1> QED BY <1>1, <1>3, <1>4, <1>5, SafeLater

LEMMA SendSafe ==
  ASSUME Safe, NEW t \in Tasks, SendAdd(t) \/ SendRemove(t)
  PROVE  Safe'
<1> USE SafeParts
<1>1. WorkOK(pc[t], job[t]) /\ dirs \subseteq Versions BY DEF TasksOK, DiskOK
<1>2. UNCHANGED <<disk, chef, history>> BY DEF SendAdd, SendRemove
<1>3. DiskOK' BY <1>2, DiskUntouched DEF history
<1>4. HistoryTypes' /\ (chef.version \in applied \cup {NoVersion})'
  BY <1>2 DEF HistoryTypes, history
<1>5. TaskTypes' /\ RootyTypes' /\ TasksOK' /\ QueueOK(queue, pc, job, answer)'
  <2>1. CASE SendAdd(t)
    <3> DEFINE m == [op |-> "ADD", task |-> t, version |-> job[t].version]
    <3>1. Goto(t, "send", "awaitAdd") /\ UNCHANGED <<job, todo>> BY <2>1 DEF SendAdd
    <3>2. job[t].version \in Versions BY <1>1, <3>1 DEF WorkOK, Goto
    <3>3. Moves(t, "send", "awaitAdd") BY <3>1, <3>2, GotoMoves DEF WorkOK, Point
    <3>4. m \in Message /\ m.task = t /\ m.op = "ADD" /\ m.version = job'[t].version
      BY <3>1, <3>2 DEF Message
    <3>5. queue' = Append(queue, m) /\ answer' = [answer EXCEPT ![t] = "pending"]
      BY <2>1 DEF SendAdd
    <3> HIDE DEF m
    <3>6. "send" \notin Awaits /\ "awaitAdd" = IF m.op = "ADD" THEN "awaitAdd" ELSE "awaitRemove"
      BY <3>4 DEF Awaits
    <3>7. UNCHANGED <<chef, applied>> BY <1>2 DEF history
    <3>8. RootyTypes' /\ TasksOK' /\ QueueOK(queue, pc, job, answer)'
      BY <3>3, <3>4, <3>5, <3>6, <3>7, SendKeeps, Zenon
    <3> QED BY <3>3, <3>8 DEF Moves
  <2>2. CASE SendRemove(t)
    <3> DEFINE m == [op |-> "REMOVE", task |-> t, version |-> active]
    <3>1. Moves(t, "findActive", "awaitRemove") /\ active \in Versions /\ job'[t].version = active
      BY <1>1, <2>2, RemoveMoves
    <3>2. m \in Message /\ m.task = t /\ m.op = "REMOVE" /\ m.version = job'[t].version
      BY <3>1 DEF Message
    <3>3. queue' = Append(queue, m) /\ answer' = [answer EXCEPT ![t] = "pending"]
      BY <2>2 DEF SendRemove
    <3> HIDE DEF m
    <3>4. /\ "findActive" \notin Awaits
          /\ "awaitRemove" = IF m.op = "ADD" THEN "awaitAdd" ELSE "awaitRemove"
      BY <3>2 DEF Awaits
    <3>5. UNCHANGED <<chef, applied>> BY <1>2 DEF history
    <3>6. RootyTypes' /\ TasksOK' /\ QueueOK(queue, pc, job, answer)'
      BY <3>1, <3>2, <3>3, <3>4, <3>5, SendKeeps, Zenon
    <3> QED BY <3>1, <3>6 DEF Moves
  <2> QED BY <2>1, <2>2
<1> QED BY <1>3, <1>4, <1>5, SafeLater

\* The steps at which a task stops waiting for rooty.
WaitEnds(t) ==
  \/ AddRefused(t) \/ RecordInstall(t) \/ RecordFails(t)
  \/ RemoveRefused(t) \/ DeleteApp(t) \/ TimeOut(t)

LEMMA WaitEndsMoves ==
  ASSUME Safe, NEW t \in Tasks, WaitEnds(t)
  PROVE  /\ \E from \in Awaits, to \in {"idle", "reset", "deleting"} :
              Moves(t, from, to) /\ (to = "deleting" <=> DeleteApp(t))
         /\ answer' = [answer EXCEPT ![t] = "none"]
         /\ \/ answer[t] # "pending" /\ queue' = queue
            \/ queue' = Disowned({t})
         /\ UNCHANGED <<chef, crashes, applied>>
         /\ abandoned' \in BOOLEAN /\ cutShort' \in {cutShort, TRUE}
         /\ unfinished' = IF DeleteApp(t) THEN unfinished \cup dirs ELSE unfinished
         /\ UNCHANGED <<dirs, placed, settings>>
<1> USE SafeParts DEF Awaits, Fail
<1>1. WorkOK(pc[t], job[t]) /\ pc[t] \in Point BY DEF TasksOK, TaskTypes
<1>2. CASE AddRefused(t) \/ RemoveRefused(t)
  <2>1. \E from \in Awaits : Moves(t, from, "idle")
    BY <1>2, FinishMoves DEF AddRefused, RemoveRefused
  <2>2. ~DeleteApp(t) BY <1>2 DEF AddRefused, RemoveRefused, DeleteApp
  <2> QED BY <1>2, <2>1, <2>2 DEF AddRefused, RemoveRefused, history, disk, HistoryTypes
<1>3. CASE RecordInstall(t)
  <2>1. Moves(t, "awaitAdd", "reset")
    BY <1>1, <1>3, GotoMoves DEF RecordInstall, Goto, WorkOK, Point
  <2>2. ~DeleteApp(t) BY <1>3 DEF RecordInstall, DeleteApp, Goto
  <2>3. abandoned' \in BOOLEAN BY <1>3 DEF RecordInstall, TaskTypes, Job
  <2> QED BY <1>3, <2>1, <2>2, <2>3 DEF RecordInstall
<1>4. CASE RecordFails(t)
  <2>1. Moves(t, "awaitAdd", "idle") BY <1>4, FinishMoves DEF RecordFails
  <2>2. ~DeleteApp(t) BY <1>4 DEF RecordFails, DeleteApp, Goto, Finish
  <2> QED BY <1>4, <2>1, <2>2 DEF RecordFails, disk
<1>5. CASE DeleteApp(t)
  <2>1. Moves(t, "awaitRemove", "deleting")
    BY <1>1, <1>5, GotoMoves DEF DeleteApp, Goto, WorkOK, Point
  <2> QED BY <1>5, <2>1 DEF DeleteApp, disk
<1>6. CASE TimeOut(t)
  <2>1. Moves(t, pc[t], "idle") /\ pc[t] \in Awaits /\ job'[t] = NoJob
    BY <1>6, FinishMoves DEF TimeOut
  <2>2. ~DeleteApp(t) BY <2>1 DEF DeleteApp, Goto, Moves, TaskTypes
  <2>3. cutShort' \in {cutShort, TRUE} /\ abandoned' \in BOOLEAN BY <1>6 DEF TimeOut
  <2> QED BY <2>3, <1>6, <2>1, <2>2 DEF TimeOut, disk
<1> QED BY <1>2, <1>3, <1>4, <1>5, <1>6 DEF WaitEnds

LEMMA WaitEndsSafe ==
  ASSUME Safe, NEW t \in Tasks, WaitEnds(t)
  PROVE  Safe'
<1> USE SafeParts
<1>1. PICK from \in Awaits, to \in {"idle", "reset", "deleting"} : Moves(t, from, to)
  BY WaitEndsMoves
<1>2. RootyTypes' /\ TasksOK' /\ QueueOK(queue, pc, job, answer)'
  <2>1. to \notin Awaits BY DEF Awaits
  <2> QED BY <1>1, <2>1, WaitEndsMoves, EndKeeps
<1>3. TaskTypes' BY <1>1 DEF Moves
<1>4. HistoryTypes' BY WaitEndsMoves DEF HistoryTypes, DiskOK
<1>5. (chef.version \in applied \cup {NoVersion})' BY WaitEndsMoves
<1>6. DiskOK'
  <2>1. WorkOK(pc[t], job[t]) /\ AnswerOK(pc[t], job[t], answer[t], applied) BY DEF TasksOK
  <2>2. CASE RecordInstall(t) BY <2>1, <2>2, RecordDisk
  <2>3. CASE ~RecordInstall(t)
    <3>1. UNCHANGED disk
      BY <2>3 DEF WaitEnds, AddRefused, RecordFails, RemoveRefused, DeleteApp, TimeOut
    <3> QED BY <3>1, WaitEndsMoves, DiskUntouched
  <2> QED BY <2>2, <2>3
<1> QED BY <1>2, <1>3, <1>4, <1>5, <1>6, SafeLater

\* Rooty answers the first message of the queue.
LEMMA RootyAnswers ==
  ASSUME TasksOK, QueueOK(queue, pc, job, answer), RootyTypes, queue # <<>>,
         NEW status \in {"ok", "error"}, Answered(Head(queue), status), queue' = Tail(queue),
         UNCHANGED <<pc, job>>, applied \subseteq applied',
         status = "ok" /\ Head(queue).op = "ADD" => Head(queue).version \in applied'
  PROVE  /\ queue' \in Seq(Message) /\ answer' \in [Tasks -> {"none", "pending", "ok", "error"}]
         /\ TasksOK' /\ QueueOK(queue, pc, job, answer)'
<1> DEFINE m == Head(queue)
<1>1. /\ 1 \in DOMAIN queue /\ m = queue[1] /\ m \in Message
      /\ queue' \in Seq(Message)
      /\ \A i \in DOMAIN queue' : i + 1 \in DOMAIN queue /\ queue'[i] = queue[i + 1] /\ i + 1 # 1
  BY HeadTailProperties DEF RootyTypes
<1>2. m.task # Nobody => m.task \in Tasks /\ SentOK(m, pc[m.task], job[m.task], answer[m.task])
  BY <1>1, QueueHolds DEF QueueOK
<1> HIDE DEF m
<1>3. \A u \in Tasks : answer'[u] = IF u = m.task THEN status ELSE answer[u]
  BY DEF Answered, m
<1>4. answer' \in [Tasks -> {"none", "pending", "ok", "error"}]
  BY DEF Answered, RootyTypes
<1>5. ASSUME NEW u \in Tasks
      PROVE  WorkOK(pc'[u], job'[u]) /\ AnswerOK(pc'[u], job'[u], answer'[u], applied')
  <2>1. CASE u = m.task
    <3>1. u # Nobody /\ answer'[u] = status BY <1>3, <2>1, VersionsAssumption
    <3>2. SentOK(m, pc[u], job[u], answer[u]) BY <1>2, <2>1, <3>1
    <3>3. pc[u] \in Awaits BY <3>2 DEF SentOK, Awaits
    <3>4. pc[u] = "awaitAdd" => m.op = "ADD" /\ m.version = job[u].version BY <3>2 DEF SentOK
    <3> QED BY <3>1, <3>3, <3>4 DEF TasksOK, AnswerOK, m
  <2>2. CASE u # m.task BY <1>3, <2>2 DEF TasksOK, AnswerOK
  <2> QED BY <2>1, <2>2
<1>6. ASSUME NEW i \in DOMAIN queue', queue'[i].task # Nobody
      PROVE  /\ SentOK(queue'[i], pc'[queue'[i].task], job'[queue'[i].task], answer'[queue'[i].task])
             /\ \A k \in DOMAIN queue' : queue'[k].task = queue'[i].task => k = i
  <2>1. i + 1 \in DOMAIN queue /\ queue'[i] = queue[i + 1] /\ i + 1 # 1 BY <1>1
  <2>2. queue'[i].task \in Tasks BY <1>6, <2>1, QueueHolds
  <2>3. queue'[i].task # m.task BY <1>1, <1>6, <2>1 DEF QueueOK, m
  <2>4. SentOK(queue[i + 1], pc[queue'[i].task], job[queue'[i].task], answer[queue'[i].task])
    BY <1>6, <2>1 DEF QueueOK
  <2>5. ASSUME NEW k \in DOMAIN queue', queue'[k].task = queue'[i].task
        PROVE  k = i
    <3>1. k + 1 \in DOMAIN queue /\ queue'[k] = queue[k + 1] BY <1>1
    <3>2. k + 1 = i + 1 BY <1>6, <2>1, <2>5, <3>1 DEF QueueOK
    <3>3. k \in Nat /\ i \in Nat BY <1>1
    <3> QED BY <3>2, <3>3
  <2> QED BY <1>3, <2>1, <2>2, <2>3, <2>4, <2>5
<1> QED BY <1>1, <1>4, <1>5, <1>6 DEF TasksOK, QueueOK

\* What chef may have on its run list when it has handled a message.
Handled(m) ==
  IF m.op = "ADD" THEN [version |-> m.version, settings |-> settings[m.version]] ELSE NotInstalled

LEMMA HandledType ==
  ASSUME DiskOK, NEW m \in Message
  PROVE  /\ Handled(m) \in OnRunList
         /\ m.op = "ADD" => /\ Handled(m).version = m.version /\ m.version \in Versions
                            /\ Handled(m).settings = settings[m.version]
         /\ m.op # "ADD" => Handled(m).version = NoVersion
BY DEF Handled, NotInstalled, DiskOK, Message, OnRunList

LEMMA RootySteps ==
  ASSUME RootyTypes, DiskOK, Rooty
  PROVE  LET m == Head(queue) IN
         /\ queue # <<>> /\ m \in Message /\ queue' = Tail(queue)
         /\ UNCHANGED <<disk, pc, job, todo, crashes, cutShort, unfinished>>
         /\ m.op = "ADD" /\ chef' = Handled(m) => "chef" \in placed[m.version] \/ chef' = chef
         /\ applied' = IF chef'.version = NoVersion THEN applied
                       ELSE applied \cup {chef'.version}
         /\ \/ /\ Answered(m, "ok") /\ chef' = Handled(m) /\ UNCHANGED abandoned
               /\ m.op = "ADD" => "chef" \in placed[m.version]
            \/ /\ Answered(m, "error") /\ chef' \in {chef, Handled(m)}
               /\ abandoned' = (abandoned \/ chef' # chef)
<1> DEFINE m == Head(queue)
<1>1. queue # <<>> /\ queue' = Tail(queue) /\ UNCHANGED <<disk, pc, job, todo, crashes, cutShort, unfinished>>
  BY DEF Rooty, RootyApplies, RootyFails
<1>2. m \in Message BY <1>1, HeadTailProperties DEF RootyTypes
<1>3. m.op \in {"ADD", "REMOVE"} /\ m.version \in Versions BY <1>2 DEF Message
<1>4. NoVersion \notin Versions BY VersionsAssumption
<1> HIDE DEF m
<1>5. CASE RootyApplies
  <2>1. /\ m.op = "ADD" => "chef" \in placed[m.version]
        /\ chef' = Handled(m) /\ Answered(m, "ok") /\ UNCHANGED abandoned
        /\ applied' = IF m.op = "ADD" THEN applied \cup {m.version} ELSE applied
    BY <1>5 DEF RootyApplies, Handled, m
  <2> QED BY <1>1, <1>2, <1>3, <1>4, <2>1, HandledType DEF m
<1>6. CASE RootyFails
  <2>1. /\ chef' \in {chef, Handled(m)} /\ Answered(m, "error")
        /\ m.op = "ADD" /\ chef' # chef => "chef" \in placed[m.version]
    BY <1>3, <1>6 DEF RootyFails, Handled, m
  <2>2. /\ abandoned' = (abandoned \/ chef' # chef)
        /\ applied' = IF chef'.version = NoVersion THEN applied ELSE applied \cup {chef'.version}
    BY <1>6 DEF RootyFails
  <2> QED BY <1>1, <1>2, <2>1, <2>2 DEF m
<1> QED BY <1>5, <1>6 DEF Rooty

LEMMA RootySafe ==
  ASSUME Safe, Rooty
  PROVE  Safe'
<1> USE SafeParts
<1> DEFINE m == Head(queue)
<1>1. queue # <<>> /\ m \in Message /\ queue' = Tail(queue) BY RootySteps
<1>2. UNCHANGED <<disk, pc, job, todo, crashes, cutShort, unfinished>> BY RootySteps
<1>3. applied' = IF chef'.version = NoVersion THEN applied ELSE applied \cup {chef'.version}
  BY RootySteps
<1>4. \/ Answered(m, "ok") /\ chef' = Handled(m) /\ UNCHANGED abandoned
      \/ Answered(m, "error") /\ chef' \in {chef, Handled(m)} /\ abandoned' = (abandoned \/ chef' # chef)
  BY RootySteps
<1>5. m.op = "ADD" => Handled(m).version = m.version /\ m.version \in Versions
  BY <1>1, HandledType
<1> HIDE DEF m
<1>6. chef' \in OnRunList BY <1>1, <1>4, HandledType DEF RootyTypes
<1>7. applied \subseteq applied' /\ (chef.version \in applied \cup {NoVersion})'
  BY <1>3
<1>8. /\ queue' \in Seq(Message) /\ answer' \in [Tasks -> {"none", "pending", "ok", "error"}]
      /\ TasksOK' /\ QueueOK(queue, pc, job, answer)'
  <2>1. CASE Answered(m, "ok") /\ chef' = Handled(m)
    <3>1. m.op = "ADD" => m.version \in applied' BY <1>3, <1>5, <2>1, VersionsAssumption
    <3> QED BY <1>1, <1>2, <1>7, <2>1, <3>1, RootyAnswers DEF m
  <2>2. CASE Answered(m, "error")
    BY <1>1, <1>2, <1>7, <2>2, RootyAnswers DEF m
  <2> QED BY <1>4, <2>1, <2>2
<1>9. TaskTypes' BY <1>2 DEF TaskTypes
<1>10. HistoryTypes'
  <2>1. applied' \subseteq Versions BY <1>3, <1>6 DEF HistoryTypes, OnRunList
  <2>2. abandoned' \in BOOLEAN BY <1>4 DEF HistoryTypes
  <2> QED BY <1>2, <2>1, <2>2 DEF HistoryTypes
<1>11. DiskOK' BY <1>2, <1>7, DiskUntouched
<1> QED BY <1>6, <1>7, <1>8, <1>9, <1>10, <1>11, SafeLater DEF RootyTypes

LEMMA RepairSafe ==
  ASSUME Safe, Synchronize \/ \E v \in Versions : SetConfiguration(v)
  PROVE  Safe'
<1> USE SafeParts
<1>1. UNCHANGED <<rooty, pc, job, todo, crashes, cutShort, applied>>
  BY DEF Synchronize, SetConfiguration, history
<1>2. abandoned' \in BOOLEAN BY DEF Synchronize, SetConfiguration, HistoryTypes, history
<1>6. unfinished' \subseteq Versions
  BY DEF Synchronize, SetConfiguration, HistoryTypes, history, RootyTypes, OnRunList
<1>3. DiskOK' BY RepairDisk
<1>4. TaskTypes' /\ RootyTypes' /\ HistoryTypes' /\ (chef.version \in applied \cup {NoVersion})'
  BY <1>1, <1>2, <1>6 DEF TaskTypes, RootyTypes, HistoryTypes, rooty
<1>5. TasksOK' /\ QueueOK(queue, pc, job, answer)' BY <1>1 DEF TasksOK, rooty
<1> QED BY <1>3, <1>4, <1>5, SafeLater

LEMMA CrashSafe ==
  ASSUME Safe, Crash
  PROVE  Safe'
<1> USE SafeParts
<1>1. /\ pc' = [t \in Tasks |-> "idle"] /\ job' = [t \in Tasks |-> NoJob]
      /\ todo' = [t \in Tasks |-> {}] /\ answer' = [t \in Tasks |-> "none"]
      /\ queue' = Disowned(Tasks) /\ UNCHANGED <<disk, chef, applied>>
  BY DEF Crash
<1>2. TaskTypes' BY <1>1, NoJobIsJob DEF TaskTypes, Point
<1>3. HistoryTypes' BY <1>1, BoundsAssumption DEF Crash, HistoryTypes
<1>4. DiskOK' BY <1>1, DiskUntouched
<1>5. queue' \in Seq(Message) /\ \A i \in DOMAIN queue' : queue'[i].task = Nobody
  <2>1. queue' \in Seq(Message) /\ DOMAIN queue' = DOMAIN queue
        /\ \A i \in DOMAIN queue : /\ queue[i].task \in Tasks => queue'[i].task = Nobody
                                   /\ queue[i].task \notin Tasks => queue'[i] = queue[i]
    BY <1>1, DisownedIs DEF RootyTypes
  <2> QED BY <2>1, QueueHolds
<1>6. RootyTypes' BY <1>1, <1>5 DEF RootyTypes
<1>7. TasksOK' BY <1>1 DEF TasksOK, WorkOK, AnswerOK
<1>8. QueueOK(queue, pc, job, answer)' BY <1>5 DEF QueueOK
<1>9. (chef.version \in applied \cup {NoVersion})' BY <1>1
<1> QED BY <1>2, <1>3, <1>4, <1>6, <1>7, <1>8, <1>9, SafeLater

LEMMA InitSafe == Init => Safe
<1> SUFFICES ASSUME Init PROVE Safe OBVIOUS
<1> USE DEF Init
<1>1. TaskTypes BY NoJobIsJob DEF TaskTypes, Point
<1>2. RootyTypes BY DEF RootyTypes, NotInstalled, OnRunList
<1>3. HistoryTypes
  <2>1. crashes \in 0..MaxCrashes BY BoundsAssumption
  <2>2. cutShort \in BOOLEAN /\ abandoned \in BOOLEAN /\ applied = {} /\ unfinished = {} OBVIOUS
  <2> QED BY <2>1, <2>2 DEF HistoryTypes
<1>4. DiskOK BY VersionsAssumption DEF DiskOK, RepositoryOK
<1>5. TasksOK /\ QueueOK(queue, pc, job, answer)
  <2>1. TasksOK BY DEF TasksOK, WorkOK, AnswerOK
  <2>2. DOMAIN queue = {} OBVIOUS
  <2> QED BY <2>1, <2>2 DEF QueueOK
<1>6. chef.version = NoVersion BY DEF NotInstalled
<1> QED BY <1>1, <1>2, <1>3, <1>4, <1>5, <1>6, SafeParts

LEMMA StepKinds ==
  Next => \/ \E t \in Tasks : GivesUp(t) \/ GoesOn(t) \/ Deletes(t)
          \/ \E t \in Tasks : SendAdd(t) \/ SendRemove(t)
          \/ \E t \in Tasks : WaitEnds(t)
          \/ Rooty
          \/ Synchronize \/ \E v \in Versions : SetConfiguration(v)
          \/ Crash
BY DEF Next, Proceed, Download, Install, Uninstall, GivesUp, GoesOn, Deletes,
   WaitEnds

LEMMA NextSafe == Safe /\ [Next]_vars => Safe'
<1> SUFFICES ASSUME Safe, [Next]_vars PROVE Safe' OBVIOUS
<1>1. CASE \E t \in Tasks : GivesUp(t) \/ GoesOn(t) \/ Deletes(t) BY <1>1, WorkSafe
<1>2. CASE \E t \in Tasks : SendAdd(t) \/ SendRemove(t) BY <1>2, SendSafe
<1>3. CASE \E t \in Tasks : WaitEnds(t) BY <1>3, WaitEndsSafe
<1>4. CASE Rooty BY <1>4, RootySafe
<1>5. CASE Synchronize \/ \E v \in Versions : SetConfiguration(v) BY <1>5, RepairSafe
<1>6. CASE Crash BY <1>6, CrashSafe
<1>7. CASE UNCHANGED vars
  <2>1. UNCHANGED <<disk, rooty, history, pc, job, todo>> BY <1>7 DEF vars
  <2>2. /\ TaskTypes' /\ RootyTypes' /\ HistoryTypes' /\ DiskOK'
        /\ (chef.version \in applied \cup {NoVersion})'
    BY <2>1, SafeParts, DiskUntouched DEF TaskTypes, RootyTypes, HistoryTypes, rooty, history
  <2>3. TasksOK' /\ QueueOK(queue, pc, job, answer)'
    BY <2>1, SafeParts DEF TasksOK, rooty, history
  <2> QED BY <2>2, <2>3, SafeLater
<1> QED BY <1>1, <1>2, <1>3, <1>4, <1>5, <1>6, <1>7, StepKinds

LEMMA SafeInvariant == Spec => []Safe
BY InitSafe, NextSafe, PTL DEF Spec

\* Every variable keeps its type, for any tasks, versions, files and bounds: what
\* AppDownloadTask, AppInstallTask and AppUninstallTask work on is always a version
\* of the app by the time they use it.
THEOREM TypeCorrect == Spec => []TypeOK
<1>1. Safe => TypeOK BY DEF Safe
<1> QED BY <1>1, SafeInvariant, PTL

\* However many tasks, timeouts, crashes and repairs are interleaved, metadata.json
\* (AppMetadata, written at the end of AppInstallTask) names no version chef has not
\* had on its run list, and the repository has nothing outside its directories.
THEOREM OnlyInstalledIsActive == Spec => []ActiveWasInstalled
<1>1. Safe => ActiveWasInstalled
  BY SafeParts DEF ActiveWasInstalled, DiskOK, RepositoryOK
<1> QED BY <1>1, SafeInvariant, PTL

-----------------------------------------------------------------------------
(* One task at a time: every step keeps InTurn.                            *)

SetPoints == {"send", "awaitAdd"}

LEMMA ConfiguredKeeps ==
  ASSUME Alone, Configured, NEW t \in Tasks, UNCHANGED chef,
         pc'[t] \in SetPoints => Required(job'[t].version) \subseteq settings'[job'[t].version]
  PROVE  Configured'
BY DEF Alone, Configured, SetPoints, Required

\* Whole, of the one task there is.
LEMMA WholeLater ==
  ASSUME Alone, NEW t \in Tasks,
         \A v \in Versions \ unfinished' : placed'[v] \in {{}, Files},
         pc'[t] \in FilePoints =>
           Files \ (todo'[t] \cup InHand(t)') \subseteq placed'[job'[t].version],
         pc'[t] = "moveFile" => job'[t].version \in unfinished'
  PROVE  Whole'
BY DEF Alone, Whole

LEMMA EmptyingLater ==
  ASSUME Alone, NEW t \in Tasks,
         pc'[t] = "deleting" =>
           queue' = <<>> /\ chef'.version = NoVersion /\ dirs' \subseteq unfinished'
  PROVE  Emptying'
BY DEF Alone, Emptying

\* What InTurn says of the repository, after a step that moves no file, neither
\* goes into the loop over the files nor on to send or to delete.
LEMMA AwayKeeps ==
  ASSUME Alone, Whole, Undisturbed => Configured, NEW t \in Tasks, NEW from, NEW to,
         Moves(t, from, to), to \notin FilePoints \cup SetPoints \cup {"deleting"},
         UNCHANGED <<placed, unfinished, chef, crashes, cutShort>>
  PROVE  Whole' /\ Emptying' /\ (Undisturbed' => Configured')
<1>1. pc'[t] = to BY DEF Moves
<1>2. Whole'
  <2>1. \A v \in Versions \ unfinished' : placed'[v] \in {{}, Files} BY DEF Whole
  <2> QED BY <1>1, <2>1, WholeLater DEF FilePoints
<1>3. Emptying' BY <1>1, EmptyingLater
<1>4. Undisturbed' => Configured' BY <1>1, ConfiguredKeeps DEF Undisturbed
<1> QED BY <1>2, <1>3, <1>4

\* Databags are written for a version that has its manifest.
LEMMA WritesWhole ==
  ASSUME DiskOK, Whole, NEW v \in Versions, "manifest" \in placed[v], NEW values,
         WritesDatabags(v, values), UNCHANGED unfinished
  PROVE  /\ \A w \in Versions \ unfinished' : placed'[w] \in {{}, Files}
         /\ \A w \in Versions : placed[w] \subseteq placed'[w]
<1>1. placed' = [placed EXCEPT ![v] = @ \cup {"chef"}] BY DEF WritesDatabags
<1>2. /\ placed'[v] = placed[v] \cup {"chef"}
      /\ \A w \in Versions \ {v} : placed'[w] = placed[w]
  BY <1>1 DEF DiskOK
<1>3. v \notin unfinished => placed[v] = Files BY DEF Whole
<1> QED BY <1>2, <1>3, FilesAssumption DEF Whole

\* One round of the loop: the file to move is taken away...
LEMMA CheckFileWhole ==
  ASSUME Alone, Safe, Whole, NEW t \in Tasks, CheckFile(t)
  PROVE  Whole'
<1> DEFINE v == job[t].version
           f == job'[t].file
<1>1. TaskTypes /\ WorkOK(pc[t], job[t]) /\ placed \in [Versions -> SUBSET Files]
  BY SafeParts DEF TasksOK, DiskOK
<1>2. /\ pc[t] = "checkFile" /\ pc'[t] = "moveFile" /\ job'[t].version = v /\ v \in Versions
      /\ f \in todo[t] /\ todo'[t] = todo[t] \ {f}
      /\ placed' = [placed EXCEPT ![v] = @ \ {f}] /\ unfinished' = unfinished \cup {v}
  BY <1>1, CheckFileMoves DEF Moves
<1>3. placed'[v] = placed[v] \ {f} /\ \A w \in Versions \ {v} : placed'[w] = placed[w]
  BY <1>1, <1>2
<1>4. \A w \in Versions \ unfinished' : placed'[w] \in {{}, Files} BY <1>2, <1>3 DEF Whole
<1>5. Files \ todo[t] \subseteq placed[v] BY <1>2 DEF Whole, FilePoints, InHand
<1>6. Files \ (todo'[t] \cup {f}) \subseteq placed'[v] BY <1>2, <1>3, <1>5
<1> QED BY <1>2, <1>4, <1>6, WholeLater DEF InHand

\* ...and put in place, and with the last one the version is complete.
LEMMA MoveFileWhole ==
  ASSUME Alone, Safe, Whole, NEW t \in Tasks, MoveFile(t)
  PROVE  Whole'
<1> DEFINE v == job[t].version
           f == job[t].file
<1>1. TaskTypes /\ WorkOK(pc[t], job[t]) /\ placed \in [Versions -> SUBSET Files]
  BY SafeParts DEF TasksOK, DiskOK
<1>2. /\ pc[t] = "moveFile" /\ pc'[t] = IF todo[t] = {} THEN "assets" ELSE "checkFile"
      /\ UNCHANGED todo /\ job'[t].version = v /\ v \in Versions /\ f \in Files
      /\ placed' = [placed EXCEPT ![v] = @ \cup {f}]
      /\ unfinished' = IF todo[t] = {} THEN unfinished \ {v} ELSE unfinished
  BY <1>1, MoveFileMoves DEF Moves, MoveFile
<1>3. placed'[v] = placed[v] \cup {f} /\ \A w \in Versions \ {v} : placed'[w] = placed[w]
  BY <1>1, <1>2
<1>4. Files \ (todo[t] \cup {f}) \subseteq placed[v] /\ v \in unfinished
  BY <1>2 DEF Whole, FilePoints, InHand
<1>5. Files \ todo'[t] \subseteq placed'[v] /\ placed'[v] \subseteq Files BY <1>1, <1>2, <1>3, <1>4
<1>6. \A w \in Versions \ unfinished' : placed'[w] \in {{}, Files}
  BY <1>2, <1>3, <1>4, <1>5 DEF Whole
<1>7. pc'[t] # "moveFile" BY <1>2
<1> QED BY <1>2, <1>5, <1>6, <1>7, WholeLater DEF InHand

\* The parts about rooty, after a step that leaves rooty alone.
LEMMA RootyPartKeeps ==
  ASSUME Alone, Safe, InTurn, NEW t \in Tasks, NEW from, NEW to, Moves(t, from, to),
         from \notin Awaits, UNCHANGED <<rooty, crashes, cutShort, abandoned, active>>
  PROVE  (LastOfQueue /\ AnsweredLast /\ AllAwaited /\ Agrees)'
<1>1. \A u \in Tasks : answer[u] = "none"
  BY DEF Alone, Safe, TasksOK, AnswerOK, Moves
<1>2. LastOfQueue' BY DEF InTurn, LastOfQueue, rooty
<1>3. AnsweredLast' BY <1>1 DEF AnsweredLast, rooty
<1>4. AllAwaited' BY DEF InTurn, AllAwaited, Undisturbed, rooty
<1>5. Agrees' BY DEF InTurn, Agrees, rooty
<1> QED BY <1>2, <1>3, <1>4, <1>5

LEMMA GivesUpInTurn ==
  ASSUME Alone, Safe, InTurn, NEW t \in Tasks, GivesUp(t)
  PROVE  InTurn'
<1>1. TaskTypes BY SafeParts
<1>2. PICK from \in Point \ Awaits : Moves(t, from, "idle") BY <1>1, GivesUpMoves
<1>3. UNCHANGED <<disk, rooty, history>> BY <1>1, GivesUpMoves
<1>4. (LastOfQueue /\ AnsweredLast /\ AllAwaited /\ Agrees)'
  BY <1>2, <1>3, RootyPartKeeps DEF disk, history
<1>5. Whole' /\ Emptying' /\ (Undisturbed' => Configured')
  BY <1>2, <1>3, AwayKeeps DEF InTurn, FilePoints, SetPoints, disk, rooty, history
<1> QED BY <1>4, <1>5 DEF InTurn

LEMMA GoesOnRepository ==
  ASSUME Alone, Safe, InTurn, NEW t \in Tasks, GoesOn(t)
  PROVE  Whole' /\ Emptying' /\ (Undisturbed' => Configured')
<1> USE SafeParts
<1>1. TaskTypes /\ WorkOK(pc[t], job[t]) /\ dirs \subseteq Versions /\ DiskOK
  BY DEF TasksOK, DiskOK
<1>2. UNCHANGED <<chef, crashes, cutShort>> BY GoesOnMoves DEF rooty
<1>3. Whole /\ (Undisturbed => Configured) BY DEF InTurn
<1>4. Undisturbed' => Undisturbed BY <1>2 DEF Undisturbed
<1> USE DEF FilePoints, SetPoints
<1>5. CASE Submit(t)
  <2>1. PICK to \in {"fetch", "find", "findActive"} : Moves(t, "idle", to)
    BY <1>1, <1>5, SubmitMoves
  <2>2. UNCHANGED <<placed, unfinished>>
    BY <1>5 DEF Submit, SubmitDownload, SubmitInstall, SubmitUninstall, disk, history
  <2> QED BY <1>2, <1>3, <2>1, <2>2, AwayKeeps
<1>6. CASE MakeDirs(t)
  <2>1. Moves(t, "fetch", "checkBundle")
    BY <1>1, <1>6, GotoMoves DEF MakeDirs, Goto, WorkOK, Point
  <2> QED BY <1>2, <1>3, <1>6, <2>1, AwayKeeps DEF MakeDirs, history
<1>7. CASE BundleAbsent(t)
  <2>1. Moves(t, "checkBundle", "moveBundle")
    BY <1>1, <1>7, GotoMoves DEF BundleAbsent, Goto, WorkOK, Point
  <2> QED BY <1>2, <1>3, <1>7, <2>1, AwayKeeps DEF BundleAbsent, disk, history
<1>8. CASE MoveBundle(t)
  <2>1. /\ pc'[t] = "checkFile" /\ todo'[t] = Files
        /\ UNCHANGED <<placed, unfinished>>
    BY <1>1, <1>8 DEF MoveBundle, Goto, TaskTypes, history
  <2>2. \A v \in Versions \ unfinished' : placed'[v] \in {{}, Files} BY <1>3, <2>1 DEF Whole
  <2>3. Whole' BY <2>1, <2>2, WholeLater
  <2> QED BY <1>2, <1>3, <1>4, <2>1, <2>3, EmptyingLater, ConfiguredKeeps
<1>9. CASE CheckFile(t)
  <2>1. pc'[t] = "moveFile" BY <1>1, <1>9, CheckFileMoves DEF Moves
  <2> QED BY <1>2, <1>3, <1>4, <1>9, <2>1, CheckFileWhole, EmptyingLater, ConfiguredKeeps
<1>10. CASE MoveFile(t)
  <2>1. pc'[t] \in {"assets", "checkFile"} BY <1>1, <1>10, MoveFileMoves DEF Moves
  <2> QED BY <1>2, <1>3, <1>4, <1>10, <2>1, MoveFileWhole, EmptyingLater, ConfiguredKeeps
<1>11. CASE DownloadThenInstall(t)
  <2>1. PICK to \in {"prepare", "find"} : Moves(t, "assets", to)
    BY <1>1, <1>11, ThenInstallMoves
  <2>2. UNCHANGED <<placed, unfinished>> BY <1>11 DEF DownloadThenInstall, disk, history
  <2> QED BY <1>2, <1>3, <2>1, <2>2, AwayKeeps
<1>12. CASE FindVersion(t) \/ FindInStore(t)
  <2>1. PICK to \in {"prepare", "fetch"} : Moves(t, "find", to) BY <1>1, <1>12, FindMoves
  <2>2. UNCHANGED <<placed, unfinished>> BY <1>12 DEF FindVersion, FindInStore, disk, history
  <2> QED BY <1>2, <1>3, <2>1, <2>2, AwayKeeps
<1>13. CASE Prepare(t)
  <2> DEFINE v == job[t].version
  <2>1. Goto(t, "prepare", "send") /\ UNCHANGED <<job, todo, unfinished>>
    BY <1>13 DEF Prepare, history
  <2>2. Moves(t, "prepare", "send") BY <1>1, <2>1, GotoMoves DEF Goto, WorkOK, Point
  <2>3. /\ v \in Versions /\ v \in dirs /\ Manifests(v) /\ WritesDatabags(v, Merged(v))
        /\ Required(v) \subseteq Merged(v)
    BY <1>1, <1>13 DEF Prepare
  <2>4. Required(v) \subseteq settings'[v]
    BY <2>3, <1>1 DEF WritesDatabags, DiskOK
  <2>5. pc'[t] = "send" /\ job'[t].version = v BY <2>1, <2>2 DEF Moves
  <2>6. Whole'
    <3>1. "manifest" \in placed[v] BY <2>3 DEF Manifests
    <3>2. \A w \in Versions \ unfinished' : placed'[w] \in {{}, Files}
      BY <1>1, <1>3, <2>1, <2>3, <3>1, WritesWhole
    <3> QED BY <2>5, <3>2, WholeLater
  <2>7. Undisturbed => Configured' BY <1>2, <1>3, <2>4, <2>5, ConfiguredKeeps
  <2>8. Emptying' BY <2>5, EmptyingLater
  <2> QED BY <1>4, <2>6, <2>7, <2>8
<1>14. CASE PrepareFails(t)
  <2> DEFINE v == job[t].version
  <2>1. Moves(t, "prepare", "idle") BY <1>1, <1>14, FinishMoves DEF PrepareFails, Fail
  <2>2. pc'[t] = "idle" /\ pc[t] = "prepare" /\ v \in Versions BY <1>1, <2>1 DEF Moves, WorkOK
  <2>3. /\ UNCHANGED unfinished
        /\ \/ UNCHANGED placed
           \/ v \in dirs /\ Manifests(v) /\ WritesDatabags(v, Merged(v))
    BY <1>14 DEF PrepareFails, history
  <2>4. CASE UNCHANGED placed BY <1>2, <1>3, <2>1, <2>3, <2>4, AwayKeeps
  <2>5. CASE v \in dirs /\ Manifests(v) /\ WritesDatabags(v, Merged(v))
    <3>1. "manifest" \in placed[v] BY <2>5 DEF Manifests
    <3>2. \A w \in Versions \ unfinished' : placed'[w] \in {{}, Files}
      BY <1>1, <1>3, <2>2, <2>3, <2>5, <3>1, WritesWhole
    <3>3. Whole' BY <2>2, <3>2, WholeLater
    <3> QED BY <1>2, <1>3, <1>4, <2>2, <3>3, EmptyingLater, ConfiguredKeeps
  <2> QED BY <2>3, <2>4, <2>5
<1>15. CASE FetchFails(t)
  <2>1. Moves(t, "fetch", "idle") BY <1>1, <1>15, FinishMoves DEF FetchFails, Fail
  <2> QED BY <1>2, <1>3, <1>15, <2>1, AwayKeeps DEF FetchFails, history
<1>16. CASE OverwriteFails(t)
  <2>1. Moves(t, "checkFile", "idle") BY <1>1, <1>16, FinishMoves DEF OverwriteFails, Fail
  <2>2. UNCHANGED placed /\ unfinished \subseteq unfinished' BY <1>16 DEF OverwriteFails
  <2>3. pc'[t] = "idle" BY <2>1 DEF Moves
  <2>4. \A w \in Versions \ unfinished' : placed'[w] \in {{}, Files} BY <1>3, <2>2 DEF Whole
  <2>5. Whole' BY <2>3, <2>4, WholeLater
  <2> QED BY <1>2, <1>3, <1>4, <2>3, <2>5, EmptyingLater, ConfiguredKeeps
<1> QED BY <1>5, <1>6, <1>7, <1>8, <1>9, <1>10, <1>11, <1>12, <1>13, <1>14, <1>15, <1>16
    DEF GoesOn

LEMMA GoesOnInTurn ==
  ASSUME Alone, Safe, InTurn, NEW t \in Tasks, GoesOn(t)
  PROVE  InTurn'
<1>1. PICK from, to \in Point \ Awaits : Moves(t, from, to) BY GoesOnMoves
<1>2. (LastOfQueue /\ AnsweredLast /\ AllAwaited /\ Agrees)'
  BY <1>1, GoesOnMoves, RootyPartKeeps
<1> QED BY <1>2, GoesOnRepository DEF InTurn

\* A deletion only ever takes something from versions that are unfinished.
LEMMA DeletesInTurn ==
  ASSUME Alone, Safe, InTurn, NEW t \in Tasks, Deletes(t)
  PROVE  InTurn'
<1> USE SafeParts
<1>1. PICK to \in {"deleting", "reset"} : Moves(t, "deleting", to) BY DeletesMoves
<1>2. UNCHANGED <<rooty, crashes, cutShort>> BY DeletesMoves
<1>3. pc[t] = "deleting" /\ pc'[t] = to BY <1>1 DEF Moves
<1>4. queue = <<>> /\ chef.version = NoVersion /\ dirs \subseteq unfinished
  BY <1>3 DEF InTurn, Emptying
<1>5. LastOfQueue' BY <1>2 DEF InTurn, LastOfQueue, rooty
<1>6. \A u \in Tasks : answer[u] = "none"
  BY <1>3 DEF Alone, TasksOK, AnswerOK, Awaits
<1>7. AnsweredLast' BY <1>2, <1>6 DEF AnsweredLast, rooty
<1>8. AllAwaited'
  <2>1. DOMAIN queue' = {} BY <1>2, <1>4 DEF rooty
  <2> QED BY <2>1 DEF AllAwaited
<1>9. Undisturbed' => Configured'
  BY <1>2, <1>3, ConfiguredKeeps DEF InTurn, Undisturbed, SetPoints, rooty
<1>10. CASE DeleteOne(t)
  <2>1. /\ UNCHANGED <<pc, unfinished>>
        /\ DeleteMetadata \/ DeleteBundle \/ DeleteContents \/ DeleteDirectory
    BY <1>10 DEF DeleteOne
  <2>2. Agrees'
    <3>1. active' = NoVersion \/ UNCHANGED <<active, abandoned>>
      BY <2>1 DEF DeleteMetadata, DeleteBundle, DeleteContents, DeleteDirectory
    <3> QED BY <1>2, <1>4, <3>1 DEF InTurn, Agrees, rooty
  <2>3. dirs' \subseteq dirs
    BY <2>1 DEF DeleteMetadata, DeleteBundle, DeleteContents, DeleteDirectory
  <2>4. \A v \in Versions \ dirs : placed'[v] = placed[v]
    <3>1. CASE DeleteContents
      <4>1. PICK v \in dirs :
              \/ \E f \in placed[v] : placed' = [placed EXCEPT ![v] = @ \ {f}]
              \/ UNCHANGED placed
        BY <3>1 DEF DeleteContents
      <4> QED BY <4>1 DEF DiskOK
    <3>2. CASE ~DeleteContents
      BY <2>1, <3>2 DEF DeleteMetadata, DeleteBundle, DeleteDirectory
    <3> QED BY <3>1, <3>2
  <2>5. \A v \in Versions \ unfinished' : placed'[v] \in {{}, Files}
    BY <1>4, <2>1, <2>4 DEF InTurn, Whole
  <2>6. Whole' BY <1>3, <2>1, <2>5, WholeLater DEF FilePoints
  <2>7. Emptying' BY <1>2, <1>4, <2>1, <2>3, EmptyingLater DEF rooty
  <2> QED BY <1>5, <1>7, <1>8, <1>9, <2>2, <2>6, <2>7 DEF InTurn
<1>11. CASE DeleteEnds(t)
  <2>1. /\ UNCHANGED <<disk, abandoned>> /\ pc'[t] = "reset"
        /\ unfinished' = IF appDir THEN unfinished ELSE {}
    BY <1>11 DEF DeleteEnds, Goto, TaskTypes
  <2>2. Agrees' BY <1>2, <2>1 DEF InTurn, Agrees, disk, rooty
  <2>3. \A v \in Versions \ unfinished' : placed'[v] \in {{}, Files}
    <3>1. CASE appDir BY <2>1, <3>1 DEF InTurn, Whole, disk
    <3>2. CASE ~appDir BY <2>1, <3>2 DEF DiskOK, RepositoryOK, disk
    <3> QED BY <3>1, <3>2
  <2>4. Whole' BY <2>1, <2>3, WholeLater DEF FilePoints
  <2>5. Emptying' BY <2>1, EmptyingLater
  <2> QED BY <1>5, <1>7, <1>8, <1>9, <2>2, <2>4, <2>5 DEF InTurn
<1> QED BY <1>10, <1>11 DEF Deletes

LEMMA SendInTurn ==
  ASSUME Alone, Safe, InTurn, NEW t \in Tasks, SendAdd(t) \/ SendRemove(t)
  PROVE  InTurn'
<1> USE SafeParts
<1>1. TaskTypes /\ dirs \subseteq Versions /\ RootyTypes /\ WorkOK(pc[t], job[t])
  BY DEF DiskOK, TasksOK
<1>2. PICK from \in {"send", "findActive"}, to \in Awaits :
        /\ Moves(t, from, to) /\ (to = "awaitAdd" => from = "send" /\ UNCHANGED job)
  <2>1. CASE SendAdd(t)
    <3>1. Moves(t, "send", "awaitAdd")
      BY <1>1, <2>1, GotoMoves DEF SendAdd, Goto, WorkOK, Point
    <3> QED BY <2>1, <3>1 DEF SendAdd, Awaits
  <2>2. CASE SendRemove(t) BY <1>1, <2>2, RemoveMoves DEF Awaits
  <2> QED BY <2>1, <2>2
<1>3. UNCHANGED <<disk, chef, history>> /\ answer' = [answer EXCEPT ![t] = "pending"]
  BY DEF SendAdd, SendRemove
<1>4. \E m : m.task = t /\ queue' = Append(queue, m)
  BY DEF SendAdd, SendRemove
<1>5. \A i \in DOMAIN queue : queue[i].task = Nobody
  <2>1. pc[t] = from /\ from \notin Awaits BY <1>2 DEF Moves, Awaits
  <2> SUFFICES ASSUME NEW i \in DOMAIN queue, queue[i].task # Nobody PROVE FALSE OBVIOUS
  <2>2. queue[i].task = t BY <1>1, QueueHolds DEF Alone
  <2> QED BY <2>1, <2>2 DEF QueueOK, SentOK, Awaits
<1>6. /\ DOMAIN queue = 1 .. Len(queue) /\ Len(queue) \in Nat
      /\ DOMAIN queue' = DOMAIN queue \cup {Len(queue')} /\ Len(queue') \notin DOMAIN queue
      /\ queue'[Len(queue')].task = t
      /\ \A i \in DOMAIN queue : queue'[i] = queue[i]
  BY <1>1, <1>4 DEF RootyTypes
<1>7. t # Nobody BY VersionsAssumption
<1>8. LastOfQueue' BY <1>5, <1>6 DEF LastOfQueue
<1>9. \A u \in Tasks : answer'[u] = "pending" BY <1>1, <1>3 DEF Alone, RootyTypes
<1>10. AnsweredLast' BY <1>9 DEF AnsweredLast
<1>11. AllAwaited' BY <1>3, <1>5, <1>6, <1>7 DEF InTurn, AllAwaited, Undisturbed, history
<1>12. \A u \in Tasks : answer[u] # "ok"
  BY <1>2 DEF Alone, Moves, TasksOK, AnswerOK, Awaits
<1>13. Agrees' BY <1>3, <1>12 DEF InTurn, Agrees, disk, history
<1>14. pc'[t] = to /\ pc[t] = from BY <1>2 DEF Moves
<1>15. /\ UNCHANGED <<placed, unfinished>> /\ pc'[t] \notin FilePoints
       /\ pc'[t] # "deleting"
  BY <1>3, <1>14 DEF disk, history, FilePoints, Awaits
<1>16. \A v \in Versions \ unfinished' : placed'[v] \in {{}, Files}
  BY <1>15 DEF InTurn, Whole
<1>17. Whole' /\ Emptying' BY <1>15, <1>16, WholeLater, EmptyingLater DEF FilePoints
<1>18. ASSUME Undisturbed' PROVE Configured'
  <2>1. Configured BY <1>3, <1>18 DEF InTurn, Undisturbed, history
  <2>2. to = "awaitAdd" => Required(job'[t].version) \subseteq settings'[job'[t].version]
    BY <1>2, <1>3, <1>14, <2>1 DEF Configured, disk
  <2> QED BY <1>3, <1>14, <2>1, <2>2, ConfiguredKeeps DEF Awaits, SetPoints
<1> QED BY <1>8, <1>10, <1>11, <1>13, <1>17, <1>18 DEF InTurn

LEMMA WaitEndsInTurn ==
  ASSUME Alone, Safe, InTurn, NEW t \in Tasks, WaitEnds(t)
  PROVE  InTurn'
<1> USE SafeParts
<1>1. PICK from \in Awaits, to \in {"idle", "reset", "deleting"} :
        Moves(t, from, to) /\ (to = "deleting" <=> DeleteApp(t))
  BY WaitEndsMoves
<1>2. /\ answer' = [answer EXCEPT ![t] = "none"] /\ UNCHANGED <<chef, crashes, dirs, placed, settings>>
      /\ cutShort' \in {cutShort, TRUE}
      /\ unfinished' = IF DeleteApp(t) THEN unfinished \cup dirs ELSE unfinished
  BY WaitEndsMoves
<1>3. \A u \in Tasks : answer'[u] = "none" BY <1>2 DEF Alone, RootyTypes
<1>4. AnsweredLast' BY <1>3 DEF AnsweredLast
<1>5. pc'[t] = to /\ pc[t] = from BY <1>1 DEF Moves
<1>6. Whole'
  <2>1. \A v \in Versions \ unfinished' : placed'[v] \in {{}, Files}
    BY <1>2 DEF InTurn, Whole
  <2> QED BY <1>5, <2>1, WholeLater DEF FilePoints
<1>7. Undisturbed' => Undisturbed BY <1>2 DEF Undisturbed
<1>8. Undisturbed => Configured' BY <1>2, <1>5, ConfiguredKeeps DEF SetPoints, InTurn
<1>9. CASE answer[t] = "ok" /\ (RecordInstall(t) \/ RecordFails(t) \/ DeleteApp(t))
  <2>1. /\ queue = <<>>
        /\ chef.version = IF pc[t] = "awaitAdd" THEN job[t].version ELSE NoVersion
    BY <1>9 DEF InTurn, AnsweredLast
  <2>2. queue' = queue
    BY <1>9 DEF RecordInstall, RecordFails, DeleteApp
  <2>3. LastOfQueue' /\ AllAwaited' BY <2>1, <2>2 DEF LastOfQueue, AllAwaited
  <2>4. Agrees'
    <3>1. CASE RecordInstall(t)
      BY <1>2, <2>1, <3>1 DEF RecordInstall, Goto, Agrees
    <3>2. CASE RecordFails(t) \/ DeleteApp(t)
      BY <3>2 DEF RecordFails, DeleteApp, Agrees
    <3> QED BY <1>9, <3>1, <3>2
  <2>5. Emptying'
    <3>1. DeleteApp(t) => pc[t] = "awaitRemove" BY DEF DeleteApp, Goto
    <3> QED BY <1>1, <1>2, <1>5, <2>1, <2>2, <3>1, EmptyingLater
  <2> QED BY <1>4, <1>6, <1>7, <1>8, <2>3, <2>4, <2>5 DEF InTurn
<1>10. CASE AddRefused(t) \/ RemoveRefused(t)
  <2>1. answer[t] = "error" /\ UNCHANGED <<disk, queue, chef, history>>
    BY <1>10 DEF AddRefused, RemoveRefused
  <2>2. LastOfQueue' /\ AllAwaited'
    BY <2>1 DEF InTurn, LastOfQueue, AllAwaited, Undisturbed, history
  <2>3. \A u \in Tasks : answer[u] # "ok" BY <2>1 DEF Alone
  <2>4. Agrees' BY <2>1, <2>3 DEF InTurn, Agrees, disk, history
  <2>5. Emptying'
    <3>1. ~DeleteApp(t) BY <2>1 DEF DeleteApp
    <3> QED BY <1>1, <1>5, <3>1, EmptyingLater
  <2> QED BY <1>4, <1>6, <1>7, <1>8, <2>2, <2>4, <2>5 DEF InTurn
<1>11. CASE TimeOut(t)
  <2>1. abandoned' = TRUE /\ cutShort' = TRUE /\ queue' = Disowned({t})
    BY <1>11 DEF TimeOut
  <2>2. Agrees' /\ AllAwaited' /\ ~Undisturbed' BY <2>1 DEF Agrees, AllAwaited, Undisturbed
  <2>3. \A i \in DOMAIN queue' : queue'[i].task = Nobody
    <3> SUFFICES ASSUME NEW i \in DOMAIN queue, queue'[i].task # Nobody PROVE FALSE
      BY <2>1, DisownedIs DEF RootyTypes
    <3>1. queue'[i] = queue[i] /\ queue[i].task # t BY <2>1, DisownedIs DEF RootyTypes
    <3> QED BY <3>1, QueueHolds DEF Alone
  <2>4. LastOfQueue' BY <2>3 DEF LastOfQueue
  <2>5. pc'[t] = "idle" BY <1>11, FinishMoves DEF TimeOut, Fail, Moves
  <2>6. Emptying' BY <2>5, EmptyingLater
  <2> QED BY <1>4, <1>6, <2>2, <2>4, <2>6 DEF InTurn
<1>12. \/ answer[t] = "ok" /\ (RecordInstall(t) \/ RecordFails(t) \/ DeleteApp(t))
       \/ AddRefused(t) \/ RemoveRefused(t) \/ TimeOut(t)
  BY DEF WaitEnds, RecordInstall, RecordFails, DeleteApp
<1> QED BY <1>9, <1>10, <1>11, <1>12

LEMMA RootyInTurn ==
  ASSUME Alone, Safe, InTurn, Rooty
  PROVE  InTurn'
<1> USE SafeParts
<1> DEFINE m == Head(queue)
<1>1. queue # <<>> /\ m \in Message /\ queue' = Tail(queue) BY RootySteps
<1>2. UNCHANGED <<disk, pc, job, todo, crashes, cutShort, unfinished>> BY RootySteps
<1>3. \/ Answered(m, "ok") /\ chef' = Handled(m) /\ UNCHANGED abandoned
      \/ Answered(m, "error") /\ chef' \in {chef, Handled(m)} /\ abandoned' = (abandoned \/ chef' # chef)
  BY RootySteps
<1>4. m.op = "ADD" /\ chef' = Handled(m) => "chef" \in placed[m.version] \/ chef' = chef
  BY RootySteps
<1>5. /\ m.op = "ADD" => /\ Handled(m).version = m.version /\ m.version \in Versions
                         /\ Handled(m).settings = settings[m.version]
      /\ m.op # "ADD" => Handled(m).version = NoVersion
  BY <1>1, HandledType
<1>6. /\ 1 \in DOMAIN queue /\ m = queue[1] /\ Len(queue') = Len(queue) - 1 /\ Len(queue) \in Nat
      /\ \A i \in DOMAIN queue' : i \in Nat /\ i + 1 \in DOMAIN queue /\ queue'[i] = queue[i + 1]
      /\ Len(queue) = 1 => queue' = <<>>
  BY <1>1, HeadTailProperties, EmptySeq DEF RootyTypes
<1>7. m.task # Nobody => /\ m.task \in Tasks /\ Len(queue) = 1
                         /\ SentOK(m, pc[m.task], job[m.task], answer[m.task])
  BY <1>6, QueueHolds DEF QueueOK, InTurn, LastOfQueue
<1> HIDE DEF m
<1>8. \A u \in Tasks : answer[u] # "ok" BY <1>1 DEF InTurn, AnsweredLast
<1>9. \A u \in Tasks : answer'[u] = IF u = m.task THEN answer'[u] ELSE answer[u]
  BY <1>3 DEF Answered
<1>10. LastOfQueue' BY <1>6 DEF InTurn, LastOfQueue
<1>11. AnsweredLast'
  <2> SUFFICES ASSUME NEW u \in Tasks, answer'[u] = "ok"
               PROVE  /\ queue' = <<>>
                      /\ chef'.version = IF pc[u] = "awaitAdd" THEN job[u].version ELSE NoVersion
    BY <1>2 DEF AnsweredLast
  <2>1. u = m.task BY <1>8, <1>9
  <2>2. u # Nobody BY VersionsAssumption
  <2>3. chef' = Handled(m) BY <1>3, <2>1 DEF Answered
  <2>4. queue' = <<>> /\ SentOK(m, pc[u], job[u], answer[u]) BY <1>6, <1>7, <2>1, <2>2
  <2> QED BY <1>5, <2>3, <2>4 DEF SentOK
<1>12. ~abandoned' => ~abandoned BY <1>3
<1>13. AllAwaited'
  BY <1>2, <1>6, <1>12 DEF InTurn, AllAwaited, Undisturbed
<1>14. Agrees'
  <2> SUFFICES ASSUME ~abandoned', \A u \in Tasks : answer'[u] # "ok" PROVE active' = chef'.version
    BY DEF Agrees
  <2>1. m.task # Nobody BY <1>6, <1>12 DEF InTurn, AllAwaited
  <2>2. ~Answered(m, "ok") BY <1>7, <2>1 DEF Answered
  <2>3. chef' = chef BY <1>3, <2>2
  <2>4. active = chef.version BY <1>8, <1>12 DEF InTurn, Agrees
  <2> QED BY <1>2, <2>3, <2>4 DEF disk
<1>15. Whole' BY <1>2 DEF InTurn, Whole, InHand, disk
<1>16. Emptying' BY <1>1, <1>2 DEF InTurn, Emptying
<1>17. ASSUME Undisturbed' PROVE Configured'
  <2>1. Configured /\ m.task # Nobody
    BY <1>2, <1>6, <1>17 DEF InTurn, AllAwaited, Undisturbed
  <2>2. CASE chef' = chef BY <1>2, <2>1, <2>2 DEF Configured, disk
  <2>3. CASE chef' # chef /\ m.op = "ADD"
    <3>1. m.task \in Tasks /\ pc[m.task] = "awaitAdd" /\ m.version = job[m.task].version
      BY <1>7, <2>1, <2>3 DEF SentOK
    <3>2. chef'.version = m.version /\ chef'.settings = settings[m.version] /\ m.version \in Versions
      BY <1>3, <1>5, <2>3
    <3>3. Required(m.version) \subseteq settings[m.version] BY <2>1, <3>1 DEF Configured
    <3> QED BY <1>2, <2>1, <3>2, <3>3 DEF Configured, disk
  <2>4. CASE chef' # chef /\ m.op # "ADD"
    <3>1. chef'.version = NoVersion BY <1>3, <1>5, <2>4
    <3> QED BY <1>2, <2>1, <3>1 DEF Configured, disk
  <2> QED BY <2>2, <2>3, <2>4
<1> QED BY <1>10, <1>11, <1>13, <1>14, <1>15, <1>16, <1>17 DEF InTurn

LEMMA RepairInTurn ==
  ASSUME Alone, Safe, InTurn, Synchronize \/ \E v \in Versions : SetConfiguration(v)
  PROVE  InTurn'
<1> USE SafeParts
<1>1. UNCHANGED <<rooty, pc, job, todo, crashes, cutShort>>
  BY DEF Synchronize, SetConfiguration, history
<1>2. LastOfQueue' /\ AnsweredLast' BY <1>1 DEF InTurn, LastOfQueue, AnsweredLast, rooty
<1>3. Undisturbed' = Undisturbed BY <1>1 DEF Undisturbed
<1>4. ASSUME NEW t \in Tasks, pc[t] \in {"send", "awaitAdd"} \cup FilePoints
      PROVE  job[t].version \in Versions
  BY <1>4 DEF TasksOK, WorkOK, FilePoints
<1>5. ASSUME \A w \in Versions : settings[w] \subseteq settings'[w], Configured
      PROVE  Configured'
  BY <1>1, <1>4, <1>5 DEF Configured, rooty
<1>6. ASSUME \A w \in Versions \ unfinished' : placed'[w] \in {{}, Files},
             \A w \in Versions : placed[w] \subseteq placed'[w], unfinished \subseteq unfinished'
      PROVE  Whole'
  BY <1>1, <1>4, <1>6 DEF InTurn, Whole, InHand
<1>7. CASE \E v \in Versions : SetConfiguration(v)
  <2>1. PICK v \in Versions : SetConfiguration(v) BY <1>7
  <2>2. PICK x \in Required(v) : WritesDatabags(v, settings[v] \cup {x})
    BY <2>1 DEF SetConfiguration
  <2>3. UNCHANGED <<dirs, active, abandoned, unfinished>> /\ "manifest" \in placed[v]
    BY <2>1 DEF SetConfiguration, history
  <2>4. \A w \in Versions : settings[w] \subseteq settings'[w]
    BY <2>2 DEF WritesDatabags, DiskOK
  <2>5. AllAwaited' /\ Agrees' BY <1>1, <2>3 DEF InTurn, AllAwaited, Agrees, Undisturbed, rooty
  <2>6. Whole' BY <1>6, <2>2, <2>3, WritesWhole DEF InTurn
  <2>7. Emptying' BY <1>1, <2>3 DEF InTurn, Emptying, rooty
  <2> QED BY <1>2, <1>3, <1>5, <2>4, <2>5, <2>6, <2>7 DEF InTurn
<1>8. CASE Synchronize
  <2> DEFINE v == chef.version
  <2>1. v \in Versions BY <1>8 DEF Synchronize, RootyTypes, OnRunList
  <2>2. /\ active' = v
        /\ placed' = [placed EXCEPT ![v] = @ \cup {"manifest", "chef"}]
        /\ settings' = [settings EXCEPT ![v] = @ \cup chef.settings]
        /\ abandoned' = (abandoned /\ queue # <<>>)
        /\ unfinished' = IF placed[v] = {} THEN unfinished \cup {v} ELSE unfinished
    BY <1>8 DEF Synchronize
  <2>3. AllAwaited'
    <3>1. queue = <<>> => DOMAIN queue = {} OBVIOUS
    <3>2. ~abandoned' => ~abandoned \/ DOMAIN queue = {} BY <2>2, <3>1, Zenon
    <3> QED BY <1>1, <3>2 DEF InTurn, AllAwaited, Undisturbed, rooty
  <2>4. Agrees' BY <1>1, <2>2 DEF Agrees, rooty
  <2>5. \A w \in Versions : settings[w] \subseteq settings'[w]
    BY <2>1, <2>2 DEF DiskOK
  <2>6. /\ placed'[v] = placed[v] \cup {"manifest", "chef"}
        /\ \A w \in Versions \ {v} : placed'[w] = placed[w]
    BY <2>1, <2>2 DEF DiskOK
  <2>7. \A w \in Versions \ unfinished' : placed'[w] \in {{}, Files}
    <3> SUFFICES ASSUME NEW w \in Versions \ unfinished' PROVE placed'[w] \in {{}, Files}
      OBVIOUS
    <3>1. placed[w] \in {{}, Files} BY <2>2 DEF InTurn, Whole
    <3>2. CASE w = v
      <4>1. placed[w] = Files BY <2>2, <3>1, <3>2
      <4> QED BY <2>6, <3>2, <4>1, FilesAssumption
    <3>3. CASE w # v BY <2>6, <3>1, <3>3
    <3> QED BY <3>2, <3>3
  <2>8. \A w \in Versions : placed[w] \subseteq placed'[w] BY <2>6
  <2>9. Whole' BY <1>6, <2>2, <2>7, <2>8
  <2>10. Emptying'
    <3>1. v # NoVersion BY <2>1, VersionsAssumption
    <3> QED BY <1>1, <3>1 DEF InTurn, Emptying
  <2> QED BY <1>2, <1>3, <1>5, <2>3, <2>4, <2>5, <2>9, <2>10 DEF InTurn
<1> QED BY <1>7, <1>8

LEMMA CrashInTurn ==
  ASSUME Alone, Safe, InTurn, Crash
  PROVE  InTurn'
<1> USE SafeParts
<1>1. /\ \A t \in Tasks : pc'[t] = "idle" /\ answer'[t] = "none"
      /\ queue' = Disowned(Tasks) /\ UNCHANGED <<disk, chef>> /\ cutShort'
      /\ abandoned' = (abandoned \/ \E t \in Tasks : pc[t] \in Awaits)
  BY DEF Crash, Awaits
<1>2. /\ DOMAIN queue' = DOMAIN queue
      /\ \A i \in DOMAIN queue' : queue'[i].task = Nobody
  <2>1. DOMAIN queue' = DOMAIN queue
        /\ \A i \in DOMAIN queue : /\ queue[i].task \in Tasks => queue'[i].task = Nobody
                                   /\ queue[i].task \notin Tasks => queue'[i] = queue[i]
    BY <1>1, DisownedIs DEF RootyTypes
  <2> QED BY <2>1, QueueHolds
<1>3. ~Undisturbed' BY <1>1 DEF Undisturbed
<1>4. LastOfQueue' /\ AnsweredLast' /\ Emptying'
  BY <1>1, <1>2 DEF LastOfQueue, AnsweredLast, Emptying
<1>7. Whole' BY <1>1 DEF Crash, InTurn, Whole, FilePoints, disk
<1>5. AllAwaited'
  <2> SUFFICES ASSUME ~abandoned', NEW i \in DOMAIN queue PROVE FALSE
    BY <1>2, <1>3 DEF AllAwaited
  <2>1. queue[i].task # Nobody BY <1>1 DEF InTurn, AllAwaited
  <2>2. queue[i].task \in Tasks BY <2>1, QueueHolds
  <2>3. pc[queue[i].task] \in Awaits BY <2>1 DEF QueueOK, SentOK, Awaits
  <2> QED BY <1>1, <2>2, <2>3
<1>6. Agrees'
  <2> SUFFICES ASSUME ~abandoned' PROVE active' = chef'.version BY DEF Agrees
  <2>1. \A t \in Tasks : answer[t] # "ok" BY <1>1 DEF TasksOK, AnswerOK
  <2> QED BY <1>1, <2>1 DEF InTurn, Agrees, disk
<1> QED BY <1>3, <1>4, <1>5, <1>6, <1>7 DEF InTurn

LEMMA InitInTurn == Init => InTurn
<1> SUFFICES ASSUME Init PROVE InTurn OBVIOUS
<1>1. /\ queue = <<>> /\ chef.version = NoVersion /\ active = NoVersion
      /\ \A t \in Tasks : pc[t] = "idle" /\ answer[t] = "none" /\ todo[t] = {}
      /\ \A v \in Versions : placed[v] = {}
  BY DEF Init, NotInstalled
<1>2. LastOfQueue /\ AnsweredLast /\ AllAwaited
  <2>1. DOMAIN queue = {} BY <1>1
  <2> QED BY <1>1, <2>1 DEF LastOfQueue, AnsweredLast, AllAwaited
<1>3. Agrees /\ Emptying /\ Configured BY <1>1 DEF Agrees, Emptying, Configured
<1>4. Whole BY <1>1 DEF Whole, FilePoints
<1> QED BY <1>2, <1>3, <1>4 DEF InTurn

LEMMA NextInTurn == ASSUME Alone PROVE Safe /\ InTurn /\ [Next]_vars => InTurn'
<1> SUFFICES ASSUME Safe, InTurn, [Next]_vars PROVE InTurn' OBVIOUS
<1>1. CASE \E t \in Tasks : GivesUp(t) \/ GoesOn(t) BY <1>1, GivesUpInTurn, GoesOnInTurn
<1>8. CASE \E t \in Tasks : Deletes(t) BY <1>8, DeletesInTurn
<1>2. CASE \E t \in Tasks : SendAdd(t) \/ SendRemove(t) BY <1>2, SendInTurn
<1>3. CASE \E t \in Tasks : WaitEnds(t) BY <1>3, WaitEndsInTurn
<1>4. CASE Rooty BY <1>4, RootyInTurn
<1>5. CASE Synchronize \/ \E v \in Versions : SetConfiguration(v) BY <1>5, RepairInTurn
<1>6. CASE Crash BY <1>6, CrashInTurn
<1>7. CASE UNCHANGED vars
  <2>1. UNCHANGED <<disk, rooty, history, pc, job, todo>> BY <1>7 DEF vars
  <2>2. LastOfQueue' /\ AnsweredLast' /\ AllAwaited'
    BY <2>1 DEF InTurn, LastOfQueue, AnsweredLast, AllAwaited, Undisturbed, rooty, history
  <2>3. Agrees' /\ Emptying' BY <2>1 DEF InTurn, Agrees, Emptying, disk, rooty, history
  <2>4. Whole' BY <2>1 DEF InTurn, Whole, InHand, disk, history
  <2>5. Undisturbed' => Configured'
    BY <2>1 DEF InTurn, Configured, Undisturbed, disk, rooty, history
  <2> QED BY <2>2, <2>3, <2>4, <2>5 DEF InTurn
<1> QED BY <1>1, <1>2, <1>3, <1>4, <1>5, <1>6, <1>7, <1>8, StepKinds

LEMMA InTurnInvariant == ASSUME Alone PROVE Spec => [](Safe /\ InTurn)
BY InitSafe, NextSafe, InitInTurn, NextInTurn, PTL DEF Spec

\* One task at a time: at rest, and unless a chef run was applied that nobody
\* recorded, metadata.json names the version AppInstallTask had rooty put on the
\* run list, and none if AppUninstallTask had it taken off.
THEOREM RecordsWhatChefRuns == ASSUME Alone PROVE Spec => []AgreesWithChef
<1>1. Safe /\ InTurn => AgreesWithChef
  BY SafeParts DEF AgreesWithChef, InTurn, Agrees, TasksOK, AnswerOK, Awaits
<1> QED BY <1>1, InTurnInvariant, PTL

\* One task at a time, none cut short: the version on the run list was given every
\* setting its manifest requires (AppInstallTask validates the merged settings
\* before it sends the ADD message), and chef ran with them.
THEOREM OnlyConfiguredRuns == ASSUME Alone PROVE Spec => []InstalledIsConfigured
<1>1. InTurn => InstalledIsConfigured BY DEF InTurn, Configured, InstalledIsConfigured
<1> QED BY <1>1, InTurnInvariant, PTL

\* One task at a time, whatever fails and wherever the server stops: AppInstallTask
\* sends no version to chef of which only a part is in the repository, but one of
\* which AppDownloadTask moved or AppUninstallTask deleted only a part, or that was
\* registered from chef's own run list, until a download of it got to its last file.
THEOREM OnlyCompleteIsSent == ASSUME Alone PROVE Spec => OnlyCompleteInstalled
<1>1. ASSUME Safe, InTurn, NEW t \in Tasks, SendAdd(t), job[t].version \notin unfinished
      PROVE  placed[job[t].version] = Files
  <2>1. pc[t] = "send" /\ "chef" \in placed[job[t].version] BY <1>1 DEF SendAdd, Goto
  <2>2. job[t].version \in Versions BY <1>1, <2>1 DEF Safe, TasksOK, WorkOK
  <2>3. placed[job[t].version] \in {{}, Files} BY <1>1, <2>2 DEF InTurn, Whole
  <2> QED BY <2>1, <2>3
<1>2. Safe /\ InTurn /\ [Next]_vars =>
        [\A t \in Tasks : SendAdd(t) /\ job[t].version \notin unfinished =>
           placed[job[t].version] = Files]_vars
  BY <1>1
<1> QED BY <1>2, InTurnInvariant, PTL DEF Spec, OnlyCompleteInstalled
=============================================================================
