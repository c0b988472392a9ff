------------------------ MODULE AppRuntimeCacheProofs ------------------------
(***************************************************************************)
(* For any number of threads and apps: the types, the ownership of the two *)
(* monitors, that neither cache is ever older than the last completed      *)
(* reset, and that a getter returns null only when a reset overtakes it.   *)
(* The argument is that whoever fills a cache owns its monitor and whoever *)
(* clears them owns both.                                                  *)
(***************************************************************************)
EXTENDS AppRuntimeCache, TLAPS

\* A thread owns the monitor of `apps` exactly while it is at one of these.
AppsHeld(t) ==
  pc[t] \in {"recheckApps", "build", "unlockApps", "resetLockDetails",
            "clearApps", "clearDetails", "resetUnlockDetails", "resetUnlockApps"}

\* And the monitor of `appDetails` here, or anywhere in a nested call.
DetailsHeld(t) ==
  \/ nested[t]
  \/ pc[t] \in {"recheckDetails", "publishDetails", "unlockDetails", "unwindDetails",
               "clearApps", "clearDetails", "resetUnlockDetails"}

\* Mutual exclusion on both monitors.
MonitorInv ==
  /\ \A t \in Threads : AppsHeld(t) <=> appsLock = t
  /\ \A t \in Threads : DetailsHeld(t) <=> detailsLock = t
  /\ \A t \in Threads : nested[t] => pc[t] \in RuntimesPCs

\* What a thread knows of `apps` at the points where it holds a monitor.
AppsInv ==
  \A t \in Threads :
    /\ pc[t] \in {"build", "clearDetails"} => apps = Null
    /\ pc[t] = "unlockApps" => apps # Null
    /\ nested[t] /\ pc[t] = "readApps" => apps # Null

\* Nothing cached, or being built or copied for a cache, is older than the
\* last completed reset, and the history variables are in order.
FreshInv ==
  /\ apps # Null => NotOlder(apps, floor)
  /\ appDetails # Null => NotOlder(appDetails, floor)
  /\ \A a \in Apps : repo[a].rev >= floor[a]
  /\ \A t \in Threads : \A a \in Apps : floor[a] >= asked[t][a]
  /\ \A t \in Threads :
       /\ pc[t] = "build" => \A a \in Apps \ todo[t] : built[t][a].rev >= floor[a]
       /\ pc[t] = "publishDetails" => NotOlder(built[t], floor)

-----------------------------------------------------------------------------
(* The map a build starts from is a map. *)
LEMMA NeverChangedTyped == NeverChanged \in AppMap
  BY DEF NeverChanged, AppMap, Entry

(* Every variable keeps its type, whatever the threads call. *)
THEOREM TypeCorrect == Spec => []TypeOK
<1>1. Init => TypeOK
  BY OutcomeAssumption, CallersAssumption DEF Init, TypeOK, AppMap, Entry, NeverChanged, DetailsPCs, RuntimesPCs, ResetPCs
<1>2. TypeOK /\ [Next]_vars => TypeOK'
  <2> SUFFICES ASSUME TypeOK, [Next]_vars PROVE TypeOK'
    OBVIOUS
  <2> USE OutcomeAssumption, CallersAssumption, NeverChangedTyped DEF TypeOK, Goto, Return, DetailsPCs, RuntimesPCs, ResetPCs, caches, monitors, locals, history
  <2>1. ASSUME NEW t \in Threads, CallDetails(t) PROVE TypeOK'
    BY <2>1 DEF CallDetails
  <2>2. ASSUME NEW t \in Threads, CheckDetails(t) PROVE TypeOK'
    BY <2>2 DEF CheckDetails
  <2>3. ASSUME NEW t \in Threads, LockDetails(t) PROVE TypeOK'
    BY <2>3 DEF LockDetails
  <2>4. ASSUME NEW t \in Threads, MissDetails(t) PROVE TypeOK'
    BY <2>4 DEF MissDetails
  <2>5. ASSUME NEW t \in Threads, HitDetails(t) PROVE TypeOK'
    BY <2>5 DEF HitDetails
  <2>6. ASSUME NEW t \in Threads, PublishDetails(t) PROVE TypeOK'
    BY <2>6 DEF PublishDetails
  <2>7. ASSUME NEW t \in Threads, UnlockDetails(t) PROVE TypeOK'
    BY <2>7 DEF UnlockDetails
  <2>8. ASSUME NEW t \in Threads, UnwindDetails(t) PROVE TypeOK'
    BY <2>8 DEF UnwindDetails
  <2>9. ASSUME NEW t \in Threads, ReadDetails(t) PROVE TypeOK'
    BY <2>9 DEF ReadDetails
  <2>10. ASSUME NEW t \in Threads, CallRuntimes(t) PROVE TypeOK'
    BY <2>10 DEF CallRuntimes
  <2>11. ASSUME NEW t \in Threads, CheckApps(t) PROVE TypeOK'
    BY <2>11 DEF CheckApps
  <2>12. ASSUME NEW t \in Threads, LockApps(t) PROVE TypeOK'
    BY <2>12 DEF LockApps
  <2>13. ASSUME NEW t \in Threads, MissApps(t) PROVE TypeOK'
    BY <2>13 DEF MissApps
  <2>14. ASSUME NEW t \in Threads, HitApps(t) PROVE TypeOK'
    BY <2>14 DEF HitApps
  <2>15. ASSUME NEW t \in Threads, LoadApp(t) PROVE TypeOK'
    BY <2>15 DEF LoadApp, AppMap, Entry
  <2>16. ASSUME NEW t \in Threads, BuildDone(t) PROVE TypeOK'
    BY <2>16 DEF BuildDone
  <2>17. ASSUME NEW t \in Threads, BuildFails(t) PROVE TypeOK'
    BY <2>17 DEF BuildFails
  <2>18. ASSUME NEW t \in Threads, UnlockApps(t) PROVE TypeOK'
    BY <2>18 DEF UnlockApps
  <2>19. ASSUME NEW t \in Threads, ReadApps(t) PROVE TypeOK'
    BY <2>19 DEF ReadApps
  <2>20. ASSUME NEW t \in Threads, CopyRuntimes(t) PROVE TypeOK'
    BY <2>20 DEF CopyRuntimes
  <2>21. ASSUME NEW t \in Threads, ChangeApp(t) PROVE TypeOK'
    BY <2>21 DEF ChangeApp, AppMap, Entry
  <2>22. ASSUME NEW t \in Threads, Refresh(t) PROVE TypeOK'
    BY <2>22 DEF Refresh
  <2>23. ASSUME NEW t \in Threads, ResetLockApps(t) PROVE TypeOK'
    BY <2>23 DEF ResetLockApps
  <2>24. ASSUME NEW t \in Threads, ResetLockDetails(t) PROVE TypeOK'
    BY <2>24 DEF ResetLockDetails
  <2>25. ASSUME NEW t \in Threads, ClearApps(t) PROVE TypeOK'
    BY <2>25 DEF ClearApps, InCall
  <2>26. ASSUME NEW t \in Threads, ClearDetails(t) PROVE TypeOK'
    BY <2>26 DEF ClearDetails, AppMap, Entry, InCall
  <2>27. ASSUME NEW t \in Threads, ResetUnlockDetails(t) PROVE TypeOK'
    BY <2>27 DEF ResetUnlockDetails
  <2>28. ASSUME NEW t \in Threads, ResetUnlockApps(t) PROVE TypeOK'
    BY <2>28 DEF ResetUnlockApps
  <2>29. CASE UNCHANGED vars
    BY <2>29 DEF vars
  <2>30. QED
    BY <2>1, <2>2, <2>3, <2>4, <2>5, <2>6, <2>7, <2>8, <2>9, <2>10, <2>11, <2>12, <2>13, <2>14, <2>15, <2>16, <2>17, <2>18, <2>19, <2>20, <2>21, <2>22, <2>23, <2>24, <2>25, <2>26, <2>27, <2>28, <2>29 DEF Next, Call, Proceed, DetailsStep, RuntimesStep, ResetStep
<1>3. QED
  BY <1>1, <1>2, PTL DEF Spec

(* At most one thread is inside a section guarded by each monitor. *)
THEOREM MonitorsHeld == Spec => []MonitorInv
<1>1. Init => MonitorInv
  BY CallersAssumption DEF Init, MonitorInv, AppsHeld, DetailsHeld
<1>2. MonitorInv /\ TypeOK /\ [Next]_vars => MonitorInv'
  <2> SUFFICES ASSUME MonitorInv, TypeOK, [Next]_vars PROVE MonitorInv'
    OBVIOUS
  <2> USE CallersAssumption DEF TypeOK, MonitorInv, AppsHeld, DetailsHeld, Goto, Return, DetailsPCs, RuntimesPCs, ResetPCs, caches, monitors, locals, history
  <2>1. ASSUME NEW t \in Threads, CallDetails(t) PROVE MonitorInv'
    BY <2>1 DEF CallDetails
  <2>2. ASSUME NEW t \in Threads, CheckDetails(t) PROVE MonitorInv'
    BY <2>2 DEF CheckDetails
  <2>3. ASSUME NEW t \in Threads, LockDetails(t) PROVE MonitorInv'
    BY <2>3 DEF LockDetails
  <2>4. ASSUME NEW t \in Threads, MissDetails(t) PROVE MonitorInv'
    BY <2>4 DEF MissDetails
  <2>5. ASSUME NEW t \in Threads, HitDetails(t) PROVE MonitorInv'
    BY <2>5 DEF HitDetails
  <2>6. ASSUME NEW t \in Threads, PublishDetails(t) PROVE MonitorInv'
    BY <2>6 DEF PublishDetails
  <2>7. ASSUME NEW t \in Threads, UnlockDetails(t) PROVE MonitorInv'
    BY <2>7 DEF UnlockDetails
  <2>8. ASSUME NEW t \in Threads, UnwindDetails(t) PROVE MonitorInv'
    BY <2>8 DEF UnwindDetails
  <2>9. ASSUME NEW t \in Threads, ReadDetails(t) PROVE MonitorInv'
    BY <2>9 DEF ReadDetails
  <2>10. ASSUME NEW t \in Threads, CallRuntimes(t) PROVE MonitorInv'
    BY <2>10 DEF CallRuntimes
  <2>11. ASSUME NEW t \in Threads, CheckApps(t) PROVE MonitorInv'
    <3>1. CASE apps = Null
      BY <2>11, <3>1 DEF CheckApps
    <3>2. CASE apps # Null
      BY <2>11, <3>2 DEF CheckApps
    <3>3. QED
      BY <3>1, <3>2
  <2>12. ASSUME NEW t \in Threads, LockApps(t) PROVE MonitorInv'
    BY <2>12 DEF LockApps
  <2>13. ASSUME NEW t \in Threads, MissApps(t) PROVE MonitorInv'
    BY <2>13 DEF MissApps
  <2>14. ASSUME NEW t \in Threads, HitApps(t) PROVE MonitorInv'
    BY <2>14 DEF HitApps
  <2>15. ASSUME NEW t \in Threads, LoadApp(t) PROVE MonitorInv'
    BY <2>15 DEF LoadApp
  <2>16. ASSUME NEW t \in Threads, BuildDone(t) PROVE MonitorInv'
    BY <2>16 DEF BuildDone
  <2>17. ASSUME NEW t \in Threads, BuildFails(t) PROVE MonitorInv'
    <3>1. CASE nested[t]
      BY <2>17, <3>1 DEF BuildFails
    <3>2. CASE ~nested[t]
      BY <2>17, <3>2 DEF BuildFails
    <3>3. QED
      BY <3>1, <3>2
  <2>18. ASSUME NEW t \in Threads, UnlockApps(t) PROVE MonitorInv'
    BY <2>18 DEF UnlockApps
  <2>19. ASSUME NEW t \in Threads, ReadApps(t) PROVE MonitorInv'
    BY <2>19 DEF ReadApps
  <2>20. ASSUME NEW t \in Threads, CopyRuntimes(t) PROVE MonitorInv'
    BY <2>20 DEF CopyRuntimes
  <2>21. ASSUME NEW t \in Threads, ChangeApp(t) PROVE MonitorInv'
    BY <2>21 DEF ChangeApp
  <2>22. ASSUME NEW t \in Threads, Refresh(t) PROVE MonitorInv'
    BY <2>22 DEF Refresh
  <2>23. ASSUME NEW t \in Threads, ResetLockApps(t) PROVE MonitorInv'
    BY <2>23 DEF ResetLockApps
  <2>24. ASSUME NEW t \in Threads, ResetLockDetails(t) PROVE MonitorInv'
    BY <2>24 DEF ResetLockDetails
  <2>25. ASSUME NEW t \in Threads, ClearApps(t) PROVE MonitorInv'
    BY <2>25 DEF ClearApps
  <2>26. ASSUME NEW t \in Threads, ClearDetails(t) PROVE MonitorInv'
    BY <2>26 DEF ClearDetails
  <2>27. ASSUME NEW t \in Threads, ResetUnlockDetails(t) PROVE MonitorInv'
    BY <2>27 DEF ResetUnlockDetails
  <2>28. ASSUME NEW t \in Threads, ResetUnlockApps(t) PROVE MonitorInv'
    BY <2>28 DEF ResetUnlockApps
  <2>29. CASE UNCHANGED vars
    BY <2>29 DEF vars
  <2>30. QED
    BY <2>1, <2>2, <2>3, <2>4, <2>5, <2>6, <2>7, <2>8, <2>9, <2>10, <2>11, <2>12, <2>13, <2>14, <2>15, <2>16, <2>17, <2>18, <2>19, <2>20, <2>21, <2>22, <2>23, <2>24, <2>25, <2>26, <2>27, <2>28, <2>29 DEF Next, Call, Proceed, DetailsStep, RuntimesStep, ResetStep
<1>3. QED
  BY <1>1, <1>2, TypeCorrect, PTL DEF Spec

(* A getter that must find `apps` filled finds it filled. *)
THEOREM AppsKnown == Spec => []AppsInv
<1>1. Init => AppsInv
  BY DEF Init, AppsInv
<1>2. AppsInv /\ TypeOK /\ MonitorInv /\ [Next]_vars => AppsInv'
  <2> SUFFICES ASSUME AppsInv, TypeOK, MonitorInv, [Next]_vars PROVE AppsInv'
    OBVIOUS
  <2> USE CallersAssumption, OutcomeAssumption DEF TypeOK, MonitorInv, AppsInv, AppsHeld, DetailsHeld, Goto, Return, DetailsPCs, RuntimesPCs, ResetPCs, caches, monitors, locals, history
  <2>1. ASSUME NEW t \in Threads, CallDetails(t) PROVE AppsInv'
    BY <2>1 DEF CallDetails
  <2>2. ASSUME NEW t \in Threads, CheckDetails(t) PROVE AppsInv'
    BY <2>2 DEF CheckDetails
  <2>3. ASSUME NEW t \in Threads, LockDetails(t) PROVE AppsInv'
    BY <2>3 DEF LockDetails
  <2>4. ASSUME NEW t \in Threads, MissDetails(t) PROVE AppsInv'
    BY <2>4 DEF MissDetails
  <2>5. ASSUME NEW t \in Threads, HitDetails(t) PROVE AppsInv'
    BY <2>5 DEF HitDetails
  <2>6. ASSUME NEW t \in Threads, PublishDetails(t) PROVE AppsInv'
    BY <2>6 DEF PublishDetails
  <2>7. ASSUME NEW t \in Threads, UnlockDetails(t) PROVE AppsInv'
    BY <2>7 DEF UnlockDetails
  <2>8. ASSUME NEW t \in Threads, UnwindDetails(t) PROVE AppsInv'
    BY <2>8 DEF UnwindDetails
  <2>9. ASSUME NEW t \in Threads, ReadDetails(t) PROVE AppsInv'
    BY <2>9 DEF ReadDetails
  <2>10. ASSUME NEW t \in Threads, CallRuntimes(t) PROVE AppsInv'
    BY <2>10 DEF CallRuntimes
  <2>11. ASSUME NEW t \in Threads, CheckApps(t) PROVE AppsInv'
    BY <2>11 DEF CheckApps
  <2>12. ASSUME NEW t \in Threads, LockApps(t) PROVE AppsInv'
    BY <2>12 DEF LockApps
  <2>13. ASSUME NEW t \in Threads, MissApps(t) PROVE AppsInv'
    BY <2>13 DEF MissApps
  <2>14. ASSUME NEW t \in Threads, HitApps(t) PROVE AppsInv'
    BY <2>14 DEF HitApps
  <2>15. ASSUME NEW t \in Threads, LoadApp(t) PROVE AppsInv'
    BY <2>15 DEF LoadApp
  <2>16. ASSUME NEW t \in Threads, BuildDone(t) PROVE AppsInv'
    BY <2>16 DEF BuildDone
  <2>17. ASSUME NEW t \in Threads, BuildFails(t) PROVE AppsInv'
    BY <2>17 DEF BuildFails
  <2>18. ASSUME NEW t \in Threads, UnlockApps(t) PROVE AppsInv'
    BY <2>18 DEF UnlockApps
  <2>19. ASSUME NEW t \in Threads, ReadApps(t) PROVE AppsInv'
    BY <2>19 DEF ReadApps
  <2>20. ASSUME NEW t \in Threads, CopyRuntimes(t) PROVE AppsInv'
    BY <2>20 DEF CopyRuntimes
  <2>21. ASSUME NEW t \in Threads, ChangeApp(t) PROVE AppsInv'
    BY <2>21 DEF ChangeApp
  <2>22. ASSUME NEW t \in Threads, Refresh(t) PROVE AppsInv'
    BY <2>22 DEF Refresh
  <2>23. ASSUME NEW t \in Threads, ResetLockApps(t) PROVE AppsInv'
    BY <2>23 DEF ResetLockApps
  <2>24. ASSUME NEW t \in Threads, ResetLockDetails(t) PROVE AppsInv'
    BY <2>24 DEF ResetLockDetails
  <2>25. ASSUME NEW t \in Threads, ClearApps(t) PROVE AppsInv'
    BY <2>25 DEF ClearApps
  <2>26. ASSUME NEW t \in Threads, ClearDetails(t) PROVE AppsInv'
    BY <2>26 DEF ClearDetails
  <2>27. ASSUME NEW t \in Threads, ResetUnlockDetails(t) PROVE AppsInv'
    BY <2>27 DEF ResetUnlockDetails
  <2>28. ASSUME NEW t \in Threads, ResetUnlockApps(t) PROVE AppsInv'
    BY <2>28 DEF ResetUnlockApps
  <2>29. CASE UNCHANGED vars
    BY <2>29 DEF vars
  <2>30. QED
    BY <2>1, <2>2, <2>3, <2>4, <2>5, <2>6, <2>7, <2>8, <2>9, <2>10, <2>11, <2>12, <2>13, <2>14, <2>15, <2>16, <2>17, <2>18, <2>19, <2>20, <2>21, <2>22, <2>23, <2>24, <2>25, <2>26, <2>27, <2>28, <2>29 DEF Next, Call, Proceed, DetailsStep, RuntimesStep, ResetStep
<1>3. QED
  BY <1>1, <1>2, TypeCorrect, MonitorsHeld, PTL DEF Spec

(* Neither cache, nor a map on its way into one, is older than the last *)
(* completed reset.                                                     *)
THEOREM CachesFresh == Spec => []FreshInv
<1>1. Init => FreshInv
  BY DEF Init, FreshInv, NotOlder
<1>2. FreshInv /\ TypeOK /\ MonitorInv /\ AppsInv /\ [Next]_vars => FreshInv'
  <2> SUFFICES ASSUME FreshInv, TypeOK, MonitorInv, AppsInv, [Next]_vars PROVE FreshInv'
    OBVIOUS
  <2> USE CallersAssumption, OutcomeAssumption DEF TypeOK, AppMap, Entry, MonitorInv, AppsInv, FreshInv, NotOlder, NeverChanged, AppsHeld, DetailsHeld, Goto, Return, DetailsPCs, RuntimesPCs, ResetPCs, caches, monitors, locals, history
  <2>1. ASSUME NEW t \in Threads, CallDetails(t) PROVE FreshInv'
    BY <2>1 DEF CallDetails
  <2>2. ASSUME NEW t \in Threads, CheckDetails(t) PROVE FreshInv'
    <3>1. CASE appDetails = Null
      BY <2>2, <3>1 DEF CheckDetails
    <3>2. CASE appDetails # Null
      BY <2>2, <3>2 DEF CheckDetails
    <3>3. QED
      BY <3>1, <3>2
  <2>3. ASSUME NEW t \in Threads, LockDetails(t) PROVE FreshInv'
    BY <2>3 DEF LockDetails
  <2>4. ASSUME NEW t \in Threads, MissDetails(t) PROVE FreshInv'
    BY <2>4 DEF MissDetails
  <2>5. ASSUME NEW t \in Threads, HitDetails(t) PROVE FreshInv'
    BY <2>5 DEF HitDetails
  <2>6. ASSUME NEW t \in Threads, PublishDetails(t) PROVE FreshInv'
    BY <2>6 DEF PublishDetails
  <2>7. ASSUME NEW t \in Threads, UnlockDetails(t) PROVE FreshInv'
    BY <2>7 DEF UnlockDetails
  <2>8. ASSUME NEW t \in Threads, UnwindDetails(t) PROVE FreshInv'
    BY <2>8 DEF UnwindDetails
  <2>9. ASSUME NEW t \in Threads, ReadDetails(t) PROVE FreshInv'
    BY <2>9 DEF ReadDetails
  <2>10. ASSUME NEW t \in Threads, CallRuntimes(t) PROVE FreshInv'
    BY <2>10 DEF CallRuntimes
  <2>11. ASSUME NEW t \in Threads, CheckApps(t) PROVE FreshInv'
    BY <2>11 DEF CheckApps
  <2>12. ASSUME NEW t \in Threads, LockApps(t) PROVE FreshInv'
    BY <2>12 DEF LockApps
  <2>13. ASSUME NEW t \in Threads, MissApps(t) PROVE FreshInv'
    BY <2>13 DEF MissApps
  <2>14. ASSUME NEW t \in Threads, HitApps(t) PROVE FreshInv'
    BY <2>14 DEF HitApps
  <2>15. ASSUME NEW t \in Threads, LoadApp(t) PROVE FreshInv'
    BY <2>15 DEF LoadApp
  <2>16. ASSUME NEW t \in Threads, BuildDone(t) PROVE FreshInv'
    BY <2>16 DEF BuildDone
  <2>17. ASSUME NEW t \in Threads, BuildFails(t) PROVE FreshInv'
    BY <2>17 DEF BuildFails
  <2>18. ASSUME NEW t \in Threads, UnlockApps(t) PROVE FreshInv'
    BY <2>18 DEF UnlockApps
  <2>19. ASSUME NEW t \in Threads, ReadApps(t) PROVE FreshInv'
    BY <2>19 DEF ReadApps
  <2>20. ASSUME NEW t \in Threads, CopyRuntimes(t) PROVE FreshInv'
    BY <2>20 DEF CopyRuntimes
  <2>21. ASSUME NEW t \in Threads, ChangeApp(t) PROVE FreshInv'
    BY <2>21 DEF ChangeApp
  <2>22. ASSUME NEW t \in Threads, Refresh(t) PROVE FreshInv'
    BY <2>22 DEF Refresh
  <2>23. ASSUME NEW t \in Threads, ResetLockApps(t) PROVE FreshInv'
    BY <2>23 DEF ResetLockApps
  <2>24. ASSUME NEW t \in Threads, ResetLockDetails(t) PROVE FreshInv'
    BY <2>24 DEF ResetLockDetails
  <2>25. ASSUME NEW t \in Threads, ClearApps(t) PROVE FreshInv'
    BY <2>25 DEF ClearApps
  <2>26. ASSUME NEW t \in Threads, ClearDetails(t) PROVE FreshInv'
    BY <2>26 DEF ClearDetails
  <2>27. ASSUME NEW t \in Threads, ResetUnlockDetails(t) PROVE FreshInv'
    BY <2>27 DEF ResetUnlockDetails
  <2>28. ASSUME NEW t \in Threads, ResetUnlockApps(t) PROVE FreshInv'
    BY <2>28 DEF ResetUnlockApps
  <2>29. CASE UNCHANGED vars
    BY <2>29 DEF vars
  <2>30. QED
    BY <2>1, <2>2, <2>3, <2>4, <2>5, <2>6, <2>7, <2>8, <2>9, <2>10, <2>11, <2>12, <2>13, <2>14, <2>15, <2>16, <2>17, <2>18, <2>19, <2>20, <2>21, <2>22, <2>23, <2>24, <2>25, <2>26, <2>27, <2>28, <2>29 DEF Next, Call, Proceed, DetailsStep, RuntimesStep, ResetStep
<1>3. QED
  BY <1>1, <1>2, TypeCorrect, MonitorsHeld, AppsKnown, PTL DEF Spec

\* A result stays as fresh as it was until the thread asks again.
ResultInv ==
  \A t \in Threads :
    result[t] \in AppMap /\ pc[t] \in {"idle"} \cup ResetPCs => NotOlder(result[t], asked[t])

LEMMA ResultsFresh == Spec => []ResultInv
<1>1. Init => ResultInv
  BY OutcomeAssumption DEF Init, ResultInv
<1>2. ResultInv /\ TypeOK /\ FreshInv /\ FreshInv' /\ [Next]_vars => ResultInv'
  <2> SUFFICES ASSUME ResultInv, TypeOK, FreshInv, FreshInv', [Next]_vars PROVE ResultInv'
    OBVIOUS
  <2> USE CallersAssumption, OutcomeAssumption DEF TypeOK, FreshInv, ResultInv, Goto, Return, DetailsPCs, RuntimesPCs, ResetPCs, caches, monitors, locals, history
  <2>1. ASSUME NEW t \in Threads, CallDetails(t) PROVE ResultInv'
    BY <2>1 DEF CallDetails
  <2>2. ASSUME NEW t \in Threads, CheckDetails(t) PROVE ResultInv'
    <3>1. CASE appDetails = Null
      BY <2>2, <3>1 DEF CheckDetails
    <3>2. CASE ~(appDetails = Null)
      BY <2>2, <3>2 DEF CheckDetails
    <3>3. QED
      BY <3>1, <3>2
  <2>3. ASSUME NEW t \in Threads, LockDetails(t) PROVE ResultInv'
    BY <2>3 DEF LockDetails
  <2>4. ASSUME NEW t \in Threads, MissDetails(t) PROVE ResultInv'
    BY <2>4 DEF MissDetails
  <2>5. ASSUME NEW t \in Threads, HitDetails(t) PROVE ResultInv'
    BY <2>5 DEF HitDetails
  <2>6. ASSUME NEW t \in Threads, PublishDetails(t) PROVE ResultInv'
    BY <2>6 DEF PublishDetails
  <2>7. ASSUME NEW t \in Threads, UnlockDetails(t) PROVE ResultInv'
    BY <2>7 DEF UnlockDetails
  <2>8. ASSUME NEW t \in Threads, UnwindDetails(t) PROVE ResultInv'
    BY <2>8 DEF UnwindDetails
  <2>9. ASSUME NEW t \in Threads, ReadDetails(t) PROVE ResultInv'
    <3>1. result' = [result EXCEPT ![t] = appDetails] /\ UNCHANGED asked /\ pc' = [pc EXCEPT ![t] = "idle"]
      BY <2>9 DEF ReadDetails
    <3>2. ASSUME appDetails \in AppMap PROVE NotOlder(appDetails, asked[t])
      <4>1. floor \in [Apps -> Nat] /\ asked[t] \in [Apps -> Nat]
        OBVIOUS
      <4>2. NotOlder(appDetails, floor) /\ \A a \in Apps : floor[a] >= asked[t][a]
        BY <3>2
      <4>3. QED
        BY <3>2, <4>1, <4>2 DEF NotOlder, AppMap, Entry
    <3>3. QED
      BY <3>1, <3>2
  <2>10. ASSUME NEW t \in Threads, CallRuntimes(t) PROVE ResultInv'
    BY <2>10 DEF CallRuntimes
  <2>11. ASSUME NEW t \in Threads, CheckApps(t) PROVE ResultInv'
    <3>1. CASE apps = Null
      BY <2>11, <3>1 DEF CheckApps
    <3>2. CASE ~(apps = Null)
      BY <2>11, <3>2 DEF CheckApps
    <3>3. QED
      BY <3>1, <3>2
  <2>12. ASSUME NEW t \in Threads, LockApps(t) PROVE ResultInv'
    BY <2>12 DEF LockApps
  <2>13. ASSUME NEW t \in Threads, MissApps(t) PROVE ResultInv'
    BY <2>13 DEF MissApps
  <2>14. ASSUME NEW t \in Threads, HitApps(t) PROVE ResultInv'
    BY <2>14 DEF HitApps
  <2>15. ASSUME NEW t \in Threads, LoadApp(t) PROVE ResultInv'
    BY <2>15 DEF LoadApp
  <2>16. ASSUME NEW t \in Threads, BuildDone(t) PROVE ResultInv'
    BY <2>16 DEF BuildDone
  <2>17. ASSUME NEW t \in Threads, BuildFails(t) PROVE ResultInv'
    <3>1. CASE nested[t]
      BY <2>17, <3>1 DEF BuildFails
    <3>2. CASE ~(nested[t])
      BY <2>17, <3>2 DEF BuildFails
    <3>3. QED
      BY <3>1, <3>2
  <2>18. ASSUME NEW t \in Threads, UnlockApps(t) PROVE ResultInv'
    BY <2>18 DEF UnlockApps
  <2>19. ASSUME NEW t \in Threads, ReadApps(t) PROVE ResultInv'
    <3>1. result' = [result EXCEPT ![t] = apps] /\ UNCHANGED asked /\ pc' = [pc EXCEPT ![t] = "idle"]
      BY <2>19 DEF ReadApps
    <3>2. ASSUME apps \in AppMap PROVE NotOlder(apps, asked[t])
      <4>1. floor \in [Apps -> Nat] /\ asked[t] \in [Apps -> Nat]
        OBVIOUS
      <4>2. NotOlder(apps, floor) /\ \A a \in Apps : floor[a] >= asked[t][a]
        BY <3>2
      <4>3. QED
        BY <3>2, <4>1, <4>2 DEF NotOlder, AppMap, Entry
    <3>3. QED
      BY <3>1, <3>2
  <2>20. ASSUME NEW t \in Threads, CopyRuntimes(t) PROVE ResultInv'
    BY <2>20 DEF CopyRuntimes
  <2>21. ASSUME NEW t \in Threads, ChangeApp(t) PROVE ResultInv'
    BY <2>21 DEF ChangeApp
  <2>22. ASSUME NEW t \in Threads, Refresh(t) PROVE ResultInv'
    BY <2>22 DEF Refresh
  <2>23. ASSUME NEW t \in Threads, ResetLockApps(t) PROVE ResultInv'
    BY <2>23 DEF ResetLockApps
  <2>24. ASSUME NEW t \in Threads, ResetLockDetails(t) PROVE ResultInv'
    BY <2>24 DEF ResetLockDetails
  <2>25. ASSUME NEW t \in Threads, ClearApps(t) PROVE ResultInv'
    BY <2>25 DEF ClearApps
  <2>26. ASSUME NEW t \in Threads, ClearDetails(t) PROVE ResultInv'
    BY <2>26 DEF ClearDetails
  <2>27. ASSUME NEW t \in Threads, ResetUnlockDetails(t) PROVE ResultInv'
    BY <2>27 DEF ResetUnlockDetails
  <2>28. ASSUME NEW t \in Threads, ResetUnlockApps(t) PROVE ResultInv'
    BY <2>28 DEF ResetUnlockApps
  <2>29. CASE UNCHANGED vars
    BY <2>29 DEF vars
  <2>30. QED
    BY <2>1, <2>2, <2>3, <2>4, <2>5, <2>6, <2>7, <2>8, <2>9, <2>10, <2>11, <2>12, <2>13, <2>14, <2>15, <2>16, <2>17, <2>18, <2>19, <2>20, <2>21, <2>22, <2>23, <2>24, <2>25, <2>26, <2>27, <2>28, <2>29 DEF Next, Call, Proceed, DetailsStep, RuntimesStep, ResetStep
<1>3. QED
  BY <1>1, <1>2, TypeCorrect, CachesFresh, PTL DEF Spec

(* A call that begins after a completed reset never returns a map read from *)
(* an older repository than that reset saw.                                 *)
THEOREM ResultsNeverStale == Spec => []NoStaleResult
<1>1. ResultInv => NoStaleResult
  BY DEF ResultInv, NoStaleResult
<1>2. QED
  BY <1>1, ResultsFresh, PTL

(* The loop of getAvailableAppDetails never runs over a null map. *)
THEOREM NestedNeverNull == Spec => []NestedRuntimesPresent
<1>1. AppsInv => NestedRuntimesPresent
  BY DEF AppsInv, NestedRuntimesPresent
<1>2. QED
  BY <1>1, AppsKnown, PTL

\* CachesAgree, with the copy a thread is about to publish.
AgreeInv ==
  /\ CachesAgree
  /\ \A t \in Threads : pc[t] = "publishDetails" => apps # Null /\ built[t] = apps

(* Outside a reset the cached details are those of the cached runtimes. *)
THEOREM CachesAlwaysAgree == Spec => []CachesAgree
<1>1. Init => AgreeInv
  BY DEF Init, AgreeInv, CachesAgree
<1>2. AgreeInv /\ TypeOK /\ MonitorInv /\ AppsInv /\ [Next]_vars => AgreeInv'
  <2> SUFFICES ASSUME AgreeInv, TypeOK, MonitorInv, AppsInv, [Next]_vars PROVE AgreeInv'
    OBVIOUS
  <2> USE CallersAssumption, OutcomeAssumption DEF TypeOK, AgreeInv, CachesAgree, MonitorInv, AppsInv, AppsHeld, DetailsHeld, Goto, Return, DetailsPCs, RuntimesPCs, ResetPCs, caches, monitors, locals, history
  <2>1. ASSUME NEW t \in Threads, CallDetails(t) PROVE AgreeInv'
    BY <2>1 DEF CallDetails
  <2>2. ASSUME NEW t \in Threads, CheckDetails(t) PROVE AgreeInv'
    BY <2>2 DEF CheckDetails
  <2>3. ASSUME NEW t \in Threads, LockDetails(t) PROVE AgreeInv'
    BY <2>3 DEF LockDetails
  <2>4. ASSUME NEW t \in Threads, MissDetails(t) PROVE AgreeInv'
    BY <2>4 DEF MissDetails
  <2>5. ASSUME NEW t \in Threads, HitDetails(t) PROVE AgreeInv'
    BY <2>5 DEF HitDetails
  <2>6. ASSUME NEW t \in Threads, PublishDetails(t) PROVE AgreeInv'
    BY <2>6 DEF PublishDetails
  <2>7. ASSUME NEW t \in Threads, UnlockDetails(t) PROVE AgreeInv'
    BY <2>7 DEF UnlockDetails
  <2>8. ASSUME NEW t \in Threads, UnwindDetails(t) PROVE AgreeInv'
    BY <2>8 DEF UnwindDetails
  <2>9. ASSUME NEW t \in Threads, ReadDetails(t) PROVE AgreeInv'
    BY <2>9 DEF ReadDetails
  <2>10. ASSUME NEW t \in Threads, CallRuntimes(t) PROVE AgreeInv'
    BY <2>10 DEF CallRuntimes
  <2>11. ASSUME NEW t \in Threads, CheckApps(t) PROVE AgreeInv'
    BY <2>11 DEF CheckApps
  <2>12. ASSUME NEW t \in Threads, LockApps(t) PROVE AgreeInv'
    BY <2>12 DEF LockApps
  <2>13. ASSUME NEW t \in Threads, MissApps(t) PROVE AgreeInv'
    BY <2>13 DEF MissApps
  <2>14. ASSUME NEW t \in Threads, HitApps(t) PROVE AgreeInv'
    BY <2>14 DEF HitApps
  <2>15. ASSUME NEW t \in Threads, LoadApp(t) PROVE AgreeInv'
    BY <2>15 DEF LoadApp
  <2>16. ASSUME NEW t \in Threads, BuildDone(t) PROVE AgreeInv'
    BY <2>16 DEF BuildDone
  <2>17. ASSUME NEW t \in Threads, BuildFails(t) PROVE AgreeInv'
    BY <2>17 DEF BuildFails
  <2>18. ASSUME NEW t \in Threads, UnlockApps(t) PROVE AgreeInv'
    BY <2>18 DEF UnlockApps
  <2>19. ASSUME NEW t \in Threads, ReadApps(t) PROVE AgreeInv'
    BY <2>19 DEF ReadApps
  <2>20. ASSUME NEW t \in Threads, CopyRuntimes(t) PROVE AgreeInv'
    BY <2>20 DEF CopyRuntimes
  <2>21. ASSUME NEW t \in Threads, ChangeApp(t) PROVE AgreeInv'
    BY <2>21 DEF ChangeApp
  <2>22. ASSUME NEW t \in Threads, Refresh(t) PROVE AgreeInv'
    BY <2>22 DEF Refresh
  <2>23. ASSUME NEW t \in Threads, ResetLockApps(t) PROVE AgreeInv'
    BY <2>23 DEF ResetLockApps
  <2>24. ASSUME NEW t \in Threads, ResetLockDetails(t) PROVE AgreeInv'
    BY <2>24 DEF ResetLockDetails
  <2>25. ASSUME NEW t \in Threads, ClearApps(t) PROVE AgreeInv'
    BY <2>25 DEF ClearApps
  <2>26. ASSUME NEW t \in Threads, ClearDetails(t) PROVE AgreeInv'
    BY <2>26 DEF ClearDetails
  <2>27. ASSUME NEW t \in Threads, ResetUnlockDetails(t) PROVE AgreeInv'
    BY <2>27 DEF ResetUnlockDetails
  <2>28. ASSUME NEW t \in Threads, ResetUnlockApps(t) PROVE AgreeInv'
    BY <2>28 DEF ResetUnlockApps
  <2>29. CASE UNCHANGED vars
    BY <2>29 DEF vars
  <2>30. QED
    BY <2>1, <2>2, <2>3, <2>4, <2>5, <2>6, <2>7, <2>8, <2>9, <2>10, <2>11, <2>12, <2>13, <2>14, <2>15, <2>16, <2>17, <2>18, <2>19, <2>20, <2>21, <2>22, <2>23, <2>24, <2>25, <2>26, <2>27, <2>28, <2>29 DEF Next, Call, Proceed, DetailsStep, RuntimesStep, ResetStep
<1>3. AgreeInv => CachesAgree
  BY DEF AgreeInv
<1>4. QED
  BY <1>1, <1>2, <1>3, TypeCorrect, MonitorsHeld, AppsKnown, PTL DEF Spec

(* Whoever owns a monitor is inside a call, so threads that are all waiting
   are waiting for a reset and a details call that wait for each other. *)
THEOREM OnlyLockOrderSticks == Spec => []StuckOnlyByLockOrder
<1>1. MonitorInv /\ TypeOK => StuckOnlyByLockOrder
  <2> SUFFICES ASSUME MonitorInv, TypeOK, NEW w \in InCall,
                      \A t \in InCall : AppsWaiter(t) \/ DetailsWaiter(t)
               PROVE  /\ appsLock \in Threads /\ pc[appsLock] = "resetLockDetails"
                      /\ detailsLock \in Threads /\ pc[detailsLock] = "lockApps"
    BY DEF StuckOnlyByLockOrder
  <2>1. appsLock # NoThread => appsLock \in Threads /\ pc[appsLock] = "resetLockDetails"
    BY DEF TypeOK, MonitorInv, AppsHeld, InCall, AppsWaiter, DetailsWaiter
  <2>2. detailsLock # NoThread => detailsLock \in Threads /\ pc[detailsLock] = "lockApps"
    BY DEF TypeOK, MonitorInv, DetailsHeld, InCall, AppsWaiter, DetailsWaiter, RuntimesPCs
  <2>3. appsLock # NoThread => detailsLock # NoThread
    BY <2>1 DEF InCall, AppsWaiter, DetailsWaiter
  <2>4. detailsLock # NoThread => appsLock # NoThread
    BY <2>2 DEF InCall, AppsWaiter, DetailsWaiter
  <2>5. QED
    BY <2>1, <2>2, <2>3, <2>4 DEF InCall, AppsWaiter, DetailsWaiter
<1>2. QED
  BY <1>1, TypeCorrect, MonitorsHeld, PTL

\* A call none of whose caches has been cleared since it began finds the one it
\* returns filled, from the last look under the monitor on.
NullInv ==
  \A t \in Threads :
    /\ pc[t] = "unlockDetails" => appDetails # Null
    /\ pc[t] = "readApps" /\ t \notin cleared => apps # Null
    /\ pc[t] = "readDetails" /\ t \notin cleared => appDetails # Null

(* A getter that returns null was overtaken by a resetApps in the middle of its *)
(* call, for any threads, apps and failing builds.                              *)
THEOREM NullMeansReset == Spec => NullOnlyByReset
<1>1. Init => NullInv
  BY DEF Init, NullInv
<1>2. NullInv /\ TypeOK /\ MonitorInv /\ AppsInv /\ [Next]_vars => NullInv'
  <2> SUFFICES ASSUME NullInv, TypeOK, MonitorInv, AppsInv, [Next]_vars PROVE NullInv'
    OBVIOUS
  <2> USE CallersAssumption, OutcomeAssumption DEF TypeOK, NullInv, MonitorInv, AppsInv, InCall, AppsHeld, DetailsHeld, Goto, Return, DetailsPCs, RuntimesPCs, ResetPCs, caches, monitors, locals, history
  <2>1. ASSUME NEW t \in Threads, CallDetails(t) PROVE NullInv'
    BY <2>1 DEF CallDetails
  <2>2. ASSUME NEW t \in Threads, CheckDetails(t) PROVE NullInv'
    <3>1. CASE appDetails = Null
      BY <2>2, <3>1 DEF CheckDetails
    <3>2. CASE appDetails # Null
      BY <2>2, <3>2 DEF CheckDetails
    <3>3. QED
      BY <3>1, <3>2
  <2>3. ASSUME NEW t \in Threads, LockDetails(t) PROVE NullInv'
    BY <2>3 DEF LockDetails
  <2>4. ASSUME NEW t \in Threads, MissDetails(t) PROVE NullInv'
    BY <2>4 DEF MissDetails
  <2>5. ASSUME NEW t \in Threads, HitDetails(t) PROVE NullInv'
    BY <2>5 DEF HitDetails
  <2>6. ASSUME NEW t \in Threads, PublishDetails(t) PROVE NullInv'
    BY <2>6 DEF PublishDetails
  <2>7. ASSUME NEW t \in Threads, UnlockDetails(t) PROVE NullInv'
    BY <2>7 DEF UnlockDetails
  <2>8. ASSUME NEW t \in Threads, UnwindDetails(t) PROVE NullInv'
    BY <2>8 DEF UnwindDetails
  <2>9. ASSUME NEW t \in Threads, ReadDetails(t) PROVE NullInv'
    BY <2>9 DEF ReadDetails
  <2>10. ASSUME NEW t \in Threads, CallRuntimes(t) PROVE NullInv'
    BY <2>10 DEF CallRuntimes
  <2>11. ASSUME NEW t \in Threads, CheckApps(t) PROVE NullInv'
    <3>1. CASE apps = Null
      BY <2>11, <3>1 DEF CheckApps
    <3>2. CASE apps # Null
      BY <2>11, <3>2 DEF CheckApps
    <3>3. QED
      BY <3>1, <3>2
  <2>12. ASSUME NEW t \in Threads, LockApps(t) PROVE NullInv'
    BY <2>12 DEF LockApps
  <2>13. ASSUME NEW t \in Threads, MissApps(t) PROVE NullInv'
    BY <2>13 DEF MissApps
  <2>14. ASSUME NEW t \in Threads, HitApps(t) PROVE NullInv'
    BY <2>14 DEF HitApps
  <2>15. ASSUME NEW t \in Threads, LoadApp(t) PROVE NullInv'
    BY <2>15 DEF LoadApp
  <2>16. ASSUME NEW t \in Threads, BuildDone(t) PROVE NullInv'
    BY <2>16 DEF BuildDone
  <2>17. ASSUME NEW t \in Threads, BuildFails(t) PROVE NullInv'
    <3>1. CASE nested[t]
      BY <2>17, <3>1 DEF BuildFails
    <3>2. CASE ~nested[t]
      BY <2>17, <3>2 DEF BuildFails
    <3>3. QED
      BY <3>1, <3>2
  <2>18. ASSUME NEW t \in Threads, UnlockApps(t) PROVE NullInv'
    BY <2>18 DEF UnlockApps
  <2>19. ASSUME NEW t \in Threads, ReadApps(t) PROVE NullInv'
    BY <2>19 DEF ReadApps
  <2>20. ASSUME NEW t \in Threads, CopyRuntimes(t) PROVE NullInv'
    BY <2>20 DEF CopyRuntimes
  <2>21. ASSUME NEW t \in Threads, ChangeApp(t) PROVE NullInv'
    BY <2>21 DEF ChangeApp
  <2>22. ASSUME NEW t \in Threads, Refresh(t) PROVE NullInv'
    BY <2>22 DEF Refresh
  <2>23. ASSUME NEW t \in Threads, ResetLockApps(t) PROVE NullInv'
    BY <2>23 DEF ResetLockApps
  <2>24. ASSUME NEW t \in Threads, ResetLockDetails(t) PROVE NullInv'
    BY <2>24 DEF ResetLockDetails
  <2>25. ASSUME NEW t \in Threads, ClearApps(t) PROVE NullInv'
    BY <2>25 DEF ClearApps
  <2>26. ASSUME NEW t \in Threads, ClearDetails(t) PROVE NullInv'
    BY <2>26 DEF ClearDetails
  <2>27. ASSUME NEW t \in Threads, ResetUnlockDetails(t) PROVE NullInv'
    BY <2>27 DEF ResetUnlockDetails
  <2>28. ASSUME NEW t \in Threads, ResetUnlockApps(t) PROVE NullInv'
    BY <2>28 DEF ResetUnlockApps
  <2>29. CASE UNCHANGED vars
    BY <2>29 DEF vars
  <2>30. QED
    BY <2>1, <2>2, <2>3, <2>4, <2>5, <2>6, <2>7, <2>8, <2>9, <2>10, <2>11, <2>12, <2>13, <2>14, <2>15, <2>16, <2>17, <2>18, <2>19, <2>20, <2>21, <2>22, <2>23, <2>24, <2>25, <2>26, <2>27, <2>28, <2>29 DEF Next, Call, Proceed, DetailsStep, RuntimesStep, ResetStep
<1>3. NullInv /\ TypeOK /\ [Next]_vars =>
        [\A t \in Threads :
           (ReadApps(t) \/ ReadDetails(t)) /\ result'[t] = Null => t \in cleared]_vars
  <2> SUFFICES ASSUME NullInv, TypeOK, NEW t \in Threads, ReadApps(t) \/ ReadDetails(t),
                      result'[t] = Null
               PROVE  t \in cleared
    OBVIOUS
  <2>1. CASE ReadApps(t)
    BY <2>1 DEF ReadApps, Return, Goto, NullInv, TypeOK
  <2>2. CASE ReadDetails(t)
    BY <2>2 DEF ReadDetails, Return, Goto, NullInv, TypeOK
  <2>3. QED
    BY <2>1, <2>2
<1>4. QED
  BY <1>1, <1>2, <1>3, TypeCorrect, MonitorsHeld, AppsKnown, PTL DEF Spec, NullOnlyByReset

=============================================================================
