------------------------- MODULE FirstTimeSetupProofs -------------------------
(***************************************************************************)
(* What FirstTimeSetup guarantees for any number of threads, any names and *)
(* any number of crashes.                                                  *)
(*                                                                         *)
(* NeverLockedOut is not inductive: that there is an administrator does    *)
(* not say that nobody is about to take it back.  The strengthening looks  *)
(* at the names a session was opened for: each is Settled, i.e. activated  *)
(* and not the work of a request that may still delete it, which rests on  *)
(* CreatorsOwn; and setup is closed or answered for only after a session   *)
(* has been opened.                                                        *)
(***************************************************************************)
EXTENDS FirstTimeSetup, TLAPS

Settled(n) ==
  /\ n \in activated
  /\ \A t \in Threads : name[t] = n => pc[t] \notin {"activate", "delete"}

\* How far a request has come with the administrator it created.
ProgressInv ==
  \A t \in Threads :
    /\ pc[t] = "session" => name[t] \in activated
    /\ pc[t] \in {"truncate", "answer"} => name[t] \in sessions

SessionsSettled == \A n \in sessions : Settled(n)

ClosedInv == keyFile = "empty" \/ answered => sessions # {}

IInv == TypeOK /\ CreatorsOwn /\ ProgressInv /\ SessionsSettled /\ ClosedInv

-----------------------------------------------------------------------------
(* One lemma per conjunct: what each step does to it. *)

\* Every variable keeps its type; the delete that undoes a failed setup takes
\* back no account that a session has been opened for.
LEMMA TypeStep ==
  TypeOK /\ CreatorsOwn /\ ProgressInv /\ SessionsSettled /\ [Next]_vars => TypeOK'
<1> SUFFICES ASSUME TypeOK, CreatorsOwn, ProgressInv, SessionsSettled, [Next]_vars PROVE TypeOK'
  OBVIOUS
<1> USE NobodyAssumption, CrashesAssumption DEF TypeOK, PCs, ProgressInv
<1>1. ASSUME NEW t \in Threads, NEW n \in Names, Validate(t, n) PROVE TypeOK'
  BY <1>1 DEF Validate, stores
<1>2. ASSUME NEW t \in Threads, CheckAdmins(t) PROVE TypeOK'
  BY <1>2 DEF CheckAdmins, Go, GiveUp, stores
<1>3. ASSUME NEW t \in Threads, CreateAdmin(t) PROVE TypeOK'
  BY <1>3 DEF CreateAdmin, Go
<1>4. ASSUME NEW t \in Threads, CreateFails(t) PROVE TypeOK'
  BY <1>4 DEF CreateFails, GiveUp
<1>5. ASSUME NEW t \in Threads, Activate(t) PROVE TypeOK'
  BY <1>5 DEF Activate, Go
<1>6. ASSUME NEW t \in Threads, ActivateFails(t) PROVE TypeOK'
  BY <1>6 DEF ActivateFails, Go, stores
<1>7. ASSUME NEW t \in Threads, DeleteAdmin(t) PROVE TypeOK'
  BY <1>7 DEF DeleteAdmin, GiveUp, SessionsSettled, Settled
<1>8. ASSUME NEW t \in Threads, OpenSession(t) PROVE TypeOK'
  BY <1>8 DEF OpenSession, Go
<1>9. ASSUME NEW t \in Threads, CallFails(t) PROVE TypeOK'
  BY <1>9 DEF CallFails, GiveUp, stores
<1>10. ASSUME NEW t \in Threads, Truncate(t) PROVE TypeOK'
  BY <1>10 DEF Truncate, Go
<1>11. ASSUME NEW t \in Threads, Answer(t) PROVE TypeOK'
  BY <1>11 DEF Answer, stores
<1>12. CASE Crash
  BY <1>12 DEF Crash, stores
<1>13. CASE UNCHANGED vars
  BY <1>13 DEF vars, stores
<1> QED
  BY <1>1, <1>2, <1>3, <1>4, <1>5, <1>6, <1>7, <1>8, <1>9, <1>10, <1>11, <1>12, <1>13 DEF Next

\* A name is taken in LDAP from create until its request ends, so no second
\* request comes to own it.
LEMMA OwnStep ==
  TypeOK /\ CreatorsOwn /\ [Next]_vars => CreatorsOwn'
<1> SUFFICES ASSUME TypeOK, CreatorsOwn, [Next]_vars PROVE CreatorsOwn'
  OBVIOUS
<1> USE NobodyAssumption DEF TypeOK, PCs, CreatorsOwn, Creators
<1>1. ASSUME NEW t \in Threads, NEW n \in Names, Validate(t, n) PROVE CreatorsOwn'
  BY <1>1 DEF Validate, stores
<1>2. ASSUME NEW t \in Threads, CheckAdmins(t) PROVE CreatorsOwn'
  BY <1>2 DEF CheckAdmins, Go, GiveUp, stores
<1>3. ASSUME NEW t \in Threads, CreateAdmin(t) PROVE CreatorsOwn'
  BY <1>3 DEF CreateAdmin, Go
<1>4. ASSUME NEW t \in Threads, CreateFails(t) PROVE CreatorsOwn'
  BY <1>4 DEF CreateFails, GiveUp
<1>5. ASSUME NEW t \in Threads, Activate(t) PROVE CreatorsOwn'
  BY <1>5 DEF Activate, Go
<1>6. ASSUME NEW t \in Threads, ActivateFails(t) PROVE CreatorsOwn'
  BY <1>6 DEF ActivateFails, Go, stores
<1>7. ASSUME NEW t \in Threads, DeleteAdmin(t) PROVE CreatorsOwn'
  BY <1>7 DEF DeleteAdmin, GiveUp
<1>8. ASSUME NEW t \in Threads, OpenSession(t) PROVE CreatorsOwn'
  BY <1>8 DEF OpenSession, Go
<1>9. ASSUME NEW t \in Threads, CallFails(t) PROVE CreatorsOwn'
  BY <1>9 DEF CallFails, GiveUp, stores
<1>10. ASSUME NEW t \in Threads, Truncate(t) PROVE CreatorsOwn'
  BY <1>10 DEF Truncate, Go
<1>11. ASSUME NEW t \in Threads, Answer(t) PROVE CreatorsOwn'
  BY <1>11 DEF Answer, stores
<1>12. CASE Crash
  BY <1>12 DEF Crash, stores
<1>13. CASE UNCHANGED vars
  BY <1>13 DEF vars, stores
<1> QED
  BY <1>1, <1>2, <1>3, <1>4, <1>5, <1>6, <1>7, <1>8, <1>9, <1>10, <1>11, <1>12, <1>13 DEF Next

\* Nobody else takes back what a request has activated or opened.
LEMMA ProgressStep ==
  TypeOK /\ CreatorsOwn /\ ProgressInv /\ [Next]_vars => ProgressInv'
<1> SUFFICES ASSUME TypeOK, CreatorsOwn, ProgressInv, [Next]_vars PROVE ProgressInv'
  OBVIOUS
<1> USE DEF TypeOK, PCs, CreatorsOwn, Creators, ProgressInv
<1>1. ASSUME NEW t \in Threads, NEW n \in Names, Validate(t, n) PROVE ProgressInv'
  BY <1>1 DEF Validate, stores
<1>2. ASSUME NEW t \in Threads, CheckAdmins(t) PROVE ProgressInv'
  BY <1>2 DEF CheckAdmins, Go, GiveUp, stores
<1>3. ASSUME NEW t \in Threads, CreateAdmin(t) PROVE ProgressInv'
  BY <1>3 DEF CreateAdmin, Go
<1>4. ASSUME NEW t \in Threads, CreateFails(t) PROVE ProgressInv'
  BY <1>4 DEF CreateFails, GiveUp
<1>5. ASSUME NEW t \in Threads, Activate(t) PROVE ProgressInv'
  BY <1>5 DEF Activate, Go
<1>6. ASSUME NEW t \in Threads, ActivateFails(t) PROVE ProgressInv'
  BY <1>6 DEF ActivateFails, Go, stores
<1>7. ASSUME NEW t \in Threads, DeleteAdmin(t) PROVE ProgressInv'
  BY <1>7 DEF DeleteAdmin, GiveUp
<1>8. ASSUME NEW t \in Threads, OpenSession(t) PROVE ProgressInv'
  BY <1>8 DEF OpenSession, Go
<1>9. ASSUME NEW t \in Threads, CallFails(t) PROVE ProgressInv'
  BY <1>9 DEF CallFails, GiveUp, stores
<1>10. ASSUME NEW t \in Threads, Truncate(t) PROVE ProgressInv'
  BY <1>10 DEF Truncate, Go
<1>11. ASSUME NEW t \in Threads, Answer(t) PROVE ProgressInv'
  BY <1>11 DEF Answer, stores
<1>12. CASE Crash
  BY <1>12 DEF Crash, stores
<1>13. CASE UNCHANGED vars
  BY <1>13 DEF vars, stores
<1> QED
  BY <1>1, <1>2, <1>3, <1>4, <1>5, <1>6, <1>7, <1>8, <1>9, <1>10, <1>11, <1>12, <1>13 DEF Next

\* An account with a session stays, and no request that could delete it appears.
LEMMA SettledStep ==
  TypeOK /\ CreatorsOwn /\ ProgressInv /\ SessionsSettled /\ [Next]_vars => SessionsSettled'
<1> SUFFICES ASSUME TypeOK, CreatorsOwn, ProgressInv, SessionsSettled, [Next]_vars PROVE SessionsSettled'
  OBVIOUS
<1> USE NobodyAssumption DEF TypeOK, PCs, CreatorsOwn, Creators, ProgressInv, SessionsSettled, Settled
<1>1. ASSUME NEW t \in Threads, NEW n \in Names, Validate(t, n) PROVE SessionsSettled'
  BY <1>1 DEF Validate, stores
<1>2. ASSUME NEW t \in Threads, CheckAdmins(t) PROVE SessionsSettled'
  BY <1>2 DEF CheckAdmins, Go, GiveUp, stores
<1>3. ASSUME NEW t \in Threads, CreateAdmin(t) PROVE SessionsSettled'
  BY <1>3 DEF CreateAdmin, Go
<1>4. ASSUME NEW t \in Threads, CreateFails(t) PROVE SessionsSettled'
  BY <1>4 DEF CreateFails, GiveUp
<1>5. ASSUME NEW t \in Threads, Activate(t) PROVE SessionsSettled'
  BY <1>5 DEF Activate, Go
<1>6. ASSUME NEW t \in Threads, ActivateFails(t) PROVE SessionsSettled'
  BY <1>6 DEF ActivateFails, Go, stores
<1>7. ASSUME NEW t \in Threads, DeleteAdmin(t) PROVE SessionsSettled'
  BY <1>7 DEF DeleteAdmin, GiveUp
<1>8. ASSUME NEW t \in Threads, OpenSession(t) PROVE SessionsSettled'
  BY <1>8 DEF OpenSession, Go
<1>9. ASSUME NEW t \in Threads, CallFails(t) PROVE SessionsSettled'
  BY <1>9 DEF CallFails, GiveUp, stores
<1>10. ASSUME NEW t \in Threads, Truncate(t) PROVE SessionsSettled'
  BY <1>10 DEF Truncate, Go
<1>11. ASSUME NEW t \in Threads, Answer(t) PROVE SessionsSettled'
  BY <1>11 DEF Answer, stores
<1>12. CASE Crash
  BY <1>12 DEF Crash, stores
<1>13. CASE UNCHANGED vars
  BY <1>13 DEF vars, stores
<1> QED
  BY <1>1, <1>2, <1>3, <1>4, <1>5, <1>6, <1>7, <1>8, <1>9, <1>10, <1>11, <1>12, <1>13 DEF Next

\* The key file is truncated, and the caller answered, after sessionDAO.create.
LEMMA ClosedStep ==
  TypeOK /\ ProgressInv /\ ClosedInv /\ [Next]_vars => ClosedInv'
<1> SUFFICES ASSUME TypeOK, ProgressInv, ClosedInv, [Next]_vars PROVE ClosedInv'
  OBVIOUS
<1> USE DEF TypeOK, PCs, ProgressInv, ClosedInv
<1>1. ASSUME NEW t \in Threads, NEW n \in Names, Validate(t, n) PROVE ClosedInv'
  BY <1>1 DEF Validate, stores
<1>2. ASSUME NEW t \in Threads, CheckAdmins(t) PROVE ClosedInv'
  BY <1>2 DEF CheckAdmins, Go, GiveUp, stores
<1>3. ASSUME NEW t \in Threads, CreateAdmin(t) PROVE ClosedInv'
  BY <1>3 DEF CreateAdmin, Go
<1>4. ASSUME NEW t \in Threads, CreateFails(t) PROVE ClosedInv'
  BY <1>4 DEF CreateFails, GiveUp
<1>5. ASSUME NEW t \in Threads, Activate(t) PROVE ClosedInv'
  BY <1>5 DEF Activate, Go
<1>6. ASSUME NEW t \in Threads, ActivateFails(t) PROVE ClosedInv'
  BY <1>6 DEF ActivateFails, Go, stores
<1>7. ASSUME NEW t \in Threads, DeleteAdmin(t) PROVE ClosedInv'
  BY <1>7 DEF DeleteAdmin, GiveUp
<1>8. ASSUME NEW t \in Threads, OpenSession(t) PROVE ClosedInv'
  BY <1>8 DEF OpenSession, Go
<1>9. ASSUME NEW t \in Threads, CallFails(t) PROVE ClosedInv'
  BY <1>9 DEF CallFails, GiveUp, stores
<1>10. ASSUME NEW t \in Threads, Truncate(t) PROVE ClosedInv'
  BY <1>10 DEF Truncate, Go
<1>11. ASSUME NEW t \in Threads, Answer(t) PROVE ClosedInv'
  BY <1>11 DEF Answer, stores
<1>12. CASE Crash
  BY <1>12 DEF Crash, stores
<1>13. CASE UNCHANGED vars
  BY <1>13 DEF vars, stores
<1> QED
  BY <1>1, <1>2, <1>3, <1>4, <1>5, <1>6, <1>7, <1>8, <1>9, <1>10, <1>11, <1>12, <1>13 DEF Next

-----------------------------------------------------------------------------
\* The invariant holds of every reachable state.
THEOREM Invariance == Spec => []IInv
<1>1. Init => IInv
  <2> SUFFICES ASSUME Init PROVE IInv
    OBVIOUS
  <2>1. TypeOK
    <3>1. answered \in BOOLEAN
      BY DEF Init
    <3>2. crashes \in 0 .. MaxCrashes
      BY CrashesAssumption DEF Init
    <3>3. pc \in [Threads -> PCs] /\ name \in [Threads -> Names \cup {Nobody}]
      BY DEF Init, PCs
    <3> QED
      BY <3>1, <3>2, <3>3 DEF Init, TypeOK
  <2>2. CreatorsOwn /\ ProgressInv
    BY DEF Init, CreatorsOwn, Creators, ProgressInv
  <2>3. SessionsSettled /\ ClosedInv
    BY DEF Init, SessionsSettled, ClosedInv
  <2> QED
    BY <2>1, <2>2, <2>3 DEF IInv
<1>2. IInv /\ [Next]_vars => IInv'
  BY TypeStep, OwnStep, ProgressStep, SettledStep, ClosedStep DEF IInv
<1> QED
  BY <1>1, <1>2, PTL DEF Spec

\* Every variable always has its type, and only activated accounts have sessions.
THEOREM TypeCorrect == Spec => []TypeOK
<1>1. IInv => TypeOK
  BY DEF IInv
<1> QED
  BY <1>1, Invariance, PTL

\* A request owns the administrator it creates until it ends.
THEOREM OwnershipHolds == Spec => []CreatorsOwn
<1>1. IInv => CreatorsOwn
  BY DEF IInv
<1> QED
  BY <1>1, Invariance, PTL

\* Whatever fails and wherever the server stops, setup is never closed without
\* an administrator in LDAP.
THEOREM LockoutImpossible == Spec => []NeverLockedOut
<1>1. IInv => NeverLockedOut
  BY DEF IInv, TypeOK, SessionsSettled, Settled, ClosedInv, NeverLockedOut
<1> QED
  BY <1>1, Invariance, PTL

\* A caller who has been answered has an activated administrator for good.
THEOREM AnswersHold == Spec => []AnsweredHasAdmin
<1>1. IInv => AnsweredHasAdmin
  BY DEF IInv, TypeOK, SessionsSettled, Settled, ClosedInv, AnsweredHasAdmin
<1> QED
  BY <1>1, Invariance, PTL

-----------------------------------------------------------------------------
(* The promise *)

claiming == {t \in Threads : pc[t] = "create"}

\* Each step is one of the promise's, or none.
LEMMA SetupStep ==
  IInv /\ [Next]_vars => [Once!Next]_<<admins, claiming, answered>>
<1> SUFFICES ASSUME IInv, [Next]_vars
             PROVE  [Once!Next]_<<admins, claiming, answered>>
  OBVIOUS
<1> USE DEF claiming
<1>0. TypeOK
  BY DEF IInv
<1>1. ASSUME NEW t \in Threads, CheckAdmins(t)
      PROVE  [Once!Next]_<<admins, claiming, answered>>
  <2>1. CASE admins = {}
    <3>1. claiming' = claiming \cup {t} /\ UNCHANGED <<admins, answered>>
      BY <1>0, <1>1, <2>1 DEF CheckAdmins, Go, stores, TypeOK
    <3>2. Once!Claim(t)
      BY <3>1, <2>1 DEF Once!Claim
    <3> QED
      BY <3>2 DEF Once!Next
  <2>2. CASE admins # {}
    BY <1>0, <1>1, <2>2 DEF CheckAdmins, GiveUp, stores, TypeOK
  <2> QED
    BY <2>1, <2>2
<1>2. ASSUME NEW t \in Threads, CreateAdmin(t) PROVE Once!Next
  <2>1. claiming' = claiming \ {t} /\ t \in claiming
    BY <1>0, <1>2 DEF CreateAdmin, Go, TypeOK
  <2>2. name[t] \in Names
    BY <1>0, <1>2 DEF CreateAdmin, Go, TypeOK
  <2>3. Once!Create(t, name[t])
    BY <1>2, <2>1 DEF CreateAdmin, Go, Once!Create
  <2>4. \E n \in Names : Once!Create(t, n)
    BY <2>2, <2>3 DEF Once!Create
  <2> QED
    BY <2>4 DEF Once!Next
<1>3. ASSUME NEW t \in Threads, CreateFails(t) PROVE Once!Next
  <2>1. claiming' = claiming \ {t} /\ t \in claiming /\ UNCHANGED answered
    BY <1>0, <1>3 DEF CreateFails, GiveUp, TypeOK
  <2>2. name[t] \in Names
    BY <1>0, <1>3 DEF CreateFails, GiveUp, TypeOK
  <2>3. CASE admins' = admins
    BY <2>1, <2>3 DEF Once!Next, Once!Abandon
  <2>4. CASE admins' = admins \cup {name[t]} /\ name[t] \notin admins
    <3>1. Once!Create(t, name[t])
      BY <2>1, <2>4 DEF Once!Create
    <3>2. \E n \in Names : Once!Create(t, n)
      BY <2>2, <3>1 DEF Once!Create
    <3> QED
      BY <3>2 DEF Once!Next
  <2> QED
    BY <1>3, <2>3, <2>4 DEF CreateFails
<1>4. ASSUME NEW t \in Threads, DeleteAdmin(t) PROVE Once!Next
  <2>1. name[t] \in Names /\ name[t] \in admins
    BY <1>0, <1>4 DEF DeleteAdmin, GiveUp, IInv, CreatorsOwn, Creators, TypeOK
  <2>2. UNCHANGED <<claiming, answered>>
    BY <1>0, <1>4 DEF DeleteAdmin, GiveUp, TypeOK
  <2>3. answered => admins' # {}
    <3> SUFFICES ASSUME answered PROVE admins' # {}
      OBVIOUS
    <3>1. PICK n \in sessions : Settled(n)
      BY DEF IInv, ClosedInv, SessionsSettled
    <3>2. n \in admins /\ n # name[t]
      BY <1>0, <1>4, <3>1 DEF DeleteAdmin, GiveUp, Settled, TypeOK
    <3> QED
      BY <1>4, <3>2 DEF DeleteAdmin
  <2>4. Once!TakeBack(name[t])
    BY <1>4, <2>1, <2>2, <2>3 DEF DeleteAdmin, Once!TakeBack
  <2> QED
    BY <2>1, <2>4 DEF Once!Next
<1>5. ASSUME NEW t \in Threads, Answer(t) PROVE Once!Next
  <2>1. admins # {}
    BY <1>0, <1>5 DEF Answer, IInv, CreatorsOwn, Creators
  <2>2. UNCHANGED <<admins, claiming>>
    BY <1>0, <1>5 DEF Answer, stores, TypeOK
  <2>3. Once!Complete
    BY <1>5, <2>1, <2>2 DEF Answer, Once!Complete
  <2> QED
    BY <2>3 DEF Once!Next
<1>6. ASSUME NEW t \in Threads,
             \/ \E n \in Names : Validate(t, n)
             \/ Activate(t) \/ ActivateFails(t)
             \/ OpenSession(t) \/ CallFails(t) \/ Truncate(t)
      PROVE UNCHANGED <<admins, claiming, answered>>
  BY <1>0, <1>6 DEF Validate, Activate, ActivateFails, OpenSession, CallFails,
                    Truncate, Go, GiveUp, stores, TypeOK
<1>7. CASE Crash
  <2>1. claiming' \in SUBSET claiming /\ UNCHANGED <<admins, answered>>
    BY <1>7 DEF Crash, stores
  <2> QED
    BY <2>1 DEF Once!Next, Once!Abandon
<1>8. CASE UNCHANGED vars
  BY <1>8 DEF vars, stores
<1> QED
  BY <1>1, <1>2, <1>3, <1>4, <1>5, <1>6, <1>7, <1>8 DEF Next

\* First-time setup implements SetupOnce, for any number of requests at once.
THEOREM SetupRefines == Spec => SetsUpOnce
<1>1. Init => Once!Init
  BY DEF Init, Once!Init
<1>2. IInv /\ [Next]_vars => [Once!Next]_<<admins, claiming, answered>>
  BY SetupStep
<1> QED
  BY <1>1, <1>2, Invariance, PTL DEF Spec, SetsUpOnce, Once!Spec, claiming
=============================================================================
