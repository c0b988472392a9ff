------------------------ MODULE AccountSessionsProofs ------------------------
(***************************************************************************)
(* Proofs about AccountSessions, for any names, keys, phones and bounds.   *)
(*                                                                         *)
(* First, what a suspension ends, for any threads: while no account is     *)
(* created, no login with the owner's own password whose bind follows the  *)
(* suspension opens a session, and the sessions that survive it are those  *)
(* that SuspensionEndsSessions names.  This needs nothing of the bounds,   *)
(* so IInv takes an account's ids from any set.                            *)
(*                                                                         *)
(* Then, for every operation and any threads, the types (Typed), and what  *)
(* the copies hold that are written back (Copies); and, when requests come *)
(* one at a time (Alone), that the provider has the accounts that use it   *)
(* (InTurn).                                                               *)
(***************************************************************************)
EXTENDS AccountSessions, FiniteSetTheorems, TLAPS

\* Requests that create no accounts.
Suspending == {"login", "logout", "update", "reset", "delete"}

Updating == {"find", "deregister", "reregister", "existing", "scramble", "write",
             "invalidate", "store"}
Places   == {"idle", "lookup", "open", "findDelete", "unregister", "remove",
             "target", "password"} \cup Updating

\* Accounts and requests, when the account of each name has the uuid id[name].
AnAccount(id) == [name : Names, uuid : {id[n] : n \in Names}, admin : BOOLEAN,
                  suspended : BOOLEAN, twoFactor : BOOLEAN, phone : Phones,
                  authId : Nat \cup {None}]
ARequest == [name : Names, admin : BOOLEAN, suspended : BOOLEAN, twoFactor : BOOLEAN,
             phone : Phones, authId : Nat \cup {None}]
AJob(id) == [op : Operations \cup {None}, key : Keys \cup {None},
             caller : AnAccount(id) \cup {None}, name : Names \cup {None},
             request : ARequest \cup {None}, found : AnAccount(id) \cup {None},
             existing : AnAccount(id) \cup {None}, late : BOOLEAN]

Genuine(id, a) == a \in AnAccount(id) /\ a.uuid = id[a.name]

\* A thread at p with the job j, when ss are the sessions and kn the names whose
\* owner knows the password.
JobOK(id, p, j, ss, kn) ==
  /\ p \in Places /\ j \in AJob(id)
  /\ p \in {"lookup", "open"} => ~j.late
  /\ p = "open" => Genuine(id, j.found)
  /\ p # "idle" => j.name \in Names
  /\ p \in {"find", "deregister", "reregister", "invalidate", "store"} => j.op = "update"
  /\ p \in {"target", "password"} => j.op = "reset"
  /\ p \in Updating /\ j.op = "update" =>
       /\ j.key \in Keys /\ Genuine(id, j.caller)
       /\ ss[j.key] # None => ss[j.key].uuid = j.caller.uuid
  /\ p \in {"find", "deregister", "reregister", "existing", "password"} => j.request \in ARequest
  /\ p \in {"scramble", "write", "invalidate"} => Genuine(id, j.existing) /\ j.existing.name = j.name
  /\ p = "write" /\ j.existing.suspended => j.name \notin kn

StoresOK(id) ==
  /\ \A m, n \in Names : m # n => id[m] # id[n]
  /\ ldap \in [Names -> AnAccount(id) \cup {None}]
  /\ \A n \in Names : ldap[n] # None => ldap[n].name = n /\ ldap[n].uuid = id[n]
  /\ sessions \in [Keys -> AnAccount(id) \cup {None}]
  /\ \A k \in Keys : sessions[k] # None => Genuine(id, sessions[k])
  /\ \A n \in known : n \in Names /\ ldap[n] # None => ~ldap[n].suspended
  /\ authIds \in Nat
JobsOK(id) ==
  /\ pc \in [Threads -> Places] /\ job \in [Threads -> AJob(id)]
  /\ \A t \in Threads : JobOK(id, pc[t], job[t], sessions, known)
OpenedOK ==
  /\ opened \in [Keys -> {"clear", "spared", "late"}]
  /\ NoLateLogin /\ SuspensionEndsSessions

SInv(id) == StoresOK(id) /\ JobsOK(id) /\ OpenedOK
IInv     == \E id : SInv(id)

-----------------------------------------------------------------------------
(* One thread moves on; what the others know stays true.                   *)

LEMMA Known ==
  ASSUME NEW id, SInv(id), NEW t \in Threads
  PROVE  pc[t] \in Places /\ job[t] \in AJob(id) /\ JobOK(id, pc[t], job[t], sessions, known)
BY DEF SInv, JobsOK, JobOK

LEMMA Moved ==
  ASSUME NEW id, SInv(id), NEW t \in Threads, NEW to, NEW j, Step(t, to, j),
         known' \subseteq known, JobOK(id, to, j, sessions', known'),
         \A s \in Threads \ {t} : job[s].key \in Keys /\ sessions'[job[s].key] # None =>
           /\ sessions[job[s].key] # None
           /\ sessions'[job[s].key].uuid = sessions[job[s].key].uuid
  PROVE  /\ pc'[t] = to /\ job'[t] = j
         /\ \A s \in Threads \ {t} : pc'[s] = pc[s] /\ job'[s] = job[s]
         /\ JobsOK(id)'
<1>1. /\ pc' = [pc EXCEPT ![t] = to] /\ job' = [job EXCEPT ![t] = j]
      /\ to \in Places /\ j \in AJob(id)
  BY DEF Step, JobOK
<1>2. pc \in [Threads -> Places] /\ job \in [Threads -> AJob(id)] BY DEF SInv, JobsOK
<1>3. /\ pc' \in [Threads -> Places] /\ job' \in [Threads -> AJob(id)]
      /\ pc'[t] = to /\ job'[t] = j
      /\ \A s \in Threads \ {t} : pc'[s] = pc[s] /\ job'[s] = job[s]
  BY <1>1, <1>2
<1>4. \A s \in Threads : JobOK(id, pc'[s], job'[s], sessions', known')
  <2> SUFFICES ASSUME NEW s \in Threads PROVE JobOK(id, pc'[s], job'[s], sessions', known')
    OBVIOUS
  <2>1. CASE s = t BY <1>3, <2>1
  <2>2. CASE s # t
    <3>1. JobOK(id, pc[s], job[s], sessions, known) BY DEF SInv, JobsOK
    <3> QED BY <1>3, <2>2, <3>1 DEF JobOK
  <2> QED BY <2>1, <2>2
<1> QED BY <1>3, <1>4 DEF JobsOK

\* Steps that leave entries and sessions alone.
LEMMA QuietStep ==
  ASSUME NEW id, SInv(id), NEW t \in Threads, NEW to, NEW j, Step(t, to, j),
         UNCHANGED <<ldap, sessions, opened>>, known' \subseteq known, authIds' \in Nat,
         JobOK(id, to, j, sessions, known'), pc[t] # "invalidate"
  PROVE  SInv(id)'
<1>1. JobsOK(id)' /\ \A s \in Threads \ {t} : pc'[s] = pc[s] /\ job'[s] = job[s]
  BY Moved
<1>2. StoresOK(id)' BY DEF SInv, StoresOK
<1>3. NoLateLogin' /\ opened' \in [Keys -> {"clear", "spared", "late"}]
  BY DEF SInv, OpenedOK, NoLateLogin
<1>4. SuspensionEndsSessions'
  BY <1>1 DEF SInv, OpenedOK, SuspensionEndsSessions, SuspendedSessions
<1> QED BY <1>1, <1>2, <1>3, <1>4 DEF SInv, OpenedOK

\* A request that is over.
LEMMA IdleIsOK ==
  ASSUME NEW id, NEW ss, NEW kn
  PROVE  JobOK(id, "idle", NoJob, ss, kn)
BY DEF JobOK, NoJob, AJob, Places, Updating

LEMMA EndStep ==
  ASSUME NEW id, SInv(id), NEW t \in Threads, End(t), UNCHANGED stores, pc[t] # "invalidate"
  PROVE  SInv(id)'
<1>1. JobOK(id, "idle", NoJob, sessions, known') BY IdleIsOK
<1>2. authIds' \in Nat BY DEF SInv, StoresOK, stores
<1> QED BY <1>1, <1>2, QuietStep DEF End, stores

-----------------------------------------------------------------------------
(* The records a step builds.                                              *)

LEMMA NewJob ==
  ASSUME NEW id, NEW o \in Operations, NEW n \in Names
  PROVE  /\ [NoJob EXCEPT !.op = o, !.name = n, !.late = FALSE] \in AJob(id)
         /\ [NoJob EXCEPT !.op = o, !.name = n, !.late = FALSE].late = FALSE
         /\ [NoJob EXCEPT !.op = o, !.name = n, !.late = FALSE].name = n
BY DEF NoJob, AJob

BareJob(o, k, c, n)      == [NoJob EXCEPT !.op = o, !.key = k, !.caller = c, !.name = n]
CallerJob(o, k, c, n, r) == [BareJob(o, k, c, n) EXCEPT !.request = r]

Named(j, n) == j.name = n /\ j.late = FALSE
Asks(j, o, k, c, n, r) ==
  j.op = o /\ j.key = k /\ j.caller = c /\ j.name = n /\ j.request = r /\ j.late = FALSE

LEMMA CallersJob ==
  ASSUME NEW id, NEW o \in Operations, NEW n \in Names, NEW k \in Keys,
         NEW c \in AnAccount(id), NEW r \in ARequest \cup {None}
  PROVE  /\ CallerJob(o, k, c, n, r) \in AJob(id) /\ Asks(CallerJob(o, k, c, n, r), o, k, c, n, r)
         /\ BareJob(o, k, c, n) \in AJob(id) /\ Named(BareJob(o, k, c, n), n)
<1> DEFINE O == Operations \cup {None}
           K == Keys \cup {None}
           A == AnAccount(id) \cup {None}
           N == Names \cup {None}
           R == ARequest \cup {None}
           h == [NoJob EXCEPT !.op = o]
           i == [h EXCEPT !.key = k]
           d == [i EXCEPT !.caller = c]
           e == [d EXCEPT !.name = n]
           g == [e EXCEPT !.request = r]
<1>1. /\ AJob(id) = [op : O, key : K, caller : A, name : N, request : R, found : A,
                     existing : A, late : BOOLEAN]
      /\ o \in O /\ k \in K /\ c \in A /\ n \in N /\ r \in R
      /\ NoJob \in AJob(id) /\ NoJob.late = FALSE
  BY DEF AJob, NoJob
<1>2. CallerJob(o, k, c, n, r) = g /\ BareJob(o, k, c, n) = e BY DEF CallerJob, BareJob
<1> HIDE DEF O, K, A, N, R
<1>3. i \in AJob(id) /\ i.op = o /\ i.key = k /\ i.late = FALSE
  <2>1. h \in AJob(id) /\ h.op = o /\ h.late = FALSE BY <1>1
  <2> HIDE DEF h
  <2> QED BY <1>1, <2>1
<1> HIDE DEF i
<1>4. d \in AJob(id) /\ d.op = o /\ d.key = k /\ d.late = FALSE /\ d.caller = c BY <1>1, <1>3
<1> HIDE DEF d
<1>5. /\ e \in AJob(id) /\ e.op = o /\ e.key = k /\ e.late = FALSE /\ e.caller = c
      /\ e.name = n
  BY <1>1, <1>4
<1> HIDE DEF e
<1>6. /\ g \in AJob(id) /\ g.op = o /\ g.key = k /\ g.late = FALSE /\ g.caller = c
      /\ g.name = n /\ g.request = r
  BY <1>1, <1>5
<1> HIDE DEF g
<1> QED BY <1>2, <1>5, <1>6 DEF Asks, Named

\* The fields of a job that tell what its thread may rely on.
SameCall(i, j) ==
  i.op = j.op /\ i.key = j.key /\ i.caller = j.caller /\ i.name = j.name /\ i.late = j.late

LEMMA FoundJob ==
  ASSUME NEW id, NEW j \in AJob(id), NEW a \in AnAccount(id) \cup {None}
  PROVE  /\ [j EXCEPT !.found = a] \in AJob(id) /\ [j EXCEPT !.found = a].found = a
         /\ SameCall([j EXCEPT !.found = a], j) /\ [j EXCEPT !.found = a].request = j.request
<1> DEFINE O == Operations \cup {None}
           K == Keys \cup {None}
           A == AnAccount(id) \cup {None}
           N == Names \cup {None}
           R == ARequest \cup {None}
<1>1. /\ AJob(id) = [op : O, key : K, caller : A, name : N, request : R, found : A,
                     existing : A, late : BOOLEAN]
      /\ a \in A
  BY DEF AJob
<1> HIDE DEF O, K, A, N, R
<1>2. [j EXCEPT !.found = a] \in AJob(id) /\ [j EXCEPT !.found = a].found = a BY <1>1
<1>3. SameCall([j EXCEPT !.found = a], j) /\ [j EXCEPT !.found = a].request = j.request
  BY <1>1 DEF SameCall
<1> QED BY <1>2, <1>3

LEMMA RenamedJob ==
  ASSUME NEW id, NEW j \in AJob(id), NEW n \in Names
  PROVE  /\ [j EXCEPT !.name = n] \in AJob(id) /\ [j EXCEPT !.name = n].name = n
         /\ [j EXCEPT !.name = n].op = j.op /\ [j EXCEPT !.name = n].key = j.key
         /\ [j EXCEPT !.name = n].caller = j.caller /\ [j EXCEPT !.name = n].request = j.request
<1> DEFINE O == Operations \cup {None}
           K == Keys \cup {None}
           A == AnAccount(id) \cup {None}
           N == Names \cup {None}
           R == ARequest \cup {None}
<1>1. /\ AJob(id) = [op : O, key : K, caller : A, name : N, request : R, found : A,
                     existing : A, late : BOOLEAN]
      /\ n \in N
  BY DEF AJob
<1> HIDE DEF O, K, A, N, R
<1> QED BY <1>1

WithRequest(j, r)  == [j EXCEPT !.request = r]
WithExisting(j, a) == [j EXCEPT !.existing = a, !.found = None]

LEMMA RequestJob ==
  ASSUME NEW id, NEW j \in AJob(id), NEW r \in ARequest \cup {None}
  PROVE  /\ WithRequest(j, r) \in AJob(id) /\ WithRequest(j, r).request = r
         /\ SameCall(WithRequest(j, r), j) /\ WithRequest(j, r).existing = j.existing
<1> DEFINE O == Operations \cup {None}
           K == Keys \cup {None}
           A == AnAccount(id) \cup {None}
           N == Names \cup {None}
           R == ARequest \cup {None}
<1>1. /\ AJob(id) = [op : O, key : K, caller : A, name : N, request : R, found : A,
                     existing : A, late : BOOLEAN]
      /\ r \in R
  BY DEF AJob
<1> HIDE DEF O, K, A, N, R
<1>2. WithRequest(j, r) \in AJob(id) /\ WithRequest(j, r).request = r BY <1>1 DEF WithRequest
<1>3. /\ SameCall(WithRequest(j, r), j)
      /\ WithRequest(j, r).existing = j.existing
  BY <1>1 DEF SameCall, WithRequest
<1> QED BY <1>2, <1>3

LEMMA ExistingJob ==
  ASSUME NEW id, NEW j \in AJob(id), NEW a \in AnAccount(id)
  PROVE  /\ WithExisting(j, a) \in AJob(id)
         /\ WithExisting(j, a).existing = a
         /\ SameCall(WithExisting(j, a), j)
<1> DEFINE O == Operations \cup {None}
           K == Keys \cup {None}
           A == AnAccount(id) \cup {None}
           N == Names \cup {None}
           R == ARequest \cup {None}
<1>1. /\ AJob(id) = [op : O, key : K, caller : A, name : N, request : R, found : A,
                     existing : A, late : BOOLEAN]
      /\ a \in A /\ None \in A
  BY DEF AJob
<1> HIDE DEF O, K, A, N, R
<1> DEFINE x == [j EXCEPT !.existing = a]
           e == [x EXCEPT !.found = None]
<1>2. x \in AJob(id) /\ x.existing = a BY <1>1
<1>3. SameCall(x, j) BY <1>1 DEF SameCall
<1>4. WithExisting(j, a) = e BY DEF WithExisting
<1> HIDE DEF x
<1>5. e \in AJob(id) /\ e.existing = a BY <1>1, <1>2
<1>6. SameCall(e, j) BY <1>1, <1>2, <1>3 DEF SameCall
<1> HIDE DEF e
<1> QED BY <1>4, <1>5, <1>6

\* What LdapEntity.merge keeps and what it takes from the request.
LEMMA MergedFields ==
  ASSUME NEW id, NEW a \in AnAccount(id), NEW r \in ARequest
  PROVE  /\ Merged(a, r) \in AnAccount(id)
         /\ Merged(a, r).name = a.name /\ Merged(a, r).uuid = a.uuid
         /\ Merged(a, r).suspended = r.suspended
BY DEF Merged, AnAccount, ARequest

-----------------------------------------------------------------------------
(* Login and logout.                                                       *)

LEMMA BindStep ==
  ASSUME NEW id, SInv(id), NEW t \in Threads, NEW n \in Names, Bind(t, n)
  PROVE  SInv(id)'
<1> DEFINE j == [NoJob EXCEPT !.op = "login", !.name = n, !.late = FALSE]
<1>1. n \in known => ~ldap[n].suspended BY DEF Bind, SInv, StoresOK
<1>2. (n \in known /\ ldap[n].suspended) = FALSE BY <1>1
<1>3. Step(t, "lookup", j)
  <2>1. Step(t, "lookup", [NoJob EXCEPT !.op = "login", !.name = n,
                                        !.late = n \in known /\ ldap[n].suspended])
    BY DEF Bind
  <2> QED BY <1>2, <2>1
<1>4. j \in AJob(id) /\ j.late = FALSE /\ j.name = n BY NewJob DEF Bind
<1> HIDE DEF j
<1>5. JobOK(id, "lookup", j, sessions, known) BY <1>4 DEF JobOK, Places, Updating
<1>6. authIds' \in Nat BY DEF Bind, stores, SInv, StoresOK
<1> QED BY <1>3, <1>5, <1>6, QuietStep DEF Bind, stores

\* An entry of LDAP.
LEMMA EntryIsGenuine ==
  ASSUME NEW id, SInv(id), NEW n \in Names
  PROVE  ldap[n] \in AnAccount(id) \cup {None} /\ (ldap[n] # None => Genuine(id, ldap[n]) /\ ldap[n].name = n)
BY DEF SInv, StoresOK, Genuine

LEMMA LookUpStep ==
  ASSUME NEW id, SInv(id), NEW t \in Threads, LookUp(t)
  PROVE  SInv(id)'
<1> DEFINE found == ldap[job[t].name]
           j == [job[t] EXCEPT !.found = found]
<1>1. /\ pc[t] = "lookup" /\ job[t] \in AJob(id) /\ job[t].name \in Names /\ ~job[t].late
  BY Known DEF LookUp, JobOK
<1>2. CASE found = None /\ End(t) BY <1>1, <1>2, EndStep DEF LookUp
<1>3. CASE found # None /\ Step(t, "open", j) /\ UNCHANGED opened
  <2>1. found \in AnAccount(id) \cup {None} /\ Genuine(id, found) BY <1>1, <1>3, EntryIsGenuine
  <2>2. j \in AJob(id) /\ j.found = found /\ j.name = job[t].name /\ j.late = job[t].late
    BY <1>1, <2>1, FoundJob DEF SameCall
  <2> HIDE DEF j
  <2>3. JobOK(id, "open", j, sessions, known)
    <3> HIDE DEF found
    <3> QED BY <1>1, <2>1, <2>2 DEF JobOK, Places, Updating
  <2>4. authIds' \in Nat BY DEF LookUp, stores, SInv, StoresOK
  <2> QED BY <1>1, <1>3, <2>3, <2>4, QuietStep DEF LookUp, stores
<1> QED BY <1>1, <1>2, <1>3 DEF LookUp

LEMMA OpenSessionStep ==
  ASSUME NEW id, SInv(id), NEW t \in Threads, OpenSession(t)
  PROVE  SInv(id)'
<1> DEFINE account == job[t].found
           entry   == ldap[account.name]
<1>1. pc[t] = "open" /\ Genuine(id, account) /\ ~job[t].late
  BY Known DEF OpenSession, JobOK
<1>2. PICK k \in Keys :
        /\ sessions[k] = None /\ \A s \in Threads : job[s].key # k
        /\ sessions' = [sessions EXCEPT ![k] = account]
        /\ opened' = [opened EXCEPT ![k] =
             IF entry = None \/ entry.uuid # account.uuid \/ ~entry.suspended THEN "clear"
             ELSE IF job[t].late THEN "late" ELSE "spared"]
  BY DEF OpenSession
<1>3. /\ Step(t, "idle", NoJob) /\ known' = known /\ ldap' = ldap /\ authIds' = authIds
  BY DEF OpenSession
<1>4. /\ sessions \in [Keys -> AnAccount(id) \cup {None}]
      /\ opened \in [Keys -> {"clear", "spared", "late"}]
      /\ account \in AnAccount(id) /\ account.name \in Names /\ account.uuid = id[account.name]
  BY <1>1 DEF SInv, StoresOK, OpenedOK, Genuine, AnAccount
<1> HIDE DEF account, entry
<1>5. /\ sessions'[k] = account
      /\ \A l \in Keys \ {k} : sessions'[l] = sessions[l] /\ opened'[l] = opened[l]
      /\ opened'[k] = IF entry = None \/ entry.uuid # account.uuid \/ ~entry.suspended
                      THEN "clear" ELSE "spared"
  BY <1>1, <1>2, <1>4
<1>6. /\ sessions' \in [Keys -> AnAccount(id) \cup {None}]
      /\ opened' \in [Keys -> {"clear", "spared", "late"}]
  BY <1>1, <1>2, <1>4
<1>7. JobsOK(id)' /\ \A s \in Threads \ {t} : pc'[s] = pc[s] /\ job'[s] = job[s]
  <2>1. JobOK(id, "idle", NoJob, sessions', known') BY IdleIsOK
  <2>2. \A s \in Threads \ {t} : job[s].key \in Keys /\ sessions'[job[s].key] # None =>
          /\ sessions[job[s].key] # None
          /\ sessions'[job[s].key].uuid = sessions[job[s].key].uuid
    BY <1>2, <1>5
  <2> QED BY <1>3, <2>1, <2>2, Moved
<1>8. StoresOK(id)'
  <2>1. \A l \in Keys : sessions'[l] # None => Genuine(id, sessions'[l])
    <3> SUFFICES ASSUME NEW l \in Keys, sessions'[l] # None PROVE Genuine(id, sessions'[l])
      OBVIOUS
    <3>1. CASE l = k BY <1>1, <1>5, <3>1
    <3>2. CASE l # k BY <1>5, <3>2 DEF SInv, StoresOK
    <3> QED BY <3>1, <3>2
  <2> QED BY <1>3, <1>6, <2>1 DEF SInv, StoresOK
<1>9. NoLateLogin'
  <2> SUFFICES ASSUME NEW l \in Keys PROVE opened'[l] # "late" BY DEF NoLateLogin
  <2>1. CASE l = k BY <1>5, <2>1
  <2>2. CASE l # k BY <1>5, <2>2 DEF SInv, OpenedOK, NoLateLogin
  <2> QED BY <2>1, <2>2
<1>10. SuspensionEndsSessions'
  <2> SUFFICES ASSUME NEW l \in Keys, sessions'[l] # None, NEW n \in Names,
                      ldap[n] # None, ldap[n].suspended, ldap[n].uuid = sessions'[l].uuid
               PROVE  \/ opened'[l] = "spared"
                      \/ \E s \in Threads :
                           pc'[s] = "invalidate" /\ job'[s].existing.uuid = sessions'[l].uuid
    BY <1>3 DEF SuspensionEndsSessions, SuspendedSessions
  <2>1. CASE l = k
    <3>1. ldap[n].uuid = id[n] BY DEF SInv, StoresOK
    <3>2. n = account.name BY <1>4, <1>5, <2>1, <3>1 DEF SInv, StoresOK
    <3>3. entry = ldap[n] BY <3>2 DEF entry
    <3> QED BY <1>5, <2>1, <3>3
  <2>2. CASE l # k
    <3>1. \/ opened[l] = "spared"
          \/ \E s \in Threads : pc[s] = "invalidate" /\ job[s].existing.uuid = sessions[l].uuid
      BY <1>5, <2>2 DEF SInv, OpenedOK, SuspensionEndsSessions, SuspendedSessions
    <3> QED BY <1>1, <1>5, <1>7, <2>2, <3>1
  <2> QED BY <2>1, <2>2
<1> QED BY <1>6, <1>7, <1>8, <1>9, <1>10 DEF SInv, OpenedOK

\* Sessions only end: those of one key, or those of one account.
LEMMA SessionsEnd ==
  ASSUME NEW id, SInv(id), NEW Kept \in SUBSET Keys,
         ldap' = ldap, known' = known, authIds' = authIds,
         sessions' \in [Keys -> AnAccount(id) \cup {None}],
         opened' \in [Keys -> {"clear", "spared", "late"}],
         \A k \in Keys : opened'[k] = opened[k] \/ (opened'[k] = "clear" /\ sessions'[k] = None),
         \A k \in Keys : sessions'[k] # None => k \in Kept /\ sessions'[k] = sessions[k],
         JobsOK(id)',
         \A t \in Threads : pc[t] = "invalidate" =>
           \/ pc'[t] = pc[t] /\ job'[t] = job[t]
           \/ \A k \in Kept : sessions[k] # None => sessions[k].uuid # job[t].existing.uuid
  PROVE  SInv(id)'
<1>1. StoresOK(id)' BY DEF SInv, StoresOK
<1>2. NoLateLogin' BY DEF SInv, OpenedOK, NoLateLogin
<1>3. SuspensionEndsSessions'
  <2> SUFFICES ASSUME NEW l \in Keys, sessions'[l] # None, NEW n \in Names,
                      ldap[n] # None, ldap[n].suspended, ldap[n].uuid = sessions'[l].uuid
               PROVE  \/ opened'[l] = "spared"
                      \/ \E s \in Threads :
                           pc'[s] = "invalidate" /\ job'[s].existing.uuid = sessions'[l].uuid
    BY DEF SuspensionEndsSessions, SuspendedSessions
  <2>1. \/ opened[l] = "spared"
        \/ \E s \in Threads : pc[s] = "invalidate" /\ job[s].existing.uuid = sessions[l].uuid
    BY DEF SInv, OpenedOK, SuspensionEndsSessions, SuspendedSessions
  <2> QED BY <2>1
<1> QED BY <1>1, <1>2, <1>3 DEF SInv, OpenedOK

LEMMA EndSessionStep ==
  ASSUME NEW id, SInv(id), NEW k \in Keys, EndSession(k)
  PROVE  SInv(id)'
<1>1. /\ sessions' = [sessions EXCEPT ![k] = None] /\ opened' = [opened EXCEPT ![k] = "clear"]
      /\ ldap' = ldap /\ known' = known /\ authIds' = authIds /\ pc' = pc /\ job' = job
  BY DEF EndSession
<1>2. /\ sessions \in [Keys -> AnAccount(id) \cup {None}]
      /\ opened \in [Keys -> {"clear", "spared", "late"}]
  BY DEF SInv, StoresOK, OpenedOK
<1>3. /\ sessions' \in [Keys -> AnAccount(id) \cup {None}]
      /\ opened' \in [Keys -> {"clear", "spared", "late"}]
      /\ sessions'[k] = None /\ opened'[k] = "clear"
      /\ \A l \in Keys \ {k} : sessions'[l] = sessions[l] /\ opened'[l] = opened[l]
  BY <1>1, <1>2
<1>4. JobsOK(id)'
  <2>1. \A t \in Threads : JobOK(id, pc[t], job[t], sessions', known)
    <3> SUFFICES ASSUME NEW t \in Threads PROVE JobOK(id, pc[t], job[t], sessions', known)
      OBVIOUS
    <3> QED BY Known, <1>3 DEF JobOK
  <2> QED BY <1>1, <2>1 DEF SInv, JobsOK
<1> DEFINE Kept == Keys \ {k}
<1>5. Kept \in SUBSET Keys OBVIOUS
<1>6. \A l \in Keys : sessions'[l] # None => l \in Kept /\ sessions'[l] = sessions[l] BY <1>3
<1>7. \A l \in Keys : opened'[l] = opened[l] \/ (opened'[l] = "clear" /\ sessions'[l] = None)
  BY <1>3
<1> HIDE DEF Kept
<1> QED BY <1>1, <1>3, <1>4, <1>5, <1>6, <1>7, SessionsEnd

-----------------------------------------------------------------------------
(* The two-factor provider.                                                *)

LEMMA ProviderFailsStep ==
  ASSUME NEW id, SInv(id), NEW t \in Threads, ProviderFails(t)
  PROVE  SInv(id)'
BY EndStep DEF ProviderFails

LEMMA DeregisterStep ==
  ASSUME NEW id, SInv(id), NEW t \in Threads, Deregister(t) \/ Unregister(t)
  PROVE  SInv(id)'
<1>1. JobOK(id, pc[t], job[t], sessions, known) BY Known
<1>2. authIds' \in Nat BY DEF Deregister, Unregister, RemoveRegistration, SInv, StoresOK
<1>3. CASE Deregister(t)
  <2>1. PICK to \in {"existing", "reregister"} : RemoveRegistration(t, "deregister", to)
    BY <1>3 DEF Deregister
  <2>2. JobOK(id, to, job[t], sessions, known)
    BY <1>1, <2>1 DEF JobOK, RemoveRegistration, Places, Updating
  <2> QED BY <1>2, <2>1, <2>2, QuietStep DEF RemoveRegistration
<1>4. CASE Unregister(t)
  <2>1. RemoveRegistration(t, "unregister", "remove") BY <1>4 DEF Unregister
  <2>2. JobOK(id, "remove", job[t], sessions, known)
    BY <1>1, <2>1 DEF JobOK, RemoveRegistration, Places, Updating
  <2> QED BY <1>2, <2>1, <2>2, QuietStep DEF RemoveRegistration
<1> QED BY <1>3, <1>4

LEMMA ReregisterStep ==
  ASSUME NEW id, SInv(id), NEW t \in Threads, Reregister(t)
  PROVE  SInv(id)'
<1> DEFINE r == [job[t].request EXCEPT !.authId = authIds']
           j == WithRequest(job[t], r)
<1>1. AddRegistration(t, "reregister", "existing") BY DEF Reregister
<1>2. /\ pc[t] = "reregister" /\ job[t] \in AJob(id) /\ job[t].request \in ARequest
      /\ JobOK(id, pc[t], job[t], sessions, known)
  BY <1>1, Known DEF AddRegistration, JobOK, Updating
<1>3. authIds' \in Nat BY <1>1 DEF AddRegistration, SInv, StoresOK
<1>4. r \in ARequest BY <1>2, <1>3 DEF ARequest
<1>5. Step(t, "existing", j) BY <1>1, <1>2 DEF AddRegistration, WithRequest
<1>6. j \in AJob(id) /\ j.request = r /\ SameCall(j, job[t])
  <2> HIDE DEF r
  <2> QED BY <1>2, <1>4, RequestJob
<1> HIDE DEF r, j
<1>7. JobOK(id, "existing", j, sessions, known)
  BY <1>2, <1>4, <1>6 DEF JobOK, SameCall, Places, Updating
<1> QED BY <1>1, <1>3, <1>5, <1>7, <1>2, QuietStep DEF AddRegistration

-----------------------------------------------------------------------------
(* AccountsResource.update.                                                *)

LEMMA SubmitUpdateStep ==
  ASSUME NEW id, SInv(id), NEW t \in Threads, NEW k \in Keys, NEW n \in Names,
         NEW r \in Requests, SubmitUpdate(t, k, n, r)
  PROVE  SInv(id)'
<1> DEFINE caller == sessions[k]
           asked == [r EXCEPT !.admin = r.admin /\ caller.admin]
           j == CallerJob("update", k, caller, n, asked)
<1>1. /\ pc[t] = "idle" /\ "update" \in Operations /\ caller # None
      /\ Step(t, "find", j) /\ UNCHANGED <<stores, opened>>
  BY DEF SubmitUpdate, CallerJob, BareJob
<1>2. caller \in AnAccount(id) /\ Genuine(id, caller) BY <1>1 DEF SInv, StoresOK, Genuine
<1>3. asked \in ARequest
  <2>1. r \in ARequest BY NamesAssumption DEF ARequest
  <2>2. (r.admin /\ caller.admin) \in BOOLEAN OBVIOUS
  <2> DEFINE b == r.admin /\ caller.admin
  <2>3. b \in BOOLEAN BY <2>2
  <2> HIDE DEF b
  <2>4. [r EXCEPT !.admin = b] \in ARequest BY <2>1, <2>3 DEF ARequest
  <2> QED BY <2>4 DEF b
<1>4. /\ j \in AJob(id) /\ j.op = "update" /\ j.key = k /\ j.caller = caller /\ j.name = n
      /\ j.request = asked /\ j.late = FALSE
  <2>1. caller \in AnAccount(id) /\ "update" \in Operations /\ asked \in ARequest \cup {None}
    BY <1>1, <1>2, <1>3
  <2>2. j \in AJob(id) /\ Asks(j, "update", k, caller, n, asked)
    <3> HIDE DEF asked, caller
    <3> QED BY <2>1, CallersJob
  <2> HIDE DEF j
  <2> QED BY <2>2 DEF Asks
<1> HIDE DEF j, asked
<1>5. JobOK(id, "find", j, sessions, known)
  BY <1>1, <1>2, <1>3, <1>4 DEF JobOK, Places, Updating
<1>6. authIds' \in Nat BY <1>1 DEF stores, SInv, StoresOK
<1> QED BY <1>1, <1>5, <1>6, QuietStep DEF stores

LEMMA FindForUpdateStep ==
  ASSUME NEW id, SInv(id), NEW t \in Threads, FindForUpdate(t)
  PROVE  SInv(id)'
<1> DEFINE found == ldap[job[t].name]
           i == [job[t] EXCEPT !.found = found]
           j == [i EXCEPT !.name = job[t].request.name]
<1>1. /\ pc[t] = "find" /\ job[t] \in AJob(id) /\ job[t].name \in Names
      /\ JobOK(id, pc[t], job[t], sessions, known) /\ UNCHANGED stores
  BY Known DEF FindForUpdate, JobOK
<1>2. CASE found = None /\ End(t) BY <1>1, <1>2, EndStep
<1>3. ASSUME NEW to \in {"reregister", "deregister", "existing"}, Step(t, to, j),
             UNCHANGED opened
      PROVE  SInv(id)'
  <2>1. found \in AnAccount(id) \cup {None} BY <1>1, EntryIsGenuine
  <2>2. i \in AJob(id) /\ i.request = job[t].request /\ SameCall(i, job[t])
    BY <1>1, <2>1, FoundJob
  <2>3. job[t].request.name \in Names BY <1>1 DEF JobOK, ARequest
  <2> HIDE DEF i
  <2>4. /\ j \in AJob(id) /\ j.request = i.request /\ j.op = i.op /\ j.key = i.key
        /\ j.caller = i.caller /\ j.name \in Names
    BY <2>2, <2>3, RenamedJob
  <2> HIDE DEF j
  <2>5. JobOK(id, to, j, sessions, known)
    <3> HIDE DEF found
    <3> QED BY <1>1, <1>3, <2>2, <2>4 DEF JobOK, SameCall, Places, Updating
  <2>6. authIds' \in Nat BY <1>1 DEF stores, SInv, StoresOK
  <2> QED BY <1>1, <1>3, <2>5, <2>6, QuietStep DEF stores
<1> QED BY <1>2, <1>3 DEF FindForUpdate

LEMMA ReadExistingStep ==
  ASSUME NEW id, SInv(id), NEW t \in Threads, ReadExisting(t)
  PROVE  SInv(id)'
<1> DEFINE existing == ldap[job[t].name]
           suspends == ~existing.suspended /\ job[t].request.suspended
           merged == Merged(existing, job[t].request)
           j == WithExisting(job[t], merged)
<1>1. /\ pc[t] = "existing" /\ job[t] \in AJob(id) /\ job[t].name \in Names
      /\ job[t].request \in ARequest
      /\ JobOK(id, pc[t], job[t], sessions, known) /\ UNCHANGED stores
  BY Known DEF ReadExisting, JobOK, Updating
<1>2. CASE existing = None /\ End(t) BY <1>1, <1>2, EndStep
<1>3. CASE /\ existing # None /\ UNCHANGED opened
           /\ Step(t, IF suspends THEN "scramble" ELSE "write", j)
  <2>1. /\ existing \in AnAccount(id) /\ Genuine(id, existing) /\ existing.name = job[t].name
    BY <1>1, <1>3, EntryIsGenuine
  <2>2. /\ merged \in AnAccount(id) /\ Genuine(id, merged) /\ merged.name = job[t].name
        /\ merged.suspended = job[t].request.suspended
    <3> HIDE DEF existing
    <3> QED BY <1>1, <2>1, MergedFields DEF Genuine
  <2>3. j \in AJob(id) /\ j.existing = merged /\ SameCall(j, job[t])
    <3> HIDE DEF merged
    <3> QED BY <1>1, <2>2, ExistingJob
  <2>4. existing.suspended => job[t].name \notin known
    BY <1>1, <1>3 DEF SInv, StoresOK
  <2>5. ~suspends /\ merged.suspended => job[t].name \notin known BY <2>2, <2>4
  <2>6. PICK to \in {"scramble", "write"} : Step(t, to, j) /\ (to = "write" => ~suspends)
    BY <1>3
  <2> HIDE DEF j, merged, existing, suspends
  <2>7. JobOK(id, to, j, sessions, known)
    BY <1>1, <2>2, <2>3, <2>5, <2>6 DEF JobOK, SameCall, Places, Updating
  <2>8. authIds' \in Nat BY <1>1 DEF stores, SInv, StoresOK
  <2> QED BY <1>1, <1>3, <2>6, <2>7, <2>8, QuietStep DEF stores
<1> QED BY <1>2, <1>3 DEF ReadExisting, WithExisting

LEMMA ScrambleStep ==
  ASSUME NEW id, SInv(id), NEW t \in Threads, Scramble(t)
  PROVE  SInv(id)'
<1>1. /\ pc[t] = "scramble" /\ JobOK(id, pc[t], job[t], sessions, known)
      /\ Step(t, "write", job[t]) /\ UNCHANGED <<ldap, sessions, authIds, opened>>
      /\ known' = known \ {job[t].name}
  BY Known DEF Scramble
<1>2. JobOK(id, "write", job[t], sessions, known')
  BY <1>1 DEF JobOK, Places, Updating
<1>3. authIds' \in Nat BY <1>1 DEF SInv, StoresOK
<1> QED BY <1>1, <1>2, <1>3, QuietStep

LEMMA LdapFailsStep ==
  ASSUME NEW id, SInv(id), NEW t \in Threads, LdapFails(t)
  PROVE  SInv(id)'
BY EndStep DEF LdapFails

\* The write of an update that suspends an account leaves its sessions to
\* Invalidate; that of a reset spares those an older copy suspends.
LEMMA WriteEntryStep ==
  ASSUME NEW id, SInv(id), NEW t \in Threads, WriteEntry(t)
  PROVE  SInv(id)'
<1> DEFINE n == job[t].name
           written == job[t].existing
           updates == job[t].op = "update"
           j == IF updates THEN WithRequest(job[t], None) ELSE NoJob
           to == IF ~updates THEN "idle" ELSE IF written.suspended THEN "invalidate" ELSE "store"
<1>1. /\ pc[t] = "write" /\ job[t] \in AJob(id) /\ n \in Names
      /\ Genuine(id, written) /\ written.name = n /\ JobOK(id, pc[t], job[t], sessions, known)
      /\ written.suspended => n \notin known
  BY Known DEF WriteEntry, JobOK, Updating
<1>2. /\ ldap[n] # None /\ ldap' = [ldap EXCEPT ![n] = written] /\ Step(t, to, j)
      /\ UNCHANGED <<known, sessions, authIds>>
      /\ opened' = [k \in Keys |->
           IF to = "idle" /\ written.suspended /\ ~ldap[n].suspended
              /\ sessions[k] # None /\ sessions[k].uuid = written.uuid
           THEN "spared" ELSE opened[k]]
  BY <1>1 DEF WriteEntry, WithRequest
<1>3. updates => j \in AJob(id) /\ SameCall(j, job[t]) /\ j.existing = written
  <2>1. None \in ARequest \cup {None} OBVIOUS
  <2> QED BY <1>1, <2>1, RequestJob
<1>4. /\ updates => to \in {"invalidate", "store"} /\ (to = "store" => ~written.suspended)
      /\ ~updates => to = "idle" /\ j = NoJob
  OBVIOUS
<1> HIDE DEF j, to
<1>5. JobOK(id, to, j, sessions, known)
  <2>1. CASE updates
    BY <1>1, <1>3, <1>4, <2>1 DEF JobOK, SameCall, Places, Updating
  <2>2. CASE ~updates BY <1>4, <2>2, IdleIsOK
  <2> QED BY <2>1, <2>2
<1>6. /\ pc'[t] = to /\ job'[t] = j /\ JobsOK(id)'
      /\ \A s \in Threads \ {t} : pc'[s] = pc[s] /\ job'[s] = job[s]
  BY <1>2, <1>5, Moved
<1>7. /\ ldap \in [Names -> AnAccount(id) \cup {None}] /\ written \in AnAccount(id)
      /\ written.uuid = id[n] /\ ldap[n].uuid = id[n]
  BY <1>1, <1>2 DEF SInv, StoresOK, Genuine
<1> HIDE DEF n, written, updates
<1>8. /\ ldap' \in [Names -> AnAccount(id) \cup {None}] /\ ldap'[n] = written
      /\ \A m \in Names \ {n} : ldap'[m] = ldap[m]
  BY <1>1, <1>2, <1>7
<1>9. StoresOK(id)'
  <2>1. \A m \in Names : ldap'[m] # None => ldap'[m].name = m /\ ldap'[m].uuid = id[m]
    <3> SUFFICES ASSUME NEW m \in Names, ldap'[m] # None
                 PROVE  ldap'[m].name = m /\ ldap'[m].uuid = id[m]
      OBVIOUS
    <3>1. CASE m = n BY <1>1, <1>7, <1>8, <3>1
    <3>2. CASE m # n BY <1>8, <3>2 DEF SInv, StoresOK
    <3> QED BY <3>1, <3>2
  <2>2. \A m \in known : m \in Names /\ ldap'[m] # None => ~ldap'[m].suspended
    <3> SUFFICES ASSUME NEW m \in known, m \in Names, ldap'[m] # None
                 PROVE  ~ldap'[m].suspended
      OBVIOUS
    <3>1. CASE m = n BY <1>1, <1>8, <3>1
    <3>2. CASE m # n BY <1>8, <3>2 DEF SInv, StoresOK
    <3> QED BY <3>1, <3>2
  <2> QED BY <1>2, <1>8, <2>1, <2>2 DEF SInv, StoresOK
<1>10. /\ opened' \in [Keys -> {"clear", "spared", "late"}]
       /\ \A l \in Keys : opened'[l] \in {opened[l], "spared"}
  BY <1>2 DEF SInv, OpenedOK
<1>11. SuspensionEndsSessions'
  <2> SUFFICES ASSUME NEW l \in Keys, sessions[l] # None, NEW m \in Names,
                      ldap'[m] # None, ldap'[m].suspended, ldap'[m].uuid = sessions[l].uuid
               PROVE  \/ opened'[l] = "spared"
                      \/ \E s \in Threads :
                           pc'[s] = "invalidate" /\ job'[s].existing.uuid = sessions[l].uuid
    BY <1>2 DEF SuspensionEndsSessions, SuspendedSessions
  <2>1. CASE m = n /\ updates
    <3>1. written.suspended /\ written.uuid = sessions[l].uuid BY <1>8, <2>1
    <3> QED BY <1>3, <1>4, <1>6, <2>1, <3>1
  <2>2. CASE m = n /\ ~updates /\ ~ldap[n].suspended
    <3>1. written.suspended /\ written.uuid = sessions[l].uuid BY <1>8, <2>2
    <3> QED BY <1>2, <1>4, <2>2, <3>1
  <2>3. CASE m # n \/ ldap[n].suspended
    <3>1. ldap[m] # None /\ ldap[m].suspended /\ ldap[m].uuid = sessions[l].uuid
      <4>1. CASE m # n BY <1>8, <4>1
      <4>2. CASE m = n BY <1>2, <1>7, <1>8, <2>3, <4>2
      <4> QED BY <4>1, <4>2
    <3>2. \/ opened[l] = "spared"
          \/ \E s \in Threads : pc[s] = "invalidate" /\ job[s].existing.uuid = sessions[l].uuid
      BY <3>1 DEF SInv, OpenedOK, SuspensionEndsSessions, SuspendedSessions
    <3>3. opened[l] = "spared" => opened'[l] = "spared" BY <1>10
    <3> QED BY <1>1, <1>6, <3>2, <3>3
  <2> QED BY <2>1, <2>2, <2>3
<1>12. NoLateLogin' BY <1>10 DEF SInv, OpenedOK, NoLateLogin
<1> QED BY <1>6, <1>9, <1>10, <1>11, <1>12 DEF SInv, OpenedOK

\* ... and Invalidate ends those that are left.
LEMMA InvalidateStep ==
  ASSUME NEW id, SInv(id), NEW t \in Threads, Invalidate(t)
  PROVE  SInv(id)'
<1> DEFINE u == job[t].existing.uuid
           Kept == {k \in Keys : ~(sessions[k] # None /\ sessions[k].uuid = u)}
<1>1. /\ Step(t, "idle", NoJob) /\ ldap' = ldap /\ known' = known /\ authIds' = authIds
      /\ sessions' = [k \in Keys |-> IF sessions[k] # None /\ sessions[k].uuid = u
                                     THEN None ELSE sessions[k]]
      /\ opened' = [k \in Keys |-> IF sessions'[k] = None THEN "clear" ELSE opened[k]]
  BY DEF Invalidate
<1>2. /\ sessions \in [Keys -> AnAccount(id) \cup {None}]
      /\ opened \in [Keys -> {"clear", "spared", "late"}]
  BY DEF SInv, StoresOK, OpenedOK
<1> HIDE DEF u
<1>3. /\ sessions' \in [Keys -> AnAccount(id) \cup {None}]
      /\ \A k \in Keys : sessions'[k] # None => k \in Kept /\ sessions'[k] = sessions[k]
  BY <1>1, <1>2
<1>4. /\ opened' \in [Keys -> {"clear", "spared", "late"}]
      /\ \A k \in Keys : opened'[k] = opened[k] \/ (opened'[k] = "clear" /\ sessions'[k] = None)
  BY <1>1, <1>2
<1>5. JobsOK(id)' /\ \A s \in Threads \ {t} : pc'[s] = pc[s] /\ job'[s] = job[s]
  <2>1. JobOK(id, "idle", NoJob, sessions', known') BY IdleIsOK
  <2>2. \A s \in Threads \ {t} : job[s].key \in Keys /\ sessions'[job[s].key] # None =>
          /\ sessions[job[s].key] # None
          /\ sessions'[job[s].key].uuid = sessions[job[s].key].uuid
    BY <1>3
  <2> QED BY <1>1, <2>1, <2>2, Moved
<1>6. \A s \in Threads : pc[s] = "invalidate" =>
        \/ pc'[s] = pc[s] /\ job'[s] = job[s]
        \/ \A k \in Kept : sessions[k] # None => sessions[k].uuid # job[s].existing.uuid
  BY <1>5 DEF u
<1>7. Kept \in SUBSET Keys OBVIOUS
<1> HIDE DEF Kept
<1> QED BY <1>1, <1>3, <1>4, <1>5, <1>6, <1>7, SessionsEnd

\* The session written back is one of the same account.
LEMMA StoreStep ==
  ASSUME NEW id, SInv(id), NEW t \in Threads, Store(t)
  PROVE  SInv(id)'
<1> DEFINE k == job[t].key
           caller == job[t].caller
<1>1. /\ pc[t] = "store" /\ k \in Keys /\ Genuine(id, caller)
      /\ sessions[k] # None => sessions[k].uuid = caller.uuid
  BY Known DEF Store, JobOK, Updating
<1>2. /\ sessions' = IF sessions[k] = None THEN sessions
                     ELSE [sessions EXCEPT ![k] = caller]
      /\ Step(t, "idle", NoJob)
      /\ ldap' = ldap /\ known' = known /\ authIds' = authIds /\ opened' = opened
  BY DEF Store
<1>3. sessions \in [Keys -> AnAccount(id) \cup {None}] /\ caller \in AnAccount(id)
  BY <1>1 DEF SInv, StoresOK, Genuine
<1> HIDE DEF k, caller
<1>4. /\ sessions' \in [Keys -> AnAccount(id) \cup {None}]
      /\ \A l \in Keys : sessions'[l] # None =>
           /\ sessions[l] # None /\ sessions'[l].uuid = sessions[l].uuid
           /\ sessions'[l] \in {sessions[l], caller}
  BY <1>1, <1>2, <1>3
<1>5. JobsOK(id)' /\ \A s \in Threads \ {t} : pc'[s] = pc[s] /\ job'[s] = job[s]
  <2>1. JobOK(id, "idle", NoJob, sessions', known') BY IdleIsOK
  <2> QED BY <1>2, <1>4, <2>1, Moved
<1>6. StoresOK(id)'
  <2>1. \A l \in Keys : sessions'[l] # None => Genuine(id, sessions'[l])
    <3> SUFFICES ASSUME NEW l \in Keys, sessions'[l] # None PROVE Genuine(id, sessions'[l])
      OBVIOUS
    <3>1. CASE sessions'[l] = sessions[l] BY <3>1 DEF SInv, StoresOK
    <3>2. CASE sessions'[l] = caller BY <1>1, <3>2
    <3> QED BY <1>4, <3>1, <3>2
  <2> QED BY <1>2, <1>4, <2>1 DEF SInv, StoresOK
<1>7. SuspensionEndsSessions'
  <2> SUFFICES ASSUME NEW l \in Keys, sessions'[l] # None, NEW n \in Names,
                      ldap[n] # None, ldap[n].suspended, ldap[n].uuid = sessions'[l].uuid
               PROVE  \/ opened[l] = "spared"
                      \/ \E s \in Threads :
                           pc'[s] = "invalidate" /\ job'[s].existing.uuid = sessions'[l].uuid
    BY <1>2 DEF SuspensionEndsSessions, SuspendedSessions
  <2>1. \/ opened[l] = "spared"
        \/ \E s \in Threads : pc[s] = "invalidate" /\ job[s].existing.uuid = sessions[l].uuid
    BY <1>4 DEF SInv, OpenedOK, SuspensionEndsSessions, SuspendedSessions
  <2> QED BY <1>1, <1>4, <1>5, <2>1
<1>8. NoLateLogin' /\ opened' \in [Keys -> {"clear", "spared", "late"}]
  BY <1>2 DEF SInv, OpenedOK, NoLateLogin
<1> QED BY <1>5, <1>6, <1>7, <1>8 DEF SInv, OpenedOK

-----------------------------------------------------------------------------
(* AccountsResource.changePassword.                                        *)

WithTarget(j, a) == [j EXCEPT !.request = AsRequest(a), !.late = a.suspended]

LEMMA TargetJob ==
  ASSUME NEW id, NEW j \in AJob(id), NEW a \in AnAccount(id)
  PROVE  /\ WithTarget(j, a) \in AJob(id) /\ WithTarget(j, a).request = AsRequest(a)
         /\ AsRequest(a) \in ARequest
         /\ WithTarget(j, a).op = j.op /\ WithTarget(j, a).name = j.name
<1> DEFINE O == Operations \cup {None}
           K == Keys \cup {None}
           A == AnAccount(id) \cup {None}
           N == Names \cup {None}
           R == ARequest \cup {None}
           q == AsRequest(a)
<1>1. q \in ARequest BY DEF AsRequest, ARequest, AnAccount
<1>2. /\ AJob(id) = [op : O, key : K, caller : A, name : N, request : R, found : A,
                     existing : A, late : BOOLEAN]
      /\ q \in R /\ a.suspended \in BOOLEAN
  BY <1>1 DEF AJob, AnAccount
<1> HIDE DEF O, K, A, N, R, q
<1> DEFINE v == [j EXCEPT !.request = q]
           w == [v EXCEPT !.late = a.suspended]
<1>3. v \in AJob(id) /\ v.request = q /\ v.op = j.op /\ v.name = j.name BY <1>2
<1>4. WithTarget(j, a) = w BY DEF WithTarget, q
<1> HIDE DEF v
<1>5. w \in AJob(id) /\ w.request = q /\ w.op = j.op /\ w.name = j.name BY <1>2, <1>3
<1> HIDE DEF w
<1> QED BY <1>1, <1>4, <1>5 DEF q

LEMMA SubmitResetStep ==
  ASSUME NEW id, SInv(id), NEW t \in Threads, NEW k \in Keys, NEW n \in Names,
         SubmitReset(t, k, n)
  PROVE  SInv(id)'
<1> DEFINE j == BareJob("reset", k, sessions[k], n)
<1>1. /\ pc[t] = "idle" /\ "reset" \in Operations /\ sessions[k] # None
      /\ UNCHANGED <<stores, opened>> /\ Step(t, "target", j)
  BY DEF SubmitReset, BareJob
<1>2. sessions[k] \in AnAccount(id) /\ None \in ARequest \cup {None}
  BY <1>1 DEF SInv, StoresOK, Genuine
<1>3. j \in AJob(id) /\ j.name = n
  <2>1. j \in AJob(id) BY <1>1, <1>2, CallersJob, Zenon
  <2>2. Named(j, n) BY <1>1, <1>2, CallersJob, Zenon
  <2> HIDE DEF j
  <2> QED BY <2>1, <2>2 DEF Named
<1>4. j.op = "reset" BY DEF BareJob, NoJob
<1> HIDE DEF j
<1>5. JobOK(id, "target", j, sessions, known) BY <1>3, <1>4 DEF JobOK, Places, Updating
<1>6. authIds' \in Nat BY <1>1 DEF stores, SInv, StoresOK
<1> QED BY <1>1, <1>5, <1>6, QuietStep DEF stores

LEMMA FindTargetStep ==
  ASSUME NEW id, SInv(id), NEW t \in Threads, FindTarget(t)
  PROVE  SInv(id)'
<1> DEFINE target == ldap[job[t].name]
           j == WithTarget(job[t], target)
<1>1. /\ pc[t] = "target" /\ job[t] \in AJob(id) /\ job[t].name \in Names
      /\ JobOK(id, pc[t], job[t], sessions, known) /\ UNCHANGED stores
  BY Known DEF FindTarget, JobOK
<1>2. CASE target = None /\ End(t) BY <1>1, <1>2, EndStep
<1>3. CASE target # None /\ Step(t, "password", j) /\ UNCHANGED opened
  <2>1. target \in AnAccount(id) BY <1>1, <1>3, EntryIsGenuine
  <2>2. j \in AJob(id) /\ j.op = job[t].op /\ j.name = job[t].name /\ j.request \in ARequest
    <3> HIDE DEF target
    <3> QED BY <1>1, <2>1, TargetJob
  <2> HIDE DEF j
  <2>3. JobOK(id, "password", j, sessions, known)
    <3> HIDE DEF target
    <3> QED BY <1>1, <2>2 DEF JobOK, Places, Updating
  <2>4. authIds' \in Nat BY <1>1 DEF stores, SInv, StoresOK
  <2> QED BY <1>1, <1>3, <2>3, <2>4, QuietStep DEF stores
<1> QED BY <1>1, <1>2, <1>3 DEF FindTarget, WithTarget

LEMMA SetPasswordStep ==
  ASSUME NEW id, SInv(id), NEW t \in Threads, SetPassword(t)
  PROVE  SInv(id)'
<1>1. /\ pc[t] = "password" /\ JobOK(id, pc[t], job[t], sessions, known)
      /\ Step(t, "existing", job[t]) /\ UNCHANGED <<ldap, sessions, authIds, opened>>
      /\ known' \subseteq known
  BY Known DEF SetPassword
<1>2. JobOK(id, "existing", job[t], sessions, known')
  BY <1>1 DEF JobOK, Places, Updating
<1>3. authIds' \in Nat BY <1>1 DEF SInv, StoresOK
<1> QED BY <1>1, <1>2, <1>3, QuietStep

-----------------------------------------------------------------------------
(* AccountsResource.delete.                                                *)

LEMMA SubmitDeleteStep ==
  ASSUME NEW id, SInv(id), NEW t \in Threads, NEW k \in Keys, NEW n \in Names,
         SubmitDelete(t, k, n)
  PROVE  SInv(id)'
<1> DEFINE j == BareJob("delete", k, sessions[k], n)
<1>1. /\ pc[t] = "idle" /\ "delete" \in Operations /\ sessions[k] # None
      /\ UNCHANGED <<stores, opened>> /\ Step(t, "findDelete", j)
  BY DEF SubmitDelete, BareJob
<1>2. sessions[k] \in AnAccount(id) /\ None \in ARequest \cup {None}
  BY <1>1 DEF SInv, StoresOK, Genuine
<1>3. j \in AJob(id) /\ j.name = n /\ j.late = FALSE
  <2>1. j \in AJob(id) BY <1>1, <1>2, CallersJob, Zenon
  <2>2. Named(j, n) BY <1>1, <1>2, CallersJob, Zenon
  <2> HIDE DEF j
  <2> QED BY <2>1, <2>2 DEF Named
<1> HIDE DEF j
<1>4. JobOK(id, "findDelete", j, sessions, known) BY <1>3 DEF JobOK, Places, Updating
<1>5. authIds' \in Nat BY <1>1 DEF stores, SInv, StoresOK
<1> QED BY <1>1, <1>4, <1>5, QuietStep DEF stores

LEMMA FindToDeleteStep ==
  ASSUME NEW id, SInv(id), NEW t \in Threads, FindToDelete(t)
  PROVE  SInv(id)'
<1> DEFINE found == ldap[job[t].name]
           j == [job[t] EXCEPT !.found = found]
<1>1. /\ pc[t] = "findDelete" /\ job[t] \in AJob(id) /\ job[t].name \in Names
      /\ UNCHANGED <<stores, opened>>
  BY Known DEF FindToDelete, JobOK
<1>2. PICK to \in {"unregister", "remove"} : Step(t, to, j) BY DEF FindToDelete
<1>3. found \in AnAccount(id) \cup {None} BY <1>1, EntryIsGenuine
<1>4. j \in AJob(id) /\ SameCall(j, job[t]) BY <1>1, <1>3, FoundJob
<1> HIDE DEF j
<1>5. JobOK(id, to, j, sessions, known) BY <1>1, <1>2, <1>4 DEF JobOK, SameCall, Places, Updating
<1>6. authIds' \in Nat BY <1>1 DEF stores, SInv, StoresOK
<1> QED BY <1>1, <1>2, <1>5, <1>6, QuietStep DEF stores

\* An entry that has gone is not one of a suspended account.
LEMMA RemoveEntryStep ==
  ASSUME NEW id, SInv(id), NEW t \in Threads, RemoveEntry(t)
  PROVE  SInv(id)'
<1>1. /\ pc[t] = "remove" /\ Step(t, "idle", NoJob) /\ job[t].name \in Names
      /\ ldap' = [ldap EXCEPT ![job[t].name] = None]
      /\ known' = known /\ sessions' = sessions /\ authIds' = authIds /\ opened' = opened
  BY Known DEF RemoveEntry, End, JobOK
<1>2. ldap \in [Names -> AnAccount(id) \cup {None}] BY DEF SInv, StoresOK
<1>3. /\ ldap' \in [Names -> AnAccount(id) \cup {None}]
      /\ \A n \in Names : ldap'[n] # None => ldap'[n] = ldap[n] /\ ldap[n] # None
  BY <1>1, <1>2
<1>4. JobsOK(id)' /\ \A s \in Threads \ {t} : pc'[s] = pc[s] /\ job'[s] = job[s]
  <2>1. JobOK(id, "idle", NoJob, sessions', known') BY IdleIsOK
  <2> QED BY <1>1, <2>1, Moved
<1>5. StoresOK(id)' BY <1>1, <1>3 DEF SInv, StoresOK
<1>6. SuspensionEndsSessions'
  <2> SUFFICES ASSUME NEW l \in Keys, sessions[l] # None, NEW n \in Names,
                      ldap'[n] # None, ldap'[n].suspended, ldap'[n].uuid = sessions[l].uuid
               PROVE  \/ opened[l] = "spared"
                      \/ \E s \in Threads :
                           pc'[s] = "invalidate" /\ job'[s].existing.uuid = sessions[l].uuid
    BY <1>1 DEF SuspensionEndsSessions, SuspendedSessions
  <2>1. ldap[n] # None /\ ldap[n].suspended /\ ldap[n].uuid = sessions[l].uuid BY <1>3
  <2>2. \/ opened[l] = "spared"
        \/ \E s \in Threads : pc[s] = "invalidate" /\ job[s].existing.uuid = sessions[l].uuid
    BY <2>1 DEF SInv, OpenedOK, SuspensionEndsSessions, SuspendedSessions
  <2> QED BY <1>1, <1>4, <2>2
<1>7. NoLateLogin' /\ opened' \in [Keys -> {"clear", "spared", "late"}]
  BY <1>1 DEF SInv, OpenedOK, NoLateLogin
<1> QED BY <1>4, <1>5, <1>6, <1>7 DEF SInv, OpenedOK

-----------------------------------------------------------------------------
(* The invariant holds to begin with, and every step preserves it.         *)

LEMMA InitOK ==
  ASSUME Init PROVE IInv
<1>1. PICK uuid \in [Names -> 1 .. Cardinality(Names)], p \in Phones :
        /\ \A m, n \in Names : m # n => uuid[m] # uuid[n]
        /\ ldap = [n \in Names |-> InitialAccount(n, uuid[n], p)]
  BY DEF Init
<1>2. /\ known = Names /\ sessions = [k \in Keys |-> None] /\ authIds = 0
      /\ pc = [t \in Threads |-> "idle"] /\ job = [t \in Threads |-> NoJob]
      /\ opened = [k \in Keys |-> "clear"]
  BY DEF Init
<1>3. \A n \in Names : /\ InitialAccount(n, uuid[n], p) \in AnAccount(uuid)
                       /\ InitialAccount(n, uuid[n], p).name = n
                       /\ InitialAccount(n, uuid[n], p).uuid = uuid[n]
                       /\ ~InitialAccount(n, uuid[n], p).suspended
  BY DEF InitialAccount, AnAccount
<1>4. /\ ldap \in [Names -> AnAccount(uuid) \cup {None}]
      /\ \A n \in Names : ldap[n].name = n /\ ldap[n].uuid = uuid[n] /\ ~ldap[n].suspended
  BY <1>1, <1>3
<1>5. StoresOK(uuid) BY <1>1, <1>2, <1>4 DEF StoresOK
<1>6. JobsOK(uuid)
  <2>1. JobOK(uuid, "idle", NoJob, sessions, known) BY IdleIsOK
  <2>2. NoJob \in AJob(uuid) /\ "idle" \in Places BY <2>1 DEF JobOK
  <2> QED BY <1>2, <2>1, <2>2 DEF JobsOK
<1>7. OpenedOK
  BY <1>2 DEF OpenedOK, NoLateLogin, SuspensionEndsSessions, SuspendedSessions
<1> QED BY <1>5, <1>6, <1>7 DEF IInv, SInv

\* The steps of creating an account are not taken.
LEMMA OnlySuspending ==
  ASSUME Operations \subseteq Suspending, NEW id, SInv(id), NEW t \in Threads
  PROVE  /\ ~Register(t) /\ ~CreateEntry(t) /\ ~CreateFails(t)
         /\ \A k, r : ~SubmitCreate(t, k, r)
<1>1. pc[t] \in Places BY Known
<1>2. pc[t] \notin {"register", "create"} BY <1>1 DEF Places, Updating
<1>3. "create" \notin Operations BY DEF Suspending
<1>4. ~Register(t) /\ ~CreateEntry(t) /\ ~CreateFails(t)
  BY <1>2 DEF Register, AddRegistration, CreateEntry, CreateFails
<1>5. \A k, r : ~SubmitCreate(t, k, r) BY <1>3 DEF SubmitCreate
<1> QED BY <1>4, <1>5

LEMMA NextOK ==
  ASSUME Operations \subseteq Suspending, IInv, [Next]_vars PROVE IInv'
<1>1. PICK id : SInv(id) BY DEF IInv
<1> SUFFICES SInv(id)' BY DEF IInv
<1>2. ASSUME NEW t \in Threads, NEW n \in Names, Bind(t, n) PROVE SInv(id)'
  BY <1>1, <1>2, BindStep
<1>3. ASSUME NEW t \in Threads, NEW k \in Keys, NEW n \in Names, NEW r \in Requests,
             SubmitUpdate(t, k, n, r)
      PROVE  SInv(id)'
  BY <1>1, <1>3, SubmitUpdateStep
<1>4. ASSUME NEW t \in Threads, NEW k \in Keys, NEW n \in Names,
             SubmitReset(t, k, n) \/ SubmitDelete(t, k, n)
      PROVE  SInv(id)'
  BY <1>1, <1>4, SubmitResetStep, SubmitDeleteStep
<1>5. ASSUME NEW t \in Threads, LookUp(t) \/ OpenSession(t) PROVE SInv(id)'
  BY <1>1, <1>5, LookUpStep, OpenSessionStep
<1>6. ASSUME NEW t \in Threads,
             FindForUpdate(t) \/ Deregister(t) \/ Reregister(t) \/ ProviderFails(t)
      PROVE  SInv(id)'
  BY <1>1, <1>6, FindForUpdateStep, DeregisterStep, ReregisterStep, ProviderFailsStep
<1>7. ASSUME NEW t \in Threads,
             ReadExisting(t) \/ Scramble(t) \/ WriteEntry(t) \/ LdapFails(t)
      PROVE  SInv(id)'
  BY <1>1, <1>7, ReadExistingStep, ScrambleStep, WriteEntryStep, LdapFailsStep
<1>8. ASSUME NEW t \in Threads, Invalidate(t) \/ Store(t) PROVE SInv(id)'
  BY <1>1, <1>8, InvalidateStep, StoreStep
<1>9. ASSUME NEW t \in Threads,
             \/ FindTarget(t) \/ SetPassword(t)
             \/ FindToDelete(t) \/ Unregister(t) \/ RemoveEntry(t)
      PROVE  SInv(id)'
  BY <1>1, <1>9, FindTargetStep, SetPasswordStep, FindToDeleteStep, DeregisterStep,
     RemoveEntryStep
<1>10. ASSUME NEW k \in Keys, EndSession(k) PROVE SInv(id)'
  BY <1>1, <1>10, EndSessionStep
<1>11. CASE UNCHANGED vars
  <2>1. /\ UNCHANGED <<ldap, known, sessions, authIds, opened>> /\ pc' = pc /\ job' = job
    BY <1>11 DEF vars, stores
  <2>2. StoresOK(id)' BY <1>1, <2>1 DEF SInv, StoresOK
  <2>3. JobsOK(id)' BY <1>1, <2>1 DEF SInv, JobsOK
  <2>4. OpenedOK' BY <1>1, <2>1 DEF SInv, OpenedOK, NoLateLogin, SuspensionEndsSessions, SuspendedSessions
  <2> QED BY <2>2, <2>3, <2>4 DEF SInv
<1> QED BY <1>1, <1>2, <1>3, <1>4, <1>5, <1>6, <1>7, <1>8, <1>9, <1>10, <1>11, OnlySuspending
        DEF Next

\* While nobody creates accounts, a login with the owner's own password whose
\* bind comes after the suspension was written opens no session, however many
\* threads serve requests: AccountDAO.update replaces the password before it
\* writes the entry, and only an administrator gives the owner a new one.
THEOREM SuspendedStaysOut ==
  ASSUME Operations \subseteq Suspending
  PROVE  Spec => []NoLateLogin
<1>1. Init => IInv BY InitOK
<1>2. IInv /\ [Next]_vars => IInv' BY NextOK
<1>3. IInv => NoLateLogin BY DEF IInv, SInv, OpenedOK
<1> QED BY <1>1, <1>2, <1>3, PTL DEF Spec

\* ... and once AccountsResource.update has invalidated the sessions of the
\* account it suspended, the account has no session but those of logins that
\* read the entry before it was written or used a password an administrator set,
\* and those it had when an older copy was written back.
THEOREM SuspensionIsFinal ==
  ASSUME Operations \subseteq Suspending
  PROVE  Spec => []SuspensionEndsSessions
<1>1. Init => IInv BY InitOK
<1>2. IInv /\ [Next]_vars => IInv' BY NextOK
<1>3. IInv => SuspensionEndsSessions BY DEF IInv, SInv, OpenedOK
<1> QED BY <1>1, <1>2, <1>3, PTL DEF Spec

-----------------------------------------------------------------------------
(* The type invariant, for any operations.  An id handed out must be within *)
(* the bound, so each request under way that may still take one has to have *)
(* its place: Rooms.                                                        *)

HasRequest == {"register", "create", "find", "deregister", "reregister", "existing",
                "password"}
HasCopy    == {"scramble", "write", "invalidate", "store"}
HasFound   == {"open", "deregister", "reregister", "unregister"}
AllPlaces   == {"idle", "lookup", "target", "findDelete", "remove"}
                 \cup HasRequest \cup HasCopy \cup HasFound
Creating    == {"register", "create"}
Registering == {"register", "find", "deregister", "reregister"}

\* A thread at p with the job j.
JobTyped(p, j) ==
  /\ p \in AllPlaces /\ j \in Job
  /\ p = "idle" => j = NoJob
  /\ p # "idle" => j.op \in Operations /\ j.name \in Names
  /\ p \in HasRequest => j.request \in Request
  /\ p \in HasCopy => j.existing \in Account /\ j.existing.name = j.name
  /\ p \in HasFound => j.found \in Account

EntriesTyped ==
  /\ ldap \in [Names -> Account \cup {None}]
  /\ \A n \in Names : ldap[n] # None => ldap[n].name = n
StoresTyped ==
  /\ EntriesTyped
  /\ known \subseteq Names /\ given \subseteq Names
  /\ sessions \in [Keys -> Account \cup {None}]
  /\ provider \in [AuthIds -> Phones \cup {None}]
  /\ opened \in [Keys -> {"clear", "spared", "late"}]
JobsTyped ==
  /\ pc \in [Threads -> AllPlaces] /\ job \in [Threads -> Job]
  /\ \A t \in Threads : JobTyped(pc[t], job[t])

\* The threads that are at one of the places P, when each is at q[t].
At(q, P) == {t \in Threads : q[t] \in P}
Fits(count, q, P, max) == count \in Nat /\ count + Cardinality(At(q, P)) <= max
Rooms == Fits(uuids, pc, Creating, MaxUuid) /\ Fits(authIds, pc, Registering, MaxAuthId)

Typed == StoresTyped /\ JobsTyped /\ Rooms

-----------------------------------------------------------------------------
(* Counting the threads.                                                   *)

LEMMA AtIsCounted ==
  ASSUME NEW q, NEW P
  PROVE  IsFiniteSet(At(q, P)) /\ Cardinality(At(q, P)) \in Nat
<1>1. At(q, P) \subseteq Threads BY DEF At
<1>2. IsFiniteSet(At(q, P)) BY <1>1, NamesAssumption, FS_Subset
<1> QED BY <1>2, FS_CardinalityType

\* A step that takes no place, or one it has and uses.
LEMMA RoomKept ==
  ASSUME NEW q \in [Threads -> AllPlaces], NEW t \in Threads, NEW to, NEW P,
         NEW max \in Nat, NEW count, NEW later, Fits(count, q, P, max),
         \/ later = count /\ (to \in P => q[t] \in P)
         \/ later = count + 1 /\ q[t] \in P /\ to \notin P
  PROVE  Fits(later, [q EXCEPT ![t] = to], P, max)
<1> DEFINE S == At(q, P)
           T == At([q EXCEPT ![t] = to], P)
<1>1. IsFiniteSet(S) /\ Cardinality(S) \in Nat BY AtIsCounted
<1>2. count \in Nat /\ count + Cardinality(S) <= max BY DEF Fits
<1>3. T = IF to \in P THEN S \cup {t} ELSE S \ {t} BY DEF At
<1>4. t \in S <=> q[t] \in P BY DEF At
<1> SUFFICES later \in Nat /\ later + Cardinality(T) <= max BY DEF Fits
<1> HIDE DEF S, T
<1>5. CASE later = count /\ to \notin P
  <2>1. T \subseteq S BY <1>3, <1>5
  <2>2. Cardinality(T) \in Nat /\ Cardinality(T) <= Cardinality(S)
    BY <1>1, <2>1, FS_Subset, FS_CardinalityType
  <2> QED BY <1>1, <1>2, <1>5, <2>2
<1>6. CASE later = count /\ to \in P
  <2>1. T = S BY <1>3, <1>4, <1>6
  <2> QED BY <1>1, <1>2, <1>6, <2>1
<1>7. CASE later = count + 1 /\ q[t] \in P /\ to \notin P
  <2>1. T = S \ {t} /\ t \in S BY <1>3, <1>4, <1>7
  <2>2. Cardinality(T) = Cardinality(S) - 1 BY <1>1, <2>1, FS_RemoveElement
  <2>3. Cardinality(T) \in Nat BY <1>1, <2>1, FS_Subset, FS_CardinalityType
  <2> QED BY <1>1, <1>2, <1>7, <2>2, <2>3
<1> QED BY <1>5, <1>6, <1>7

\* A request that takes a place, when there is room for it.
LEMMA RoomTaken ==
  ASSUME pc \in [Threads -> AllPlaces], NEW t \in Threads, pc[t] = "idle", NEW to, NEW P,
         "idle" \notin P, NEW max \in Nat, NEW count \in Nat, RoomFor(count, max)
  PROVE  Fits(count, [pc EXCEPT ![t] = to], P, max)
<1> DEFINE busy == {s \in Threads : pc[s] # "idle"}
           T == At([pc EXCEPT ![t] = to], P)
<1>1. count + Cardinality(busy) < max BY DEF RoomFor
<1>2. T \subseteq busy \cup {t}
  BY DEF At
<1>3. IsFiniteSet(busy) /\ Cardinality(busy) \in Nat
  BY NamesAssumption, FS_Subset, FS_CardinalityType
<1>4. t \notin busy OBVIOUS
<1> SUFFICES count + Cardinality(T) <= max BY DEF Fits
<1> HIDE DEF busy, T
<1>5. IsFiniteSet(busy \cup {t}) /\ Cardinality(busy \cup {t}) = Cardinality(busy) + 1
  BY <1>3, <1>4, FS_AddElement
<1>6. Cardinality(T) \in Nat /\ Cardinality(T) <= Cardinality(busy \cup {t})
  BY <1>2, <1>5, FS_Subset, FS_CardinalityType
<1> QED BY <1>1, <1>3, <1>5, <1>6

-----------------------------------------------------------------------------
(* One thread moves on.                                                    *)

LEMMA JobIsTyped ==
  ASSUME Typed, NEW t \in Threads
  PROVE  /\ pc[t] \in AllPlaces /\ job[t] \in Job /\ JobTyped(pc[t], job[t])
         /\ pc \in [Threads -> AllPlaces]
BY DEF Typed, JobsTyped, JobTyped

LEMMA NoJobIsTyped == NoJob \in Job /\ JobTyped("idle", NoJob)
BY DEF JobTyped, NoJob, Job, AllPlaces, HasRequest, HasCopy, HasFound

LEMMA MoveTyped ==
  ASSUME Typed, NEW t \in Threads, NEW to, NEW j, Step(t, to, j), JobTyped(to, j),
         StoresTyped', Rooms'
  PROVE  Typed'
<1>1. /\ pc' = [pc EXCEPT ![t] = to] /\ job' = [job EXCEPT ![t] = j]
      /\ to \in AllPlaces /\ j \in Job
  BY DEF Step, JobTyped
<1>2. pc \in [Threads -> AllPlaces] /\ job \in [Threads -> Job] BY DEF Typed, JobsTyped
<1>3. \A s \in Threads : JobTyped(pc'[s], job'[s])
  <2> SUFFICES ASSUME NEW s \in Threads PROVE JobTyped(pc'[s], job'[s]) OBVIOUS
  <2>1. CASE s = t BY <1>1, <1>2, <2>1
  <2>2. CASE s # t
    <3>1. pc'[s] = pc[s] /\ job'[s] = job[s] BY <1>1, <1>2, <2>2
    <3> QED BY <3>1 DEF Typed, JobsTyped
  <2> QED BY <2>1, <2>2
<1> QED BY <1>1, <1>2, <1>3 DEF Typed, JobsTyped

\* ... and hands out no id, nor asks for one.
LEMMA QuietTyped ==
  ASSUME Typed, NEW t \in Threads, NEW to, NEW j, Step(t, to, j), JobTyped(to, j),
         StoresTyped', uuids' = uuids, authIds' = authIds,
         to \in Creating => pc[t] \in Creating,
         to \in Registering => pc[t] \in Registering
  PROVE  Typed'
<1>1. pc' = [pc EXCEPT ![t] = to] /\ pc \in [Threads -> AllPlaces]
  BY JobIsTyped DEF Step
<1>2. MaxUuid \in Nat /\ MaxAuthId \in Nat BY NamesAssumption
<1>3. Fits(uuids, pc, Creating, MaxUuid) /\ Fits(authIds, pc, Registering, MaxAuthId)
  BY DEF Typed, Rooms
<1>4. Fits(uuids, [pc EXCEPT ![t] = to], Creating, MaxUuid) BY <1>1, <1>2, <1>3, RoomKept
<1>5. Fits(authIds, [pc EXCEPT ![t] = to], Registering, MaxAuthId)
  BY <1>1, <1>2, <1>3, RoomKept
<1>6. Rooms' BY <1>1, <1>4, <1>5 DEF Rooms
<1> QED BY <1>6, MoveTyped

LEMMA SameStores ==
  ASSUME StoresTyped, UNCHANGED <<ldap, known, given, sessions, provider, opened>>
  PROVE  StoresTyped'
BY DEF StoresTyped, EntriesTyped

LEMMA OverTyped ==
  ASSUME Typed, NEW t \in Threads, Step(t, "idle", NoJob), StoresTyped',
         uuids' = uuids, authIds' = authIds
  PROVE  Typed'
BY NoJobIsTyped, QuietTyped DEF Creating, Registering

LEMMA EndTyped ==
  ASSUME Typed, NEW t \in Threads, End(t), UNCHANGED stores
  PROVE  Typed'
BY SameStores, OverTyped DEF End, stores, Typed

-----------------------------------------------------------------------------
(* Logins and sessions.                                                    *)

LEMMA BindTyped ==
  ASSUME Typed, NEW t \in Threads, NEW n \in Names, Bind(t, n)
  PROVE  Typed'
<1> DEFINE j == [NoJob EXCEPT !.op = "login", !.name = n,
                              !.late = n \in known /\ ldap[n].suspended]
<1>1. /\ Step(t, "lookup", j) /\ UNCHANGED <<stores, opened>>
      /\ "login" \in Operations /\ ldap[n] # None
  BY DEF Bind
<1>2. ldap[n] \in Account BY <1>1 DEF Typed, StoresTyped, EntriesTyped
<1>3. (n \in known /\ ldap[n].suspended) \in BOOLEAN BY <1>2 DEF Account
<1>4. j \in Job /\ j.op = "login" /\ j.name = n BY <1>1, <1>3 DEF NoJob, Job
<1> HIDE DEF j
<1>5. JobTyped("lookup", j)
  BY <1>1, <1>4 DEF JobTyped, AllPlaces, HasRequest, HasCopy, HasFound
<1>6. StoresTyped' BY <1>1, SameStores DEF stores, Typed
<1> QED BY <1>1, <1>5, <1>6, QuietTyped DEF stores, Creating, Registering

\* The job with the account found added to it.
LEMMA FoundTyped ==
  ASSUME NEW j \in Job, NEW found \in Account \cup {None}
  PROVE  LET k == [j EXCEPT !.found = found] IN
         /\ k \in Job /\ k.op = j.op /\ k.name = j.name /\ k.request = j.request
         /\ k.found = found
BY DEF Job

\* ... and the account of the body named.
Renamed(j, found, n) == [j EXCEPT !.found = found, !.name = n]

LEMMA RenamedTyped ==
  ASSUME NEW j \in Job, NEW found \in Account \cup {None}, NEW n \in Names
  PROVE  LET k == Renamed(j, found, n) IN
         k \in Job /\ k.op = j.op /\ k.name = n /\ k.request = j.request /\ k.found = found
BY DEF Job, Renamed

LEMMA LookUpTyped ==
  ASSUME Typed, NEW t \in Threads, LookUp(t)
  PROVE  Typed'
<1> DEFINE found == ldap[job[t].name]
           j == [job[t] EXCEPT !.found = found]
<1>1. /\ pc[t] = "lookup" /\ UNCHANGED stores
      /\ \/ End(t)
         \/ found # None /\ Step(t, "open", j) /\ opened' = opened
  BY DEF LookUp
<1>2. JobTyped("lookup", job[t]) /\ job[t] \in Job BY <1>1, JobIsTyped
<1>3. job[t].op \in Operations /\ job[t].name \in Names BY <1>2 DEF JobTyped
<1>4. CASE found # None /\ Step(t, "open", j) /\ opened' = opened
  <2>1. found \in Account BY <1>3, <1>4 DEF Typed, StoresTyped, EntriesTyped
  <2>2. j \in Job /\ j.op = job[t].op /\ j.name = job[t].name /\ j.found = found
    BY <1>2, <2>1, FoundTyped
  <2> HIDE DEF j, found
  <2>3. JobTyped("open", j)
    BY <1>3, <2>1, <2>2 DEF JobTyped, AllPlaces, HasRequest, HasCopy, HasFound
  <2>4. StoresTyped' BY <1>1, <1>4, SameStores DEF stores, Typed
  <2> QED BY <1>1, <1>4, <2>3, <2>4, QuietTyped DEF stores, Creating, Registering
<1> QED BY <1>1, <1>4, EndTyped

LEMMA OpenSessionTyped ==
  ASSUME Typed, NEW t \in Threads, OpenSession(t)
  PROVE  Typed'
<1>1. PICK k \in Keys, how \in {"clear", "spared", "late"} :
        /\ sessions' = [sessions EXCEPT ![k] = job[t].found]
        /\ opened' = [opened EXCEPT ![k] = how]
  BY DEF OpenSession
<1>2. pc[t] = "open" /\ Step(t, "idle", NoJob) /\ UNCHANGED <<ldap, known, given, provider, uuids, authIds>>
  BY DEF OpenSession
<1>3. job[t].found \in Account BY <1>2, JobIsTyped DEF JobTyped, HasFound
<1>4. StoresTyped' BY <1>1, <1>2, <1>3 DEF Typed, StoresTyped, EntriesTyped
<1> QED BY <1>2, <1>4, OverTyped

LEMMA EndSessionTyped ==
  ASSUME Typed, NEW k \in Keys, EndSession(k)
  PROVE  Typed'
<1>1. StoresTyped' BY DEF EndSession, Typed, StoresTyped, EntriesTyped
<1>2. JobsTyped' BY DEF EndSession, Typed, JobsTyped
<1>3. Rooms' BY DEF EndSession, Typed, Rooms
<1> QED BY <1>1, <1>2, <1>3 DEF Typed

LEMMA InvalidateTyped ==
  ASSUME Typed, NEW t \in Threads, Invalidate(t)
  PROVE  Typed'
<1>1. StoresTyped' BY DEF Invalidate, Typed, StoresTyped, EntriesTyped
<1> QED BY <1>1, OverTyped DEF Invalidate

LEMMA StoreTyped ==
  ASSUME Typed, NEW t \in Threads, Store(t)
  PROVE  Typed'
<1>1. job[t].caller \in Account \cup {None} BY JobIsTyped DEF Job
<1>2. StoresTyped' BY <1>1 DEF Store, Typed, StoresTyped, EntriesTyped
<1> QED BY <1>2, OverTyped DEF Store

-----------------------------------------------------------------------------
(* The provider.                                                           *)

LEMMA IdGiven ==
  ASSUME NEW j \in Job, j.request \in Request, NEW i \in AuthIds
  PROVE  LET k == [j EXCEPT !.request.authId = i] IN
         /\ k \in Job /\ k.op = j.op /\ k.name = j.name /\ k.found = j.found
         /\ k.request = [j.request EXCEPT !.authId = i] /\ k.request \in Request
<1>1. [j.request EXCEPT !.authId = i] \in Request BY DEF Request
<1> QED BY <1>1 DEF Job

\* Whoever registers with the provider has a place for it.
LEMMA PlaceUsed ==
  ASSUME NEW q \in [Threads -> AllPlaces], NEW t \in Threads, NEW P, q[t] \in P,
         NEW max \in Nat, NEW count, Fits(count, q, P, max)
  PROVE  count + 1 \in 1 .. max
<1>1. t \in At(q, P) BY DEF At
<1>2. IsFiniteSet(At(q, P)) /\ Cardinality(At(q, P)) \in Nat BY AtIsCounted
<1>3. Cardinality(At(q, P)) # 0 BY <1>1, <1>2, FS_EmptySet
<1> QED BY <1>2, <1>3 DEF Fits

LEMMA AddTyped ==
  ASSUME Typed, NEW t \in Threads, NEW from \in {"register", "reregister"},
         NEW to \in {"create", "existing"}, from = "register" <=> to = "create",
         AddRegistration(t, from, to)
  PROVE  Typed'
<1> DEFINE j == [job[t] EXCEPT !.request.authId = authIds']
<1>1. /\ pc[t] = from /\ authIds' = authIds + 1
      /\ provider' = [provider EXCEPT ![authIds'] = job[t].request.phone]
      /\ Step(t, to, j) /\ UNCHANGED <<ldap, known, given, sessions, uuids, opened>>
  BY DEF AddRegistration
<1>2. /\ job[t] \in Job /\ JobTyped(from, job[t]) /\ pc \in [Threads -> AllPlaces]
  BY <1>1, JobIsTyped
<1>3. job[t].request \in Request /\ job[t].op \in Operations /\ job[t].name \in Names
  BY <1>2 DEF JobTyped, HasRequest
<1>4. MaxUuid \in Nat /\ MaxAuthId \in Nat BY NamesAssumption
<1>5. Fits(uuids, pc, Creating, MaxUuid) /\ Fits(authIds, pc, Registering, MaxAuthId)
  BY DEF Typed, Rooms
<1>6. authIds' \in AuthIds BY <1>1, <1>2, <1>4, <1>5, PlaceUsed DEF Registering, AuthIds
<1>7. /\ j \in Job /\ j.op = job[t].op /\ j.name = job[t].name
      /\ j.request \in Request
  BY <1>2, <1>3, <1>6, IdGiven
<1> HIDE DEF j
<1>8. JobTyped(to, j)
  BY <1>3, <1>7 DEF JobTyped, AllPlaces, HasRequest, HasCopy, HasFound
<1>9. job[t].request.phone \in Phones BY <1>3 DEF Request
<1>10. StoresTyped' BY <1>1, <1>9 DEF Typed, StoresTyped, EntriesTyped
<1>11. pc' = [pc EXCEPT ![t] = to] BY <1>1 DEF Step
<1>12. Fits(uuids', pc', Creating, MaxUuid)
  BY <1>1, <1>2, <1>4, <1>5, <1>11, RoomKept DEF Creating
<1>13. Fits(authIds', pc', Registering, MaxAuthId)
  BY <1>1, <1>2, <1>4, <1>5, <1>11, RoomKept DEF Registering
<1>14. Rooms' BY <1>12, <1>13 DEF Rooms
<1> QED BY <1>1, <1>8, <1>10, <1>14, MoveTyped

LEMMA RemoveTyped ==
  ASSUME Typed, NEW t \in Threads,
         \/ Deregister(t)
         \/ Unregister(t)
  PROVE  Typed'
<1>1. PICK from \in {"deregister", "unregister"}, to \in {"existing", "reregister", "remove"} :
        (from = "unregister" <=> to = "remove") /\ RemoveRegistration(t, from, to)
  BY DEF Deregister, Unregister
<1>2. /\ pc[t] = from /\ Step(t, to, job[t])
      /\ provider' = [provider EXCEPT ![job[t].found.authId] = None]
      /\ UNCHANGED <<ldap, known, given, sessions, uuids, authIds, opened>>
  BY <1>1 DEF RemoveRegistration
<1>3. JobTyped(from, job[t]) BY <1>2, JobIsTyped
<1>4. JobTyped(to, job[t])
  BY <1>1, <1>3 DEF JobTyped, AllPlaces, HasRequest, HasCopy, HasFound
<1>5. StoresTyped' BY <1>2 DEF Typed, StoresTyped, EntriesTyped
<1> QED BY <1>1, <1>2, <1>4, <1>5, QuietTyped DEF Creating, Registering

-----------------------------------------------------------------------------
(* Creating an account.                                                    *)

LEMMA MergedTyped ==
  ASSUME NEW a \in Account, NEW r \in Request
  PROVE  Merged(a, r) \in Account /\ Merged(a, r).name = a.name
<1>1. (IF r.authId = None THEN a.authId ELSE r.authId) \in AuthIds \cup {None}
  BY DEF Account, Request
<1> QED BY <1>1 DEF Merged, Account, Request

LEMMA InitialTyped ==
  ASSUME NEW n \in Names, NEW i \in 1 .. MaxUuid, NEW p \in Phones
  PROVE  InitialAccount(n, i, p) \in Account /\ InitialAccount(n, i, p).name = n
BY DEF InitialAccount, Account

\* The job of a request made with the session k.
CallOf(o, k, n) == [NoJob EXCEPT !.op = o, !.key = k, !.caller = sessions[k], !.name = n]
LEMMA CallTyped ==
  ASSUME Typed, NEW o \in Operations, NEW k \in Keys, NEW n \in Names
  PROVE  CallOf(o, k, n) \in Job /\ CallOf(o, k, n).op = o /\ CallOf(o, k, n).name = n
<1>1. sessions[k] \in Account \cup {None} BY DEF Typed, StoresTyped
<1> QED BY <1>1 DEF CallOf, NoJob, Job

LEMMA RequestTyped ==
  ASSUME NEW j \in Job, NEW r \in Request
  PROVE  LET k == [j EXCEPT !.request = r] IN
         /\ k \in Job /\ k.op = j.op /\ k.name = j.name /\ k.request = r
BY DEF Job

LEMMA RequestsTyped == Requests \subseteq Request
BY NamesAssumption DEF Request

LEMMA SubmitCreateTyped ==
  ASSUME Typed, NEW t \in Threads, NEW k \in Keys, NEW r \in Requests,
         SubmitCreate(t, k, r)
  PROVE  Typed'
<1> DEFINE n == r.name
           to == IF r.twoFactor THEN "register" ELSE "create"
           j == [CallOf("create", k, n) EXCEPT !.request = r]
<1>1. /\ pc[t] = "idle" /\ "create" \in Operations /\ Step(t, to, j)
      /\ RoomFor(authIds, MaxAuthId) /\ RoomFor(uuids, MaxUuid) /\ UNCHANGED <<stores, opened>>
  BY DEF SubmitCreate, CallOf, NoJob
<1>2. r \in Request /\ n \in Names BY RequestsTyped DEF Request
<1>3. j \in Job /\ j.op = "create" /\ j.name = n /\ j.request = r
  BY <1>1, <1>2, CallTyped, RequestTyped
<1> HIDE DEF j, n
<1>4. JobTyped(to, j)
  BY <1>1, <1>2, <1>3 DEF JobTyped, AllPlaces, HasRequest, HasCopy, HasFound
<1>5. StoresTyped' BY <1>1, SameStores DEF stores, Typed
<1>6. pc' = [pc EXCEPT ![t] = to] /\ pc \in [Threads -> AllPlaces] BY <1>1, JobIsTyped DEF Step
<1>7. /\ MaxUuid \in Nat /\ MaxAuthId \in Nat /\ uuids \in Nat /\ authIds \in Nat
      /\ uuids' = uuids /\ authIds' = authIds
  BY <1>1, NamesAssumption DEF Typed, Rooms, Fits, stores
<1> HIDE DEF to
<1>8. Fits(uuids, pc', Creating, MaxUuid) BY <1>1, <1>6, <1>7, RoomTaken DEF Creating
<1>9. Fits(authIds, pc', Registering, MaxAuthId) BY <1>1, <1>6, <1>7, RoomTaken DEF Registering
<1>10. Rooms' BY <1>7, <1>8, <1>9 DEF Rooms
<1> QED BY <1>1, <1>4, <1>5, <1>10, MoveTyped

LEMMA CreateEntryTyped ==
  ASSUME Typed, NEW t \in Threads, CreateEntry(t)
  PROVE  Typed'
<1> DEFINE n == job[t].name
           r == job[t].request
           entry == Merged(InitialAccount(n, uuids', r.phone), r)
<1>1. /\ pc[t] = "create" /\ uuids' = uuids + 1 /\ ldap' = [ldap EXCEPT ![n] = entry]
      /\ known' = known \cup {n} /\ given' = given \ {n} /\ Step(t, "idle", NoJob)
      /\ UNCHANGED <<sessions, provider, authIds, opened>>
  BY DEF CreateEntry, End
<1>2. n \in Names /\ r \in Request /\ pc \in [Threads -> AllPlaces]
  BY <1>1, JobIsTyped DEF JobTyped, HasRequest
<1>3. MaxUuid \in Nat /\ MaxAuthId \in Nat BY NamesAssumption
<1>4. Fits(uuids, pc, Creating, MaxUuid) /\ Fits(authIds, pc, Registering, MaxAuthId)
  BY DEF Typed, Rooms
<1>5. uuids' \in 1 .. MaxUuid BY <1>1, <1>2, <1>3, <1>4, PlaceUsed DEF Creating
<1>6. r.phone \in Phones BY <1>2 DEF Request
<1>7. entry \in Account /\ entry.name = n BY <1>2, <1>5, <1>6, InitialTyped, MergedTyped
<1> HIDE DEF entry, n, r
<1>8. StoresTyped' BY <1>1, <1>2, <1>7 DEF Typed, StoresTyped, EntriesTyped
<1>9. pc' = [pc EXCEPT ![t] = "idle"] BY <1>1 DEF Step
<1>10. Fits(uuids', pc', Creating, MaxUuid)
  BY <1>1, <1>2, <1>3, <1>4, <1>9, RoomKept DEF Creating
<1>11. Fits(authIds', pc', Registering, MaxAuthId)
  BY <1>1, <1>2, <1>3, <1>4, <1>9, RoomKept DEF Registering
<1>12. Rooms' BY <1>10, <1>11 DEF Rooms
<1> QED BY <1>1, <1>8, <1>12, NoJobIsTyped, MoveTyped

-----------------------------------------------------------------------------
(* Updating an account.                                                    *)

LEMMA SubmitUpdateTyped ==
  ASSUME Typed, NEW t \in Threads, NEW k \in Keys, NEW n \in Names, NEW r \in Requests,
         SubmitUpdate(t, k, n, r)
  PROVE  Typed'
<1> DEFINE q == [r EXCEPT !.admin = r.admin /\ sessions[k].admin]
           j == [CallOf("update", k, n) EXCEPT !.request = q]
<1>1. /\ pc[t] = "idle" /\ "update" \in Operations /\ Step(t, "find", j) /\ sessions[k] # None
      /\ RoomFor(authIds, MaxAuthId) /\ UNCHANGED <<stores, opened>>
  BY DEF SubmitUpdate, CallOf, NoJob
<1>2. sessions[k].admin \in BOOLEAN
  <2>1. sessions[k] \in Account BY <1>1 DEF Typed, StoresTyped
  <2> QED BY <2>1 DEF Account
<1>3. q \in Request
  <2>1. r \in Request /\ (r.admin /\ sessions[k].admin) \in BOOLEAN
    BY <1>2, RequestsTyped DEF Request
  <2> QED BY <2>1 DEF Request
<1> HIDE DEF q
<1>4. j \in Job /\ j.op = "update" /\ j.name = n /\ j.request = q
  BY <1>1, <1>3, CallTyped, RequestTyped
<1> HIDE DEF j
<1>5. JobTyped("find", j)
  BY <1>1, <1>3, <1>4 DEF JobTyped, AllPlaces, HasRequest, HasCopy, HasFound
<1>6. StoresTyped' BY <1>1, SameStores DEF stores, Typed
<1>7. pc' = [pc EXCEPT ![t] = "find"] /\ pc \in [Threads -> AllPlaces]
  BY <1>1, JobIsTyped DEF Step
<1>8. /\ MaxUuid \in Nat /\ MaxAuthId \in Nat /\ authIds \in Nat
      /\ uuids' = uuids /\ authIds' = authIds
      /\ Fits(uuids, pc, Creating, MaxUuid)
  BY <1>1, NamesAssumption DEF Typed, Rooms, Fits, stores
<1>9. Fits(uuids, pc', Creating, MaxUuid) BY <1>7, <1>8, RoomKept DEF Creating
<1>10. Fits(authIds, pc', Registering, MaxAuthId)
  BY <1>1, <1>7, <1>8, RoomTaken DEF Registering
<1>11. Rooms' BY <1>8, <1>9, <1>10 DEF Rooms
<1> QED BY <1>1, <1>5, <1>6, <1>11, MoveTyped

LEMMA FindForUpdateTyped ==
  ASSUME Typed, NEW t \in Threads, FindForUpdate(t)
  PROVE  Typed'
<1> DEFINE found == ldap[job[t].name]
           n == job[t].request.name
           j == Renamed(job[t], found, n)
<1>1. pc[t] = "find" /\ UNCHANGED stores BY DEF FindForUpdate
<1>2. \/ End(t)
      \/ /\ found # None /\ opened' = opened
         /\ \E to \in {"reregister", "deregister", "existing"} : Step(t, to, j)
  BY DEF FindForUpdate, Renamed
<1>3. JobTyped("find", job[t]) /\ job[t] \in Job BY <1>1, JobIsTyped
<1>4. /\ job[t].op \in Operations /\ job[t].name \in Names /\ job[t].request \in Request
      /\ n \in Names
  BY <1>3 DEF JobTyped, HasRequest, Request
<1>5. ASSUME found # None, opened' = opened, NEW to \in {"reregister", "deregister", "existing"},
             Step(t, to, j)
      PROVE  Typed'
  <2>1. found \in Account BY <1>4, <1>5 DEF Typed, StoresTyped, EntriesTyped
  <2> HIDE DEF found, n
  <2>2. /\ j \in Job /\ j.op = job[t].op /\ j.name = n /\ j.request = job[t].request
        /\ j.found = found
    BY <1>3, <1>4, <2>1, RenamedTyped
  <2> HIDE DEF j
  <2>3. JobTyped(to, j)
    BY <1>4, <2>1, <2>2 DEF JobTyped, AllPlaces, HasRequest, HasCopy, HasFound
  <2>4. StoresTyped' BY <1>1, <1>5, SameStores DEF stores, Typed
  <2> QED BY <1>1, <1>5, <2>3, <2>4, QuietTyped DEF stores, Creating, Registering
<1> QED BY <1>1, <1>2, <1>5, EndTyped

\* The job with the copy that is to be written.
LEMMA CopyTyped ==
  ASSUME NEW j \in Job, NEW copy \in Account
  PROVE  LET k == [j EXCEPT !.existing = copy, !.found = None] IN
         /\ k \in Job /\ k.op = j.op /\ k.name = j.name /\ k.existing = copy
         /\ k.request = j.request /\ k.late = j.late
BY DEF Job

LEMMA ReadExistingTyped ==
  ASSUME Typed, NEW t \in Threads, ReadExisting(t)
  PROVE  Typed'
<1> DEFINE existing == ldap[job[t].name]
           copy == Merged(existing, job[t].request)
           j == [job[t] EXCEPT !.existing = copy, !.found = None]
<1>1. pc[t] = "existing" /\ UNCHANGED stores BY DEF ReadExisting
<1>2. \/ End(t)
      \/ /\ existing # None /\ opened' = opened
         /\ \E to \in {"scramble", "write"} : Step(t, to, j)
  BY DEF ReadExisting
<1>3. JobTyped("existing", job[t]) /\ job[t] \in Job BY <1>1, JobIsTyped
<1>4. /\ job[t].op \in Operations /\ job[t].name \in Names /\ job[t].request \in Request
  BY <1>3 DEF JobTyped, HasRequest
<1>5. ASSUME existing # None, opened' = opened, NEW to \in {"scramble", "write"},
             Step(t, to, j)
      PROVE  Typed'
  <2>1. existing \in Account /\ existing.name = job[t].name
    BY <1>4, <1>5 DEF Typed, StoresTyped, EntriesTyped
  <2>2. copy \in Account /\ copy.name = job[t].name BY <1>4, <2>1, MergedTyped
  <2> HIDE DEF copy
  <2>3. j \in Job /\ j.op = job[t].op /\ j.name = job[t].name /\ j.existing = copy
    BY <1>3, <2>2, CopyTyped
  <2> HIDE DEF j, existing
  <2>4. JobTyped(to, j)
    BY <1>4, <2>2, <2>3 DEF JobTyped, AllPlaces, HasRequest, HasCopy, HasFound
  <2>5. StoresTyped' BY <1>1, <1>5, SameStores DEF stores, Typed
  <2> QED BY <1>1, <1>5, <2>4, <2>5, QuietTyped DEF stores, Creating, Registering
<1> QED BY <1>1, <1>2, <1>5, EndTyped

LEMMA ScrambleTyped ==
  ASSUME Typed, NEW t \in Threads, Scramble(t)
  PROVE  Typed'
<1>1. JobTyped("scramble", job[t]) BY JobIsTyped DEF Scramble
<1>2. JobTyped("write", job[t])
  BY <1>1 DEF JobTyped, AllPlaces, HasRequest, HasCopy, HasFound
<1>3. StoresTyped' BY DEF Scramble, Typed, StoresTyped, EntriesTyped
<1> QED BY <1>2, <1>3, QuietTyped DEF Scramble, Creating, Registering

LEMMA WriteEntryTyped ==
  ASSUME Typed, NEW t \in Threads, WriteEntry(t)
  PROVE  Typed'
<1> DEFINE j == [job[t] EXCEPT !.request = None]
<1>1. /\ pc[t] = "write" /\ ldap' = [ldap EXCEPT ![job[t].name] = job[t].existing]
      /\ UNCHANGED <<known, given, sessions, provider, uuids, authIds>>
      /\ \/ Step(t, "idle", NoJob)
         \/ \E to \in {"invalidate", "store"} : Step(t, to, j)
  BY DEF WriteEntry
<1>2. JobTyped("write", job[t]) /\ job[t] \in Job BY <1>1, JobIsTyped
<1>3. /\ job[t].op \in Operations /\ job[t].name \in Names
      /\ job[t].existing \in Account /\ job[t].existing.name = job[t].name
  BY <1>2 DEF JobTyped, HasCopy
<1>4. StoresTyped'
  <2>1. opened' \in [Keys -> {"clear", "spared", "late"}]
    BY DEF WriteEntry, Typed, StoresTyped
  <2> QED BY <1>1, <1>3, <2>1 DEF Typed, StoresTyped, EntriesTyped
<1>5. ASSUME NEW to \in {"invalidate", "store"}, Step(t, to, j) PROVE Typed'
  <2>1. j \in Job /\ j.op = job[t].op /\ j.name = job[t].name /\ j.existing = job[t].existing
    BY <1>2 DEF Job
  <2> HIDE DEF j
  <2>2. JobTyped(to, j)
    BY <1>3, <2>1 DEF JobTyped, AllPlaces, HasRequest, HasCopy, HasFound
  <2> QED BY <1>1, <1>4, <1>5, <2>2, QuietTyped DEF Creating, Registering
<1> QED BY <1>1, <1>4, <1>5, OverTyped

-----------------------------------------------------------------------------
(* Setting a password, deleting an account.                                *)

LEMMA CallStepTyped ==
  ASSUME Typed, NEW t \in Threads, NEW k \in Keys, NEW n \in Names,
         SubmitReset(t, k, n) \/ SubmitDelete(t, k, n)
  PROVE  Typed'
<1>1. PICK o \in Operations, to \in {"target", "findDelete"} :
        Step(t, to, CallOf(o, k, n)) /\ UNCHANGED <<stores, opened>>
  BY DEF SubmitReset, SubmitDelete, CallOf
<1>2. JobTyped(to, CallOf(o, k, n))
  BY CallTyped DEF JobTyped, AllPlaces, HasRequest, HasCopy, HasFound
<1>3. StoresTyped' BY <1>1, SameStores DEF stores, Typed
<1> QED BY <1>1, <1>2, <1>3, QuietTyped DEF stores, Creating, Registering

\* The job with the copy of the account that was found to write back.
LEMMA TargetTyped ==
  ASSUME NEW j \in Job, NEW a \in Account
  PROVE  LET k == [j EXCEPT !.request = AsRequest(a), !.late = a.suspended] IN
         /\ k \in Job /\ k.op = j.op /\ k.name = j.name /\ k.request = AsRequest(a)
         /\ k.late = a.suspended /\ AsRequest(a) \in Request
<1>1. AsRequest(a) \in Request BY DEF AsRequest, Request, Account
<1>2. a.suspended \in BOOLEAN BY DEF Account
<1> QED BY <1>1, <1>2 DEF Job

LEMMA FindTargetTyped ==
  ASSUME Typed, NEW t \in Threads, FindTarget(t)
  PROVE  Typed'
<1> DEFINE target == ldap[job[t].name]
           j == [job[t] EXCEPT !.request = AsRequest(target), !.late = target.suspended]
<1>1. pc[t] = "target" /\ UNCHANGED stores BY DEF FindTarget
<1>2. End(t) \/ (target # None /\ opened' = opened /\ Step(t, "password", j))
  BY DEF FindTarget
<1>3. JobTyped("target", job[t]) /\ job[t] \in Job BY <1>1, JobIsTyped
<1>4. job[t].op \in Operations /\ job[t].name \in Names BY <1>3 DEF JobTyped
<1>5. CASE target # None /\ opened' = opened /\ Step(t, "password", j)
  <2>1. target \in Account BY <1>4, <1>5 DEF Typed, StoresTyped, EntriesTyped
  <2>2. AsRequest(target) \in Request BY <2>1, <1>3, TargetTyped
  <2>3. j \in Job /\ j.op = job[t].op /\ j.name = job[t].name /\ j.request = AsRequest(target)
    BY <1>3, <2>1, TargetTyped
  <2> HIDE DEF j, target
  <2>4. JobTyped("password", j)
    BY <1>4, <2>2, <2>3 DEF JobTyped, AllPlaces, HasRequest, HasCopy, HasFound
  <2>5. StoresTyped' BY <1>1, <1>5, SameStores DEF stores, Typed
  <2> QED BY <1>1, <1>5, <2>4, <2>5, QuietTyped DEF stores, Creating, Registering
<1> QED BY <1>1, <1>2, <1>5, EndTyped

LEMMA SetPasswordTyped ==
  ASSUME Typed, NEW t \in Threads, SetPassword(t)
  PROVE  Typed'
<1>1. JobTyped("password", job[t]) BY JobIsTyped DEF SetPassword
<1>2. JobTyped("existing", job[t])
  BY <1>1 DEF JobTyped, AllPlaces, HasRequest, HasCopy, HasFound
<1>3. job[t].name \in Names BY <1>1 DEF JobTyped
<1>4. StoresTyped' BY <1>3 DEF SetPassword, Typed, StoresTyped, EntriesTyped
<1> QED BY <1>2, <1>4, QuietTyped DEF SetPassword, Creating, Registering

LEMMA FindToDeleteTyped ==
  ASSUME Typed, NEW t \in Threads, FindToDelete(t)
  PROVE  Typed'
<1> DEFINE found == ldap[job[t].name]
           j == [job[t] EXCEPT !.found = found]
<1>1. /\ pc[t] = "findDelete" /\ UNCHANGED <<stores, opened>>
      /\ Step(t, IF found # None /\ found.authId # None THEN "unregister" ELSE "remove", j)
  BY DEF FindToDelete
<1>2. JobTyped("findDelete", job[t]) /\ job[t] \in Job BY <1>1, JobIsTyped
<1>3. job[t].op \in Operations /\ job[t].name \in Names BY <1>2 DEF JobTyped
<1>4. found \in Account \cup {None} BY <1>3 DEF Typed, StoresTyped, EntriesTyped
<1>5. j \in Job /\ j.op = job[t].op /\ j.name = job[t].name /\ j.found = found
  BY <1>2, <1>4, FoundTyped
<1>6. PICK to \in {"unregister", "remove"} :
        Step(t, to, j) /\ (to = "unregister" => found # None)
  BY <1>1
<1> HIDE DEF j, found
<1>7. JobTyped(to, j)
  BY <1>3, <1>4, <1>5, <1>6 DEF JobTyped, AllPlaces, HasRequest, HasCopy, HasFound
<1>8. StoresTyped' BY <1>1, SameStores DEF stores, Typed
<1> QED BY <1>1, <1>6, <1>7, <1>8, QuietTyped DEF stores, Creating, Registering

LEMMA RemoveEntryTyped ==
  ASSUME Typed, NEW t \in Threads, RemoveEntry(t)
  PROVE  Typed'
<1>1. StoresTyped' BY DEF RemoveEntry, End, Typed, StoresTyped, EntriesTyped
<1> QED BY <1>1, OverTyped DEF RemoveEntry, End

-----------------------------------------------------------------------------
LEMMA InitTyped == Init => Typed
<1> SUFFICES ASSUME Init PROVE Typed OBVIOUS
<1>1. PICK uuid \in [Names -> 1 .. Cardinality(Names)], p \in Phones :
        ldap = [n \in Names |-> InitialAccount(n, uuid[n], p)]
  BY DEF Init
<1>2. /\ known = Names /\ given = {} /\ sessions = [k \in Keys |-> None]
      /\ provider = [i \in AuthIds |-> None] /\ uuids = Cardinality(Names) /\ authIds = 0
      /\ pc = [t \in Threads |-> "idle"] /\ job = [t \in Threads |-> NoJob]
      /\ opened = [k \in Keys |-> "clear"]
  BY DEF Init
<1>3. Cardinality(Names) \in Nat /\ MaxUuid \in Nat /\ Cardinality(Names) <= MaxUuid
  BY NamesAssumption, FS_CardinalityType
<1>4. \A n \in Names : uuid[n] \in 1 .. MaxUuid BY <1>3
<1>5. \A n \in Names : ldap[n] \in Account /\ ldap[n].name = n
  BY <1>1, <1>4, InitialTyped
<1>6. ldap \in [Names -> Account \cup {None}] BY <1>1, <1>5
<1>7. StoresTyped BY <1>2, <1>5, <1>6 DEF StoresTyped, EntriesTyped
<1>8. JobsTyped BY <1>2, NoJobIsTyped DEF JobsTyped, AllPlaces
<1>9. At(pc, Creating) = {} /\ At(pc, Registering) = {}
  BY <1>2 DEF At, Creating, Registering
<1>10. MaxAuthId \in Nat /\ Cardinality({}) = 0 BY NamesAssumption, FS_EmptySet
<1>11. Fits(uuids, pc, Creating, MaxUuid)
  <2>1. Cardinality(At(pc, Creating)) = 0 BY <1>9, <1>10
  <2>2. uuids \in Nat /\ uuids <= MaxUuid /\ MaxUuid \in Nat BY <1>2, <1>3
  <2> QED BY <2>1, <2>2 DEF Fits
<1>12. Fits(authIds, pc, Registering, MaxAuthId) BY <1>2, <1>9, <1>10 DEF Fits
<1>13. Rooms BY <1>11, <1>12 DEF Rooms
<1> QED BY <1>7, <1>8, <1>13 DEF Typed

LEMMA NextTyped == Typed /\ [Next]_vars => Typed'
<1> SUFFICES ASSUME Typed, [Next]_vars PROVE Typed' OBVIOUS
<1>1. ASSUME NEW t \in Threads, NEW n \in Names, Bind(t, n) PROVE Typed' BY <1>1, BindTyped
<1>2. ASSUME NEW t \in Threads, NEW k \in Keys, NEW r \in Requests,
             SubmitCreate(t, k, r) \/ \E n \in Names : SubmitUpdate(t, k, n, r)
      PROVE  Typed'
  BY <1>2, SubmitCreateTyped, SubmitUpdateTyped
<1>3. ASSUME NEW t \in Threads, NEW k \in Keys, NEW n \in Names,
             SubmitReset(t, k, n) \/ SubmitDelete(t, k, n)
      PROVE  Typed'
  BY <1>3, CallStepTyped
<1>4. ASSUME NEW t \in Threads, LookUp(t) \/ OpenSession(t) \/ Invalidate(t) \/ Store(t)
      PROVE  Typed'
  BY <1>4, LookUpTyped, OpenSessionTyped, InvalidateTyped, StoreTyped
<1>5. ASSUME NEW t \in Threads, Register(t) \/ Reregister(t) PROVE Typed'
  BY <1>5, AddTyped DEF Register, Reregister
<1>6. ASSUME NEW t \in Threads, Deregister(t) \/ Unregister(t) PROVE Typed'
  BY <1>6, RemoveTyped
<1>7. ASSUME NEW t \in Threads, CreateFails(t) \/ ProviderFails(t) \/ LdapFails(t) PROVE Typed'
  BY <1>7, EndTyped DEF CreateFails, ProviderFails, LdapFails
<1>8. ASSUME NEW t \in Threads,
             \/ CreateEntry(t) \/ FindForUpdate(t) \/ ReadExisting(t) \/ Scramble(t)
             \/ WriteEntry(t)
      PROVE  Typed'
  BY <1>8, CreateEntryTyped, FindForUpdateTyped, ReadExistingTyped, ScrambleTyped,
     WriteEntryTyped
<1>9. ASSUME NEW t \in Threads,
             FindTarget(t) \/ SetPassword(t) \/ FindToDelete(t) \/ RemoveEntry(t)
      PROVE  Typed'
  BY <1>9, FindTargetTyped, SetPasswordTyped, FindToDeleteTyped, RemoveEntryTyped
<1>10. ASSUME NEW k \in Keys, EndSession(k) PROVE Typed' BY <1>10, EndSessionTyped
<1>11. CASE UNCHANGED vars
  <2>1. StoresTyped' BY <1>11, SameStores DEF vars, stores, Typed
  <2>2. JobsTyped' /\ Rooms' BY <1>11 DEF vars, stores, Typed, JobsTyped, Rooms
  <2> QED BY <2>1, <2>2 DEF Typed
<1> QED BY <1>1, <1>2, <1>3, <1>4, <1>5, <1>6, <1>7, <1>8, <1>9, <1>10, <1>11 DEF Next

LEMMA TypedGivesTypes == Typed => TypeOK
<1> SUFFICES ASSUME Typed PROVE TypeOK OBVIOUS
<1>1. \A t \in Threads : job[t] = NoJob => pc[t] = "idle"
  <2> SUFFICES ASSUME NEW t \in Threads, pc[t] # "idle" PROVE job[t] # NoJob OBVIOUS
  <2>1. job[t].op \in Operations BY JobIsTyped DEF JobTyped
  <2> QED BY <2>1, NoneAssumption DEF NoJob
<1>2. \A t \in Threads :
        /\ pc[t] = "idle" <=> job[t] = NoJob
        /\ pc[t] \in HasCopy => job[t].existing # None /\ job[t].existing.name = job[t].name
        /\ pc[t] \in HasFound => job[t].found # None
  BY <1>1, JobIsTyped, NoneAssumption DEF JobTyped
<1>3. uuids \in 0 .. MaxUuid /\ authIds \in 0 .. MaxAuthId
  BY AtIsCounted, NamesAssumption DEF Typed, Rooms, Fits
<1>4. pc \in [Threads -> AllPlaces] /\ job \in [Threads -> Job] BY DEF Typed, JobsTyped
<1>5. StoresTyped BY DEF Typed
<1> QED BY <1>2, <1>3, <1>4, <1>5
        DEF TypeOK, StoresTyped, EntriesTyped, AllPlaces, HasRequest, HasCopy, HasFound

\* No store of AccountsResource and its DAOs ever holds, and no thread ever
\* works on, anything of the wrong type, whatever the threads, the operations
\* and what fails: an account is always stored under its own name, and a thread
\* has what its next call needs, though others delete accounts and end sessions
\* meanwhile.
THEOREM TypeCorrect == Spec => []TypeOK
<1> QED BY InitTyped, NextTyped, TypedGivesTypes, PTL DEF Spec

-----------------------------------------------------------------------------
(* One request at a time.  Registered and stored accounts are kept in step  *)
(* by a request as a whole, so Kept lets the account a request is about be  *)
(* out of step where the request has begun to change its registration, and *)
(* CallOK says what the request will write there.  That nobody else has the *)
(* id it removes or writes is Own.                                         *)

Alone == \E t : Threads = {t}

\* Of an account a of the name n, with entries e, registrations pv, and ids handed
\* out up to "last".
Registered(a, pv) == a.twoFactor => a.authId # None /\ pv[a.authId] = a.phone
Own(n, i, e, last) ==
  i # None => i <= last /\ \A m \in Names \ {n} : e[m] # None => e[m].authId # i
Fine(n, a, e, pv, last) == Registered(a, pv) /\ Own(n, a.authId, e, last)

Away == {"reregister", "existing", "scramble", "write", "remove"}
Free == {"idle", "lookup", "open", "target", "findDelete", "remove", "invalidate", "store"}

CallOK(p, j, e, pv, last) ==
  /\ p \in {"register", "find", "deregister", "reregister"} => j.request.authId = None
  /\ p = "find" => j.request.name = j.name
  /\ p \in {"deregister", "unregister"} => j.found = e[j.name]
  /\ p = "create" => /\ j.request.twoFactor => /\ j.request.authId # None
                                               /\ pv[j.request.authId] = j.request.phone
                     /\ Own(j.name, j.request.authId, e, last)
  /\ p = "password" => e[j.name] # None /\ j.request = AsRequest(e[j.name])
  /\ p = "existing" /\ e[j.name] # None =>
       Fine(j.name, Merged(e[j.name], j.request), e, pv, last)
  /\ p \in {"scramble", "write"} => Fine(j.name, j.existing, e, pv, last)
Kept(p, j, e, pv, last) ==
  \A n \in Names : e[n] # None =>
    /\ Own(n, e[n].authId, e, last)
    /\ Registered(e[n], pv) \/ (p \in Away /\ n = j.name)
Turn(p, j, e, pv, last) == CallOK(p, j, e, pv, last) /\ Kept(p, j, e, pv, last)

InTurn == Typed /\ \A t \in Threads : Turn(pc[t], job[t], ldap, provider, authIds)

LEMMA TurnTaken ==
  ASSUME Alone, InTurn, NEW t \in Threads, NEW to, NEW j, Step(t, to, j), Typed',
         Turn(to, j, ldap', provider', authIds')
  PROVE  InTurn'
<1>1. Threads = {t} BY DEF Alone
<1>2. pc'[t] = to /\ job'[t] = j BY DEF InTurn, Typed, JobsTyped, Step
<1> QED BY <1>1, <1>2 DEF InTurn

LEMMA TurnIsTyped ==
  ASSUME InTurn, NEW t \in Threads
  PROVE  /\ Turn(pc[t], job[t], ldap, provider, authIds)
         /\ JobTyped(pc[t], job[t]) /\ job[t] \in Job
         /\ ldap \in [Names -> Account \cup {None}]
         /\ provider \in [AuthIds -> Phones \cup {None}]
         /\ authIds \in Nat
BY JobIsTyped DEF InTurn, Typed, StoresTyped, EntriesTyped, Rooms, Fits

\* A step that changes neither entries nor registrations.
LEMMA QuietTurn ==
  ASSUME Alone, InTurn, NEW t \in Threads, NEW to, NEW j, Step(t, to, j), Typed',
         UNCHANGED <<ldap, provider, authIds>>,
         CallOK(to, j, ldap, provider, authIds),
         \/ pc[t] \notin Away
         \/ to \in Away /\ j.name = job[t].name
         \/ ldap[job[t].name] = None
  PROVE  InTurn'
<1>1. Kept(pc[t], job[t], ldap, provider, authIds) BY TurnIsTyped DEF Turn
<1>2. Kept(to, j, ldap, provider, authIds) BY <1>1 DEF Kept
<1> QED BY <1>2, TurnTaken DEF Turn

LEMMA FreeIsOK ==
  ASSUME NEW p \in Free, NEW j, NEW e, NEW pv, NEW last
  PROVE  CallOK(p, j, e, pv, last)
BY DEF CallOK, Free

LEMMA EndTurn ==
  ASSUME Alone, InTurn, NEW t \in Threads, Step(t, "idle", NoJob), Typed',
         UNCHANGED <<ldap, provider, authIds>>,
         pc[t] \notin Away \/ ldap[job[t].name] = None
  PROVE  InTurn'
<1>1. CallOK("idle", NoJob, ldap, provider, authIds) BY FreeIsOK DEF Free
<1> QED BY <1>1, QuietTurn

\* What is merged into an account.
LEMMA MergedIs ==
  ASSUME NEW a \in Account, NEW r \in Request
  PROVE  /\ Merged(a, r).twoFactor = r.twoFactor /\ Merged(a, r).phone = r.phone
         /\ Merged(a, r).suspended = r.suspended
         /\ Merged(a, r).authId = IF r.authId = None THEN a.authId ELSE r.authId
BY DEF Merged, Account

LEMMA MergedWithItself ==
  ASSUME NEW a \in Account
  PROVE  /\ AsRequest(a) \in Request /\ AsRequest(a).suspended = a.suspended
         /\ Merged(a, AsRequest(a)).twoFactor = a.twoFactor
         /\ Merged(a, AsRequest(a)).phone = a.phone
         /\ Merged(a, AsRequest(a)).authId = a.authId
<1>1. /\ AsRequest(a) \in Request /\ AsRequest(a).twoFactor = a.twoFactor
      /\ AsRequest(a).phone = a.phone /\ AsRequest(a).authId = a.authId
      /\ AsRequest(a).suspended = a.suspended
  BY DEF AsRequest, Account, Request
<1> QED BY <1>1, MergedIs

\* Steps that lead where nothing is known of the request.
LEMMA FreeTurn ==
  ASSUME Alone, InTurn, NEW t \in Threads, Typed',
         \/ \E n \in Names : Bind(t, n)
         \/ \E k \in Keys, n \in Names : SubmitReset(t, k, n) \/ SubmitDelete(t, k, n)
         \/ LookUp(t) \/ OpenSession(t) \/ Invalidate(t) \/ Store(t)
  PROVE  InTurn'
<1>1. PICK to \in Free : \E j : Step(t, to, j)
  BY DEF Bind, SubmitReset, SubmitDelete, LookUp, OpenSession, Invalidate, Store, End, Free
<1>2. PICK j : Step(t, to, j) BY <1>1
<1>3. UNCHANGED <<ldap, provider, authIds>> /\ pc[t] \notin Away
  BY DEF Bind, SubmitReset, SubmitDelete, LookUp, OpenSession, Invalidate, Store, stores, Away
<1> QED BY <1>2, <1>3, FreeIsOK, QuietTurn

\* Requests that fail or find nothing, unless a call failed on the way.
LEMMA OverTurn ==
  ASSUME Alone, ~MayFail, InTurn, NEW t \in Threads, Typed',
         CreateFails(t) \/ ProviderFails(t) \/ LdapFails(t)
  PROVE  InTurn'
<1>1. Step(t, "idle", NoJob) /\ UNCHANGED <<ldap, provider, authIds>>
  BY DEF CreateFails, ProviderFails, LdapFails, End, stores
<1>2. pc[t] \notin Away \/ ldap[job[t].name] = None
  BY DEF CreateFails, ProviderFails, LdapFails, Away
<1> QED BY <1>1, <1>2, EndTurn

\* What a body asks for: no id yet.
Asked == [name : Names, admin : BOOLEAN, suspended : BOOLEAN, twoFactor : BOOLEAN,
          phone : Phones, authId : {None}]

LEMMA SubmitTurn ==
  ASSUME Alone, ~OtherNamed, InTurn, NEW t \in Threads, NEW k \in Keys, NEW r \in Requests,
         SubmitCreate(t, k, r) \/ \E n \in Names : SubmitUpdate(t, k, n, r), Typed'
  PROVE  InTurn'
<1> DEFINE n == r.name
<1>1. r \in Asked /\ n \in Names BY NamesAssumption DEF Asked
<1>2. pc[t] = "idle" /\ UNCHANGED <<ldap, provider, authIds>>
  BY DEF SubmitCreate, SubmitUpdate, stores
<1>3. PICK q \in Asked, o \in Operations, to \in {"register", "create", "find"} :
        /\ Step(t, to, [CallOf(o, k, n) EXCEPT !.request = q])
        /\ q.name = n /\ (to = "create" => ~q.twoFactor)
  <2>1. CASE SubmitCreate(t, k, r)
    <3>1. /\ "create" \in Operations
          /\ Step(t, IF r.twoFactor THEN "register" ELSE "create",
                  [CallOf("create", k, n) EXCEPT !.request = r])
      BY <2>1 DEF SubmitCreate, CallOf, NoJob
    <3>2. CASE r.twoFactor BY <1>1, <3>1, <3>2
    <3>3. CASE ~r.twoFactor BY <1>1, <3>1, <3>3
    <3> QED BY <3>2, <3>3
  <2>2. CASE \E m \in Names : SubmitUpdate(t, k, m, r)
    <3> DEFINE q == [r EXCEPT !.admin = r.admin /\ sessions[k].admin]
    <3>1. SubmitUpdate(t, k, n, r) BY <2>2 DEF SubmitUpdate
    <3>2. /\ "update" \in Operations /\ sessions[k] # None
          /\ Step(t, "find", [CallOf("update", k, n) EXCEPT !.request = q])
      BY <3>1 DEF SubmitUpdate, CallOf, NoJob
    <3>3. sessions[k] \in Account BY <3>2 DEF InTurn, Typed, StoresTyped
    <3>4. (r.admin /\ sessions[k].admin) \in BOOLEAN BY <1>1, <3>3 DEF Account, Asked
    <3>5. q \in Asked /\ q.name = n BY <1>1, <3>4 DEF Asked
    <3> HIDE DEF q, n
    <3> QED BY <3>2, <3>5
  <2> QED BY <2>1, <2>2
<1> DEFINE j == [CallOf(o, k, n) EXCEPT !.request = q]
<1>4. q \in Request /\ q.authId = None BY DEF Request, Asked
<1>5. j.request = q /\ j.name = n BY <1>1, <1>4, CallTyped, RequestTyped DEF InTurn
<1>6. Step(t, to, j) BY <1>3
<1> HIDE DEF j, n
<1>7. CallOK(to, j, ldap, provider, authIds) BY <1>3, <1>4, <1>5 DEF CallOK, Own
<1> QED BY <1>2, <1>6, <1>7, QuietTurn DEF Away

LEMMA FindForUpdateTurn ==
  ASSUME Alone, InTurn, NEW t \in Threads, FindForUpdate(t), Typed'
  PROVE  InTurn'
<1> DEFINE n == job[t].name
           found == ldap[n]
           r == job[t].request
           j == Renamed(job[t], found, r.name)
<1>1. /\ pc[t] = "find" /\ UNCHANGED <<ldap, provider, authIds>>
      /\ \/ Step(t, "idle", NoJob)
         \/ /\ found # None
            /\ \/ Step(t, "reregister", j)
               \/ Step(t, "deregister", j)
               \/ /\ ~TurnsOn(r, found) /\ ~TurnsOff(r, found) /\ ~PhoneChanges(r, found)
                  /\ Step(t, "existing", j)
  BY DEF FindForUpdate, End, stores, Renamed
<1>2. /\ n \in Names /\ r \in Request /\ r.authId = None /\ r.name = n /\ job[t] \in Job
      /\ Kept("find", job[t], ldap, provider, authIds)
      /\ found \in Account \cup {None}
  BY <1>1, TurnIsTyped DEF Turn, CallOK, JobTyped, HasRequest
<1>3. CASE Step(t, "idle", NoJob) BY <1>1, <1>3, EndTurn DEF Away
<1>4. CASE found # None /\ (Step(t, "reregister", j) \/ Step(t, "deregister", j))
  <2>1. PICK to \in {"reregister", "deregister"} : Step(t, to, j) BY <1>4
  <2>2. j.request = r /\ j.found = found /\ j.name = n
    <3> HIDE DEF found, n
    <3> QED BY <1>2, RenamedTyped
  <2> HIDE DEF j
  <2>3. CallOK(to, j, ldap, provider, authIds) BY <1>2, <2>2 DEF CallOK
  <2> QED BY <1>1, <2>1, <2>3, QuietTurn DEF Away
<1>5. CASE /\ found # None /\ Step(t, "existing", j)
           /\ ~TurnsOn(r, found) /\ ~TurnsOff(r, found) /\ ~PhoneChanges(r, found)
  <2>1. j.request = r /\ j.name = n
    <3> HIDE DEF found, n
    <3> QED BY <1>2, RenamedTyped
  <2>2. found \in Account BY <1>2, <1>5
  <2>3. r.twoFactor \in BOOLEAN /\ found.twoFactor \in BOOLEAN
    BY <1>2, <2>2 DEF Request, Account
  <2>4. r.twoFactor = found.twoFactor /\ r.phone = found.phone
    BY <1>5, <2>3 DEF TurnsOn, TurnsOff, PhoneChanges
  <2>5. /\ Merged(found, r).twoFactor = found.twoFactor /\ Merged(found, r).phone = found.phone
        /\ Merged(found, r).authId = found.authId
    BY <1>2, <2>2, <2>4, MergedIs
  <2>6. Registered(found, provider) /\ Own(n, found.authId, ldap, authIds)
    BY <1>2, <1>5 DEF Kept, Away
  <2>7. Fine(n, Merged(found, r), ldap, provider, authIds)
    BY <2>5, <2>6 DEF Fine, Registered
  <2> HIDE DEF j
  <2>8. CallOK("existing", j, ldap, provider, authIds) BY <2>1, <2>7 DEF CallOK
  <2> QED BY <1>1, <1>5, <2>8, QuietTurn DEF Away
<1> QED BY <1>1, <1>3, <1>4, <1>5

LEMMA ReadExistingTurn ==
  ASSUME Alone, InTurn, NEW t \in Threads, ReadExisting(t), Typed'
  PROVE  InTurn'
<1> DEFINE existing == ldap[job[t].name]
           copy == Merged(existing, job[t].request)
           j == [job[t] EXCEPT !.existing = copy, !.found = None]
<1>1. /\ pc[t] = "existing" /\ UNCHANGED <<ldap, provider, authIds>>
      /\ \/ existing = None /\ Step(t, "idle", NoJob)
         \/ /\ existing # None
            /\ \E to \in {"scramble", "write"} : Step(t, to, j)
  BY DEF ReadExisting, End, stores
<1>2. /\ job[t].name \in Names /\ job[t].request \in Request /\ job[t] \in Job
      /\ existing # None => Fine(job[t].name, copy, ldap, provider, authIds)
      /\ existing \in Account \cup {None}
  BY <1>1, TurnIsTyped DEF Turn, CallOK, JobTyped, HasRequest
<1>3. CASE existing = None /\ Step(t, "idle", NoJob) BY <1>1, <1>3, EndTurn
<1>4. ASSUME existing # None, NEW to \in {"scramble", "write"}, Step(t, to, j) PROVE InTurn'
  <2>1. copy \in Account BY <1>2, <1>4, MergedTyped
  <2> HIDE DEF copy
  <2>2. j.existing = copy /\ j.name = job[t].name BY <1>2, <2>1, CopyTyped
  <2> HIDE DEF j
  <2>3. CallOK(to, j, ldap, provider, authIds) BY <1>2, <1>4, <2>2 DEF CallOK
  <2> QED BY <1>1, <1>4, <2>2, <2>3, QuietTurn DEF Away
<1> QED BY <1>1, <1>3, <1>4

LEMMA ScrambleTurn ==
  ASSUME Alone, InTurn, NEW t \in Threads, Scramble(t), Typed'
  PROVE  InTurn'
<1>1. /\ pc[t] = "scramble" /\ Step(t, "write", job[t]) /\ UNCHANGED <<ldap, provider, authIds>>
  BY DEF Scramble
<1>2. CallOK("write", job[t], ldap, provider, authIds) BY <1>1, TurnIsTyped DEF Turn, CallOK
<1> QED BY <1>1, <1>2, QuietTurn DEF Away

LEMMA PasswordTurn ==
  ASSUME Alone, InTurn, NEW t \in Threads, FindTarget(t) \/ SetPassword(t), Typed'
  PROVE  InTurn'
<1> DEFINE n == job[t].name
<1>1. UNCHANGED <<ldap, provider, authIds>> /\ pc[t] \in {"target", "password"}
  BY DEF FindTarget, SetPassword, stores
<1>2. n \in Names /\ job[t] \in Job /\ ldap[n] \in Account \cup {None}
  BY <1>1, TurnIsTyped DEF JobTyped
<1>3. CASE FindTarget(t)
  <2> DEFINE j == [job[t] EXCEPT !.request = AsRequest(ldap[n]), !.late = ldap[n].suspended]
  <2>1. Step(t, "idle", NoJob) \/ (ldap[n] # None /\ Step(t, "password", j))
    BY <1>3 DEF FindTarget, End
  <2>2. CASE Step(t, "idle", NoJob) BY <1>1, <2>2, EndTurn DEF Away
  <2>3. CASE ldap[n] # None /\ Step(t, "password", j)
    <3>1. ldap[n] \in Account BY <1>2, <2>3
    <3>2. j.request = AsRequest(ldap[n]) /\ j.name = n
      BY <1>2, <3>1, TargetTyped
    <3> HIDE DEF j
    <3>3. CallOK("password", j, ldap, provider, authIds) BY <2>3, <3>2 DEF CallOK
    <3> QED BY <1>1, <2>3, <3>3, QuietTurn DEF Away
  <2> QED BY <2>1, <2>2, <2>3
<1>4. CASE SetPassword(t)
  <2>1. pc[t] = "password" /\ Step(t, "existing", job[t]) BY <1>4 DEF SetPassword
  <2>2. /\ ldap[n] # None /\ job[t].request = AsRequest(ldap[n])
        /\ Kept("password", job[t], ldap, provider, authIds)
    BY <2>1, TurnIsTyped DEF Turn, CallOK
  <2>3. ldap[n] \in Account BY <1>2, <2>2
  <2>4. Registered(ldap[n], provider) /\ Own(n, ldap[n].authId, ldap, authIds)
    BY <1>2, <2>2 DEF Kept, Away
  <2>5. Fine(n, Merged(ldap[n], job[t].request), ldap, provider, authIds)
    BY <2>2, <2>3, <2>4, MergedWithItself DEF Fine, Registered
  <2>6. CallOK("existing", job[t], ldap, provider, authIds) BY <2>5 DEF CallOK
  <2> QED BY <1>1, <2>1, <2>6, QuietTurn DEF Away
<1> QED BY <1>3, <1>4

LEMMA FindToDeleteTurn ==
  ASSUME Alone, InTurn, NEW t \in Threads, FindToDelete(t), Typed'
  PROVE  InTurn'
<1> DEFINE j == [job[t] EXCEPT !.found = ldap[job[t].name]]
<1>1. /\ pc[t] = "findDelete" /\ UNCHANGED <<ldap, provider, authIds>>
      /\ \E to \in {"unregister", "remove"} : Step(t, to, j)
  BY DEF FindToDelete, stores
<1>2. PICK to \in {"unregister", "remove"} : Step(t, to, j) BY <1>1
<1>3. job[t] \in Job /\ ldap[job[t].name] \in Account \cup {None}
  BY <1>1, TurnIsTyped DEF JobTyped
<1>4. j.found = ldap[job[t].name] /\ j.name = job[t].name BY <1>3, FoundTyped
<1> HIDE DEF j
<1>5. CallOK(to, j, ldap, provider, authIds) BY <1>4 DEF CallOK
<1> QED BY <1>1, <1>2, <1>5, QuietTurn DEF Away

\* The id a registration gets is a new one, and there is one.
LEMMA IdIsNew ==
  ASSUME Typed, NEW t \in Threads, pc[t] \in {"register", "reregister"}
  PROVE  authIds + 1 \in AuthIds
<1>1. pc \in [Threads -> AllPlaces] /\ MaxAuthId \in Nat BY JobIsTyped, NamesAssumption
<1>2. Fits(authIds, pc, Registering, MaxAuthId) BY DEF Typed, Rooms
<1> QED BY <1>1, <1>2, PlaceUsed DEF Registering, AuthIds

LEMMA AddTurn ==
  ASSUME Alone, InTurn, NEW t \in Threads, NEW from \in {"register", "reregister"},
         NEW to \in {"create", "existing"}, from = "register" <=> to = "create",
         AddRegistration(t, from, to), Typed'
  PROVE  InTurn'
<1> DEFINE i == authIds + 1
           n == job[t].name
           j == [job[t] EXCEPT !.request.authId = i]
           pv == [provider EXCEPT ![i] = job[t].request.phone]
<1>1. pc[t] = from /\ authIds' = i /\ provider' = pv /\ Step(t, to, j) /\ ldap' = ldap
  BY DEF AddRegistration
<1>2. i \in AuthIds /\ i # None BY <1>1, IdIsNew, NoneAssumption DEF InTurn
<1>3. /\ Kept(from, job[t], ldap, provider, authIds) /\ JobTyped(from, job[t]) /\ job[t] \in Job
      /\ ldap \in [Names -> Account \cup {None}] /\ provider \in [AuthIds -> Phones \cup {None}]
      /\ authIds \in Nat
  BY <1>1, TurnIsTyped DEF Turn
<1>4. n \in Names /\ job[t].request \in Request BY <1>3 DEF JobTyped, HasRequest
<1>5. /\ j.name = n /\ j.request \in Request /\ j.request.authId = i
      /\ j.request.phone = job[t].request.phone
  <2>1. j.name = n /\ j.request = [job[t].request EXCEPT !.authId = i] /\ j.request \in Request
    BY <1>2, <1>3, <1>4, IdGiven
  <2> QED BY <1>4, <2>1 DEF Request
<1> HIDE DEF j
<1>6. pv[i] = j.request.phone BY <1>2, <1>3, <1>5
<1>7. \A m \in Names : ldap[m] # None => ldap[m].authId = None
                         \/ (ldap[m].authId \in AuthIds /\ ldap[m].authId <= authIds)
  <2> SUFFICES ASSUME NEW m \in Names, ldap[m] # None, ldap[m].authId # None
               PROVE  ldap[m].authId \in AuthIds /\ ldap[m].authId <= authIds
    OBVIOUS
  <2>1. ldap[m] \in Account BY <1>3
  <2> QED BY <1>3, <2>1 DEF Kept, Own, Account
<1>8. \A m \in Names : ldap[m] # None =>
        /\ ldap[m].authId # i
        /\ ldap[m].authId # None => ldap[m].authId <= i /\ pv[ldap[m].authId] = provider[ldap[m].authId]
  <2> SUFFICES ASSUME NEW m \in Names, ldap[m] # None
               PROVE  /\ ldap[m].authId # i
                      /\ ldap[m].authId # None =>
                           ldap[m].authId <= i /\ pv[ldap[m].authId] = provider[ldap[m].authId]
    OBVIOUS
  <2>1. CASE ldap[m].authId = None BY <1>2, <2>1
  <2>2. CASE ldap[m].authId \in AuthIds /\ ldap[m].authId <= authIds
    <3>1. ldap[m].authId \in Nat /\ ldap[m].authId # i BY <1>3, <2>2 DEF AuthIds
    <3> QED BY <1>3, <2>2, <3>1
  <2> QED BY <1>7, <2>1, <2>2
<1> HIDE DEF pv, i
<1>9. Kept(to, j, ldap, pv, i)
  <2> SUFFICES ASSUME NEW m \in Names, ldap[m] # None
               PROVE  /\ Own(m, ldap[m].authId, ldap, i)
                      /\ Registered(ldap[m], pv) \/ (to \in Away /\ m = j.name)
    BY DEF Kept
  <2>1. /\ Own(m, ldap[m].authId, ldap, authIds)
        /\ Registered(ldap[m], provider) \/ (from \in Away /\ m = n)
    BY <1>3 DEF Kept
  <2>2. from \in Away => to \in Away BY DEF Away
  <2> QED BY <1>5, <1>8, <2>1, <2>2 DEF Own, Registered
<1>10. CallOK(to, j, ldap, pv, i)
  <2>1. Own(n, i, ldap, i) BY <1>1, <1>3, <1>8 DEF Own, i
  <2>2. ldap[n] # None => Fine(n, Merged(ldap[n], j.request), ldap, pv, i)
    <3> SUFFICES ASSUME ldap[n] # None PROVE Fine(n, Merged(ldap[n], j.request), ldap, pv, i)
      OBVIOUS
    <3>1. ldap[n] \in Account BY <1>3, <1>4
    <3>2. /\ Merged(ldap[n], j.request).authId = i
          /\ Merged(ldap[n], j.request).phone = j.request.phone
      BY <1>2, <1>5, <3>1, MergedIs
    <3> QED BY <1>2, <1>6, <2>1, <3>2 DEF Fine, Registered
  <2> QED BY <1>2, <1>5, <1>6, <2>1, <2>2 DEF CallOK
<1> QED BY <1>1, <1>9, <1>10, TurnTaken DEF Turn

\* Whoever is removed at the provider is the account's own user.
LEMMA RemoveTurn ==
  ASSUME Alone, InTurn, NEW t \in Threads, Deregister(t) \/ Unregister(t), Typed'
  PROVE  InTurn'
<1> DEFINE n == job[t].name
           a == job[t].found
           r == job[t].request
           pv == [provider EXCEPT ![a.authId] = None]
<1>1. PICK from \in {"deregister", "unregister"}, to \in {"existing", "reregister", "remove"} :
        /\ from = "unregister" => to = "remove"
        /\ to = "existing" => TurnsOff(r, a)
        /\ to # "remove" => from = "deregister"
        /\ RemoveRegistration(t, from, to)
  BY DEF Deregister, Unregister
<1>2. /\ pc[t] = from /\ a.authId # None /\ provider' = pv /\ Step(t, to, job[t])
      /\ ldap' = ldap /\ authIds' = authIds
  BY <1>1 DEF RemoveRegistration
<1>3. /\ Kept(from, job[t], ldap, provider, authIds) /\ CallOK(from, job[t], ldap, provider, authIds)
      /\ JobTyped(from, job[t]) /\ provider \in [AuthIds -> Phones \cup {None}]
      /\ ldap \in [Names -> Account \cup {None}]
  BY <1>2, TurnIsTyped DEF Turn
<1>4. n \in Names /\ a \in Account /\ a = ldap[n] /\ a # None
  BY <1>3, NoneAssumption DEF JobTyped, CallOK, HasFound
<1>5. /\ Own(n, a.authId, ldap, authIds)
      /\ \A m \in Names : ldap[m] # None =>
           Own(m, ldap[m].authId, ldap, authIds) /\ Registered(ldap[m], provider)
  BY <1>3, <1>4 DEF Kept, Away
<1>6. \A m \in Names \ {n} : ldap[m] # None => Registered(ldap[m], pv)
  <2> SUFFICES ASSUME NEW m \in Names \ {n}, ldap[m] # None, ldap[m].twoFactor
               PROVE  ldap[m].authId # None /\ pv[ldap[m].authId] = ldap[m].phone
    BY DEF Registered
  <2>1. ldap[m].authId # None /\ provider[ldap[m].authId] = ldap[m].phone
    BY <1>5 DEF Registered
  <2>2. ldap[m].authId # a.authId BY <1>2, <1>5 DEF Own
  <2>3. ldap[m] \in Account BY <1>3
  <2>4. ldap[m].authId \in AuthIds BY <2>1, <2>3 DEF Account
  <2> QED BY <1>3, <2>1, <2>2, <2>4
<1> HIDE DEF pv
<1>7. Kept(to, job[t], ldap, pv, authIds) BY <1>5, <1>6 DEF Kept, Away
<1>8. CallOK(to, job[t], ldap, pv, authIds)
  <2>1. CASE to = "existing"
    <3>1. from = "deregister" /\ ~r.twoFactor BY <1>1, <2>1 DEF TurnsOff
    <3>2. r \in Request /\ r.authId = None
      BY <1>3, <3>1 DEF JobTyped, CallOK, HasRequest
    <3>3. ~Merged(a, r).twoFactor /\ Merged(a, r).authId = a.authId
      BY <1>4, <3>1, <3>2, MergedIs
    <3>4. Fine(n, Merged(a, r), ldap, pv, authIds) BY <1>5, <3>3 DEF Fine, Registered
    <3> QED BY <1>4, <2>1, <3>4 DEF CallOK
  <2>2. CASE to # "existing" BY <1>1, <1>3, <2>2 DEF CallOK
  <2> QED BY <2>1, <2>2
<1> QED BY <1>2, <1>7, <1>8, TurnTaken DEF Turn

\* An entry is written: it is as it should be, and so are the others.
LEMMA EntryKept ==
  ASSUME InTurn, NEW p, NEW j, NEW n \in Names, NEW a \in Account, j.name = n,
         Kept(p, j, ldap, provider, authIds), Fine(n, a, ldap, provider, authIds),
         NEW q, NEW k
  PROVE  Kept(q, k, [ldap EXCEPT ![n] = a], provider, authIds)
<1> DEFINE e == [ldap EXCEPT ![n] = a]
<1>1. ldap \in [Names -> Account \cup {None}] BY DEF InTurn, Typed, StoresTyped, EntriesTyped
<1>2. e[n] = a /\ \A m \in Names \ {n} : e[m] = ldap[m] BY <1>1
<1> HIDE DEF e
<1> SUFFICES ASSUME NEW m \in Names, e[m] # None
             PROVE  Own(m, e[m].authId, e, authIds) /\ Registered(e[m], provider)
  BY DEF Kept, e
<1>3. CASE m = n BY <1>2, <1>3 DEF Fine, Own
<1>4. CASE m # n
  <2>1. Own(m, ldap[m].authId, ldap, authIds) /\ Registered(ldap[m], provider)
    BY <1>2, <1>4 DEF Kept
  <2>2. ldap[m].authId # None => a.authId # ldap[m].authId
    BY <1>2, <1>4 DEF Fine, Own
  <2> QED BY <1>2, <1>4, <2>1, <2>2 DEF Own
<1> QED BY <1>3, <1>4

LEMMA CreateEntryTurn ==
  ASSUME Alone, InTurn, NEW t \in Threads, CreateEntry(t), Typed'
  PROVE  InTurn'
<1> DEFINE n == job[t].name
           r == job[t].request
           blank == InitialAccount(n, uuids', r.phone)
           a == Merged(blank, r)
<1>1. /\ pc[t] = "create" /\ ldap' = [ldap EXCEPT ![n] = a] /\ Step(t, "idle", NoJob)
      /\ provider' = provider /\ authIds' = authIds /\ uuids' = uuids + 1
  BY DEF CreateEntry, End
<1>2. /\ Kept("create", job[t], ldap, provider, authIds)
      /\ CallOK("create", job[t], ldap, provider, authIds)
      /\ n \in Names /\ r \in Request
  BY <1>1, TurnIsTyped DEF Turn, JobTyped, HasRequest
<1>3. uuids' \in 1 .. MaxUuid
  <2>1. pc \in [Threads -> AllPlaces] /\ MaxUuid \in Nat BY JobIsTyped, NamesAssumption DEF InTurn
  <2>2. Fits(uuids, pc, Creating, MaxUuid) BY DEF InTurn, Typed, Rooms
  <2> QED BY <1>1, <2>1, <2>2, PlaceUsed DEF Creating
<1>4. r.phone \in Phones BY <1>2 DEF Request
<1>5. blank \in Account BY <1>2, <1>3, <1>4, InitialTyped
<1>6. blank.authId = None BY DEF InitialAccount
<1> HIDE DEF blank
<1>7. /\ a \in Account /\ a.twoFactor = r.twoFactor /\ a.phone = r.phone
      /\ a.authId = r.authId
  BY <1>2, <1>5, <1>6, MergedIs, MergedTyped
<1> HIDE DEF a
<1>8. Fine(n, a, ldap, provider, authIds) BY <1>2, <1>7 DEF CallOK, Fine, Registered
<1>9. Kept("idle", NoJob, [ldap EXCEPT ![n] = a], provider, authIds)
  BY <1>2, <1>7, <1>8, EntryKept
<1>10. CallOK("idle", NoJob, ldap', provider', authIds') BY FreeIsOK DEF Free
<1> QED BY <1>1, <1>9, <1>10, TurnTaken DEF Turn

LEMMA WriteEntryTurn ==
  ASSUME Alone, InTurn, NEW t \in Threads, WriteEntry(t), Typed'
  PROVE  InTurn'
<1> DEFINE n == job[t].name
           a == job[t].existing
<1>1. /\ pc[t] = "write" /\ ldap' = [ldap EXCEPT ![n] = a]
      /\ provider' = provider /\ authIds' = authIds
  BY DEF WriteEntry
<1>2. PICK to, j : to \in {"idle", "invalidate", "store"} /\ Step(t, to, j)
  BY DEF WriteEntry
<1>3. /\ Kept("write", job[t], ldap, provider, authIds)
      /\ Fine(n, a, ldap, provider, authIds) /\ n \in Names /\ a \in Account
  BY <1>1, TurnIsTyped DEF Turn, CallOK, JobTyped, HasCopy
<1> HIDE DEF a
<1>4. Kept(to, j, [ldap EXCEPT ![n] = a], provider, authIds) BY <1>3, EntryKept
<1>5. CallOK(to, j, ldap', provider', authIds') BY <1>2, FreeIsOK DEF Free
<1> QED BY <1>1, <1>2, <1>4, <1>5, TurnTaken DEF Turn

LEMMA RemoveEntryTurn ==
  ASSUME Alone, InTurn, NEW t \in Threads, RemoveEntry(t), Typed'
  PROVE  InTurn'
<1> DEFINE n == job[t].name
<1>1. /\ pc[t] = "remove" /\ ldap' = [ldap EXCEPT ![n] = None] /\ Step(t, "idle", NoJob)
      /\ provider' = provider /\ authIds' = authIds
  BY DEF RemoveEntry, End
<1>2. Kept("remove", job[t], ldap, provider, authIds) /\ ldap \in [Names -> Account \cup {None}]
  BY <1>1, TurnIsTyped DEF Turn
<1>3. \A m \in Names : ldap'[m] # None => m # n /\ ldap'[m] = ldap[m] /\ ldap[m] # None
  BY <1>1, <1>2
<1>4. Kept("idle", NoJob, ldap', provider', authIds')
  BY <1>1, <1>2, <1>3 DEF Kept, Own
<1>5. CallOK("idle", NoJob, ldap', provider', authIds') BY FreeIsOK DEF Free
<1> QED BY <1>1, <1>4, <1>5, TurnTaken DEF Turn

LEMMA InitTurn == Init => InTurn
<1> SUFFICES ASSUME Init PROVE InTurn OBVIOUS
<1>1. PICK uuid \in [Names -> 1 .. Cardinality(Names)], p \in Phones :
        ldap = [n \in Names |-> InitialAccount(n, uuid[n], p)]
  BY DEF Init
<1>2. pc = [t \in Threads |-> "idle"] BY DEF Init
<1>3. \A n \in Names : ldap[n].authId = None /\ ~ldap[n].twoFactor
  BY <1>1 DEF InitialAccount
<1>4. \A t \in Threads : CallOK(pc[t], job[t], ldap, provider, authIds)
  BY <1>2, FreeIsOK DEF Free
<1>5. \A t \in Threads : Kept(pc[t], job[t], ldap, provider, authIds)
  BY <1>3 DEF Kept, Own, Registered
<1> QED BY <1>4, <1>5, InitTyped DEF InTurn, Turn

LEMMA NextTurn ==
  ASSUME Alone, ~MayFail, ~OtherNamed, InTurn, [Next]_vars
  PROVE  InTurn'
<1>1. Typed' BY NextTyped DEF InTurn
<1>2. ASSUME NEW t \in Threads,
             \/ \E n \in Names : Bind(t, n)
             \/ \E k \in Keys, n \in Names : SubmitReset(t, k, n) \/ SubmitDelete(t, k, n)
             \/ LookUp(t) \/ OpenSession(t) \/ Invalidate(t) \/ Store(t)
      PROVE  InTurn'
  BY <1>1, <1>2, FreeTurn
<1>3. ASSUME NEW t \in Threads, NEW k \in Keys, NEW r \in Requests,
             SubmitCreate(t, k, r) \/ \E n \in Names : SubmitUpdate(t, k, n, r)
      PROVE  InTurn'
  BY <1>1, <1>3, SubmitTurn
<1>4. ASSUME NEW t \in Threads, Register(t) \/ Reregister(t) PROVE InTurn'
  BY <1>1, <1>4, AddTurn DEF Register, Reregister
<1>5. ASSUME NEW t \in Threads, Deregister(t) \/ Unregister(t) PROVE InTurn'
  BY <1>1, <1>5, RemoveTurn
<1>6. ASSUME NEW t \in Threads, CreateFails(t) \/ ProviderFails(t) \/ LdapFails(t) PROVE InTurn'
  BY <1>1, <1>6, OverTurn
<1>7. ASSUME NEW t \in Threads,
             \/ CreateEntry(t) \/ FindForUpdate(t) \/ ReadExisting(t) \/ Scramble(t)
             \/ WriteEntry(t)
      PROVE  InTurn'
  BY <1>1, <1>7, CreateEntryTurn, FindForUpdateTurn, ReadExistingTurn, ScrambleTurn,
     WriteEntryTurn
<1>8. ASSUME NEW t \in Threads,
             FindTarget(t) \/ SetPassword(t) \/ FindToDelete(t) \/ RemoveEntry(t)
      PROVE  InTurn'
  BY <1>1, <1>8, PasswordTurn, FindToDeleteTurn, RemoveEntryTurn
<1>9. CASE UNCHANGED <<ldap, provider, authIds, pc, job>> BY <1>1, <1>9 DEF InTurn
<1>10. ASSUME NEW k \in Keys, EndSession(k) PROVE InTurn' BY <1>9, <1>10 DEF EndSession
<1>11. CASE UNCHANGED vars BY <1>9, <1>11 DEF vars, stores
<1> QED BY <1>2, <1>3, <1>4, <1>5, <1>6, <1>7, <1>8, <1>10, <1>11 DEF Next

\* While requests come one at a time, no call fails and the body of an update
\* names the account of its path, whoever uses two-factor authentication is
\* registered with the present phone: AccountsResource.update and delete remove
\* only the user of the account they are about, and what is registered anew is
\* written to the entry before the request is over.
THEOREM RegistrationsKept ==
  ASSUME Alone, ~MayFail, ~OtherNamed
  PROVE  Spec => []TwoFactorRegistered
<1>1. Init => InTurn BY InitTurn
<1>2. InTurn /\ [Next]_vars => InTurn' BY NextTurn
<1>3. InTurn => TwoFactorRegistered
  BY DEF InTurn, Turn, Kept, Registered, Away, TwoFactorRegistered, Alone
<1> QED BY <1>1, <1>2, <1>3, PTL DEF Spec

-----------------------------------------------------------------------------
(* What is written back, whatever other threads write meanwhile.  A thread *)
(* writes what its request says of the suspension, and the request of a    *)
(* password change says what was found when it read the account (late).    *)

CopyOK(p, j) ==
  /\ p \in {"find", "deregister", "reregister"} => j.op = "update"
  /\ p \in {"target", "password"} => j.op = "reset"
  /\ p \in {"existing", "scramble", "write"} => j.op \in {"update", "reset"}
  /\ p \in {"password", "existing", "scramble", "write"} /\ j.op = "reset" =>
       j.request.suspended = j.late
  /\ p \in {"scramble", "write"} => j.existing.suspended = j.request.suspended
Copies == Typed /\ \A t \in Threads : CopyOK(pc[t], job[t])

LEMMA CopyTaken ==
  ASSUME Copies, NEW t \in Threads, NEW to, NEW j, Step(t, to, j), Typed', CopyOK(to, j)
  PROVE  Copies'
<1>1. /\ pc'[t] = to /\ job'[t] = j
      /\ \A s \in Threads \ {t} : pc'[s] = pc[s] /\ job'[s] = job[s]
  BY DEF Copies, Typed, JobsTyped, Step
<1>2. \A s \in Threads : CopyOK(pc'[s], job'[s])
  <2> SUFFICES ASSUME NEW s \in Threads PROVE CopyOK(pc'[s], job'[s]) OBVIOUS
  <2>1. CASE s = t BY <1>1, <2>1
  <2>2. CASE s # t BY <1>1, <2>2 DEF Copies
  <2> QED BY <2>1, <2>2
<1> QED BY <1>2 DEF Copies

\* Steps after which nothing is claimed.
NoClaim == {"idle", "lookup", "open", "register", "create", "invalidate", "store",
            "findDelete", "unregister", "remove"}

LEMMA ElsewhereKeepsCopies ==
  ASSUME Copies, NEW t \in Threads, Typed',
         \/ \E n \in Names : Bind(t, n)
         \/ \E k \in Keys, r \in Requests : SubmitCreate(t, k, r)
         \/ \E k \in Keys, n \in Names : SubmitDelete(t, k, n)
         \/ LookUp(t) \/ OpenSession(t) \/ Invalidate(t) \/ Store(t)
         \/ Register(t) \/ CreateEntry(t) \/ WriteEntry(t)
         \/ CreateFails(t) \/ ProviderFails(t) \/ LdapFails(t)
         \/ FindToDelete(t) \/ Unregister(t) \/ RemoveEntry(t)
  PROVE  Copies'
<1>1. PICK to, j : to \in NoClaim /\ Step(t, to, j)
  <2>0. CASE \E k \in Keys, r \in Requests : SubmitCreate(t, k, r)
    <3>1. \E to \in {"register", "create"} : \E j : Step(t, to, j) BY <2>0 DEF SubmitCreate
    <3> QED BY <3>1 DEF NoClaim
  <2>1. CASE \E n \in Names : Bind(t, n)
    <3>1. \E j : Step(t, "lookup", j) BY <2>1 DEF Bind
    <3> QED BY <3>1 DEF NoClaim
  <2>6. CASE \E k \in Keys, n \in Names : SubmitDelete(t, k, n)
    <3>1. \E to \in {"findDelete"} : \E j : Step(t, to, j) BY <2>6 DEF SubmitDelete
    <3> QED BY <3>1 DEF NoClaim
  <2>2. CASE LookUp(t) \/ OpenSession(t) \/ Invalidate(t) \/ Store(t)
    BY <2>2 DEF LookUp, OpenSession, Invalidate, Store, End, NoClaim
  <2>3. CASE Register(t) \/ CreateEntry(t) \/ WriteEntry(t)
    BY <2>3 DEF Register, AddRegistration, CreateEntry, WriteEntry, End, NoClaim
  <2>4. CASE CreateFails(t) \/ ProviderFails(t) \/ LdapFails(t)
    BY <2>4 DEF CreateFails, ProviderFails, LdapFails, End, NoClaim
  <2>5. CASE FindToDelete(t) \/ Unregister(t) \/ RemoveEntry(t)
    BY <2>5 DEF FindToDelete, Unregister, RemoveRegistration, RemoveEntry, End, NoClaim
  <2> QED BY <2>0, <2>1, <2>2, <2>3, <2>4, <2>5, <2>6
<1>2. CopyOK(to, j) BY <1>1 DEF CopyOK, NoClaim
<1> QED BY <1>1, <1>2, CopyTaken

\* An update on its way to AccountDAO.update.
BeforeCopy == {"idle", "find", "deregister", "reregister", "existing"}

LEMMA UpdateKeepsCopies ==
  ASSUME Copies, NEW t \in Threads, Typed',
         \/ \E k \in Keys, n \in Names, r \in Requests : SubmitUpdate(t, k, n, r)
         \/ FindForUpdate(t) \/ Deregister(t) \/ Reregister(t)
  PROVE  Copies'
<1>1. PICK to, j : Step(t, to, j) /\ to \in BeforeCopy /\ (to = "idle" \/ j.op = "update")
  <2>1. ASSUME NEW k \in Keys, NEW n \in Names, NEW r \in Requests, SubmitUpdate(t, k, n, r)
        PROVE  \E to, j : Step(t, to, j) /\ to \in BeforeCopy /\ (to = "idle" \/ j.op = "update")
    <3> DEFINE q == [r EXCEPT !.admin = r.admin /\ sessions[k].admin]
               j == [CallOf("update", k, n) EXCEPT !.request = q]
    <3>1. Step(t, "find", j) BY <2>1 DEF SubmitUpdate, CallOf, NoJob
    <3>2. j.op = "update" BY DEF CallOf, NoJob
    <3> HIDE DEF j
    <3> QED BY <3>1, <3>2 DEF BeforeCopy
  <2>2. CASE FindForUpdate(t)
    <3> DEFINE j == [job[t] EXCEPT !.found = ldap[job[t].name], !.name = job[t].request.name]
    <3>1. job[t].op = "update" /\ job[t] \in Job
      BY <2>2, JobIsTyped DEF FindForUpdate, Copies, CopyOK
    <3>2. \/ Step(t, "idle", NoJob)
          \/ \E to \in {"reregister", "deregister", "existing"} : Step(t, to, j)
      BY <2>2 DEF FindForUpdate, End
    <3>3. j.op = "update" BY <3>1 DEF Job
    <3> HIDE DEF j
    <3> QED BY <3>2, <3>3 DEF BeforeCopy
  <2>3. CASE Deregister(t)
    <3>1. job[t].op = "update"
      BY <2>3 DEF Deregister, RemoveRegistration, Copies, CopyOK
    <3>2. \E to \in {"reregister", "existing"} : Step(t, to, job[t])
      BY <2>3 DEF Deregister, RemoveRegistration
    <3> QED BY <3>1, <3>2 DEF BeforeCopy
  <2>4. CASE Reregister(t)
    <3> DEFINE j == [job[t] EXCEPT !.request.authId = authIds']
    <3>1. Step(t, "existing", j) /\ pc[t] = "reregister" BY <2>4 DEF Reregister, AddRegistration
    <3>2. job[t].op = "update" /\ job[t] \in Job BY <3>1, JobIsTyped DEF Copies, CopyOK
    <3>3. j.op = "update" BY <3>2 DEF Job
    <3> HIDE DEF j
    <3> QED BY <3>1, <3>3 DEF BeforeCopy
  <2> QED BY <2>1, <2>2, <2>3, <2>4
<1>2. CopyOK(to, j) BY <1>1 DEF CopyOK, BeforeCopy
<1> QED BY <1>1, <1>2, CopyTaken

LEMMA PasswordKeepsCopies ==
  ASSUME Copies, NEW t \in Threads, Typed',
         \/ \E k \in Keys, n \in Names : SubmitReset(t, k, n)
         \/ FindTarget(t) \/ SetPassword(t)
  PROVE  Copies'
<1>1. ASSUME NEW k \in Keys, NEW n \in Names, SubmitReset(t, k, n) PROVE Copies'
  <2> DEFINE j == CallOf("reset", k, n)
  <2>1. Step(t, "target", j) BY <1>1 DEF SubmitReset, CallOf
  <2>2. j.op = "reset" BY DEF CallOf, NoJob
  <2> HIDE DEF j
  <2>3. CopyOK("target", j) BY <2>2 DEF CopyOK
  <2> QED BY <2>1, <2>3, CopyTaken
<1>2. CASE FindTarget(t)
  <2> DEFINE target == ldap[job[t].name]
             j == [job[t] EXCEPT !.request = AsRequest(target), !.late = target.suspended]
  <2>1. /\ pc[t] = "target"
        /\ Step(t, "idle", NoJob) \/ (target # None /\ Step(t, "password", j))
    BY <1>2 DEF FindTarget, End
  <2>2. CASE Step(t, "idle", NoJob)
    <3>1. CopyOK("idle", NoJob) BY DEF CopyOK
    <3> QED BY <2>2, <3>1, CopyTaken
  <2>3. CASE target # None /\ Step(t, "password", j)
    <3>1. JobTyped("target", job[t]) /\ job[t] \in Job BY <2>1, JobIsTyped DEF Copies
    <3>2. target \in Account
      BY <2>3, <3>1 DEF Copies, Typed, StoresTyped, EntriesTyped, JobTyped
    <3> HIDE DEF target
    <3>3. /\ j.op = job[t].op /\ j.request = AsRequest(target) /\ j.late = target.suspended
      BY <3>1, <3>2, TargetTyped
    <3>4. AsRequest(target).suspended = target.suspended BY <3>2, MergedWithItself
    <3> HIDE DEF j
    <3>5. job[t].op = "reset" BY <2>1 DEF Copies, CopyOK
    <3>6. CopyOK("password", j) BY <3>3, <3>4, <3>5 DEF CopyOK
    <3> QED BY <2>3, <3>6, CopyTaken
  <2> QED BY <2>1, <2>2, <2>3
<1>3. CASE SetPassword(t)
  <2>1. CopyOK("existing", job[t]) BY <1>3 DEF SetPassword, Copies, CopyOK
  <2> QED BY <1>3, <2>1, CopyTaken DEF SetPassword
<1> QED BY <1>1, <1>2, <1>3

LEMMA ReadingKeepsCopies ==
  ASSUME Copies, NEW t \in Threads, Typed', ReadExisting(t) \/ Scramble(t)
  PROVE  Copies'
<1>1. CASE Scramble(t)
  <2>1. CopyOK("write", job[t]) BY <1>1 DEF Scramble, Copies, CopyOK
  <2> QED BY <1>1, <2>1, CopyTaken DEF Scramble
<1>2. CASE ReadExisting(t)
  <2> DEFINE n == job[t].name
             copy == Merged(ldap[n], job[t].request)
             j == [job[t] EXCEPT !.existing = copy, !.found = None]
  <2>1. /\ pc[t] = "existing"
        /\ \/ Step(t, "idle", NoJob)
           \/ ldap[n] # None /\ \E to \in {"scramble", "write"} : Step(t, to, j)
    BY <1>2 DEF ReadExisting, End
  <2>2. JobTyped("existing", job[t]) /\ job[t] \in Job /\ CopyOK("existing", job[t])
    BY <2>1, JobIsTyped DEF Copies
  <2>3. CASE Step(t, "idle", NoJob)
    <3>1. CopyOK("idle", NoJob) BY DEF CopyOK
    <3> QED BY <2>3, <3>1, CopyTaken
  <2>4. ASSUME ldap[n] # None, NEW to \in {"scramble", "write"}, Step(t, to, j) PROVE Copies'
    <3>1. ldap[n] \in Account /\ job[t].request \in Request
      BY <2>2, <2>4 DEF Copies, Typed, StoresTyped, EntriesTyped, JobTyped, HasRequest
    <3>2. copy \in Account /\ copy.suspended = job[t].request.suspended
      BY <3>1, MergedTyped, MergedIs
    <3> HIDE DEF copy
    <3>3. /\ j.existing = copy /\ j.op = job[t].op /\ j.request = job[t].request
          /\ j.late = job[t].late
      BY <2>2, <3>2, CopyTyped
    <3> HIDE DEF j
    <3>4. CopyOK(to, j) BY <2>2, <3>2, <3>3 DEF CopyOK
    <3> QED BY <2>4, <3>4, CopyTaken
  <2> QED BY <2>1, <2>3, <2>4
<1> QED BY <1>1, <1>2

LEMMA InitCopies == Init => Copies
<1> SUFFICES ASSUME Init PROVE Copies OBVIOUS
<1>1. pc = [t \in Threads |-> "idle"] BY DEF Init
<1> QED BY <1>1, InitTyped DEF Copies, CopyOK

LEMMA NextCopies == Copies /\ [Next]_vars => Copies'
<1> SUFFICES ASSUME Copies, [Next]_vars PROVE Copies' OBVIOUS
<1>1. Typed' BY NextTyped DEF Copies
<1>2. ASSUME NEW t \in Threads,
             \/ \E n \in Names : Bind(t, n)
             \/ \E k \in Keys, r \in Requests : SubmitCreate(t, k, r)
             \/ \E k \in Keys, n \in Names : SubmitDelete(t, k, n)
             \/ LookUp(t) \/ OpenSession(t) \/ Invalidate(t) \/ Store(t)
             \/ Register(t) \/ CreateEntry(t) \/ WriteEntry(t)
             \/ CreateFails(t) \/ ProviderFails(t) \/ LdapFails(t)
             \/ FindToDelete(t) \/ Unregister(t) \/ RemoveEntry(t)
      PROVE  Copies'
  BY <1>1, <1>2, ElsewhereKeepsCopies
<1>3. ASSUME NEW t \in Threads,
             \/ \E k \in Keys, n \in Names, r \in Requests : SubmitUpdate(t, k, n, r)
             \/ FindForUpdate(t) \/ Deregister(t) \/ Reregister(t)
      PROVE  Copies'
  BY <1>1, <1>3, UpdateKeepsCopies
<1>4. ASSUME NEW t \in Threads,
             \/ \E k \in Keys, n \in Names : SubmitReset(t, k, n)
             \/ FindTarget(t) \/ SetPassword(t)
      PROVE  Copies'
  BY <1>1, <1>4, PasswordKeepsCopies
<1>5. ASSUME NEW t \in Threads, ReadExisting(t) \/ Scramble(t) PROVE Copies'
  BY <1>1, <1>5, ReadingKeepsCopies
<1>6. CASE UNCHANGED <<pc, job>> BY <1>1, <1>6 DEF Copies
<1>7. ASSUME NEW k \in Keys, EndSession(k) PROVE Copies' BY <1>6, <1>7 DEF EndSession
<1>8. CASE UNCHANGED vars BY <1>6, <1>8 DEF vars
<1> QED BY <1>2, <1>3, <1>4, <1>5, <1>7, <1>8 DEF Next

\* Entries are only created, removed, or written back.
LEMMA EntriesChange ==
  ASSUME [Next]_vars
  PROVE  ldap' = ldap \/ \E t \in Threads : CreateEntry(t) \/ RemoveEntry(t) \/ WriteEntry(t)
<1>1. ASSUME NEW t \in Threads,
             \/ \E n \in Names : Bind(t, n)
             \/ \E k \in Keys, r \in Requests : SubmitCreate(t, k, r)
             \/ \E k \in Keys, n \in Names, r \in Requests : SubmitUpdate(t, k, n, r)
             \/ \E k \in Keys, n \in Names : SubmitReset(t, k, n) \/ SubmitDelete(t, k, n)
      PROVE  ldap' = ldap
  BY <1>1 DEF Bind, SubmitCreate, SubmitUpdate, SubmitReset, SubmitDelete, stores
<1>2. ASSUME NEW t \in Threads,
             \/ LookUp(t) \/ OpenSession(t) \/ Invalidate(t) \/ Store(t)
             \/ CreateFails(t) \/ ProviderFails(t) \/ LdapFails(t)
      PROVE  ldap' = ldap
  BY <1>2 DEF LookUp, OpenSession, Invalidate, Store, CreateFails, ProviderFails, LdapFails,
              stores
<1>3. ASSUME NEW t \in Threads,
             Register(t) \/ Reregister(t) \/ Deregister(t) \/ Unregister(t)
      PROVE  ldap' = ldap
  BY <1>3 DEF Register, Reregister, Deregister, Unregister, AddRegistration, RemoveRegistration
<1>4. ASSUME NEW t \in Threads,
             \/ FindForUpdate(t) \/ ReadExisting(t) \/ Scramble(t)
             \/ FindTarget(t) \/ SetPassword(t) \/ FindToDelete(t)
      PROVE  ldap' = ldap
  BY <1>4 DEF FindForUpdate, ReadExisting, Scramble, FindTarget, SetPassword, FindToDelete,
              stores
<1>5. ASSUME NEW k \in Keys, EndSession(k) PROVE ldap' = ldap BY <1>5 DEF EndSession
<1>6. UNCHANGED vars => ldap' = ldap BY DEF vars, stores
<1> QED BY <1>1, <1>2, <1>3, <1>4, <1>5, <1>6 DEF Next

\* A step after which a suspended account is not suspended any more.
Lifts(t, n) ==
  /\ pc[t] = "write" /\ pc'[t] # "write" /\ job[t].name = n
  /\ \/ job[t].op = "update" /\ ~job[t].request.suspended
     \/ job[t].op = "reset" /\ ~job[t].late

LEMMA LostOnlyToOlder ==
  ASSUME Copies, [Next]_vars, NEW n \in Names, ldap[n] # None, ldap[n].suspended,
         ldap'[n] # None, ~ldap'[n].suspended
  PROVE  \E t \in Threads : Lifts(t, n)
<1>1. ldap \in [Names -> Account \cup {None}]
  BY DEF Copies, Typed, StoresTyped, EntriesTyped
<1>2. PICK t \in Threads : CreateEntry(t) \/ RemoveEntry(t) \/ WriteEntry(t)
  BY EntriesChange
<1>3. JobTyped(pc[t], job[t]) /\ CopyOK(pc[t], job[t]) /\ pc \in [Threads -> AllPlaces]
  BY JobIsTyped DEF Copies
<1>4. CASE CreateEntry(t)
  <2>1. ldap[job[t].name] = None BY <1>4 DEF CreateEntry
  <2>2. ldap'[n] = ldap[n]
    <3> DEFINE a == Merged(InitialAccount(job[t].name, uuids', job[t].request.phone), job[t].request)
    <3>1. ldap' = [ldap EXCEPT ![job[t].name] = a] BY <1>4 DEF CreateEntry
    <3> HIDE DEF a
    <3> QED BY <1>1, <2>1, <3>1
  <2> QED BY <2>2
<1>5. CASE RemoveEntry(t)
  <2>1. ldap' = [ldap EXCEPT ![job[t].name] = None] BY <1>5 DEF RemoveEntry
  <2> QED BY <1>1, <2>1
<1>6. CASE WriteEntry(t)
  <2>1. /\ pc[t] = "write" /\ ldap' = [ldap EXCEPT ![job[t].name] = job[t].existing]
        /\ \E to, j : to # "write" /\ Step(t, to, j)
    BY <1>6 DEF WriteEntry
  <2>2. job[t].name = n /\ ldap'[n] = job[t].existing BY <1>1, <2>1
  <2>3. pc'[t] # "write" BY <1>3, <2>1 DEF Step
  <2>4. /\ job[t].existing.suspended = job[t].request.suspended
        /\ job[t].op \in {"update", "reset"}
        /\ job[t].op = "reset" => job[t].request.suspended = job[t].late
    BY <1>3, <2>1 DEF CopyOK
  <2> QED BY <2>1, <2>2, <2>3, <2>4 DEF Lifts
<1> QED BY <1>2, <1>4, <1>5, <1>6

\* Whatever the threads, the operations and what fails, AccountDAO.setPassword,
\* whose update writes the whole entry back, leaves an account suspended that it
\* found so, also when others lift the suspension, write it again, or delete and
\* create the account while it is under way.  Only a suspension written after it
\* read the account can be lost to it.
THEOREM OlderCopiesOnly == Spec => SuspensionLostOnlyToOlderCopy
<1>1. Init => Copies BY InitCopies
<1>2. Copies /\ [Next]_vars => Copies' BY NextCopies
<1>3. Copies /\ [Next]_vars =>
        [\A n \in Names :
           ldap[n] # None /\ ldap[n].suspended /\ ldap'[n] # None /\ ~ldap'[n].suspended =>
             \E t \in Threads :
               /\ pc[t] = "write" /\ pc'[t] # "write" /\ job[t].name = n
               /\ \/ job[t].op = "update" /\ ~job[t].request.suspended
                  \/ job[t].op = "reset" /\ ~job[t].late]_vars
  BY LostOnlyToOlder DEF Lifts
<1> QED BY <1>1, <1>2, <1>3, PTL DEF Spec, SuspensionLostOnlyToOlderCopy
=============================================================================
