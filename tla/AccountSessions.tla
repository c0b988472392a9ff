--------------------------- MODULE AccountSessions ---------------------------
(***************************************************************************)
(* Accounts in LDAP, the sessions opened for them in Redis, and the users  *)
(* registered for them with the two-factor provider: AccountsResource,     *)
(* AccountDAO, SessionDAO.  A request runs on a server thread and goes to  *)
(* LDAP, Redis and the provider one call at a time; no transaction spans   *)
(* two calls, so the requests of two callers interleave between them.      *)
(*                                                                         *)
(* A session holds a copy of its account made at login; every check of who *)
(* the caller is reads that copy.  Changing one's own password, which needs *)
(* the present one, leaves the owner knowing it and changes nothing here.  *)
(*                                                                         *)
(* A definition whose name has a suffix (LookUp_NotChecked) is the one     *)
(* that follows it with a plausible bug; the specification never uses it.  *)
(***************************************************************************)
EXTENDS Naturals, FiniteSets

CONSTANTS
  Threads,     \* server threads
  Names,       \* account names; the system mailer's is not one of them
  Admins,      \* those that are administrators to begin with
  Keys,        \* API keys, i.e. session ids
  Phones,      \* mobile phone numbers
  Operations,  \* the requests that arrive
  Requests,    \* what the bodies of requests ask for
  None,        \* null
  MayFail,     \* whether LDAP and the provider may fail
  OtherNamed,  \* whether the body of an update may name another account than its path
  MaxUuid,     \* bound on the accounts ever created
  MaxAuthId    \* bound on the users ever registered with the provider

ASSUME NamesAssumption ==
  /\ Admins \subseteq Names
  /\ IsFiniteSet(Threads) /\ IsFiniteSet(Names)
  /\ None \notin Phones
  /\ Phones # {}
  /\ Requests \subseteq [name : Names, admin : BOOLEAN, suspended : BOOLEAN,
                         twoFactor : BOOLEAN, phone : Phones, authId : {None}]
  /\ MaxUuid \in Nat /\ MaxUuid >= Cardinality(Names)
  /\ MaxAuthId \in Nat
  /\ Operations \subseteq {"login", "logout", "create", "update", "reset", "delete"}

VARIABLES
  ldap,      \* per name, the account's entry or None
  known,     \* names whose owner knows the password, and chose it
  given,     \* names whose owner knows a password an administrator has set
  sessions,  \* per API key, the account copied into the session, or None
  provider,  \* per auth id, the phone registered under it, or None
  uuids,     \* how many accounts have been created
  authIds,   \* how many users have been registered
  pc, job,
  opened     \* history: whether a suspension should have ended each session

stores == <<ldap, known, given, sessions, provider, uuids, authIds>>
vars   == <<stores, pc, job, opened>>

AuthIds == 1 .. MaxAuthId
Account == [name : Names, uuid : 1 .. MaxUuid, admin : BOOLEAN, suspended : BOOLEAN,
            twoFactor : BOOLEAN, phone : Phones, authId : AuthIds \cup {None}]
ASSUME NoneAssumption == None \notin Operations /\ None \notin AuthIds /\ None \notin Account

Request == [name : Names, admin : BOOLEAN, suspended : BOOLEAN, twoFactor : BOOLEAN,
            phone : Phones, authId : AuthIds \cup {None}]

\* What a thread works on: the caller's session, the account named, the request,
\* the copies of the account read on the way, and whether the account was
\* suspended already when the thread bound to it or read it.
Job == [op : Operations \cup {None}, key : Keys \cup {None}, caller : Account \cup {None},
        name : Names \cup {None}, request : Request \cup {None},
        found : Account \cup {None}, existing : Account \cup {None}, late : BOOLEAN]
NoJob == [op |-> None, key |-> None, caller |-> None, name |-> None, request |-> None,
          found |-> None, existing |-> None, late |-> FALSE]

-----------------------------------------------------------------------------
(* Helpers *)

\* The thread moves on with what it knows now.
Step(t, to, j) ==
  /\ pc' = [pc EXCEPT ![t] = to]
  /\ job' = [job EXCEPT ![t] = j]

\* The request is over, with whatever status: nothing else is changed.
End(t) == Step(t, "idle", NoJob) /\ UNCHANGED opened

\* LdapEntity.merge: every attribute the request has replaces the account's.
Merged(account, r) ==
  [account EXCEPT !.admin = r.admin, !.suspended = r.suspended, !.twoFactor = r.twoFactor,
                  !.phone = r.phone,
                  !.authId = IF r.authId = None THEN account.authId ELSE r.authId]

AsRequest(account) ==
  [name |-> account.name, admin |-> account.admin, suspended |-> account.suspended,
   twoFactor |-> account.twoFactor, phone |-> account.phone, authId |-> account.authId]

\* The three cases of update's two-factor branch.
TurnsOff(r, found)     == ~r.twoFactor /\ found.twoFactor
TurnsOn(r, found)      == r.twoFactor /\ ~found.twoFactor
PhoneChanges(r, found) == r.twoFactor = found.twoFactor /\ r.phone # found.phone

\* The bounds leave room for what a request may register or create.
RoomFor(count, max) == count + Cardinality({t \in Threads : pc[t] # "idle"}) < max

InitialAccount(n, i, p) ==
  [name |-> n, uuid |-> i, admin |-> n \in Admins, suspended |-> FALSE,
   twoFactor |-> FALSE, phone |-> p, authId |-> None]

\* Every account is there, none uses two-factor authentication yet.
Init ==
  /\ \E uuid \in [Names -> 1 .. Cardinality(Names)], p \in Phones :
       /\ \A m, n \in Names : m # n => uuid[m] # uuid[n]
       /\ ldap = [n \in Names |-> InitialAccount(n, uuid[n], p)]
  /\ known = Names
  /\ given = {}
  /\ sessions = [k \in Keys |-> None]
  /\ provider = [i \in AuthIds |-> None]
  /\ uuids = Cardinality(Names)
  /\ authIds = 0
  /\ pc = [t \in Threads |-> "idle"]
  /\ job = [t \in Threads |-> NoJob]
  /\ opened = [k \in Keys |-> "clear"]

-----------------------------------------------------------------------------
(* Login and logout (external, but for AccountDAO.authenticate) *)

\* AccountDAO.authenticate: the LDAP bind, which needs the password.
Bind(t, n) ==
  /\ pc[t] = "idle"
  /\ "login" \in Operations
  /\ ldap[n] # None /\ n \in known \cup given
  /\ Step(t, "lookup",
          [NoJob EXCEPT !.op = "login", !.name = n, !.late = n \in known /\ ldap[n].suspended])
  /\ UNCHANGED <<stores, opened>>

LookUp_NotChecked(t) ==
  /\ pc[t] = "lookup"
  /\ Step(t, "open", [job[t] EXCEPT !.found = ldap[job[t].name]])
  /\ UNCHANGED <<stores, opened>>

\* ... and the lookup of the account by its name.
LookUp(t) ==
  LET found == ldap[job[t].name] IN
  /\ pc[t] = "lookup"
  /\ \/ found = None /\ End(t)
     \/ /\ found # None
        /\ Step(t, "open", [job[t] EXCEPT !.found = found])
        /\ UNCHANGED opened
  /\ UNCHANGED stores

\* sessionDAO.create, under a new API key (a random one: no request still has it).
OpenSession(t) ==
  LET account == job[t].found
      entry   == ldap[account.name] IN
  /\ pc[t] = "open"
  /\ \E k \in Keys :
       /\ sessions[k] = None /\ \A s \in Threads : job[s].key # k
       /\ sessions' = [sessions EXCEPT ![k] = account]
       /\ opened' = [opened EXCEPT ![k] =
            IF entry = None \/ entry.uuid # account.uuid \/ ~entry.suspended THEN "clear"
            ELSE IF job[t].late THEN "late" ELSE "spared"]
  /\ Step(t, "idle", NoJob)
  /\ UNCHANGED <<ldap, known, given, provider, uuids, authIds>>

\* A session ends: its owner logs out, or it expires.
EndSession(k) ==
  /\ "logout" \in Operations
  /\ sessions[k] # None
  /\ sessions' = [sessions EXCEPT ![k] = None]
  /\ UNCHANGED <<ldap, known, given, provider, uuids, authIds, pc, job>>
  /\ opened' = [opened EXCEPT ![k] = "clear"]

-----------------------------------------------------------------------------
(* The two-factor provider (external) *)

\* set2factor: the new user's id goes into the request.
AddRegistration(t, from, to) ==
  /\ pc[t] = from
  /\ authIds' = authIds + 1
  /\ provider' = [provider EXCEPT ![authIds'] = job[t].request.phone]
  /\ Step(t, to, [job[t] EXCEPT !.request.authId = authIds'])
  /\ UNCHANGED <<ldap, known, given, sessions, uuids, opened>>

\* remove2factor of the account found; without an id to remove it fails.
RemoveRegistration(t, from, to) ==
  /\ pc[t] = from
  /\ job[t].found.authId # None
  /\ provider' = [provider EXCEPT ![job[t].found.authId] = None]
  /\ Step(t, to, job[t])
  /\ UNCHANGED <<ldap, known, given, sessions, uuids, authIds, opened>>

\* A call to the provider fails, and the request with it.
ProviderFails(t) ==
  /\ pc[t] \in {"register", "reregister", "deregister", "unregister"}
  /\ \/ MayFail
     \/ pc[t] \in {"deregister", "unregister"} /\ job[t].found.authId = None
  /\ End(t)
  /\ UNCHANGED stores

-----------------------------------------------------------------------------
(* AccountsResource.addAccount *)

SubmitCreate(t, k, r) ==
  /\ pc[t] = "idle"
  /\ "create" \in Operations
  /\ sessions[k] # None /\ sessions[k].admin
  /\ RoomFor(authIds, MaxAuthId) /\ RoomFor(uuids, MaxUuid)
  /\ Step(t, IF r.twoFactor THEN "register" ELSE "create",
          [NoJob EXCEPT !.op = "create", !.key = k, !.caller = sessions[k],
                        !.name = r.name, !.request = r])
  /\ UNCHANGED <<stores, opened>>

Register(t) == AddRegistration(t, "register", "create")

\* AccountDAO.create; the name must be free.
CreateEntry(t) ==
  LET n == job[t].name
      blank == InitialAccount(n, uuids', job[t].request.phone) IN
  /\ pc[t] = "create"
  /\ ldap[n] = None
  /\ uuids' = uuids + 1
  /\ ldap' = [ldap EXCEPT ![n] = Merged(blank, job[t].request)]
  /\ known' = known \cup {n} /\ given' = given \ {n}
  /\ End(t)
  /\ UNCHANGED <<sessions, provider, authIds>>

CreateFails(t) ==
  /\ pc[t] = "create"
  /\ MayFail \/ ldap[job[t].name] # None
  /\ End(t)
  /\ UNCHANGED stores

-----------------------------------------------------------------------------
(* AccountsResource.update *)

\* The session and the checks made against it: the caller's rights are to the
\* account of the path, and the one not to suspend is the body's.
SubmitUpdate(t, k, n, r) ==
  LET caller == sessions[k] IN
  /\ pc[t] = "idle"
  /\ "update" \in Operations
  /\ caller # None
  /\ RoomFor(authIds, MaxAuthId)
  /\ caller.admin \/ caller.name = n
  /\ OtherNamed \/ r.name = n
  /\ ~(caller.admin /\ r.name = caller.name /\ r.suspended)
  /\ Step(t, "find",
          [NoJob EXCEPT !.op = "update", !.key = k, !.caller = caller, !.name = n,
                        !.request = [r EXCEPT !.admin = r.admin /\ caller.admin]])
  /\ UNCHANGED <<stores, opened>>

\* accountDAO.findByName, and which calls to the provider that leads to.  All
\* that follows goes by the name in the body.
FindForUpdate(t) ==
  LET found == ldap[job[t].name]
      r     == job[t].request
      to    == IF TurnsOn(r, found) THEN "reregister"
               ELSE IF TurnsOff(r, found) \/ PhoneChanges(r, found) THEN "deregister"
               ELSE "existing" IN
  /\ pc[t] = "find"
  /\ \/ found = None /\ End(t)
     \/ found # None /\ Step(t, to, [job[t] EXCEPT !.found = found, !.name = r.name])
                     /\ UNCHANGED opened
  /\ UNCHANGED stores

Deregister(t) ==
  RemoveRegistration(t, "deregister",
    IF TurnsOff(job[t].request, job[t].found) THEN "existing" ELSE "reregister")

Reregister(t) == AddRegistration(t, "reregister", "existing")

\* AccountDAO.update: findByDn, and the merge into what it finds.
ReadExisting(t) ==
  LET existing == ldap[job[t].name]
      suspends == ~existing.suspended /\ job[t].request.suspended IN
  /\ pc[t] = "existing"
  /\ \/ existing = None /\ End(t)
     \/ /\ existing # None
        /\ Step(t, IF suspends THEN "scramble" ELSE "write",
                [job[t] EXCEPT !.existing = Merged(existing, job[t].request),
                               !.found = None])
        /\ UNCHANGED opened
  /\ UNCHANGED stores

Scramble_Skipped(t) ==
  /\ pc[t] = "scramble"
  /\ ldap[job[t].name] # None
  /\ Step(t, "write", job[t])
  /\ UNCHANGED <<stores, opened>>

\* A password nobody knows for an account that is being suspended.
Scramble(t) ==
  /\ pc[t] = "scramble"
  /\ ldap[job[t].name] # None
  /\ known' = known \ {job[t].name} /\ given' = given \ {job[t].name}
  /\ Step(t, "write", job[t])
  /\ UNCHANGED <<ldap, sessions, provider, uuids, authIds, opened>>

WriteEntry_LosesAuthId(t) ==
  LET written == [job[t].existing EXCEPT !.authId = job[t].request.authId]
      to      == IF job[t].op # "update" THEN "idle"
                 ELSE IF written.suspended THEN "invalidate" ELSE "store" IN
  /\ pc[t] = "write"
  /\ ldap[job[t].name] # None
  /\ ldap' = [ldap EXCEPT ![job[t].name] = written]
  /\ Step(t, to, IF to = "idle" THEN NoJob ELSE [job[t] EXCEPT !.request = None])
  /\ UNCHANGED <<known, given, sessions, provider, uuids, authIds, opened>>

\* super.update: the whole entry is written back.  Only an update goes on to end
\* the sessions of an account it leaves suspended.
WriteEntry(t) ==
  LET written == job[t].existing
      entry   == ldap[job[t].name]
      to      == IF job[t].op # "update" THEN "idle"
                 ELSE IF written.suspended THEN "invalidate" ELSE "store" IN
  /\ pc[t] = "write"
  /\ entry # None
  /\ ldap' = [ldap EXCEPT ![job[t].name] = written]
  /\ Step(t, to, IF to = "idle" THEN NoJob ELSE [job[t] EXCEPT !.request = None])
  /\ opened' = [k \in Keys |->
       IF to = "idle" /\ written.suspended /\ ~entry.suspended
          /\ sessions[k] # None /\ sessions[k].uuid = written.uuid
       THEN "spared" ELSE opened[k]]
  /\ UNCHANGED <<known, given, sessions, provider, uuids, authIds>>

\* LDAP fails, or the entry has gone.
LdapFails(t) ==
  /\ pc[t] \in {"scramble", "write", "password", "remove"}
  /\ MayFail \/ (pc[t] # "remove" /\ ldap[job[t].name] = None)
  /\ End(t)
  /\ UNCHANGED stores

Invalidate_Caller(t) ==
  /\ pc[t] = "invalidate"
  /\ sessions' = [k \in Keys |->
       IF sessions[k] # None /\ sessions[k].uuid = job[t].caller.uuid
       THEN None ELSE sessions[k]]
  /\ Step(t, "idle", NoJob)
  /\ opened' = [k \in Keys |-> IF sessions'[k] = None THEN "clear" ELSE opened[k]]
  /\ UNCHANGED <<ldap, known, given, provider, uuids, authIds>>

\* sessionDAO.invalidateAllSessions(found.getUuid()).
Invalidate(t) ==
  /\ pc[t] = "invalidate"
  /\ sessions' = [k \in Keys |->
       IF sessions[k] # None /\ sessions[k].uuid = job[t].existing.uuid
       THEN None ELSE sessions[k]]
  /\ Step(t, "idle", NoJob)
  /\ opened' = [k \in Keys |-> IF sessions'[k] = None THEN "clear" ELSE opened[k]]
  /\ UNCHANGED <<ldap, known, given, provider, uuids, authIds>>

\* sessionDAO.update(apiKey, account): an existing session keeps the caller's
\* account as it was read from that session.
Store(t) ==
  LET k == job[t].key IN
  /\ pc[t] = "store"
  /\ sessions' = IF sessions[k] = None THEN sessions
                 ELSE [sessions EXCEPT ![k] = job[t].caller]
  /\ Step(t, "idle", NoJob)
  /\ UNCHANGED <<ldap, known, given, provider, uuids, authIds, opened>>

-----------------------------------------------------------------------------
(* AccountsResource.changePassword, an administrator's for someone else *)

SubmitReset(t, k, n) ==
  LET caller == sessions[k] IN
  /\ pc[t] = "idle"
  /\ "reset" \in Operations
  /\ caller # None /\ caller.admin /\ caller.name # n
  /\ Step(t, "target",
          [NoJob EXCEPT !.op = "reset", !.key = k, !.caller = caller, !.name = n])
  /\ UNCHANGED <<stores, opened>>

FindTarget_Caller(t) ==
  LET target == ldap[job[t].name] IN
  /\ pc[t] = "target"
  /\ \/ target = None /\ End(t)
     \/ /\ target # None
        /\ Step(t, "password", [job[t] EXCEPT !.request = AsRequest(job[t].caller),
                                   !.late = target.suspended])
        /\ UNCHANGED opened
  /\ UNCHANGED stores

\* accountDAO.findByName; without an account the request fails.
FindTarget(t) ==
  LET target == ldap[job[t].name] IN
  /\ pc[t] = "target"
  /\ \/ target = None /\ End(t)
     \/ /\ target # None
        /\ Step(t, "password", [job[t] EXCEPT !.request = AsRequest(target),
                                   !.late = target.suspended])
        /\ UNCHANGED opened
  /\ UNCHANGED stores

\* AccountDAO.setPassword, whose update(account) then writes the target as it
\* was read: ReadExisting, Scramble and WriteEntry follow.
SetPassword(t) ==
  /\ pc[t] = "password"
  /\ ldap[job[t].name] # None
  /\ known' = known \ {job[t].name} /\ given' = given \cup {job[t].name}
  /\ Step(t, "existing", job[t])
  /\ UNCHANGED <<ldap, sessions, provider, uuids, authIds, opened>>

-----------------------------------------------------------------------------
(* AccountsResource.delete *)

SubmitDelete(t, k, n) ==
  LET caller == sessions[k] IN
  /\ pc[t] = "idle"
  /\ "delete" \in Operations
  /\ caller # None /\ caller.admin /\ caller.name # n
  /\ Step(t, "findDelete",
          [NoJob EXCEPT !.op = "delete", !.key = k, !.caller = caller, !.name = n])
  /\ UNCHANGED <<stores, opened>>

FindToDelete(t) ==
  LET found == ldap[job[t].name] IN
  /\ pc[t] = "findDelete"
  /\ Step(t, IF found # None /\ found.authId # None THEN "unregister" ELSE "remove",
             [job[t] EXCEPT !.found = found])
  /\ UNCHANGED <<stores, opened>>

Unregister(t) == RemoveRegistration(t, "unregister", "remove")

\* AccountDAO.delete: silent when there is nothing to delete.
RemoveEntry(t) ==
  /\ pc[t] = "remove"
  /\ End(t)
  /\ ldap' = [ldap EXCEPT ![job[t].name] = None]
  /\ UNCHANGED <<known, given, sessions, provider, uuids, authIds>>

-----------------------------------------------------------------------------
Next ==
  \/ \E t \in Threads :
       \/ \E n \in Names : Bind(t, n)
       \/ LookUp(t) \/ OpenSession(t)
       \/ \E k \in Keys, r \in Requests : SubmitCreate(t, k, r)
       \/ \E k \in Keys, n \in Names, r \in Requests : SubmitUpdate(t, k, n, r)
       \/ \E k \in Keys, n \in Names : SubmitReset(t, k, n) \/ SubmitDelete(t, k, n)
       \/ Register(t) \/ CreateEntry(t) \/ CreateFails(t)
       \/ FindForUpdate(t) \/ Deregister(t) \/ Reregister(t) \/ ProviderFails(t)
       \/ ReadExisting(t) \/ Scramble(t) \/ WriteEntry(t) \/ LdapFails(t)
       \/ Invalidate(t) \/ Store(t)
       \/ FindTarget(t) \/ SetPassword(t)
       \/ FindToDelete(t) \/ Unregister(t) \/ RemoveEntry(t)
  \/ \E k \in Keys : EndSession(k)

Spec == Init /\ [][Next]_vars

-----------------------------------------------------------------------------
(* Properties *)

\* Every store, job and session has its type; a thread between calls has the
\* copies of the account that its next call works on.
TypeOK ==
  /\ ldap \in [Names -> Account \cup {None}]
  /\ \A n \in Names : ldap[n] # None => ldap[n].name = n
  /\ known \subseteq Names /\ given \subseteq Names
  /\ sessions \in [Keys -> Account \cup {None}]
  /\ provider \in [AuthIds -> Phones \cup {None}]
  /\ uuids \in 0 .. MaxUuid
  /\ authIds \in 0 .. MaxAuthId
  /\ job \in [Threads -> Job]
  /\ opened \in [Keys -> {"clear", "spared", "late"}]
  /\ pc \in [Threads -> {"idle", "lookup", "open", "register", "create", "find",
                         "deregister", "reregister", "existing", "scramble", "write",
                         "invalidate", "store", "target", "password", "findDelete",
                         "unregister", "remove"}]
  /\ \A t \in Threads :
       /\ pc[t] = "idle" <=> job[t] = NoJob
       /\ pc[t] \in {"scramble", "write", "invalidate", "store"} =>
            job[t].existing # None /\ job[t].existing.name = job[t].name
       /\ pc[t] \in {"open", "deregister", "reregister", "unregister"} => job[t].found # None

\* The live sessions of an account that is suspended now.
SuspendedSessions ==
  {k \in Keys : sessions[k] # None
     /\ \E n \in Names : ldap[n] # None /\ ldap[n].suspended /\ ldap[n].uuid = sessions[k].uuid}

\* A login with the owner's own password whose bind comes after the suspension
\* is written opens no session: AccountDAO.update replaces the password before
\* it writes, because authenticate never looks at suspended.  A password that an
\* administrator sets afterwards does open one.
NoLateLogin == \A k \in Keys : opened[k] # "late"

\* Once the update that suspends an account has invalidated its sessions, the
\* only sessions it can have are those of logins that were under way or used a
\* password that an administrator has set since, and those it had when a reset
\* wrote back a suspension that was lifted after it had read the account.
SuspensionEndsSessions ==
  \A k \in SuspendedSessions :
    \/ opened[k] = "spared"
    \/ \E t \in Threads : pc[t] = "invalidate" /\ job[t].existing.uuid = sessions[k].uuid

\* Setting a password writes back the account as it was read, and other requests
\* may suspend it in between.  Still no suspension is lost but to an update that
\* asks for it, or to a reset whose copy is older than the suspension: one that
\* finds the account suspended leaves it so, whatever is written meanwhile.
SuspensionLostOnlyToOlderCopy ==
  [][\A n \in Names :
       ldap[n] # None /\ ldap[n].suspended /\ ldap'[n] # None /\ ~ldap'[n].suspended =>
         \E t \in Threads :
           /\ pc[t] = "write" /\ pc'[t] # "write" /\ job[t].name = n
           /\ \/ job[t].op = "update" /\ ~job[t].request.suspended
              \/ job[t].op = "reset" /\ ~job[t].late]_vars

\* An account that uses two-factor authentication is registered with the
\* provider, with its present phone, whenever no request is in progress: turning
\* it on and off, changing the phone, deleting and creating again keep the two
\* in step, if nothing fails, requests come one at a time and the body of each
\* names the account of its path.
TwoFactorRegistered ==
  (\A t \in Threads : pc[t] = "idle") =>
    \A n \in Names :
      ldap[n] # None /\ ldap[n].twoFactor =>
        ldap[n].authId # None /\ provider[ldap[n].authId] = ldap[n].phone
=============================================================================
