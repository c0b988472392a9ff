--------------------------- MODULE FirstTimeSetup ---------------------------
(***************************************************************************)
(* First-time setup: SetupResource.setup and SetupSettingsSource, with     *)
(* AccountDAO's part in it.  Setup is open while the key file on disk      *)
(* holds its secret and LDAP has no administrator.  Setup requests run on  *)
(* threads of their own, with nothing held from the checks to the end; any *)
(* call to LDAP, Redis or the disk may fail and the server may stop        *)
(* between two of them.  Every request here has the right key and password.*)
(*                                                                         *)
(* A definition whose name has a suffix (CheckAdmins_Skipped) is the one   *)
(* that follows it with a plausible bug; the specification never uses it.  *)
(***************************************************************************)
EXTENDS Naturals

CONSTANTS
  Threads,    \* threads that setup requests run on
  Names,      \* names a setup request may give its administrator
  Nobody,     \* no name
  MaxCrashes  \* bound on crashes of the server

ASSUME NobodyAssumption == Nobody \notin Names
ASSUME CrashesAssumption == MaxCrashes \in Nat

VARIABLES
  keyFile,    \* SETUP_KEY_FILE: "full", or "empty" once truncated
  admins,     \* administrators in LDAP
  activated,  \* those whose email counts as verified
  sessions,   \* names a session has been opened for
  pc,         \* per thread, the next call it makes
  name,       \* per thread, the name in its request
  answered,   \* a caller has been answered that setup is complete
  crashes

stores == <<keyFile, admins, activated, sessions>>
vars   == <<stores, pc, name, answered, crashes>>

PCs == {"idle", "check", "create", "activate", "delete", "session", "truncate", "answer"}

Init ==
  /\ keyFile = "full"
  /\ admins = {}
  /\ activated = {}
  /\ sessions = {}
  /\ pc = [t \in Threads |-> "idle"]
  /\ name = [t \in Threads |-> Nobody]
  /\ answered = FALSE
  /\ crashes = 0

Go(t, from, to) == pc[t] = from /\ pc' = [pc EXCEPT ![t] = to] /\ UNCHANGED <<name, crashes>>

\* The request is answered with an error.
GiveUp(t, from) ==
  /\ pc[t] = from
  /\ pc' = [pc EXCEPT ![t] = "idle"]
  /\ name' = [name EXCEPT ![t] = Nobody]
  /\ UNCHANGED <<answered, crashes>>

-----------------------------------------------------------------------------
\* validateFirstTimeSetup: the key file must be there with its settings.
Validate(t, n) ==
  /\ pc[t] = "idle"
  /\ keyFile = "full"
  /\ pc' = [pc EXCEPT ![t] = "check"]
  /\ name' = [name EXCEPT ![t] = n]
  /\ UNCHANGED <<stores, answered, crashes>>

CheckAdmins_Skipped(t) ==
  /\ Go(t, "check", "create")
  /\ UNCHANGED <<answered, stores>>

\* adminsExist(): a search of LDAP.
CheckAdmins(t) ==
  /\ IF admins = {} THEN Go(t, "check", "create") /\ UNCHANGED answered
                    ELSE GiveUp(t, "check")
  /\ UNCHANGED stores

CreateAdmin_NameTaken(t) ==
  /\ Go(t, "create", "activate")
  /\ admins' = admins \cup {name[t]}
  /\ UNCHANGED <<keyFile, activated, sessions, answered>>

CreateAdmin_AndTruncates(t) ==
  /\ name[t] \notin admins
  /\ Go(t, "create", "activate")
  /\ admins' = admins \cup {name[t]}
  /\ keyFile' = "empty"
  /\ UNCHANGED <<activated, sessions, answered>>

\* accountDAO.create, as an administrator: the name must be free.
CreateAdmin(t) ==
  /\ name[t] \notin admins
  /\ Go(t, "create", "activate")
  /\ admins' = admins \cup {name[t]}
  /\ UNCHANGED <<keyFile, activated, sessions, answered>>

\* It may fail before the entry is written, or after it (adding the account to
\* its groups): in either case the entry is left as it is.
CreateFails(t) ==
  /\ GiveUp(t, "create")
  /\ admins' \in {admins, admins \cup {name[t]}}
  /\ UNCHANGED <<keyFile, activated, sessions>>

\* accountDAO.update, then the timezone message.  An entry that has gone cannot
\* be updated.
Activate(t) ==
  /\ name[t] \in admins
  /\ Go(t, "activate", "session")
  /\ activated' = activated \cup {name[t]}
  /\ UNCHANGED <<keyFile, admins, sessions, answered>>

ActivateFails(t) ==
  /\ Go(t, "activate", "delete")
  /\ UNCHANGED <<stores, answered>>

DeleteAdmin(t) ==
  /\ GiveUp(t, "delete")
  /\ admins' = admins \ {name[t]}
  /\ activated' = activated \ {name[t]}
  /\ UNCHANGED <<keyFile, sessions>>

\* sessionDAO.create
OpenSession(t) ==
  /\ Go(t, "session", "truncate")
  /\ sessions' = sessions \cup {name[t]}
  /\ UNCHANGED <<keyFile, admins, activated, answered>>

\* The delete, the message queue, Redis or the list of apps fails: the request
\* ends there.
CallFails(t) ==
  /\ \/ GiveUp(t, "delete") \/ GiveUp(t, "session") \/ GiveUp(t, "answer")
  /\ UNCHANGED stores

\* firstTimeSetupCompleted: a file that cannot be truncated is only logged.
Truncate(t) ==
  /\ Go(t, "truncate", "answer")
  /\ keyFile' \in {keyFile, "empty"}
  /\ UNCHANGED <<admins, activated, sessions, answered>>

\* The administrator, the session and the restore key go back to the caller.
Answer(t) ==
  /\ pc[t] = "answer"
  /\ pc' = [pc EXCEPT ![t] = "idle"]
  /\ name' = [name EXCEPT ![t] = Nobody]
  /\ answered' = TRUE
  /\ UNCHANGED <<stores, crashes>>

Crash ==
  /\ crashes < MaxCrashes
  /\ crashes' = crashes + 1
  /\ pc' = [t \in Threads |-> "idle"]
  /\ name' = [t \in Threads |-> Nobody]
  /\ UNCHANGED <<stores, answered>>

Next ==
  \/ \E t \in Threads :
       \/ \E n \in Names : Validate(t, n)
       \/ CheckAdmins(t) \/ CreateAdmin(t) \/ CreateFails(t)
       \/ Activate(t) \/ ActivateFails(t) \/ DeleteAdmin(t)
       \/ OpenSession(t) \/ CallFails(t) \/ Truncate(t) \/ Answer(t)
  \/ Crash

Spec == Init /\ [][Next]_vars

-----------------------------------------------------------------------------
(* Properties *)

\* Every variable has its type, a thread has a name while it serves a request,
\* and only accounts that were activated have sessions.
TypeOK ==
  /\ keyFile \in {"full", "empty"}
  /\ admins \subseteq Names
  /\ activated \subseteq admins
  /\ sessions \subseteq activated
  /\ pc \in [Threads -> PCs]
  /\ name \in [Threads -> Names \cup {Nobody}]
  /\ \A t \in Threads : pc[t] = "idle" <=> name[t] = Nobody
  /\ answered \in BOOLEAN
  /\ crashes \in 0 .. MaxCrashes

\* The threads whose administrator is in LDAP and may still be taken back, or
\* has not been answered for.
Creators == {t \in Threads :
               pc[t] \in {"activate", "delete", "session", "truncate", "answer"}}

\* A request owns the administrator it creates until it ends: no other request
\* activates, deletes or opens a session for that name, because LDAP refuses a
\* second entry of the same name.
CreatorsOwn ==
  \A s, t \in Creators : name[t] \in admins /\ (name[s] = name[t] => s = t)

\* Setup is never closed with nobody to administer the system: whatever fails,
\* whenever the server stops and however many requests are in progress, the key
\* file is still there unless an administrator is.
NeverLockedOut == keyFile = "empty" => admins # {}

\* A caller is told that setup is complete only with an administrator there,
\* who can log in: another request that is undone never undoes this one's.
AnsweredHasAdmin == answered => activated # {}

\* Only a request that found no administrator creates one, and once a caller
\* has been told that setup is complete no request takes the last one back:
\* setup implements its promise for any requests at once, whatever fails and
\* wherever the server stops.
Once == INSTANCE SetupOnce WITH
          Attempts <- Threads,
          claims   <- {t \in Threads : pc[t] = "create"},
          done     <- answered

SetsUpOnce == Once!Spec
=============================================================================
