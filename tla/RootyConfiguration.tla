-------------------------- MODULE RootyConfiguration --------------------------
(***************************************************************************)
(* Configuration that the server keeps together with rooty, the privileged *)
(* daemon: e-mail domains and certificates are rows of the database and    *)
(* are put into effect by rooty, service ("valet") keys and vendor         *)
(* settings exist with rooty only, and unlocking a cloudstead changes a    *)
(* certificate and settings in one request.  A client is a page of the web *)
(* client (email_domains, ssl_certificates, valet_keys,                    *)
(* installed_apps_settings) or a command line tool; it has one request at  *)
(* a time and waits for the answer.                                        *)
(*                                                                         *)
(* Rooty reads its messages in the order they were written.  "write" only  *)
(* queues a message; "request" also waits, for a limited time, until it    *)
(* has been handled.  The queue outlives the server.                       *)
(*                                                                         *)
(* A definition whose name has a suffix is the one that follows it with a  *)
(* plausible bug; the specification never uses it.                         *)
(***************************************************************************)
EXTENDS Naturals, Sequences

CONSTANTS
  Clients, Domains, Certs, Keys, Settings,
  Nobody,       \* nobody waits for the answer of such a message
  Values,       \* contents of certificates and settings
  None,         \* the content of one that is not there
  MayFail,      \* whether the database, and rooty's handlers, may fail
  MaxRequests,  \* bound on requests, at least one
  MaxCrashes    \* bound on crashes of the server

ASSUME ConfigurationAssumption ==
  /\ None \notin Values
  /\ Certs # {} /\ Domains \cap Certs = {} /\ (Keys \cup Settings) \cap (Domains \cup Certs) = {}
  /\ Nobody \notin Clients
  /\ MayFail \in BOOLEAN
  /\ MaxRequests \in Nat \ {0} /\ MaxCrashes \in Nat

VARIABLES
  rows,      \* database: the row of a domain, 0 if there is none
  stored,    \* database: the content of a certificate
  applied,   \* rooty: what is in effect
  queue,     \* rooty: messages to be handled
  client,    \* the request of each client
  requests,  \* how many requests were begun; the number of a new row
  trouble,   \* history: domains and certificates whose last request failed half way,
             \* met another for the same name, or was not carried out by rooty
  crashes

vars == <<rows, stored, applied, queue, client, requests, trouble, crashes>>
server == <<rows, stored, applied, queue>>

Items == Domains \cup Certs \cup Keys \cup Settings
Ops   == {"addDomain", "removeDomain", "setCert", "removeCert",
          "generate", "destroy", "setSetting", "unlock"}
Value == Values \cup {None}

Message == [op    : {"newDomain", "removeDomain", "installCert", "removeCert",
                     "generate", "destroy", "update", "allowSsh"},
            name  : Items,
            value : Value,
            from  : Clients \cup {Nobody}]

Steps == {"idle", "announce", "insert", "announceAgain", "find", "withdraw", "findAgain",
          "deleteRow", "store", "send", "await", "nextSetting", "askSsh", "answered"}
Client == [pc    : Steps,
           op    : Ops, name : Items, value : Value,
           found : 0 .. MaxRequests,                 \* the row that was read, 0 if there was none
           todo  : SUBSET Settings,                  \* settings an unlock has yet to send
           sent  : {"installCert", "generate", "destroy", "update", "allowSsh"},  \* the message awaited
           reply : {"none", "ok", "error"},
           done  : BOOLEAN,    \* whether the answer says it is done: 200, and of a setting also "true"
           alone : BOOLEAN,    \* history: met no request on the same names, and no failure of rooty's
           opposed : BOOLEAN]  \* history: met one that wants something else of the same names

\* Types; and an answer finds the request it belongs to: whoever a message
\* will be answered to still waits for it (RootyService's cache of requests).
TypeOK ==
  /\ rows \in [Domains -> 0 .. MaxRequests]
  /\ stored \in [Certs -> Value]
  /\ applied \in [domains : SUBSET Domains, certs : [Certs -> Value],
                  keys : SUBSET Keys, settings : [Settings -> Value]]
  /\ queue \in Seq(Message)
  /\ client \in [Clients -> Client]
  /\ \A n \in DOMAIN queue : queue[n].from # Nobody =>
       /\ client[queue[n].from].pc = "await" /\ client[queue[n].from].reply = "none"
       /\ client[queue[n].from].sent = queue[n].op
  /\ requests \in 0 .. MaxRequests
  /\ trouble \subseteq Domains \cup Certs
  /\ crashes \in 0 .. MaxCrashes

Idle == [pc |-> "idle", op |-> "unlock", name |-> CHOOSE c \in Certs : TRUE, value |-> None,
         found |-> 0, todo |-> {}, sent |-> "allowSsh",
         reply |-> "none", done |-> FALSE, alone |-> TRUE, opposed |-> FALSE]

Init ==
  /\ rows = [d \in Domains |-> 0] /\ stored = [c \in Certs |-> None]
  /\ applied = [domains |-> {}, certs |-> [c \in Certs |-> None],
                keys |-> {}, settings |-> [s \in Settings |-> None]]
  /\ queue = << >>
  /\ client = [c \in Clients |-> Idle]
  /\ requests = 0 /\ trouble = {} /\ crashes = 0

-----------------------------------------------------------------------------
(* Steps of a request.                                                     *)

At(c, step)   == client[c].pc = step
Is(c, ops)    == client[c].op \in ops
Becomes(c, r) == client' = [client EXCEPT ![c] = r]
Goes(c, step) == Becomes(c, [client[c] EXCEPT !.pc = step])

\* The names a request is about, and whether it is still under way.
Names(r)  == {r.name} \cup (IF r.op = "unlock" THEN Settings ELSE {})
Active(c) == client[c].pc \notin {"idle", "answered"}

\* What is left of a request once it is over.
Over(r, done) == [r EXCEPT !.pc = "answered", !.done = done, !.found = 0, !.todo = {},
                           !.sent = "allowSsh", !.reply = "none"]
\* The request of c is answered: that it is done or not, after it changed
\* something or before.
Ends(c, done, changed) ==
  /\ Becomes(c, Over(client[c], done))
  /\ trouble' = LET x == {client[c].name} \cap (Domains \cup Certs) IN
                IF done /\ client[c].alone THEN trouble \ x
                ELSE IF changed THEN trouble \cup x ELSE trouble

\* RootySender.write and RootyService.request
Msg(op, name, value, from) == [op |-> op, name |-> name, value |-> value, from |-> from]
Write(op, name) == queue' = Append(queue, Msg(op, name, None, Nobody))
Request(c, op, name, todo) ==
  /\ queue' = Append(queue, Msg(op, name, client[c].value, c))
  /\ Becomes(c, [client[c] EXCEPT !.pc = "await", !.sent = op, !.reply = "none", !.todo = todo])

Begin(c, op, name, value, step) ==
  /\ At(c, "idle") /\ requests < MaxRequests
  /\ requests' = requests + 1
  /\ LET new  == [client[c] EXCEPT !.pc = step, !.op = op, !.name = name, !.value = value,
                    !.done = FALSE, !.todo = IF op = "unlock" THEN Settings ELSE {}]
         meets(o) == o # c /\ ~At(o, "idle") /\ Names(client[o]) \cap Names(new) # {}
         opposes(o) == meets(o) /\ (client[o].op # op \/ client[o].value # value)
     IN client' = [o \in Clients |->
          IF o = c THEN [new EXCEPT !.alone = \A p \in Clients : ~meets(p),
                                    !.opposed = \E p \in Clients : opposes(p)]
          ELSE [client[o] EXCEPT !.alone = @ /\ ~meets(o), !.opposed = @ \/ opposes(o)]]
  /\ UNCHANGED <<server, trouble, crashes>>

-----------------------------------------------------------------------------
(* E-mail domains: announced before and after the row is written, and      *)
(* withdrawn twice before it is deleted.                                   *)

AddDomain(c, d)    == Begin(c, "addDomain", d, None, "announce")
RemoveDomain(c, d) == Begin(c, "removeDomain", d, None, "find")

Announce(c) ==
  /\ At(c, "announce")
  /\ Write("newDomain", client[c].name)
  /\ Goes(c, "insert")
  /\ UNCHANGED <<rows, stored, applied, requests, trouble, crashes>>
Insert(c) ==
  /\ At(c, "insert") /\ rows[client[c].name] = 0
  /\ rows' = [rows EXCEPT ![client[c].name] = requests]
  /\ Goes(c, "announceAgain")
  /\ UNCHANGED <<stored, applied, queue, requests, trouble, crashes>>
InsertFails(c) ==
  /\ At(c, "insert") /\ (rows[client[c].name] # 0 \/ MayFail)
  /\ Ends(c, FALSE, TRUE)
  /\ UNCHANGED <<server, requests, crashes>>
AnnounceAgain(c) ==
  /\ At(c, "announceAgain")
  /\ Write("newDomain", client[c].name)
  /\ Ends(c, TRUE, TRUE)
  /\ UNCHANGED <<rows, stored, applied, requests, crashes>>

FindDomain(c) ==
  /\ At(c, "find") /\ Is(c, {"removeDomain"})
  /\ LET row == rows[client[c].name] IN
     IF row = 0 THEN Ends(c, FALSE, FALSE)
     ELSE Becomes(c, [client[c] EXCEPT !.pc = "withdraw", !.found = row]) /\ UNCHANGED trouble
  /\ UNCHANGED <<server, requests, crashes>>
Withdraw(c) ==
  /\ At(c, "withdraw") /\ Is(c, {"removeDomain"})
  /\ Write("removeDomain", client[c].name)
  /\ Goes(c, "findAgain")
  /\ UNCHANGED <<rows, stored, applied, requests, trouble, crashes>>
\* EmailDomainDAO.delete dereferences the row, which may be gone by now.
FindAgain(c) ==
  /\ At(c, "findAgain")
  /\ IF rows[client[c].name] = client[c].found
     THEN /\ Write("removeDomain", client[c].name)
          /\ Goes(c, "deleteRow") /\ UNCHANGED trouble
     ELSE Ends(c, FALSE, TRUE) /\ UNCHANGED queue
  /\ UNCHANGED <<rows, stored, applied, requests, crashes>>
DeleteRow(c) ==
  /\ At(c, "deleteRow") /\ Is(c, {"removeDomain"})
  /\ rows' = [rows EXCEPT ![client[c].name] = IF @ = client[c].found THEN 0 ELSE @]
  /\ Ends(c, TRUE, TRUE)
  /\ UNCHANGED <<stored, applied, queue, requests, crashes>>
DeleteFails(c) ==
  /\ At(c, "deleteRow") /\ MayFail
  /\ Ends(c, FALSE, TRUE)
  /\ UNCHANGED <<server, requests, crashes>>

-----------------------------------------------------------------------------
(* Certificates, and the one an unlock brings.                             *)

SetCert(c, x, v)  == Begin(c, "setCert", x, v, "find")
RemoveCert(c, x)  == Begin(c, "removeCert", x, None, "find")
Unlock(c, x, v)   == Begin(c, "unlock", x, v, "find")

\* A certificate whose text cannot be read is refused here.
FindCert(c) ==
  /\ At(c, "find") /\ Is(c, {"setCert", "unlock"})
  /\ \/ Ends(c, FALSE, FALSE) /\ MayFail
     \/ /\ Becomes(c, [client[c] EXCEPT !.pc = "store",
            !.found = IF stored[client[c].name] = None THEN 0 ELSE 1])
        /\ UNCHANGED trouble
  /\ UNCHANGED <<server, requests, crashes>>
\* A new row, or that which was found.
StoreCert_NotStored(c) ==
  /\ At(c, "store")
  /\ Goes(c, "send")
  /\ UNCHANGED <<server, requests, trouble, crashes>>
StoreCert(c) ==
  /\ At(c, "store") /\ (client[c].found = 0) = (stored[client[c].name] = None)
  /\ stored' = [stored EXCEPT ![client[c].name] = client[c].value]
  /\ Goes(c, "send")
  /\ UNCHANGED <<rows, applied, queue, requests, trouble, crashes>>
StoreFails(c) ==
  /\ At(c, "store")
  /\ (client[c].found = 0) # (stored[client[c].name] = None) \/ MayFail
  /\ Ends(c, FALSE, FALSE)
  /\ UNCHANGED <<server, requests, crashes>>

FindCertToRemove(c) ==
  /\ At(c, "find") /\ Is(c, {"removeCert"})
  /\ IF stored[client[c].name] = None THEN Ends(c, FALSE, FALSE)
     ELSE Goes(c, "withdraw") /\ UNCHANGED trouble
  /\ UNCHANGED <<server, requests, crashes>>
WithdrawCert(c) ==
  /\ At(c, "withdraw") /\ Is(c, {"removeCert"})
  /\ Write("removeCert", client[c].name)
  /\ Goes(c, "deleteRow")
  /\ UNCHANGED <<rows, stored, applied, requests, trouble, crashes>>
DeleteCert(c) ==
  /\ At(c, "deleteRow") /\ Is(c, {"removeCert"})
  /\ stored' = [stored EXCEPT ![client[c].name] = None]
  /\ Ends(c, TRUE, TRUE)
  /\ UNCHANGED <<rows, applied, queue, requests, crashes>>

-----------------------------------------------------------------------------
(* Service keys and settings.                                              *)

Generate(c, k)      == Begin(c, "generate", k, None, "find")
Destroy(c, k)       == Begin(c, "destroy", k, None, "find")
SetSetting(c, s, v) == Begin(c, "setSetting", s, v, "send")

\* A key is there when rooty has written its file.
FindKey(c) ==
  /\ At(c, "find") /\ Is(c, {"generate", "destroy"})
  /\ IF (client[c].name \in applied.keys) = Is(c, {"destroy"})
     THEN Goes(c, "send") /\ UNCHANGED trouble
     ELSE Ends(c, FALSE, FALSE)
  /\ UNCHANGED <<server, requests, crashes>>

Send(c) ==
  /\ At(c, "send")
  /\ Request(c, IF Is(c, {"setCert", "unlock"}) THEN "installCert"
                ELSE IF Is(c, {"setSetting"}) THEN "update" ELSE client[c].op,
             client[c].name, client[c].todo)
  /\ UNCHANGED <<rows, stored, applied, requests, trouble, crashes>>

\* Whether rooty has installed a certificate, or destroyed a key, is not looked
\* at.  Anything else that failed, or was not answered in time, ends the request
\* with an error, or for a setting that rooty did not write with 200 and "false".
Answered_UnlockGoesOn(c, ok) ==
  LET accepted == ok \/ client[c].sent \in {"installCert", "destroy"} IN
  IF Is(c, {"unlock"}) /\ client[c].sent # "allowSsh"
  THEN Goes(c, "nextSetting") /\ UNCHANGED trouble
  ELSE Ends(c, accepted, TRUE)
Answered(c, ok) ==
  LET accepted == ok \/ client[c].sent \in {"installCert", "destroy"} IN
  IF accepted /\ Is(c, {"unlock"}) /\ client[c].sent # "allowSsh"
  THEN Goes(c, "nextSetting") /\ UNCHANGED trouble
  ELSE Ends(c, accepted, TRUE)
TakeReply(c) ==
  /\ At(c, "await") /\ client[c].reply # "none"
  /\ Answered(c, client[c].reply = "ok")
  /\ UNCHANGED <<server, requests, crashes>>
\* The message stays in the queue.
Disowned(gone) ==
  [n \in DOMAIN queue |-> IF queue[n].from \in gone THEN [queue[n] EXCEPT !.from = Nobody] ELSE queue[n]]
TimeOut_StaysListed(c) ==
  /\ At(c, "await") /\ client[c].reply = "none"
  /\ Answered(c, FALSE)
  /\ UNCHANGED <<server, requests, crashes>>
TimeOut(c) ==
  /\ At(c, "await") /\ client[c].reply = "none"
  /\ Answered(c, FALSE)
  /\ queue' = Disowned({c})
  /\ UNCHANGED <<rows, stored, applied, requests, crashes>>

\* An unlock sends its settings one after the other, each once the last was
\* applied, and asks in the end whether the cloudstead is unlocked.
NextSetting(c) ==
  /\ At(c, "nextSetting")
  /\ IF client[c].todo = {} THEN Request(c, "allowSsh", client[c].name, {})
     ELSE \E s \in client[c].todo : Request(c, "update", s, client[c].todo \ {s})
  /\ UNCHANGED <<rows, stored, applied, requests, trouble, crashes>>

\* The page, once answered, reads its list again: that of the keys whatever the
\* answer, that of the domains unless a removal failed.
Listed ==
  applied.keys \cup {d \in Domains : rows[d] # 0}
Refresh(c) ==
  /\ At(c, "answered")
  /\ Becomes(c, Idle)
  /\ UNCHANGED <<server, requests, trouble, crashes>>

-----------------------------------------------------------------------------
(* Rooty, and crashes of the server.                                       *)

Effect(m) ==
  CASE m.op = "newDomain"    -> [applied EXCEPT !.domains = @ \cup {m.name}]
    [] m.op = "removeDomain" -> [applied EXCEPT !.domains = @ \ {m.name}]
    [] m.op = "installCert"  -> [applied EXCEPT !.certs[m.name] = m.value]
    [] m.op = "removeCert"   -> [applied EXCEPT !.certs[m.name] = None]
    [] m.op = "generate"     -> [applied EXCEPT !.keys = @ \cup {m.name}]
    [] m.op = "destroy"      -> [applied EXCEPT !.keys = @ \ {m.name}]
    [] m.op = "update"       -> [applied EXCEPT !.settings[m.name] = m.value]
    [] OTHER                 -> applied

Replied(m, reply, o) ==
  IF o = m.from THEN [client[o] EXCEPT !.reply = reply] ELSE client[o]
RootyApplies ==
  /\ queue # << >>
  /\ applied' = Effect(Head(queue))
  /\ client' = [o \in Clients |-> Replied(Head(queue), "ok", o)]
  /\ queue' = Tail(queue)
  /\ UNCHANGED <<rows, stored, requests, trouble, crashes>>
\* The question whether it is unlocked may always be answered with no.
RootyFails ==
  /\ queue # << >> /\ (MayFail \/ Head(queue).op = "allowSsh")
  /\ LET m == Head(queue) IN
       /\ applied' \in {applied, Effect(m)}
       /\ client' = [o \in Clients |->
            [Replied(m, "error", o) EXCEPT !.alone = @ /\ m.name \notin Names(client[o])]]
       /\ trouble' = trouble \cup ({m.name} \cap (Domains \cup Certs))
  /\ queue' = Tail(queue)
  /\ UNCHANGED <<rows, stored, requests, crashes>>

Crash ==
  /\ crashes < MaxCrashes /\ crashes' = crashes + 1
  /\ trouble' = trouble \cup {x \in Domains \cup Certs : \E c \in Clients : Active(c) /\ client[c].name = x}
  /\ client' = [c \in Clients |->
       IF Active(c) THEN Over(client[c], FALSE) ELSE client[c]]
  /\ queue' = Disowned(Clients)
  /\ UNCHANGED <<rows, stored, applied, requests>>

-----------------------------------------------------------------------------

Asks(c) ==
  \/ \E d \in Domains : AddDomain(c, d) \/ RemoveDomain(c, d)
  \/ \E x \in Certs : RemoveCert(c, x) \/ \E v \in Values : SetCert(c, x, v) \/ Unlock(c, x, v)
  \/ \E k \in Keys : Generate(c, k) \/ Destroy(c, k)
  \/ \E s \in Settings, v \in Values : SetSetting(c, s, v)

Proceeds(c) ==
  \/ Announce(c) \/ Insert(c) \/ InsertFails(c) \/ AnnounceAgain(c)
  \/ FindDomain(c) \/ Withdraw(c) \/ FindAgain(c) \/ DeleteRow(c) \/ DeleteFails(c)
  \/ FindCert(c) \/ StoreCert(c) \/ StoreFails(c)
  \/ FindCertToRemove(c) \/ WithdrawCert(c) \/ DeleteCert(c)
  \/ FindKey(c) \/ Send(c) \/ TakeReply(c) \/ TimeOut(c) \/ NextSetting(c)
  \/ Refresh(c)

Next ==
  \/ \E c \in Clients : Asks(c) \/ Proceeds(c)
  \/ RootyApplies \/ RootyFails \/ Crash

Spec == Init /\ [][Next]_vars

-----------------------------------------------------------------------------

\* What the database has is what rooty was told: once nothing is under way for
\* a domain or certificate, both have it or neither, and the same content,
\* unless its last request was cut short, met another for the same name, or
\* was not carried out by rooty.  A later request that goes through alone puts
\* it right (EmailDomainDAO, SslCertificatesResource).
Settled(x) ==
  /\ x \notin trouble
  /\ \A c \in Clients : Active(c) => client[c].name # x
  /\ \A n \in DOMAIN queue : queue[n].name # x
KeptInStep ==
  /\ \A d \in Domains : Settled(d) => ((rows[d] # 0) <=> (d \in applied.domains))
  /\ \A x \in Certs : Settled(x) => applied.certs[x] = stored[x]

\* What a page, or tool, was told is done is done when it goes on, whatever
\* rooty failed to do and whatever timed out before: the list shows the key or the
\* domain, or does not any more, and rooty has every setting of an unlock, if no
\* request was under way that wanted something else of the same names.  Nothing of
\* the kind holds for a key destroyed or a certificate installed, of which rooty's
\* answer is not looked at (ServiceKeysResource, ConfigurationsResource).
SuccessIsReal ==
  [][\A c \in Clients : At(c, "answered") /\ At(c, "idle")' /\ client[c].done /\ ~client[c].opposed =>
       CASE Is(c, {"addDomain", "generate"}) -> client[c].name \in Listed
         [] Is(c, {"removeDomain"})          -> client[c].name \notin Listed
         [] Is(c, {"setSetting"})            -> applied.settings[client[c].name] = client[c].value
         [] Is(c, {"unlock"})                -> \A s \in Settings : applied.settings[s] = client[c].value
         [] OTHER                            -> TRUE]_vars
=============================================================================
